--------------------------- MODULE MCOrderPipeline ---------------------------
(* Instances of OrderPipeline for TLC. *)
EXTENDS OrderPipeline, TLC

Workers == Permutations(Relays) \cup Permutations(Consumers)

=============================================================================
