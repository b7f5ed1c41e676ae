---------------------------- MODULE MCOrderEvents ----------------------------
(* Instances of OrderEvents for TLC. *)
EXTENDS OrderEvents, TLC

Symmetric == Permutations(Patches) \cup Permutations(Clients) \cup Permutations(Procs)

=============================================================================
