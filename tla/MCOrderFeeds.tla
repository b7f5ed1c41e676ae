---------------------------- MODULE MCOrderFeeds ----------------------------
(* Instances of OrderFeeds for TLC.                                          *)
EXTENDS OrderFeeds, TLC

Symmetric == Permutations(Patches) \cup Permutations(Procs)

=============================================================================
