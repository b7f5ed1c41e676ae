------------------------- MODULE MCIdempotentOrders -------------------------
(* Instances of IdempotentOrders for TLC. *)
EXTENDS IdempotentOrders, TLC

CONSTANTS r1, r2, r3, r4, r5, k1, k2

\* r2 repeats r1, so that the two may be exchanged; r3 sends the same order
\* written differently; r4 reuses the key for another order; r5 has its own.
MCKey == [r \in Requests |-> IF r = r5 THEN k2 ELSE k1]
MCBody == [r \in Requests |-> CASE r = r3 -> "x2" [] r = r4 -> "y" [] OTHER -> "x"]
MCDto == [r \in Requests |-> IF r = r4 THEN "Y" ELSE "X"]

Symmetric == Permutations(Procs) \cup Permutations({r1, r2})

=============================================================================
