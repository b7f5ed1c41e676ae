------------------------------- MODULE MCKeyAge -------------------------------
(* IdempotentOrders with the time at which each request came.                *)
EXTENDS MCIdempotentOrders

VARIABLE came  \* history variable

AgeInit == Init /\ came = [r \in Requests |-> 0]

AgeNext ==
  /\ Next
  /\ came' = [r \in Requests |-> IF pc[r] = "idle" /\ pc'[r] # "idle" THEN now ELSE came[r]]

AgeSpec == AgeInit /\ [][AgeNext]_<<vars, came>>

\* openapi.yaml: "Keys are kept for 24 hours; after that the key is forgotten and
\* the same request counts as a new attempt".  So a request is answered with the
\* order of another one of its key only within KEY_TTL of that one.
KeysAreForgotten ==
  \A r, u \in Requests :
    r # u /\ answer[r] = "created" /\ reply[r] = u => came[r] < came[u] + KEY_TTL

=============================================================================
