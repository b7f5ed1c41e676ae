------------------------------ MODULE KeyStore ------------------------------
(***************************************************************************)
(* What the code of POST /orders keeps about an Idempotency-Key, stated    *)
(* without processes, maps and clocks: a key is given one order and keeps  *)
(* it, and each answer has a reason in the requests of its key.  That is   *)
(* what openapi.yaml promises of a key for 24 hours; of an older one it    *)
(* says that it is forgotten, which MCKeyAge contradicts.                  *)
(***************************************************************************)
CONSTANTS Requests, Keys, Key, Body, Dto, None

VARIABLES
  orderOf,       \* the order of each key, named by the request that made it
  sent,          \* requests that have come
  answer, reply  \* how each was answered, and with which order

vars == <<orderOf, sent, answer, reply>>

Init == /\ orderOf = [k \in Keys |-> None]
        /\ sent = {}
        /\ answer = [r \in Requests |-> "none"]
        /\ reply = [r \in Requests |-> None]

\* An order that lets r say 201, and the requests that let it say 422 and 409:
\* one of its key with another body, or one with its body that got no 201.
Reason(r, a) ==
  \/ a = "created" /\ orderOf[Key[r]] # None /\ Dto[orderOf[Key[r]]] = Dto[r]
  \/ a = "key_reuse" /\ \E u \in sent : Key[u] = Key[r] /\ Body[u] # Body[r]
  \/ a = "in_flight" /\ \E u \in sent \ {r} :
                          Key[u] = Key[r] /\ Body[u] = Body[r] /\ answer[u] # "created"
  \/ a = "failed"

Say(r, a) ==
  /\ Reason(r, a)
  /\ answer' = [answer EXCEPT ![r] = a]
  /\ reply' = [reply EXCEPT ![r] = IF a = "created" THEN orderOf[Key[r]] ELSE None]

Speak(r) == \E a \in {"created", "key_reuse", "in_flight", "failed"} : Say(r, a)

Waits(r) == r \in sent /\ answer[r] = "none"

Come(r) == /\ r \notin sent
           /\ sent' = sent \cup {r}
           /\ Speak(r) \/ UNCHANGED <<answer, reply>>
           /\ UNCHANGED orderOf

Place(r) == /\ Waits(r)
            /\ orderOf[Key[r]] = None
            /\ orderOf' = [orderOf EXCEPT ![Key[r]] = r]
            /\ UNCHANGED <<sent, answer, reply>>

Answer(r) == Waits(r) /\ Speak(r) /\ UNCHANGED <<orderOf, sent>>

\* The requests of a process that dies.
Lose(S) == /\ \A r \in S : Waits(r)
           /\ answer' = [r \in Requests |-> IF r \in S THEN "failed" ELSE answer[r]]
           /\ UNCHANGED <<orderOf, sent, reply>>

Next == \/ \E r \in Requests : Come(r) \/ Place(r) \/ Answer(r)
        \/ \E S \in SUBSET Requests : Lose(S)

Spec == Init /\ [][Next]_vars

=============================================================================
