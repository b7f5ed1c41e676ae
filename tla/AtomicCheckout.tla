--------------------------- MODULE AtomicCheckout ---------------------------
(***************************************************************************)
(* What checkout promises: each call takes effect at one instant, either   *)
(* as a whole order, or not at all with a reason that is true then.        *)
(***************************************************************************)
EXTENDS CheckoutCalls

VARIABLES stock, balance, keyOrder, orders, answer

vars == <<stock, balance, keyOrder, orders, answer>>

Init == /\ stock = Stock0
        /\ balance = Balance0
        /\ keyOrder = [k \in Keys |-> None]
        /\ orders = {}
        /\ answer = [t \in Calls |-> "none"]

Known(t) == /\ Call[t].buyer \in Buyers
            /\ \A i \in DOMAIN Lines(t) : Lines(t)[i].product \in Products

KeyFree(t) == Call[t].key = NoKey \/ keyOrder[Call[t].key] = None

\* The order, its stock and its payment are there at once.  A caller whose
\* connection breaks after the COMMIT does not learn of it.
Create(t) ==
  /\ \E a \in {"created", "failed"} : answer' = [answer EXCEPT ![t] = a]
  /\ orders' = orders \cup {t}
  /\ Known(t)
  /\ KeyFree(t)
  /\ \A p \in Products : Demand(t, p) <= stock[p]
  /\ Total(t) <= balance[Call[t].buyer]
  /\ stock' = [p \in Products |-> stock[p] - Demand(t, p)]
  /\ balance' = [balance EXCEPT ![Call[t].buyer] = @ - Total(t)]
  /\ keyOrder' = [k \in Keys |-> IF k = Call[t].key THEN t ELSE keyOrder[k]]

\* A reason that holds at the instant of the refusal.
Reason(t, a) ==
  \/ a = "failed"
  \/ a = "unknown_buyer" /\ Call[t].buyer \notin Buyers
  \/ a = "unknown_product" /\ \E i \in DOMAIN Lines(t) : Lines(t)[i].product \notin Products
  \/ a = "out_of_stock" /\ \E p \in Products : Demand(t, p) > stock[p]
  \/ a = "insufficient_funds" /\ Known(t) /\ Total(t) > balance[Call[t].buyer]
  \/ a = "replayed" /\ ~ KeyFree(t) /\ SameBody(t, keyOrder[Call[t].key])
  \/ a = "key_reuse" /\ ~ KeyFree(t) /\ ~ SameBody(t, keyOrder[Call[t].key])

Refuse(t) ==
  /\ \E a \in Answers \ {"none", "created"} :
       answer' = [answer EXCEPT ![t] = a] /\ Reason(t, a)
  /\ UNCHANGED <<stock, balance, keyOrder, orders>>

Next == \E t \in Calls : answer[t] = "none" /\ (Create(t) \/ Refuse(t))

Spec == Init /\ [][Next]_vars

=============================================================================
