---------------------------- MODULE CheckoutCalls ----------------------------
(***************************************************************************)
(* The calls of POST /orders that the checkout modules are about, and what *)
(* one of them asks for.  A call that creates an order lends its name to   *)
(* that order.                                                             *)
(***************************************************************************)
EXTENDS Integers, Sequences, FiniteSetsExt, Functions

CONSTANTS
  Calls,     \* calls of checkout(), each made once; a retry is another call
  Products,  \* products in the catalog
  Buyers,    \* users in the database
  Keys,      \* values of the Idempotency-Key header
  NoKey,     \* a call without the header
  None,      \* no order
  Call,      \* what each call sends: buyer, key and lines (product, quantity)
  Price,     \* price of each product
  Stock0,    \* stock of each product and
  Balance0   \* balance of each buyer at the start

Lines(t) == Call[t].lines

\* OrdersService.create hashes the body, so a fingerprint is the body.
SameBody(t, u) == Call[t].buyer = Call[u].buyer /\ Lines(t) = Lines(u)

\* What each line asks for, in units and in money.
Units(t) == [i \in DOMAIN Lines(t) |-> Lines(t)[i].quantity]
Costs(t) == [i \in DOMAIN Lines(t) |-> Price[Lines(t)[i].product] * Lines(t)[i].quantity]

\* The units of p that t asks for, and the price of all of t.
Demand(t, p) == SumFunctionOnSet(Units(t), {i \in DOMAIN Lines(t) : Lines(t)[i].product = p})
Total(t) == SumFunctionOnSet(Costs(t), DOMAIN Lines(t))

ASSUME CallsAssumption ==
  /\ NoKey \notin Keys
  /\ None \notin Calls
  /\ \A t \in Calls : /\ Call[t].key \in Keys \cup {NoKey}
                      /\ Len(Lines(t)) \in Nat \ {0}
                      /\ DOMAIN Lines(t) = 1 .. Len(Lines(t))
                      /\ \A i \in DOMAIN Lines(t) : Lines(t)[i].quantity \in Nat \ {0}
ASSUME StartAssumption ==
  /\ Price \in [Products -> Nat]
  /\ Stock0 \in [Products -> Nat]
  /\ Balance0 \in [Buyers -> Nat]

Answers == {"none", "created", "replayed", "key_reuse", "out_of_stock",
            "insufficient_funds", "unknown_product", "unknown_buyer", "failed"}

=============================================================================
