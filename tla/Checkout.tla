------------------------------ MODULE Checkout ------------------------------
(***************************************************************************)
(* checkout(): concurrent READ COMMITTED transactions that claim an        *)
(* idempotency key, take stock line by line, debit the buyer and save the  *)
(* order with its job and its outbox row.                                  *)
(*                                                                         *)
(* The variables stock, balance, keyOrder, orders, jobs and outbox hold    *)
(* what is committed.  An open transaction has taken units and a total;    *)
(* the rest of what it has written follows from pc.  The rows it has       *)
(* written are locked to others until it ends.                             *)
(***************************************************************************)
EXTENDS CheckoutCalls

VARIABLES
  stock, balance,
  keyOrder,     \* the order of each row of idempotency_keys
  orders, jobs, outbox,
  pc,           \* where each call is
  line,         \* how many of its lines it has taken
  taken, total, \* the units and the price of those lines
  answer,       \* how each call ended
  reply         \* the order it answered with

tables == <<stock, balance, keyOrder, orders, jobs, outbox>>
work == <<line, taken, total>>
vars == <<tables, pc, work, answer, reply>>

Steps == {"idle", "claim", "lines", "pay", "save", "commit", "done"}

TypeOK ==
  /\ stock \in [Products -> Int]
  /\ balance \in [Buyers -> Int]
  /\ keyOrder \in [Keys -> Calls \cup {None}]
  /\ orders \subseteq Calls /\ jobs \subseteq Calls /\ outbox \subseteq Calls
  /\ pc \in [Calls -> Steps]
  /\ line \in [Calls -> Nat]
  /\ taken \in [Calls -> [Products -> Nat]]
  /\ total \in [Calls -> Nat]
  /\ answer \in [Calls -> Answers]
  /\ reply \in [Calls -> Calls \cup {None}]

Nothing == [p \in Products |-> 0]

Init ==
  /\ stock = Stock0
  /\ balance = Balance0
  /\ keyOrder = [k \in Keys |-> None]
  /\ orders = {} /\ jobs = {} /\ outbox = {}
  /\ pc = [t \in Calls |-> "idle"]
  /\ line = [t \in Calls |-> 0]
  /\ taken = [t \in Calls |-> Nothing]
  /\ total = [t \in Calls |-> 0]
  /\ answer = [t \in Calls |-> "none"]
  /\ reply = [t \in Calls |-> None]

Open(t) == pc[t] \notin {"idle", "done"}

\* The rows an open transaction has written and not yet committed.
LocksKey(t, k) == Open(t) /\ pc[t] # "claim" /\ Call[t].key = k
LocksProduct(t, p) == taken[t][p] > 0
LocksBuyer(t, b) == pc[t] \in {"save", "commit"} /\ Call[t].buyer = b

Goto(t, s) == pc' = [pc EXCEPT ![t] = s]

\* t is over: it holds no row any longer.
Releases(t) ==
  /\ Goto(t, "done")
  /\ line' = [line EXCEPT ![t] = 0]
  /\ taken' = [taken EXCEPT ![t] = Nothing]
  /\ total' = [total EXCEPT ![t] = 0]

\* t ends, and nothing it wrote is committed.
Ends(t, a, o) ==
  /\ Releases(t)
  /\ answer' = [answer EXCEPT ![t] = a]
  /\ reply' = [reply EXCEPT ![t] = o]
  /\ UNCHANGED tables

\* OrdersService.create looks the buyer up before it opens the transaction.
Begin(t) ==
  /\ pc[t] = "idle"
  /\ \/ /\ Call[t].buyer \in Buyers
        /\ Goto(t, IF Call[t].key = NoKey THEN "lines" ELSE "claim")
        /\ UNCHANGED <<tables, work, answer, reply>>
     \/ /\ Call[t].buyer \notin Buyers
        /\ Ends(t, "unknown_buyer", None)

\* A slip the properties must catch: the key is looked up first, without the
\* wait of an INSERT, and claimed afterwards.
ClaimKeyLookup(t) ==
  LET k == Call[t].key IN
  /\ pc[t] = "claim"
  /\ \/ /\ keyOrder[k] = None
        /\ Goto(t, "lines")
        /\ UNCHANGED <<tables, work, answer, reply>>
     \/ /\ keyOrder[k] # None
        /\ IF SameBody(t, keyOrder[k]) THEN Ends(t, "replayed", keyOrder[k])
                                       ELSE Ends(t, "key_reuse", None)

\* Another: the fingerprint is not compared.
ClaimKeyAnyBody(t) ==
  LET k == Call[t].key IN
  /\ pc[t] = "claim"
  /\ \A u \in Calls : ~ LocksKey(u, k)
  /\ \/ /\ keyOrder[k] = None
        /\ Goto(t, "lines")
        /\ UNCHANGED <<tables, work, answer, reply>>
     \/ /\ keyOrder[k] # None
        /\ Ends(t, "replayed", keyOrder[k])

\* Another: the replay answers with the key in place of the order.
ClaimKeyReplyKey(t) ==
  LET k == Call[t].key IN
  /\ pc[t] = "claim"
  /\ \A u \in Calls : ~ LocksKey(u, k)
  /\ \/ /\ keyOrder[k] = None
        /\ Goto(t, "lines")
        /\ UNCHANGED <<tables, work, answer, reply>>
     \/ /\ keyOrder[k] # None
        /\ IF SameBody(t, keyOrder[k]) THEN Ends(t, "replayed", k)
                                       ELSE Ends(t, "key_reuse", None)

\* INSERT INTO idempotency_keys ... ON CONFLICT DO NOTHING waits for another
\* open transaction that has inserted the key; on conflict it reads the row.
ClaimKey(t) ==
  LET k == Call[t].key IN
  /\ pc[t] = "claim"
  /\ \A u \in Calls : ~ LocksKey(u, k)
  /\ \/ /\ keyOrder[k] = None
        /\ Goto(t, "lines")
        /\ UNCHANGED <<tables, work, answer, reply>>
     \/ /\ keyOrder[k] # None
        /\ IF SameBody(t, keyOrder[k]) THEN Ends(t, "replayed", keyOrder[k])
                                       ELSE Ends(t, "key_reuse", None)

NextLine(t) == Lines(t)[line[t] + 1]

\* A slip: units that an open transaction has taken count as sold, as a dirty
\* read would have it.
InStockDirty(t) ==
  LET p == NextLine(t).product IN
  stock[p] - MapThenSumSet(LAMBDA u : taken[u][p], Calls) >= NextLine(t).quantity

\* The rows an UPDATE ... WHERE stock >= q finds, and those it must wait for.
InStock(t) == stock[NextLine(t).product] - taken[t][NextLine(t).product] >= NextLine(t).quantity
HasFunds(t) == balance[Call[t].buyer] >= total[t]

\* A slip: the stock is read without a lock and written back.
TakeLineUnlocked(t) ==
  LET p == NextLine(t).product
      q == NextLine(t).quantity
  IN
  /\ pc[t] = "lines"
  /\ \/ /\ p \notin Products
        /\ Ends(t, "unknown_product", None)
     \/ /\ p \in Products
        /\ ~ InStock(t)
        /\ Ends(t, "out_of_stock", None)
     \/ /\ p \in Products
        /\ InStock(t)
        /\ line' = [line EXCEPT ![t] = @ + 1]
        /\ taken' = [taken EXCEPT ![t][p] = @ + q]
        /\ total' = [total EXCEPT ![t] = @ + Price[p] * q]
        /\ Goto(t, IF line'[t] = Len(Lines(t)) THEN "pay" ELSE "lines")
        /\ UNCHANGED <<tables, answer, reply>>

\* UPDATE products SET stock = stock - q WHERE id = p AND stock >= q.
TakeLine(t) ==
  LET p == NextLine(t).product
      q == NextLine(t).quantity
  IN
  /\ pc[t] = "lines"
  /\ \/ /\ p \notin Products
        /\ Ends(t, "unknown_product", None)
     \/ /\ p \in Products
        /\ ~ InStock(t)
        /\ Ends(t, "out_of_stock", None)
     \/ /\ p \in Products
        /\ InStock(t)
        /\ \A u \in Calls \ {t} : ~ LocksProduct(u, p)
        /\ line' = [line EXCEPT ![t] = @ + 1]
        /\ taken' = [taken EXCEPT ![t][p] = @ + q]
        /\ total' = [total EXCEPT ![t] = @ + Price[p] * q]
        /\ Goto(t, IF line'[t] = Len(Lines(t)) THEN "pay" ELSE "lines")
        /\ UNCHANGED <<tables, answer, reply>>

\* UPDATE users SET balance_cents = balance_cents - total WHERE ... >= total
Pay(t) ==
  /\ pc[t] = "pay"
  /\ \/ /\ ~ HasFunds(t)
        /\ Ends(t, "insufficient_funds", None)
     \/ /\ HasFunds(t)
        /\ \A u \in Calls \ {t} : ~ LocksBuyer(u, Call[t].buyer)
        /\ Goto(t, "save")
        /\ UNCHANGED <<tables, work, answer, reply>>

RepeatsProduct(t) ==
  \E i, j \in DOMAIN Lines(t) : i # j /\ Lines(t)[i].product = Lines(t)[j].product

\* Order and items, job, outbox row, the key's order_id.  UNIQUE (order,
\* product) refuses an order with two lines of one product.
Save(t) ==
  /\ pc[t] = "save"
  /\ IF RepeatsProduct(t) THEN Ends(t, "failed", None)
     ELSE Goto(t, "commit") /\ UNCHANGED <<tables, work, answer, reply>>

\* The caller may lose the connection before it has the answer.
Commit(t) ==
  /\ pc[t] = "commit"
  /\ stock' = [p \in Products |-> stock[p] - taken[t][p]]
  /\ balance' = [balance EXCEPT ![Call[t].buyer] = @ - total[t]]
  /\ keyOrder' = [k \in Keys |-> IF k = Call[t].key THEN t ELSE keyOrder[k]]
  /\ orders' = orders \cup {t}
  /\ jobs' = jobs \cup {t}
  /\ outbox' = outbox \cup {t}
  /\ Releases(t)
  /\ \/ /\ answer' = [answer EXCEPT ![t] = "created"]
        /\ reply' = [reply EXCEPT ![t] = t]
     \/ /\ answer' = [answer EXCEPT ![t] = "failed"]
        /\ UNCHANGED reply

\* A crash or a database error before the COMMIT (demo:crash-write).
Fail(t) == Open(t) /\ Ends(t, "failed", None)

\* t waits for a row that u holds.
WaitsFor(t, u) ==
  /\ t # u
  /\ \/ pc[t] = "claim" /\ LocksKey(u, Call[t].key)
     \/ /\ pc[t] = "lines" /\ NextLine(t).product \in Products /\ InStock(t)
        /\ LocksProduct(u, NextLine(t).product)
     \/ pc[t] = "pay" /\ HasFunds(t) /\ LocksBuyer(u, Call[t].buyer)

Waiting == {t \in Calls : \E u \in Calls : WaitsFor(t, u)}

\* A set of transactions each of which waits for, and is waited for by,
\* another one of the set.
Deadlocked(S) == \A t \in S : /\ \E u \in S : WaitsFor(t, u)
                              /\ \E u \in S : WaitsFor(u, t)

\* A slip: only a circle of three or more is looked for.
BreakLongCircle(t) ==
  /\ \E S \in SUBSET Waiting : t \in S /\ Deadlocked(S) /\ Cardinality(S) > 2
  /\ Ends(t, "failed", None)

\* deadlock_detected: PostgreSQL cancels one of them; checkout does not retry.
BreakDeadlock(t) ==
  /\ \E S \in SUBSET Waiting : t \in S /\ Deadlocked(S)
  /\ Ends(t, "failed", None)

Proceed(t) == \/ ClaimKey(t) \/ TakeLine(t) \/ Pay(t) \/ Save(t) \/ Commit(t)
              \/ BreakDeadlock(t)

Next == \E t \in Calls : Begin(t) \/ Proceed(t) \/ Fail(t)

Spec == Init /\ [][Next]_vars

-----------------------------------------------------------------------------
(* Properties.                                                             *)

\* Units are neither lost nor sold twice: what the committed orders took and
\* what is left add up to the stock at the start; a buyer has paid for exactly
\* the committed orders; and neither goes negative, however the transactions
\* interleave, fail or are cancelled.
Conserved ==
  /\ \A p \in Products :
       /\ stock[p] >= 0
       /\ stock[p] + SumFunctionOnSet([t \in Calls |-> Demand(t, p)], orders) = Stock0[p]
  /\ \A b \in Buyers :
       /\ balance[b] >= 0
       /\ balance[b] + SumFunctionOnSet([t \in Calls |-> Total(t)],
                                         {t \in orders : Call[t].buyer = b}) = Balance0[b]

\* "Two requests with the same key insert one order and one outbox row": the
\* key's row names its order from the moment both are committed.
OneOrderPerKey ==
  /\ \A t, u \in orders : Call[t].key = Call[u].key /\ Call[t].key # NoKey => t = u
  /\ \A k \in Keys, t \in Calls : keyOrder[k] = t <=> t \in orders /\ Call[t].key = k

\* A caller who is told of an order finds it: its own with the receipt job and
\* the outbox row, or on a replay the one of the same key and the same body.
\* A caller who is refused has placed nothing.
AnswersTrue ==
  \A t \in Calls :
    /\ answer[t] = "created" => t \in orders \cap jobs \cap outbox
    /\ answer[t] = "replayed" => /\ reply[t] \in orders \ {t}
                                 /\ Call[reply[t]].key = Call[t].key
                                 /\ SameBody(t, reply[t])
    /\ t \in orders => answer[t] \in {"created", "failed"}

Atomic == INSTANCE AtomicCheckout

\* The interleaved transactions amount to checkouts done one at a time.
ChecksOutAtomically == Atomic!Spec

\* No call hangs: whatever locks the others hold, and in whatever order they
\* took them, some open transaction can go on or is cancelled as one of a
\* circle.  A transaction has finitely many steps, so all of them end.
SomeoneGoesOn == (\E t \in Calls : Open(t)) => ENABLED \E t \in Calls : Proceed(t)

=============================================================================
