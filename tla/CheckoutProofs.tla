---------------------------- MODULE CheckoutProofs ----------------------------
(***************************************************************************)
(* The safety of checkout(), and that its interleaved transactions amount  *)
(* to the atomic ones of AtomicCheckout: for any calls, products, buyers   *)
(* and keys, and whatever the prices and the stock.                        *)
(***************************************************************************)
EXTENDS Checkout, InductionLemmas

\* The lines among the first n of t that ask for p.
LinesFor(t, n, p) == {i \in 1 .. n : Lines(t)[i].product = p}

\* How far a call is follows from its step: it has a known buyer, and where it
\* has to claim a key it has one.
Progress ==
  \A t \in Calls :
    /\ pc[t] \in {"idle", "claim", "done"} => line[t] = 0
    /\ pc[t] = "lines" => line[t] < Len(Lines(t))
    /\ line[t] <= Len(Lines(t))
    /\ pc[t] \in {"pay", "save", "commit"} => line[t] = Len(Lines(t))
    /\ Open(t) => Call[t].buyer \in Buyers
    /\ pc[t] = "claim" => Call[t].key \in Keys
    /\ answer[t] = "none" <=> pc[t] # "done"

\* What a call has taken is what its lines so far ask for.
Sums ==
  \A t \in Calls :
    /\ \A i \in 1 .. line[t] : Lines(t)[i].product \in Products
    /\ \A p \in Products : taken[t][p] = SumFunctionOnSet(Units(t), LinesFor(t, line[t], p))
    /\ total[t] = SumFunctionOnSet(Costs(t), 1 .. line[t])

\* Row locks exclude each other, ...
Locks ==
  \A t, u \in Calls :
    /\ \A k \in Keys : LocksKey(t, k) /\ LocksKey(u, k) => t = u
    /\ \A p \in Products : LocksProduct(t, p) /\ LocksProduct(u, p) => t = u
    /\ \A b \in Buyers : LocksBuyer(t, b) /\ LocksBuyer(u, b) => t = u

\* ... so that what was checked when a row was locked is still true when the
\* transaction commits.
Covered ==
  \A t \in Calls :
    /\ \A k \in Keys : LocksKey(t, k) => keyOrder[k] = None
    /\ \A p \in Products : taken[t][p] <= stock[p]
    /\ \A b \in Buyers : LocksBuyer(t, b) => total[t] <= balance[b]

\* Orders are of calls that are over, and have only known products.
Ordered ==
  /\ IsFiniteSet(orders) /\ jobs = orders /\ outbox = orders
  /\ \A t \in orders : /\ pc[t] = "done"
                       /\ Call[t].buyer \in Buyers
                       /\ \A i \in DOMAIN Lines(t) : Lines(t)[i].product \in Products

Inv ==
  /\ TypeOK /\ Progress /\ Sums /\ Locks /\ Covered /\ Ordered
  /\ Conserved /\ OneOrderPerKey /\ AnswersTrue

-----------------------------------------------------------------------------
(* What the lines of a call ask for.                                       *)

LEMMA LineFacts ==
  ASSUME NEW t \in Calls
  PROVE  /\ Len(Lines(t)) \in Nat \ {0} /\ DOMAIN Lines(t) = 1 .. Len(Lines(t))
         /\ \A i \in 1 .. Len(Lines(t)) : Lines(t)[i].quantity \in Nat \ {0}
         /\ Call[t].key \in Keys \cup {NoKey}
BY CallsAssumption

\* Units of the first n lines.
LEMMA UnitsOfSome ==
  ASSUME NEW t \in Calls, NEW n \in 0 .. Len(Lines(t)), NEW p
  PROVE  /\ IsFiniteSet(LinesFor(t, n, p))
         /\ \A i \in LinesFor(t, n, p) : Units(t)[i] \in Nat
         /\ SumFunctionOnSet(Units(t), LinesFor(t, n, p)) \in Nat
         /\ SumFunctionOnSet(Units(t), LinesFor(t, n, p)) <= Demand(t, p)
         /\ n = Len(Lines(t)) => SumFunctionOnSet(Units(t), LinesFor(t, n, p)) = Demand(t, p)
         /\ n = 0 => SumFunctionOnSet(Units(t), LinesFor(t, n, p)) = 0
<1> DEFINE all == {i \in DOMAIN Lines(t) : Lines(t)[i].product = p}
           some == LinesFor(t, n, p)
<1>1. all \in SUBSET (1 .. Len(Lines(t))) /\ some \in SUBSET all
  BY LineFacts DEF LinesFor
<1>2. IsFiniteSet(1 .. Len(Lines(t)))
  BY LineFacts, FS_Interval
<1>3. IsFiniteSet(all) /\ IsFiniteSet(some)
  BY <1>1, <1>2, FS_Subset
<1>4. \A i \in all : Units(t)[i] \in Nat
  BY <1>1, LineFacts DEF Units
<1>5. Demand(t, p) = SumFunctionOnSet(Units(t), all)
  BY DEF Demand
<1>6. n = Len(Lines(t)) => some = all
  BY LineFacts DEF LinesFor
<1>7. n = 0 => some = {}
  BY DEF LinesFor
<1> HIDE DEF all, some
<1>8. SumFunctionOnSet(Units(t), some) \in Nat
      /\ SumFunctionOnSet(Units(t), some) <= SumFunctionOnSet(Units(t), all)
  BY <1>1, <1>3, <1>4, SumMonotonic
<1>9. \A i \in some : Units(t)[i] \in Nat
  BY <1>1, <1>4
<1> QED BY <1>3, <1>5, <1>6, <1>7, <1>8, <1>9, SumEmpty DEF some

\* One line more.
LEMMA UnitsOfNext ==
  ASSUME NEW t \in Calls, NEW n \in 0 .. Len(Lines(t)) - 1, NEW p
  PROVE  SumFunctionOnSet(Units(t), LinesFor(t, n + 1, p))
           = SumFunctionOnSet(Units(t), LinesFor(t, n, p))
             + (IF Lines(t)[n + 1].product = p THEN Lines(t)[n + 1].quantity ELSE 0)
<1>1. n \in 0 .. Len(Lines(t)) /\ n + 1 \in 1 .. Len(Lines(t)) /\ n \in Nat
  BY LineFacts
<1>2. IsFiniteSet(LinesFor(t, n, p)) /\ \A i \in LinesFor(t, n, p) : Units(t)[i] \in Nat
  BY <1>1, UnitsOfSome
<1>3. SumFunctionOnSet(Units(t), LinesFor(t, n, p)) \in Nat
  BY <1>1, UnitsOfSome
<1>4. Units(t)[n + 1] = Lines(t)[n + 1].quantity /\ Lines(t)[n + 1].quantity \in Nat
  BY <1>1, LineFacts DEF Units
<1>5. n + 1 \notin LinesFor(t, n, p)
  BY <1>1 DEF LinesFor
<1>6. CASE Lines(t)[n + 1].product = p
  <2>1. LinesFor(t, n + 1, p) = LinesFor(t, n, p) \cup {n + 1}
    BY <1>1, <1>6 DEF LinesFor
  <2>2. \A i \in LinesFor(t, n, p) \cup {n + 1} : Units(t)[i] \in Int
    BY <1>2, <1>4
  <2>3. SumFunctionOnSet(Units(t), LinesFor(t, n + 1, p))
          = Units(t)[n + 1] + SumFunctionOnSet(Units(t), LinesFor(t, n, p))
    BY <1>2, <1>5, <2>1, <2>2, SumAdd
  <2> QED BY <1>3, <1>4, <1>6, <2>3
<1>7. CASE Lines(t)[n + 1].product # p
  <2>1. LinesFor(t, n + 1, p) = LinesFor(t, n, p)
    BY <1>1, <1>7 DEF LinesFor
  <2> QED BY <1>3, <1>7, <2>1
<1> QED BY <1>6, <1>7

\* The price of n lines, and of one more.
LEMMA CostsOfSome ==
  ASSUME NEW t \in Calls, NEW n \in 0 .. Len(Lines(t)),
         \A i \in 1 .. n : Lines(t)[i].product \in Products
  PROVE  /\ IsFiniteSet(1 .. n) /\ \A i \in 1 .. n : Costs(t)[i] \in Nat
         /\ SumFunctionOnSet(Costs(t), 1 .. n) \in Nat
         /\ n = 0 => SumFunctionOnSet(Costs(t), 1 .. n) = 0
         /\ n = Len(Lines(t)) => SumFunctionOnSet(Costs(t), 1 .. n) = Total(t)
<1>1. IsFiniteSet(1 .. n)
  BY LineFacts, FS_Interval
<1>2. ASSUME NEW i \in 1 .. n PROVE Costs(t)[i] \in Nat
  <2>1. i \in DOMAIN Lines(t) /\ Lines(t)[i].quantity \in Nat
    BY LineFacts
  <2>2. Price[Lines(t)[i].product] \in Nat
    BY StartAssumption
  <2>3. \A a, b \in Nat : a * b \in Nat
    OBVIOUS
  <2> QED BY <2>1, <2>2, <2>3 DEF Costs
<1>3. SumFunctionOnSet(Costs(t), 1 .. n) \in Nat
  BY <1>1, <1>2, SumMonotonic
<1>4. n = 0 => 1 .. n = {}
  OBVIOUS
<1>5. n = Len(Lines(t)) => 1 .. n = DOMAIN Lines(t)
  BY LineFacts
<1> QED BY <1>1, <1>2, <1>3, <1>4, <1>5, SumEmpty DEF Total

LEMMA CostsOfNext ==
  ASSUME NEW t \in Calls, NEW n \in 0 .. Len(Lines(t)) - 1,
         \A i \in 1 .. n + 1 : Lines(t)[i].product \in Products
  PROVE  SumFunctionOnSet(Costs(t), 1 .. n + 1)
           = SumFunctionOnSet(Costs(t), 1 .. n)
             + Price[Lines(t)[n + 1].product] * Lines(t)[n + 1].quantity
<1>1. n + 1 \in 0 .. Len(Lines(t)) /\ n \in 0 .. Len(Lines(t)) /\ n \in Nat
  BY LineFacts
<1>2. /\ IsFiniteSet(1 .. n) /\ \A i \in 1 .. n + 1 : Costs(t)[i] \in Nat
      /\ SumFunctionOnSet(Costs(t), 1 .. n) \in Nat
  BY <1>1, CostsOfSome
<1>3. 1 .. n + 1 = (1 .. n) \cup {n + 1} /\ n + 1 \notin 1 .. n /\ n + 1 \in 1 .. n + 1
  BY <1>1
<1>4. Costs(t)[n + 1] = Price[Lines(t)[n + 1].product] * Lines(t)[n + 1].quantity
  BY <1>1, LineFacts DEF Costs
<1>5. \A i \in (1 .. n) \cup {n + 1} : Costs(t)[i] \in Int
  BY <1>2, <1>3
<1>6. SumFunctionOnSet(Costs(t), (1 .. n) \cup {n + 1})
        = Costs(t)[n + 1] + SumFunctionOnSet(Costs(t), 1 .. n)
  BY <1>2, <1>3, <1>5, SumAdd
<1>7. Costs(t)[n + 1] \in Nat
  BY <1>2, <1>3
<1>8. Costs(t)[n + 1] + SumFunctionOnSet(Costs(t), 1 .. n)
        = SumFunctionOnSet(Costs(t), 1 .. n) + Costs(t)[n + 1]
  BY <1>2, <1>7
<1> QED BY <1>3, <1>4, <1>6, <1>8


-----------------------------------------------------------------------------
(* The steps keep the invariant.                                           *)

LEMMA InitInv == Init => Inv
<1> SUFFICES ASSUME Init PROVE Inv
  OBVIOUS
<1>1. TypeOK
  BY StartAssumption DEF Init, TypeOK, Nothing, Steps, Answers
<1>2. Progress
  BY LineFacts DEF Init, Progress, Open
<1>3. Sums
  <2> SUFFICES ASSUME NEW t \in Calls
               PROVE  /\ \A i \in 1 .. 0 : Lines(t)[i].product \in Products
                      /\ \A p \in Products : 0 = SumFunctionOnSet(Units(t), LinesFor(t, 0, p))
                      /\ 0 = SumFunctionOnSet(Costs(t), 1 .. 0)
    BY DEF Init, Sums, Nothing
  <2>1. 0 \in 0 .. Len(Lines(t))
    BY LineFacts
  <2> QED BY <2>1, UnitsOfSome, CostsOfSome
<1>4. Locks
  BY DEF Init, Locks, LocksKey, LocksProduct, LocksBuyer, Open, Nothing
<1>5. Covered
  BY StartAssumption DEF Init, Covered, LocksKey, LocksBuyer, Open, Nothing
<1>6. Ordered
  BY FS_EmptySet DEF Init, Ordered
<1>7. Conserved
  <2>1. \A f : SumFunctionOnSet(f, {}) = 0
    BY SumEmpty
  <2>2. \A b : {t \in {} : Call[t].buyer = b} = {}
    OBVIOUS
  <2>3. /\ \A p \in Products : Stock0[p] >= 0 /\ Stock0[p] + 0 = Stock0[p]
        /\ \A b \in Buyers : Balance0[b] >= 0 /\ Balance0[b] + 0 = Balance0[b]
    BY StartAssumption
  <2> QED BY <2>1, <2>2, <2>3 DEF Init, Conserved
<1>8. OneOrderPerKey
  BY CallsAssumption DEF Init, OneOrderPerKey
<1>9. AnswersTrue
  BY DEF Init, AnswersTrue
<1> QED BY <1>1, <1>2, <1>3, <1>4, <1>5, <1>6, <1>7, <1>8, <1>9 DEF Inv

\* A step that only moves one open call on.
LEMMA GotoFrame ==
  ASSUME Inv, NEW t \in Calls, pc[t] # "done", NEW s \in Steps, Goto(t, s),
         UNCHANGED <<tables, work, answer, reply>>
  PROVE  /\ TypeOK' /\ Sums' /\ Ordered' /\ Conserved' /\ OneOrderPerKey' /\ AnswersTrue'
         /\ pc' = [pc EXCEPT ![t] = s] /\ pc \in [Calls -> Steps]
<1> USE DEF tables, work
<1>1. pc' = [pc EXCEPT ![t] = s] /\ pc \in [Calls -> Steps]
  BY DEF Goto, Inv, TypeOK
<1>2. TypeOK'
  BY <1>1 DEF Inv, TypeOK
<1>3. Sums'
  BY DEF Inv, Sums
<1>4. Ordered'
  BY <1>1 DEF Inv, Ordered
<1>5. Conserved'
  BY DEF Inv, Conserved
<1>6. OneOrderPerKey' /\ AnswersTrue'
  BY DEF Inv, OneOrderPerKey, AnswersTrue
<1> QED BY <1>1, <1>2, <1>3, <1>4, <1>5, <1>6

\* A call that ends and has committed nothing; a replay names its order.
LEMMA EndsInv ==
  ASSUME Inv, NEW t \in Calls, pc[t] # "done",
         NEW a \in Answers \ {"none", "created"}, NEW o \in Calls \cup {None}, Ends(t, a, o),
         a = "replayed" => /\ o \in orders \ {t} /\ Call[o].key = Call[t].key
                           /\ SameBody(t, o)
  PROVE  Inv'
<1> USE DEF tables
<1>1. /\ pc' = [pc EXCEPT ![t] = "done"] /\ line' = [line EXCEPT ![t] = 0]
      /\ taken' = [taken EXCEPT ![t] = Nothing] /\ total' = [total EXCEPT ![t] = 0]
      /\ answer' = [answer EXCEPT ![t] = a] /\ reply' = [reply EXCEPT ![t] = o]
      /\ UNCHANGED tables
  BY DEF Ends, Releases, Goto
<1>2. TypeOK
  BY DEF Inv
<1>3. t \notin orders
  BY DEF Inv, Ordered
<1>4. Nothing \in [Products -> Nat] /\ \A p \in Products : Nothing[p] = 0
  BY DEF Nothing
<1>5. TypeOK'
  BY <1>1, <1>2, <1>4 DEF TypeOK, Steps
<1>6. Progress'
  BY <1>1, <1>2, LineFacts DEF Inv, Progress, TypeOK, Open
<1>7. Sums'
  <2> SUFFICES ASSUME NEW u \in Calls
               PROVE  /\ \A i \in 1 .. line'[u] : Lines(u)[i].product \in Products
                      /\ \A p \in Products : taken'[u][p]
                                 = SumFunctionOnSet(Units(u), LinesFor(u, line'[u], p))
                      /\ total'[u] = SumFunctionOnSet(Costs(u), 1 .. line'[u])
    BY DEF Sums
  <2>1. CASE u # t
    <3>1. line'[u] = line[u] /\ taken'[u] = taken[u] /\ total'[u] = total[u]
      BY <1>1, <1>2, <2>1 DEF TypeOK
    <3> QED BY <3>1 DEF Inv, Sums
  <2>2. CASE u = t
    <3>1. line'[u] = 0 /\ taken'[u] = Nothing /\ total'[u] = 0
      BY <1>1, <1>2, <2>2 DEF TypeOK
    <3>2. 0 \in 0 .. Len(Lines(u))
      BY LineFacts
    <3>3. SumFunctionOnSet(Costs(u), 1 .. 0) = 0
      BY <3>2, CostsOfSome
    <3> QED BY <1>4, <3>1, <3>2, <3>3, UnitsOfSome
  <2> QED BY <2>1, <2>2
<1>8. Locks'
  BY <1>1, <1>2, <1>4 DEF Inv, Locks, TypeOK, LocksKey, LocksProduct, LocksBuyer, Open
<1>9. Covered'
  BY <1>1, <1>2, <1>4 DEF Inv, Covered, Conserved, TypeOK, LocksKey, LocksBuyer, Open
<1>10. Ordered'
  BY <1>1, <1>2, <1>3 DEF Inv, Ordered, TypeOK
<1>11. Conserved'
  BY <1>1 DEF Inv, Conserved
<1>12. OneOrderPerKey'
  BY <1>1 DEF Inv, OneOrderPerKey
<1>13. AnswersTrue'
  BY <1>1, <1>2, <1>3 DEF Inv, AnswersTrue, TypeOK
<1> QED BY <1>5, <1>6, <1>7, <1>8, <1>9, <1>10, <1>11, <1>12, <1>13 DEF Inv

LEMMA BeginInv ==
  ASSUME Inv, NEW t \in Calls, Begin(t)
  PROVE  Inv'
<1>1. pc[t] = "idle"
  BY DEF Begin
<1>2. CASE Call[t].buyer \notin Buyers
  BY <1>1, <1>2, EndsInv DEF Begin, Answers
<1>3. CASE Call[t].buyer \in Buyers
  <2> DEFINE s == IF Call[t].key = NoKey THEN "lines" ELSE "claim"
  <2>1. Goto(t, s) /\ UNCHANGED <<tables, work, answer, reply>> /\ s \in Steps
    BY <1>3 DEF Begin, Steps
  <2>2. /\ TypeOK' /\ Sums' /\ Ordered' /\ Conserved' /\ OneOrderPerKey' /\ AnswersTrue'
        /\ pc' = [pc EXCEPT ![t] = s] /\ pc \in [Calls -> Steps]
    <3> HIDE DEF s
    <3> QED BY <1>1, <2>1, GotoFrame
  <2>3. Progress'
    BY <1>1, <1>3, <2>1, <2>2, LineFacts DEF Inv, Progress, Open, work
  <2>4. \A u \in Calls, k \in Keys : LocksKey(u, k)' => LocksKey(u, k)
    BY <2>2, CallsAssumption DEF LocksKey, Open
  <2>5. \A u \in Calls, b \in Buyers : LocksBuyer(u, b)' => LocksBuyer(u, b)
    BY <2>2 DEF LocksBuyer
  <2>6. Locks'
    BY <2>1, <2>4, <2>5 DEF Inv, Locks, LocksProduct, work
  <2>7. Covered'
    BY <2>1, <2>4, <2>5 DEF Inv, Covered, work, tables
  <2> QED BY <2>2, <2>3, <2>6, <2>7 DEF Inv
<1> QED BY <1>2, <1>3

\* The key is inserted when no open transaction holds it and no order has it.
LEMMA ClaimKeyInv ==
  ASSUME Inv, NEW t \in Calls, ClaimKey(t)
  PROVE  Inv'
<1> DEFINE k == Call[t].key
<1>1. pc[t] = "claim" /\ k \in Keys /\ \A u \in Calls : ~ LocksKey(u, k)
  BY DEF ClaimKey, Inv, Progress
<1>2. CASE keyOrder[k] # None
  <2>1. keyOrder[k] \in orders \ {t} /\ Call[keyOrder[k]].key = k /\ keyOrder[k] \in Calls
    BY <1>1, <1>2 DEF Inv, TypeOK, OneOrderPerKey, Ordered
  <2>2. CASE SameBody(t, keyOrder[k])
    BY <1>1, <1>2, <2>1, <2>2, EndsInv DEF ClaimKey, Answers
  <2>3. CASE ~ SameBody(t, keyOrder[k])
    BY <1>1, <1>2, <2>3, EndsInv DEF ClaimKey, Answers
  <2> QED BY <2>2, <2>3
<1>3. CASE keyOrder[k] = None
  <2>1. Goto(t, "lines") /\ UNCHANGED <<tables, work, answer, reply>>
    BY <1>3 DEF ClaimKey
  <2>2. /\ TypeOK' /\ Sums' /\ Ordered' /\ Conserved' /\ OneOrderPerKey' /\ AnswersTrue'
        /\ pc' = [pc EXCEPT ![t] = "lines"] /\ pc \in [Calls -> Steps]
    BY <1>1, <2>1, GotoFrame DEF Steps
  <2>3. Progress'
    BY <1>1, <2>1, <2>2, LineFacts DEF Inv, Progress, Open, work
  <2>4. \A u \in Calls, q \in Keys : LocksKey(u, q)' => LocksKey(u, q) \/ (u = t /\ q = k)
    BY <2>2 DEF LocksKey, Open
  <2>5. \A u \in Calls, b \in Buyers : LocksBuyer(u, b)' => LocksBuyer(u, b)
    BY <2>2 DEF LocksBuyer
  <2>6. Locks'
    BY <1>1, <2>1, <2>4, <2>5 DEF Inv, Locks, LocksProduct, work
  <2>7. Covered'
    BY <1>3, <2>1, <2>4, <2>5 DEF Inv, Covered, work, tables
  <2> QED BY <2>2, <2>3, <2>6, <2>7 DEF Inv
<1> QED BY <1>2, <1>3

\* The buyer's row is locked when the balance covers the total.
LEMMA PayInv ==
  ASSUME Inv, NEW t \in Calls, Pay(t)
  PROVE  Inv'
<1>1. pc[t] = "pay"
  BY DEF Pay
<1>2. CASE ~ HasFunds(t)
  BY <1>1, <1>2, EndsInv DEF Pay, Answers
<1>3. CASE HasFunds(t)
  <2>1. /\ Goto(t, "save") /\ UNCHANGED <<tables, work, answer, reply>>
        /\ \A u \in Calls \ {t} : ~ LocksBuyer(u, Call[t].buyer)
    BY <1>3 DEF Pay
  <2>2. /\ TypeOK' /\ Sums' /\ Ordered' /\ Conserved' /\ OneOrderPerKey' /\ AnswersTrue'
        /\ pc' = [pc EXCEPT ![t] = "save"] /\ pc \in [Calls -> Steps]
    BY <1>1, <2>1, GotoFrame DEF Steps
  <2>3. Progress'
    BY <1>1, <2>1, <2>2 DEF Inv, Progress, Open, work
  <2>4. \A u \in Calls, k \in Keys : LocksKey(u, k)' => LocksKey(u, k)
    BY <1>1, <2>2 DEF LocksKey, Open
  <2>5. \A u \in Calls, b \in Buyers :
          LocksBuyer(u, b)' => LocksBuyer(u, b) \/ (u = t /\ b = Call[t].buyer)
    BY <2>2 DEF LocksBuyer
  <2>6. Locks'
    BY <2>1, <2>4, <2>5 DEF Inv, Locks, LocksProduct, work
  <2>7. total[t] <= balance[Call[t].buyer]
    <3>1. Call[t].buyer \in Buyers
      BY <1>1 DEF Inv, Progress, Open
    <3>2. total[t] \in Nat /\ balance[Call[t].buyer] \in Int
      BY <3>1 DEF Inv, TypeOK
    <3> QED BY <1>3, <3>2 DEF HasFunds
  <2>8. Covered'
    BY <2>1, <2>4, <2>5, <2>7 DEF Inv, Covered, work, tables
  <2> QED BY <2>2, <2>3, <2>6, <2>8 DEF Inv
<1> QED BY <1>2, <1>3

LEMMA SaveInv ==
  ASSUME Inv, NEW t \in Calls, Save(t)
  PROVE  Inv'
<1>1. pc[t] = "save"
  BY DEF Save
<1>2. CASE RepeatsProduct(t)
  BY <1>1, <1>2, EndsInv DEF Save, Answers
<1>3. CASE ~ RepeatsProduct(t)
  <2>1. Goto(t, "commit") /\ UNCHANGED <<tables, work, answer, reply>>
    BY <1>3 DEF Save
  <2>2. /\ TypeOK' /\ Sums' /\ Ordered' /\ Conserved' /\ OneOrderPerKey' /\ AnswersTrue'
        /\ pc' = [pc EXCEPT ![t] = "commit"] /\ pc \in [Calls -> Steps]
    BY <1>1, <2>1, GotoFrame DEF Steps
  <2>3. Progress'
    BY <1>1, <2>1, <2>2 DEF Inv, Progress, Open, work
  <2>4. \A u \in Calls, k \in Keys : LocksKey(u, k)' => LocksKey(u, k)
    BY <1>1, <2>2 DEF LocksKey, Open
  <2>5. \A u \in Calls, b \in Buyers : LocksBuyer(u, b)' => LocksBuyer(u, b)
    BY <1>1, <2>2 DEF LocksBuyer
  <2>6. Locks'
    BY <2>1, <2>4, <2>5 DEF Inv, Locks, LocksProduct, work
  <2>7. Covered'
    BY <2>1, <2>4, <2>5 DEF Inv, Covered, work, tables
  <2> QED BY <2>2, <2>3, <2>6, <2>7 DEF Inv
<1> QED BY <1>2, <1>3


\* A line is taken when the row is free and has enough.
LEMMA TakeLineInv ==
  ASSUME Inv, NEW t \in Calls, TakeLine(t)
  PROVE  Inv'
<1> DEFINE n == line[t]
           p == NextLine(t).product
           q == NextLine(t).quantity
<1>1. pc[t] = "lines"
  BY DEF TakeLine
<1>2. CASE p \notin Products
  BY <1>1, <1>2, EndsInv DEF TakeLine, Answers
<1>3. CASE p \in Products /\ ~ InStock(t)
  BY <1>1, <1>3, EndsInv DEF TakeLine, Answers
<1>4. CASE p \in Products /\ InStock(t)
  <2>1. /\ \A u \in Calls \ {t} : ~ LocksProduct(u, p)
        /\ line' = [line EXCEPT ![t] = n + 1]
        /\ taken' = [taken EXCEPT ![t][p] = taken[t][p] + q]
        /\ total' = [total EXCEPT ![t] = total[t] + Price[p] * q]
        /\ Goto(t, IF line'[t] = Len(Lines(t)) THEN "pay" ELSE "lines")
        /\ UNCHANGED <<tables, answer, reply>>
    BY <1>4 DEF TakeLine
  <2>2. TypeOK
    BY DEF Inv
  <2>3. /\ n \in 0 .. Len(Lines(t)) - 1 /\ n + 1 \in 0 .. Len(Lines(t))
        /\ n + 1 \in 1 .. Len(Lines(t)) /\ n \in Nat /\ n + 1 \in Nat
    BY <1>1, <2>2, LineFacts DEF Inv, Progress, TypeOK
  <2>4. p = Lines(t)[n + 1].product /\ q = Lines(t)[n + 1].quantity /\ q \in Nat
    BY <2>3, LineFacts DEF NextLine
  <2>5. PICK s \in {"pay", "lines"} :
          /\ pc' = [pc EXCEPT ![t] = s]
          /\ s = "pay" <=> n + 1 = Len(Lines(t))
    <3>1. line'[t] = n + 1
      BY <2>1, <2>2 DEF TypeOK
    <3>2. CASE n + 1 = Len(Lines(t))
      BY <2>1, <3>1, <3>2 DEF Goto
    <3>3. CASE n + 1 # Len(Lines(t))
      BY <2>1, <3>1, <3>3 DEF Goto
    <3> QED BY <3>2, <3>3
  <2>6. taken[t] \in [Products -> Nat] /\ taken[t][p] + q \in Nat
    BY <1>4, <2>2, <2>4 DEF TypeOK
  <2>7. Price[p] * q \in Nat /\ total[t] \in Nat /\ total[t] + Price[p] * q \in Nat
    <3>1. Price[p] \in Nat
      BY <1>4, StartAssumption
    <3>2. \A a, b \in Nat : a * b \in Nat
      OBVIOUS
    <3>3. Price[p] * q \in Nat
      BY <2>4, <3>1, <3>2
    <3>4. total[t] \in Nat
      BY <2>2 DEF TypeOK
    <3>5. \A a, b \in Nat : a + b \in Nat
      OBVIOUS
    <3> QED BY <3>3, <3>4, <3>5
  <2>8. /\ line'[t] = n + 1 /\ total'[t] = total[t] + Price[p] * q /\ pc'[t] = s
        /\ taken'[t] = [taken[t] EXCEPT ![p] = taken[t][p] + q]
        /\ \A u \in Calls \ {t} : /\ line'[u] = line[u] /\ total'[u] = total[u]
                                  /\ taken'[u] = taken[u] /\ pc'[u] = pc[u]
    BY <2>1, <2>2, <2>5 DEF TypeOK
  <2>9. TypeOK'
    <3>1. line' \in [Calls -> Nat] /\ total' \in [Calls -> Nat] /\ pc' \in [Calls -> Steps]
      BY <2>1, <2>2, <2>3, <2>5, <2>7 DEF TypeOK, Steps
    <3>2. taken' \in [Calls -> [Products -> Nat]]
      <4>1. [taken[t] EXCEPT ![p] = taken[t][p] + q] \in [Products -> Nat]
        BY <2>6
      <4> QED BY <2>1, <2>2, <4>1 DEF TypeOK
    <3> QED BY <2>1, <2>2, <3>1, <3>2 DEF TypeOK, tables
  <2>10. Progress'
    <3> SUFFICES ASSUME NEW u \in Calls
                 PROVE  /\ pc'[u] \in {"idle", "claim", "done"} => line'[u] = 0
                        /\ pc'[u] = "lines" => line'[u] < Len(Lines(u))
                        /\ line'[u] <= Len(Lines(u))
                        /\ pc'[u] \in {"pay", "save", "commit"} => line'[u] = Len(Lines(u))
                        /\ pc'[u] \notin {"idle", "done"} => Call[u].buyer \in Buyers
                        /\ pc'[u] = "claim" => Call[u].key \in Keys
                        /\ answer'[u] = "none" <=> pc'[u] # "done"
      BY DEF Progress, Open
    <3>1. CASE u # t
      BY <2>1, <2>8, <3>1 DEF Inv, Progress, Open
    <3>2. CASE u = t
      BY <1>1, <2>1, <2>3, <2>5, <2>8, <3>2, LineFacts DEF Inv, Progress, Open
    <3> QED BY <3>1, <3>2
  <2>11. Sums'
    <3> SUFFICES ASSUME NEW u \in Calls
                 PROVE  /\ \A i \in 1 .. line'[u] : Lines(u)[i].product \in Products
                        /\ \A r \in Products : taken'[u][r]
                                   = SumFunctionOnSet(Units(u), LinesFor(u, line'[u], r))
                        /\ total'[u] = SumFunctionOnSet(Costs(u), 1 .. line'[u])
      BY DEF Sums
    <3>1. CASE u # t
      BY <2>8, <3>1 DEF Inv, Sums
    <3>2. CASE u = t
      <4>1. \A i \in 1 .. n + 1 : Lines(t)[i].product \in Products
        BY <1>4, <2>3, <2>4 DEF Inv, Sums
      <4>2. ASSUME NEW r \in Products
            PROVE  taken'[t][r] = SumFunctionOnSet(Units(t), LinesFor(t, n + 1, r))
        <5>1. taken[t][r] = SumFunctionOnSet(Units(t), LinesFor(t, n, r)) /\ taken[t][r] \in Nat
          BY <2>2 DEF Inv, Sums, TypeOK
        <5>2. SumFunctionOnSet(Units(t), LinesFor(t, n + 1, r))
                = taken[t][r] + (IF p = r THEN q ELSE 0)
          BY <2>3, <2>4, <5>1, UnitsOfNext
        <5>3. CASE r = p
          BY <2>6, <2>8, <5>2, <5>3
        <5>4. CASE r # p
          BY <2>6, <2>8, <5>1, <5>2, <5>4
        <5> QED BY <5>3, <5>4
      <4>3. total[t] = SumFunctionOnSet(Costs(t), 1 .. n)
        BY DEF Inv, Sums
      <4>4. SumFunctionOnSet(Costs(t), 1 .. n + 1) = total[t] + Price[p] * q
        BY <2>3, <2>4, <4>1, <4>3, CostsOfNext
      <4> QED BY <2>8, <3>2, <4>1, <4>2, <4>4
    <3> QED BY <3>1, <3>2
  <2>12. \A u \in Calls, k \in Keys : LocksKey(u, k)' => LocksKey(u, k)
    BY <1>1, <2>5, <2>8 DEF LocksKey, Open
  <2>13. \A u \in Calls, b \in Buyers : LocksBuyer(u, b)' => LocksBuyer(u, b) /\ u # t
    BY <2>5, <2>8 DEF LocksBuyer
  <2>14. \A u \in Calls, r \in Products :
           LocksProduct(u, r)' => LocksProduct(u, r) \/ (u = t /\ r = p)
    BY <2>6, <2>8 DEF LocksProduct
  <2>15. Locks'
    BY <2>1, <2>12, <2>13, <2>14 DEF Inv, Locks
  <2>16. Covered'
    <3>1. ASSUME NEW u \in Calls, NEW r \in Products
          PROVE  taken'[u][r] <= stock'[r]
      <4>1. stock' = stock /\ taken[u][r] <= stock[r]
        BY <2>1 DEF Inv, Covered, tables
      <4>2. CASE u = t /\ r = p
        <5>1. taken'[u][r] = taken[t][p] + q
          BY <2>6, <2>8, <4>2
        <5>2. stock[p] - taken[t][p] >= q
          BY <1>4 DEF InStock
        <5>3. stock[p] \in Int /\ taken[t][p] \in Nat
          BY <1>4, <2>2 DEF TypeOK
        <5> HIDE DEF p, q
        <5> QED BY <2>4, <4>1, <4>2, <5>1, <5>2, <5>3
      <4>3. CASE ~ (u = t /\ r = p)
        <5>1. taken'[u][r] = taken[u][r]
          BY <2>6, <2>8, <4>3
        <5> QED BY <4>1, <5>1
      <4> QED BY <4>2, <4>3
    <3> QED BY <2>1, <2>8, <2>12, <2>13, <3>1 DEF Inv, Covered, tables
  <2>17. Ordered'
    BY <1>1, <2>1, <2>8 DEF Inv, Ordered, tables, TypeOK
  <2>18. Conserved' /\ OneOrderPerKey' /\ AnswersTrue'
    <3> USE <2>1 DEF Inv, tables
    <3>1. Conserved'
      BY DEF Conserved
    <3>2. OneOrderPerKey' /\ AnswersTrue'
      BY DEF OneOrderPerKey, AnswersTrue
    <3> QED BY <3>1, <3>2
  <2> QED BY <2>9, <2>10, <2>11, <2>15, <2>16, <2>17, <2>18 DEF Inv
<1> QED BY <1>2, <1>3, <1>4

\* What a call that may commit has taken is all it asks for.
LEMMA ReadyToCommit ==
  ASSUME Inv, NEW t \in Calls, pc[t] \in {"pay", "save", "commit"}
  PROVE  /\ \A p \in Products : taken[t][p] = Demand(t, p) /\ Demand(t, p) \in Nat
         /\ total[t] = Total(t) /\ Total(t) \in Nat
         /\ \A i \in DOMAIN Lines(t) : Lines(t)[i].product \in Products
         /\ Call[t].buyer \in Buyers
<1>1. line[t] = Len(Lines(t)) /\ Call[t].buyer \in Buyers
  BY DEF Inv, Progress, Open
<1>2. Len(Lines(t)) \in 0 .. Len(Lines(t)) /\ DOMAIN Lines(t) = 1 .. Len(Lines(t))
  BY LineFacts
<1>3. \A i \in 1 .. Len(Lines(t)) : Lines(t)[i].product \in Products
  BY <1>1 DEF Inv, Sums
<1>4. ASSUME NEW p \in Products
      PROVE  taken[t][p] = Demand(t, p) /\ Demand(t, p) \in Nat
  BY <1>1, <1>2, UnitsOfSome DEF Inv, Sums
<1>5. total[t] = Total(t) /\ Total(t) \in Nat
  BY <1>1, <1>2, <1>3, CostsOfSome DEF Inv, Sums
<1> QED BY <1>1, <1>2, <1>3, <1>4, <1>5


LEMMA OrderNumbers ==
  ASSUME Inv, NEW u \in orders
  PROVE  u \in Calls /\ Total(u) \in Nat /\ \A p \in Products : Demand(u, p) \in Nat
<1>1. u \in Calls /\ \A i \in DOMAIN Lines(u) : Lines(u)[i].product \in Products
  BY DEF Inv, TypeOK, Ordered
<1>2. Len(Lines(u)) \in 0 .. Len(Lines(u)) /\ DOMAIN Lines(u) = 1 .. Len(Lines(u))
  BY <1>1, LineFacts
<1>3. \A p \in Products : Demand(u, p) \in Nat
  BY <1>1, <1>2, UnitsOfSome
<1>4. Total(u) \in Nat
  BY <1>1, <1>2, CostsOfSome
<1> QED BY <1>1, <1>3, <1>4

\* One more order takes its units from the stock and its price from its buyer.
LEMMA CommitConserves ==
  ASSUME Inv, NEW t \in Calls, Commit(t)
  PROVE  Conserved'
<1> DEFINE b == Call[t].buyer
<1>1. /\ \A p \in Products : taken[t][p] = Demand(t, p) /\ Demand(t, p) \in Nat
      /\ total[t] = Total(t) /\ Total(t) \in Nat /\ b \in Buyers
  BY ReadyToCommit DEF Commit
<1>2. t \notin orders /\ IsFiniteSet(orders) /\ orders' = orders \cup {t}
  BY DEF Inv, Ordered, Commit
<1>3. ASSUME NEW p \in Products
      PROVE  /\ stock'[p] >= 0
             /\ stock'[p] + SumFunctionOnSet([u \in Calls |-> Demand(u, p)], orders') = Stock0[p]
  <2> DEFINE F == [u \in Calls |-> Demand(u, p)]
  <2>1. stock'[p] = stock[p] - taken[t][p] /\ taken[t][p] <= stock[p]
    BY DEF Commit, Inv, Covered
  <2>2. stock[p] \in Int /\ taken[t][p] \in Nat /\ F[t] = taken[t][p]
    BY <1>1 DEF Inv, TypeOK
  <2>3. \A u \in orders : F[u] \in Nat
    BY OrderNumbers
  <2>4. \A u \in orders \cup {t} : F[u] \in Int
    BY <1>1, <2>3
  <2>5. stock[p] + SumFunctionOnSet(F, orders) = Stock0[p]
    BY DEF Inv, Conserved
  <2> HIDE DEF F
  <2>6. SumFunctionOnSet(F, orders') = F[t] + SumFunctionOnSet(F, orders)
    BY <1>2, <2>4, SumAdd
  <2>7. SumFunctionOnSet(F, orders) \in Nat
    BY <1>2, <2>3, SumMonotonic
  <2>8. stock'[p] >= 0 /\ stock'[p] + SumFunctionOnSet(F, orders') = Stock0[p]
    BY <2>1, <2>2, <2>5, <2>6, <2>7
  <2> QED BY <2>8 DEF F
<1>4. ASSUME NEW c \in Buyers
      PROVE  /\ balance'[c] >= 0
             /\ balance'[c] + SumFunctionOnSet([u \in Calls |-> Total(u)],
                                               {u \in orders' : Call[u].buyer = c}) = Balance0[c]
  <2> DEFINE F == [u \in Calls |-> Total(u)]
             S == {u \in orders : Call[u].buyer = c}
  <2>1. balance[c] \in Int /\ balance[c] >= 0 /\ balance[c] + SumFunctionOnSet(F, S) = Balance0[c]
    BY DEF Inv, TypeOK, Conserved
  <2>2. balance' = [balance EXCEPT ![b] = balance[b] - total[t]] /\ balance \in [Buyers -> Int]
    BY DEF Commit, Inv, TypeOK
  <2>3. CASE c # b
    <3>1. balance'[c] = balance[c]
      BY <1>1, <2>2, <2>3
    <3>2. {u \in orders' : Call[u].buyer = c} = S
      BY <1>2, <2>3
    <3> QED BY <2>1, <3>1, <3>2
  <2>4. CASE c = b
    <3>1. balance'[c] = balance[c] - total[t] /\ total[t] <= balance[c] /\ total[t] \in Nat
      BY <1>1, <2>2, <2>4 DEF Inv, Covered, LocksBuyer, Commit
    <3>2. {u \in orders' : Call[u].buyer = c} = S \cup {t} /\ t \notin S
      BY <1>2, <2>4
    <3>3. IsFiniteSet(S)
      BY <1>2, FS_Subset
    <3>4. \A u \in S : F[u] \in Nat
      BY OrderNumbers
    <3>5. F[t] = total[t] /\ \A u \in S \cup {t} : F[u] \in Int
      BY <1>1, <3>4
    <3> HIDE DEF F, S
    <3>6. SumFunctionOnSet(F, S \cup {t}) = F[t] + SumFunctionOnSet(F, S)
      BY <3>2, <3>3, <3>5, SumAdd
    <3>7. SumFunctionOnSet(F, S) \in Nat
      BY <3>3, <3>4, SumMonotonic
    <3>8. balance'[c] >= 0 /\ balance'[c] + SumFunctionOnSet(F, S \cup {t}) = Balance0[c]
      BY <2>1, <3>1, <3>5, <3>6, <3>7
    <3> QED BY <3>2, <3>8 DEF F
  <2> QED BY <2>3, <2>4
<1> QED BY <1>3, <1>4 DEF Conserved

LEMMA CommitInv ==
  ASSUME Inv, NEW t \in Calls, Commit(t)
  PROVE  Inv'
<1> DEFINE b == Call[t].buyer
<1>1. /\ pc[t] = "commit" /\ pc' = [pc EXCEPT ![t] = "done"] /\ line' = [line EXCEPT ![t] = 0]
      /\ taken' = [taken EXCEPT ![t] = Nothing] /\ total' = [total EXCEPT ![t] = 0]
      /\ stock' = [p \in Products |-> stock[p] - taken[t][p]]
      /\ balance' = [balance EXCEPT ![b] = balance[b] - total[t]]
      /\ keyOrder' = [k \in Keys |-> IF k = Call[t].key THEN t ELSE keyOrder[k]]
      /\ orders' = orders \cup {t} /\ jobs' = jobs \cup {t} /\ outbox' = outbox \cup {t}
  BY DEF Commit, Releases, Goto
<1>2. PICK a \in {"created", "failed"}, o \in Calls \cup {None} :
        answer' = [answer EXCEPT ![t] = a] /\ reply' = [reply EXCEPT ![t] = o]
  <2>1. CASE answer' = [answer EXCEPT ![t] = "created"] /\ reply' = [reply EXCEPT ![t] = t]
    BY <2>1
  <2>2. CASE answer' = [answer EXCEPT ![t] = "failed"] /\ UNCHANGED reply
    <3>1. reply' = [reply EXCEPT ![t] = reply[t]] /\ reply[t] \in Calls \cup {None}
      BY <2>2 DEF Inv, TypeOK
    <3> QED BY <2>2, <3>1
  <2> QED BY <2>1, <2>2 DEF Commit
<1>3. TypeOK /\ t \notin orders /\ b \in Buyers /\ total[t] \in Nat
      /\ \A i \in DOMAIN Lines(t) : Lines(t)[i].product \in Products
  BY <1>1, ReadyToCommit DEF Inv, Ordered
<1>4. Nothing \in [Products -> Nat] /\ \A p \in Products : Nothing[p] = 0
  BY DEF Nothing
<1>5. /\ line'[t] = 0 /\ total'[t] = 0 /\ pc'[t] = "done" /\ taken'[t] = Nothing /\ answer'[t] = a
      /\ \A u \in Calls \ {t} : /\ line'[u] = line[u] /\ total'[u] = total[u] /\ pc'[u] = pc[u]
                                /\ taken'[u] = taken[u] /\ answer'[u] = answer[u]
                                /\ reply'[u] = reply[u]
  BY <1>1, <1>2, <1>3 DEF TypeOK
<1>6. TypeOK'
  <2>1. stock' \in [Products -> Int]
    BY <1>1, <1>3 DEF TypeOK
  <2>2. balance' \in [Buyers -> Int]
    BY <1>1, <1>3 DEF TypeOK
  <2>3. keyOrder' \in [Keys -> Calls \cup {None}] /\ orders' \subseteq Calls
        /\ jobs' \subseteq Calls /\ outbox' \subseteq Calls
    BY <1>1, <1>3 DEF TypeOK
  <2>4. pc' \in [Calls -> Steps] /\ line' \in [Calls -> Nat] /\ total' \in [Calls -> Nat]
        /\ taken' \in [Calls -> [Products -> Nat]]
    BY <1>1, <1>3, <1>4 DEF TypeOK, Steps
  <2>5. answer' \in [Calls -> Answers] /\ reply' \in [Calls -> Calls \cup {None}]
    BY <1>2, <1>3 DEF TypeOK, Answers
  <2> QED BY <2>1, <2>2, <2>3, <2>4, <2>5 DEF TypeOK
<1>7. Progress'
  <2> SUFFICES ASSUME NEW u \in Calls
               PROVE  /\ pc'[u] \in {"idle", "claim", "done"} => line'[u] = 0
                      /\ pc'[u] = "lines" => line'[u] < Len(Lines(u))
                      /\ line'[u] <= Len(Lines(u))
                      /\ pc'[u] \in {"pay", "save", "commit"} => line'[u] = Len(Lines(u))
                      /\ pc'[u] \notin {"idle", "done"} => Call[u].buyer \in Buyers
                      /\ pc'[u] = "claim" => Call[u].key \in Keys
                      /\ answer'[u] = "none" <=> pc'[u] # "done"
    BY DEF Progress, Open
  <2>1. CASE u # t
    BY <1>5, <2>1 DEF Inv, Progress, Open
  <2>2. CASE u = t
    BY <1>5, <1>2, <2>2, LineFacts
  <2> QED BY <2>1, <2>2
<1>8. Sums'
  <2> SUFFICES ASSUME NEW u \in Calls
               PROVE  /\ \A i \in 1 .. line'[u] : Lines(u)[i].product \in Products
                      /\ \A r \in Products : taken'[u][r]
                                 = SumFunctionOnSet(Units(u), LinesFor(u, line'[u], r))
                      /\ total'[u] = SumFunctionOnSet(Costs(u), 1 .. line'[u])
    BY DEF Sums
  <2>1. CASE u # t
    BY <1>5, <2>1 DEF Inv, Sums
  <2>2. CASE u = t
    <3>1. 0 \in 0 .. Len(Lines(u))
      BY LineFacts
    <3>2. SumFunctionOnSet(Costs(u), 1 .. 0) = 0
      BY <3>1, CostsOfSome
    <3> QED BY <1>4, <1>5, <2>2, <3>1, <3>2, UnitsOfSome
  <2> QED BY <2>1, <2>2
<1>9. \A u \in Calls, k \in Keys : LocksKey(u, k)' => LocksKey(u, k) /\ u # t
  BY <1>5 DEF LocksKey, Open
<1>10. \A u \in Calls, c \in Buyers : LocksBuyer(u, c)' => LocksBuyer(u, c) /\ u # t
  BY <1>5 DEF LocksBuyer
<1>11. \A u \in Calls, p \in Products : LocksProduct(u, p)' => LocksProduct(u, p) /\ u # t
  BY <1>4, <1>5 DEF LocksProduct
<1>12. Locks'
  BY <1>9, <1>10, <1>11 DEF Inv, Locks
<1>13. Covered'
  <2>1. ASSUME NEW u \in Calls, NEW k \in Keys, LocksKey(u, k)'
        PROVE  keyOrder'[k] = None
    <3>1. LocksKey(u, k) /\ u # t /\ keyOrder[k] = None
      BY <1>9, <2>1 DEF Inv, Covered
    <3>2. Call[t].key = k => LocksKey(t, k)
      BY <1>1 DEF LocksKey, Open
    <3>3. Call[t].key # k
      BY <3>1, <3>2 DEF Inv, Locks
    <3> QED BY <1>1, <3>1, <3>3
  <2>2. ASSUME NEW u \in Calls, NEW p \in Products
        PROVE  taken'[u][p] <= stock'[p]
    <3>1. stock'[p] = stock[p] - taken[t][p] /\ stock[p] \in Int /\ taken[t][p] \in Nat
          /\ taken[t][p] <= stock[p] /\ taken[u][p] <= stock[p] /\ taken[u][p] \in Nat
      BY <1>1, <1>3 DEF Inv, Covered, TypeOK
    <3>2. CASE u = t
      BY <1>4, <1>5, <3>1, <3>2
    <3>3. CASE u # t
      <4>1. taken[u][p] = 0 \/ taken[t][p] = 0
        BY <3>1, <3>3 DEF Inv, Locks, LocksProduct
      <4>2. taken'[u][p] = taken[u][p]
        BY <1>5, <3>3
      <4> QED BY <3>1, <4>1, <4>2
    <3> QED BY <3>2, <3>3
  <2>3. ASSUME NEW u \in Calls, NEW c \in Buyers, LocksBuyer(u, c)'
        PROVE  total'[u] <= balance'[c]
    <3>1. LocksBuyer(u, c) /\ u # t /\ total[u] <= balance[c]
      BY <1>10, <2>3 DEF Inv, Covered
    <3>2. LocksBuyer(t, b)
      BY <1>1 DEF LocksBuyer
    <3>3. c # b
      BY <1>3, <3>1, <3>2 DEF Inv, Locks
    <3>4. balance'[c] = balance[c]
      BY <1>1, <1>3, <3>3 DEF TypeOK
    <3> QED BY <1>5, <3>1, <3>4
  <2> QED BY <2>1, <2>2, <2>3 DEF Covered
<1>14. Ordered'
  <2>1. IsFiniteSet(orders')
    BY <1>1, FS_AddElement DEF Inv, Ordered
  <2> QED BY <1>1, <1>3, <1>5, <2>1 DEF Inv, Ordered, TypeOK
<1>15. Conserved'
  BY CommitConserves
<1>16. OneOrderPerKey'
  <2>1. Call[t].key \in Keys => keyOrder[Call[t].key] = None
    BY <1>1 DEF Inv, Covered, LocksKey, Open
  <2>2. \A u \in orders : Call[u].key = Call[t].key => Call[t].key = NoKey
    BY <1>3, <2>1, CallsAssumption, LineFacts DEF Inv, OneOrderPerKey, TypeOK
  <2>3. \A u, v \in orders' : Call[u].key = Call[v].key /\ Call[u].key # NoKey => u = v
    BY <1>1, <2>2 DEF Inv, OneOrderPerKey
  <2>4. ASSUME NEW k \in Keys, NEW u \in Calls
        PROVE  keyOrder'[k] = u <=> u \in orders' /\ Call[u].key = k
    <3>1. CASE k = Call[t].key
      <4>1. keyOrder'[k] = t
        BY <1>1, <3>1
      <4>2. u \in orders' /\ Call[u].key = k => u = t
        BY <1>1, <2>2, <3>1, CallsAssumption
      <4> QED BY <1>1, <3>1, <4>1, <4>2
    <3>2. CASE k # Call[t].key
      BY <1>1, <3>2 DEF Inv, OneOrderPerKey
    <3> QED BY <3>1, <3>2
  <2> QED BY <2>3, <2>4 DEF OneOrderPerKey
<1>17. AnswersTrue'
  <2> SUFFICES ASSUME NEW u \in Calls
               PROVE  /\ answer'[u] = "created" => u \in orders' \cap jobs' \cap outbox'
                      /\ answer'[u] = "replayed" => /\ reply'[u] \in orders' \ {u}
                                                    /\ Call[reply'[u]].key = Call[u].key
                                                    /\ SameBody(u, reply'[u])
                      /\ u \in orders' => answer'[u] \in {"created", "failed"}
    BY DEF AnswersTrue, SameBody
  <2>1. CASE u = t
    BY <1>1, <1>2, <1>5, <2>1
  <2>2. CASE u # t
    BY <1>1, <1>5, <2>2 DEF Inv, AnswersTrue
  <2> QED BY <2>1, <2>2
<1> QED BY <1>6, <1>7, <1>8, <1>12, <1>13, <1>14, <1>15, <1>16, <1>17 DEF Inv

LEMMA NextInv ==
  ASSUME Inv, [Next]_vars
  PROVE  Inv'
<1>1. CASE UNCHANGED vars
  <2> USE DEF vars, tables, work
  <2>1. TypeOK' /\ Progress' /\ Ordered'
    BY <1>1 DEF Inv, TypeOK, Progress, Ordered, Open
  <2>2. Sums' /\ Conserved'
    BY <1>1 DEF Inv, Sums, Conserved
  <2>3. Locks' /\ Covered'
    BY <1>1 DEF Inv, Locks, Covered, LocksKey, LocksProduct, LocksBuyer, Open
  <2>4. OneOrderPerKey' /\ AnswersTrue'
    BY <1>1 DEF Inv, OneOrderPerKey, AnswersTrue
  <2> QED BY <2>1, <2>2, <2>3, <2>4 DEF Inv
<1>2. ASSUME NEW t \in Calls, Fail(t) \/ BreakDeadlock(t)
      PROVE  Inv'
  <2>1. Ends(t, "failed", None)
    BY <1>2 DEF Fail, BreakDeadlock
  <2>2. pc[t] # "done"
    BY <1>2 DEF Fail, BreakDeadlock, Waiting, WaitsFor, Open
  <2> QED BY <2>1, <2>2, EndsInv DEF Answers
<1>3. ASSUME NEW t \in Calls, Begin(t) \/ Proceed(t)
      PROVE  Inv'
  BY <1>2, <1>3, BeginInv, ClaimKeyInv, TakeLineInv, PayInv, SaveInv, CommitInv DEF Proceed
<1> QED BY <1>1, <1>2, <1>3 DEF Next

LEMMA InvHolds == Spec => []Inv
BY InitInv, NextInv, PTL DEF Spec

-----------------------------------------------------------------------------

\* Every variable of checkout keeps its type, for any calls, products, buyers
\* and keys.
THEOREM TypeCorrect == Spec => []TypeOK
<1>1. Inv => TypeOK
  BY DEF Inv
<1> QED BY <1>1, InvHolds, PTL

\* However checkouts interleave, fail, wait and are cancelled, the stock that
\* is left and what the orders took are the stock there was; buyers have paid
\* for their orders and nothing else; neither is ever negative.
THEOREM StockAndMoneyConserved == Spec => []Conserved
<1>1. Inv => Conserved
  BY DEF Inv
<1> QED BY <1>1, InvHolds, PTL

\* "Two requests with the same key insert one order and one outbox row".
THEOREM KeysAreHonoured == Spec => []OneOrderPerKey
<1>1. Inv => OneOrderPerKey
  BY DEF Inv
<1> QED BY <1>1, InvHolds, PTL

\* A caller who is told of an order finds it, a replay names the order of the
\* same key and body, and a refused call has placed nothing.
THEOREM AnswersAreTrue == Spec => []AnswersTrue
<1>1. Inv => AnswersTrue
  BY DEF Inv
<1> QED BY <1>1, InvHolds, PTL


-----------------------------------------------------------------------------
(* The refinement: a call takes effect when it commits or is refused.      *)

\* Both modules mean the same by the demand and the total of a call.
LEMMA SameAmounts ==
  ASSUME NEW t
  PROVE  /\ \A p : Atomic!Demand(t, p) = Demand(t, p)
         /\ Atomic!Total(t) = Total(t)
         /\ Atomic!Lines(t) = Lines(t)
<1>1. Atomic!Lines(t) = Lines(t)
  BY DEF Atomic!Lines, Lines
<1>2. Atomic!Units(t) = Units(t) /\ Atomic!Costs(t) = Costs(t)
  BY <1>1 DEF Atomic!Units, Units, Atomic!Costs, Costs
<1>3. \A f, S : Atomic!SumFunctionOnSet(f, S) = SumFunctionOnSet(f, S)
  BY Zenon DEF Atomic!SumFunctionOnSet, SumFunctionOnSet, Atomic!FoldFunctionOnSet,
     FoldFunctionOnSet, Atomic!MapThenFoldSet, MapThenFoldSet
<1> QED BY <1>1, <1>2, <1>3 DEF Atomic!Demand, Demand, Atomic!Total, Total


LEMMA EndsRefuses ==
  ASSUME Inv, NEW t \in Calls, pc[t] # "done", NEW o,
         NEW a \in Answers \ {"none", "created"}, Ends(t, a, o), Atomic!Reason(t, a)
  PROVE  Atomic!Next
<1>1. answer[t] = "none"
  BY DEF Inv, Progress
<1>2. answer' = [answer EXCEPT ![t] = a] /\ UNCHANGED <<stock, balance, keyOrder, orders>>
  BY DEF Ends, tables
<1>3. a \in Atomic!Answers \ {"none", "created"}
  BY DEF Answers, Atomic!Answers
<1>4. Atomic!Refuse(t)
  BY <1>2, <1>3 DEF Atomic!Refuse
<1> QED BY <1>1, <1>4 DEF Atomic!Next

\* What a transaction finds missing is missing: the rows it has locked have
\* not changed, and those it has not are as committed.
LEMMA RefusalsAreTrue ==
  ASSUME Inv, NEW t \in Calls
  PROVE  /\ TakeLine(t) /\ NextLine(t).product \notin Products => Atomic!Reason(t, "unknown_product")
         /\ TakeLine(t) /\ NextLine(t).product \in Products /\ ~ InStock(t)
              => Atomic!Reason(t, "out_of_stock")
         /\ Pay(t) /\ ~ HasFunds(t) => Atomic!Reason(t, "insufficient_funds")
<1> DEFINE n == line[t]
           p == NextLine(t).product
           q == NextLine(t).quantity
<1>1. ASSUME TakeLine(t)
      PROVE  /\ n \in 0 .. Len(Lines(t)) - 1 /\ n + 1 \in 0 .. Len(Lines(t))
             /\ n + 1 \in DOMAIN Lines(t)
             /\ p = Lines(t)[n + 1].product /\ q = Lines(t)[n + 1].quantity /\ q \in Nat
  <2>1. pc[t] = "lines" /\ n \in Nat
    BY <1>1 DEF TakeLine, Inv, TypeOK
  <2>2. n < Len(Lines(t))
    BY <2>1 DEF Inv, Progress
  <2> QED BY <2>1, <2>2, LineFacts DEF NextLine
<1>2. ASSUME TakeLine(t), p \notin Products
      PROVE  Atomic!Reason(t, "unknown_product")
  BY <1>1, <1>2, SameAmounts DEF Atomic!Reason
<1>3. ASSUME TakeLine(t), p \in Products, ~ InStock(t)
      PROVE  Atomic!Reason(t, "out_of_stock")
  <2>1. SumFunctionOnSet(Units(t), LinesFor(t, n, p)) = taken[t][p] /\ taken[t][p] \in Nat
    BY <1>3 DEF Inv, Sums, TypeOK
  <2>2. SumFunctionOnSet(Units(t), LinesFor(t, n + 1, p)) = taken[t][p] + q
    BY <1>1, <1>3, <2>1, UnitsOfNext
  <2>3. taken[t][p] + q <= Demand(t, p) /\ Demand(t, p) \in Nat
    BY <1>1, <1>3, <2>2, UnitsOfSome
  <2>4. ~ (stock[p] - taken[t][p] >= q) /\ stock[p] \in Int
    BY <1>3 DEF InStock, Inv, TypeOK
  <2>5. Demand(t, p) > stock[p]
    <3> HIDE DEF p, q
    <3> QED BY <1>1, <1>3, <2>1, <2>3, <2>4
  <2> QED BY <1>3, <2>5, SameAmounts DEF Atomic!Reason
<1>4. ASSUME Pay(t), ~ HasFunds(t)
      PROVE  Atomic!Reason(t, "insufficient_funds")
  <2>1. pc[t] = "pay"
    BY <1>4 DEF Pay
  <2>2. /\ total[t] = Total(t) /\ Total(t) \in Nat /\ Call[t].buyer \in Buyers
        /\ \A i \in DOMAIN Lines(t) : Lines(t)[i].product \in Products
    BY <2>1, ReadyToCommit
  <2>3. balance[Call[t].buyer] \in Int
    BY <2>2 DEF Inv, TypeOK
  <2>4. Total(t) > balance[Call[t].buyer]
    BY <1>4, <2>2, <2>3 DEF HasFunds
  <2> QED BY <2>2, <2>4, SameAmounts DEF Atomic!Reason, Atomic!Known
<1> QED BY <1>2, <1>3, <1>4

LEMMA CommitCreates ==
  ASSUME Inv, NEW t \in Calls, Commit(t)
  PROVE  Atomic!Next
<1>1. pc[t] = "commit" /\ answer[t] = "none"
  BY DEF Commit, Inv, Progress
<1>2. /\ \A p \in Products : taken[t][p] = Demand(t, p)
      /\ total[t] = Total(t) /\ Call[t].buyer \in Buyers
      /\ \A i \in DOMAIN Lines(t) : Lines(t)[i].product \in Products
  BY <1>1, ReadyToCommit
<1>3. Atomic!Known(t)
  BY <1>2, SameAmounts DEF Atomic!Known
<1>4. Atomic!KeyFree(t)
  <2>1. Call[t].key \in Keys => keyOrder[Call[t].key] = None
    BY <1>1 DEF Inv, Covered, LocksKey, Open
  <2> QED BY <2>1, LineFacts DEF Atomic!KeyFree
<1>5. \A p \in Products : Atomic!Demand(t, p) <= stock[p]
  BY <1>2, SameAmounts DEF Inv, Covered
<1>6. Atomic!Total(t) <= balance[Call[t].buyer]
  BY <1>1, <1>2, SameAmounts DEF Inv, Covered, LocksBuyer
<1>7. /\ stock' = [p \in Products |-> stock[p] - Atomic!Demand(t, p)]
      /\ balance' = [balance EXCEPT ![Call[t].buyer] = balance[Call[t].buyer] - Atomic!Total(t)]
  BY <1>2, SameAmounts DEF Commit
<1>8. \E a \in {"created", "failed"} : answer' = [answer EXCEPT ![t] = a]
  BY DEF Commit
<1>9. Atomic!Create(t)
  BY <1>3, <1>4, <1>5, <1>6, <1>7, <1>8 DEF Commit, Atomic!Create
<1> QED BY <1>1, <1>9 DEF Atomic!Next

LEMMA StepIsAtomic ==
  ASSUME Inv, [Next]_vars
  PROVE  [Atomic!Next]_Atomic!vars
<1> USE DEF vars, tables, Atomic!vars
<1>1. CASE UNCHANGED vars
  BY <1>1
<1>2. ASSUME NEW t \in Calls, Fail(t) \/ BreakDeadlock(t)
      PROVE  Atomic!Next
  <2>1. Ends(t, "failed", None)
    BY <1>2 DEF Fail, BreakDeadlock
  <2>2. pc[t] # "done"
    BY <1>2 DEF Fail, BreakDeadlock, Waiting, WaitsFor, Open
  <2> QED BY <2>1, <2>2, EndsRefuses DEF Answers, Atomic!Reason
<1>3. ASSUME NEW t \in Calls, Begin(t)
      PROVE  [Atomic!Next]_Atomic!vars
  <2>1. CASE Call[t].buyer \in Buyers
    BY <1>3, <2>1 DEF Begin
  <2>2. CASE Call[t].buyer \notin Buyers
    <3>1. Ends(t, "unknown_buyer", None) /\ pc[t] # "done"
      BY <1>3, <2>2 DEF Begin
    <3> QED BY <2>2, <3>1, EndsRefuses DEF Answers, Atomic!Reason
  <2> QED BY <2>1, <2>2
<1>4. ASSUME NEW t \in Calls, ClaimKey(t)
      PROVE  [Atomic!Next]_Atomic!vars
  <2> DEFINE k == Call[t].key
  <2>1. pc[t] = "claim" /\ k \in Keys
    BY <1>4 DEF ClaimKey, Inv, Progress
  <2>2. CASE keyOrder[k] = None
    BY <1>4, <2>2 DEF ClaimKey
  <2>3. CASE keyOrder[k] # None
    <3>1. ~ Atomic!KeyFree(t)
      BY <2>1, <2>3, CallsAssumption DEF Atomic!KeyFree
    <3>2. Atomic!SameBody(t, keyOrder[k]) <=> SameBody(t, keyOrder[k])
      BY DEF Atomic!SameBody, SameBody, Atomic!Lines, Lines
    <3>3. CASE SameBody(t, keyOrder[k])
      <4>1. Ends(t, "replayed", keyOrder[k])
        BY <1>4, <2>3, <3>3 DEF ClaimKey
      <4> QED BY <2>1, <3>1, <3>2, <3>3, <4>1, EndsRefuses DEF Answers, Atomic!Reason
    <3>4. CASE ~ SameBody(t, keyOrder[k])
      <4>1. Ends(t, "key_reuse", None)
        BY <1>4, <2>3, <3>4 DEF ClaimKey
      <4> QED BY <2>1, <3>1, <3>2, <3>4, <4>1, EndsRefuses DEF Answers, Atomic!Reason
    <3> QED BY <3>3, <3>4
  <2> QED BY <2>2, <2>3
<1>5. ASSUME NEW t \in Calls, TakeLine(t)
      PROVE  [Atomic!Next]_Atomic!vars
  <2>1. pc[t] # "done"
    BY <1>5 DEF TakeLine
  <2>2. CASE NextLine(t).product \notin Products
    <3>1. Ends(t, "unknown_product", None)
      BY <1>5, <2>2 DEF TakeLine
    <3> QED BY <1>5, <2>1, <2>2, <3>1, EndsRefuses, RefusalsAreTrue DEF Answers
  <2>3. CASE NextLine(t).product \in Products /\ ~ InStock(t)
    <3>1. Ends(t, "out_of_stock", None)
      BY <1>5, <2>3 DEF TakeLine
    <3> QED BY <1>5, <2>1, <2>3, <3>1, EndsRefuses, RefusalsAreTrue DEF Answers
  <2>4. CASE NextLine(t).product \in Products /\ InStock(t)
    BY <1>5, <2>4 DEF TakeLine
  <2> QED BY <2>2, <2>3, <2>4
<1>6. ASSUME NEW t \in Calls, Pay(t)
      PROVE  [Atomic!Next]_Atomic!vars
  <2>1. CASE ~ HasFunds(t)
    <3>1. Ends(t, "insufficient_funds", None) /\ pc[t] # "done"
      BY <1>6, <2>1 DEF Pay
    <3> QED BY <1>6, <2>1, <3>1, EndsRefuses, RefusalsAreTrue DEF Answers
  <2>2. CASE HasFunds(t)
    BY <1>6, <2>2 DEF Pay
  <2> QED BY <2>1, <2>2
<1>7. ASSUME NEW t \in Calls, Save(t)
      PROVE  [Atomic!Next]_Atomic!vars
  <2>1. CASE RepeatsProduct(t)
    <3>1. Ends(t, "failed", None) /\ pc[t] # "done"
      BY <1>7, <2>1 DEF Save
    <3> QED BY <3>1, EndsRefuses DEF Answers, Atomic!Reason
  <2>2. CASE ~ RepeatsProduct(t)
    BY <1>7, <2>2 DEF Save
  <2> QED BY <2>1, <2>2
<1> QED BY <1>1, <1>2, <1>3, <1>4, <1>5, <1>6, <1>7, CommitCreates DEF Next, Proceed

\* Every interleaving of checkouts amounts to checkouts done one at a time:
\* each takes effect when it commits or when it is refused, and a refusal gives
\* a reason that holds at that instant.
THEOREM ChecksOut == Spec => ChecksOutAtomically
<1>1. Init => Atomic!Init
  BY DEF Init, Atomic!Init
<1>2. Inv /\ [Next]_vars => [Atomic!Next]_Atomic!vars
  BY StepIsAtomic
<1> QED BY <1>1, <1>2, InvHolds, PTL DEF Spec, ChecksOutAtomically, Atomic!Spec

-----------------------------------------------------------------------------
(* No call hangs.  What the run asks with ENABLED is here the guard of a   *)
(* step: the row a call needs is free, or its waiting is a circle.         *)

InCircle(t) == \E S \in SUBSET Waiting : t \in S /\ Deadlocked(S)

CanGoOn(t) ==
  \/ pc[t] = "claim" /\ \A u \in Calls : ~ LocksKey(u, Call[t].key)
  \/ /\ pc[t] = "lines"
     /\ \/ NextLine(t).product \notin Products
        \/ ~ InStock(t)
        \/ \A u \in Calls \ {t} : ~ LocksProduct(u, NextLine(t).product)
  \/ /\ pc[t] = "pay"
     /\ ~ HasFunds(t) \/ \A u \in Calls \ {t} : ~ LocksBuyer(u, Call[t].buyer)
  \/ pc[t] \in {"save", "commit"}
  \/ InCircle(t)

SomeoneCanGoOn == (\E t \in Calls : Open(t)) => \E t \in Calls : CanGoOn(t)

\* Only finitely many calls are open at a time, however many there are.
OpenCalls == {t \in Calls : Open(t)}

\* Who can not go on waits for another open call.
LEMMA WaitsForOpen ==
  ASSUME Inv, NEW t \in OpenCalls, ~ CanGoOn(t)
  PROVE  \E u \in OpenCalls : WaitsFor(t, u)
<1>1. pc[t] \in Steps /\ Open(t) /\ t \in Calls
  BY DEF OpenCalls, Inv, TypeOK
<1>2. CASE pc[t] = "claim"
  <2>1. PICK u \in Calls : LocksKey(u, Call[t].key)
    BY <1>2 DEF CanGoOn
  <2>2. Open(u) /\ u # t
    BY <1>2, <2>1 DEF LocksKey
  <2> QED BY <1>2, <2>1, <2>2 DEF WaitsFor, OpenCalls
<1>3. CASE pc[t] = "lines"
  <2>1. /\ NextLine(t).product \in Products /\ InStock(t)
        /\ \E u \in Calls \ {t} : LocksProduct(u, NextLine(t).product)
    BY <1>3 DEF CanGoOn
  <2>2. PICK u \in Calls \ {t} : LocksProduct(u, NextLine(t).product)
    BY <2>1
  <2>3. ASSUME ~ Open(u) PROVE FALSE
    <3> DEFINE p == NextLine(t).product
    <3>1. line[u] = 0
      BY <2>3, <1>1 DEF Inv, Progress, Open, TypeOK
    <3>2. LinesFor(u, line[u], p) = {}
      BY <3>1 DEF LinesFor
    <3>3. taken[u][p] = SumFunctionOnSet(Units(u), {})
      BY <2>1, <3>2 DEF Inv, Sums
    <3> QED BY <2>2, <3>3, SumEmpty DEF LocksProduct
  <2> QED BY <1>1, <1>3, <2>1, <2>2, <2>3 DEF WaitsFor, OpenCalls
<1>4. CASE pc[t] = "pay"
  <2>1. PICK u \in Calls \ {t} : LocksBuyer(u, Call[t].buyer)
    BY <1>4 DEF CanGoOn
  <2>2. HasFunds(t) /\ Open(u)
    BY <1>4, <2>1 DEF CanGoOn, LocksBuyer, Open
  <2> QED BY <1>1, <1>4, <2>1, <2>2 DEF WaitsFor, OpenCalls
<1>5. CASE pc[t] \in {"save", "commit"}
  BY <1>5 DEF CanGoOn
<1> QED BY <1>1, <1>2, <1>3, <1>4, <1>5 DEF Open, Steps

\* So if nobody could go on, the smallest set of open calls that wait for one
\* another would be a circle, and the detector would see it.
LEMMA CircleOrProgress ==
  ASSUME Inv, IsFiniteSet(OpenCalls)
  PROVE  SomeoneCanGoOn
<1> SUFFICES ASSUME OpenCalls # {}, \A t \in Calls : ~ CanGoOn(t)
             PROVE  FALSE
  BY DEF SomeoneCanGoOn, OpenCalls
<1> DEFINE Waits(T) == \A t \in T : \E u \in T : WaitsFor(t, u)
           F == {T \in SUBSET OpenCalls : T # {} /\ Waits(T)}
<1>1. OpenCalls \in F
  BY WaitsForOpen DEF OpenCalls
<1>2. PICK T \in F : \A U \in F : U \subseteq T => U = T
  <2>1. F \in SUBSET (SUBSET OpenCalls) /\ F # {}
    BY <1>1
  <2> HIDE DEF F
  <2> QED BY <2>1, LeastSubset
<1>3. ASSUME NEW t \in T
      PROVE  \E u \in T : WaitsFor(u, t)
  <2> SUFFICES ASSUME \A u \in T : ~ WaitsFor(u, t)
               PROVE  FALSE
    OBVIOUS
  <2>1. PICK v \in T : WaitsFor(t, v)
    BY <1>2
  <2>2. v \in T \ {t}
    BY <2>1 DEF WaitsFor
  <2>3. Waits(T \ {t})
    BY <1>2
  <2>4. T \ {t} \in F
    BY <1>2, <2>2, <2>3
  <2> QED BY <1>2, <2>4
<1>4. Deadlocked(T)
  BY <1>2, <1>3 DEF Deadlocked
<1>5. T \in SUBSET Waiting
  BY <1>2 DEF Waiting, OpenCalls
<1>6. PICK t \in T : TRUE
  BY <1>2
<1> QED BY <1>2, <1>4, <1>5, <1>6 DEF CanGoOn, InCircle, OpenCalls

LEMMA OpenStaysFinite ==
  ASSUME IsFiniteSet(OpenCalls), TypeOK, [Next]_vars
  PROVE  IsFiniteSet(OpenCalls)'
<1>1. CASE UNCHANGED vars
  BY <1>1 DEF vars, OpenCalls, Open
<1>2. CASE Next
  <2>1. PICK t \in Calls : Begin(t) \/ Proceed(t) \/ Fail(t)
    BY <1>2 DEF Next
  <2>2. \A u \in Calls \ {t} : pc'[u] = pc[u]
    BY <2>1 DEF TypeOK, Begin, Proceed, Fail, ClaimKey, TakeLine, Pay, Save, Commit, BreakDeadlock,
       Ends, Releases, Goto
  <2>3. OpenCalls' \subseteq OpenCalls \cup {t}
    BY <2>2 DEF OpenCalls, Open
  <2> QED BY <2>3, FS_AddElement, FS_Subset
<1> QED BY <1>1, <1>2

\* While a call is open some open call is not kept waiting by a lock, or waits
\* in a circle that the detector breaks: for any number of calls, products and
\* buyers, and whatever the order of the lines.
THEOREM NobodyHangs == Spec => []SomeoneCanGoOn
<1>1. Init => IsFiniteSet(OpenCalls)
  <2>1. Init => OpenCalls = {}
    BY DEF Init, OpenCalls, Open
  <2> QED BY <2>1, FS_EmptySet
<1>2. Inv /\ IsFiniteSet(OpenCalls) /\ [Next]_vars => IsFiniteSet(OpenCalls)'
  BY OpenStaysFinite DEF Inv
<1>3. Inv /\ IsFiniteSet(OpenCalls) => SomeoneCanGoOn
  BY CircleOrProgress
<1> QED BY <1>1, <1>2, <1>3, InvHolds, PTL DEF Spec

\* The statements a call has still to make, at most.
StepsLeft(t) ==
  IF pc[t] = "idle" THEN Len(Lines(t)) + 5
  ELSE IF pc[t] = "claim" THEN Len(Lines(t)) + 4
  ELSE IF pc[t] = "lines" THEN Len(Lines(t)) - line[t] + 3
  ELSE [s \in {"pay", "save", "commit", "done"} |->
          IF s = "pay" THEN 3 ELSE IF s = "save" THEN 2 ELSE IF s = "commit" THEN 1 ELSE 0][pc[t]]

\* No call goes back, and what one does costs no other a step.
LeavesFewer ==
  \E t \in Calls : /\ StepsLeft(t) \in Nat /\ StepsLeft(t)' \in Nat
                   /\ StepsLeft(t)' < StepsLeft(t)
                   /\ \A u \in Calls \ {t} : StepsLeft(u)' = StepsLeft(u)

StepsRunOut == [][LeavesFewer]_vars

LEMMA CallMoves ==
  ASSUME Inv, NEW t \in Calls, Begin(t) \/ Proceed(t) \/ Fail(t)
  PROVE  \/ pc[t] # "done" /\ pc'[t] = "done"
         \/ pc[t] = "idle" /\ pc'[t] \in {"claim", "lines"} /\ line'[t] = 0
         \/ pc[t] = "claim" /\ pc'[t] = "lines" /\ line'[t] = 0
         \/ pc[t] = "lines" /\ pc'[t] \in {"lines", "pay"} /\ line'[t] = line[t] + 1
         \/ pc[t] = "pay" /\ pc'[t] = "save"
         \/ pc[t] = "save" /\ pc'[t] = "commit"
<1>1. /\ pc \in [Calls -> Steps] /\ line \in [Calls -> Nat]
      /\ pc[t] \in {"idle", "claim"} => line[t] = 0
  BY DEF Inv, TypeOK, Progress
<1>2. ASSUME NEW a, NEW o, Ends(t, a, o), pc[t] # "done"
      PROVE  pc[t] # "done" /\ pc'[t] = "done"
  BY <1>1, <1>2 DEF Ends, Releases, Goto
<1>3. CASE Begin(t)
  BY <1>1, <1>2, <1>3 DEF Begin, Goto, work
<1>4. CASE ClaimKey(t)
  BY <1>1, <1>2, <1>4 DEF ClaimKey, Goto, work
<1>5. CASE TakeLine(t)
  BY <1>1, <1>2, <1>5 DEF TakeLine, Goto
<1>6. CASE Pay(t) \/ Save(t)
  BY <1>1, <1>2, <1>6 DEF Pay, Save, Goto
<1>7. CASE Commit(t)
  BY <1>1, <1>7 DEF Commit, Releases, Goto
<1>8. CASE Fail(t) \/ BreakDeadlock(t)
  BY <1>1, <1>2, <1>8 DEF Fail, BreakDeadlock, Open, Waiting, WaitsFor
<1> QED BY <1>3, <1>4, <1>5, <1>6, <1>7, <1>8 DEF Proceed

\* A transaction has finitely many steps: with NobodyHangs, every call ends.
THEOREM CallsRunOut == Spec => StepsRunOut
<1>1. ASSUME Inv, Inv', Next
      PROVE  LeavesFewer
  <2>1. PICK t \in Calls : Begin(t) \/ Proceed(t) \/ Fail(t)
    BY <1>1 DEF Next
  <2>2. \A u \in Calls \ {t} : pc'[u] = pc[u] /\ line'[u] = line[u]
    <3>1. pc \in [Calls -> Steps] /\ line \in [Calls -> Nat]
      BY <1>1 DEF Inv, TypeOK
    <3> QED BY <2>1, <3>1 DEF Begin, Proceed, Fail, ClaimKey, TakeLine, Pay, Save, Commit,
         BreakDeadlock, Ends, Releases, Goto, work
  <2>3. \A u \in Calls \ {t} : StepsLeft(u)' = StepsLeft(u)
    BY <2>2 DEF StepsLeft
  <2>4. PICK l : l = Len(Lines(t))
    OBVIOUS
  <2>5. l \in Nat \ {0}
    BY <2>4, LineFacts
  <2>6. /\ pc[t] \in Steps /\ line[t] \in Nat /\ line[t] <= l
        /\ pc'[t] \in Steps /\ line'[t] \in Nat /\ line'[t] <= l
        /\ pc[t] = "lines" => line[t] < l
        /\ pc'[t] = "lines" => line'[t] < l
    BY <1>1, <2>4 DEF Inv, TypeOK, Progress
  <2>7. /\ pc[t] = "idle" => StepsLeft(t) = l + 5
        /\ pc[t] = "claim" => StepsLeft(t) = l + 4
        /\ pc[t] = "lines" => StepsLeft(t) = l - line[t] + 3
        /\ pc[t] = "pay" => StepsLeft(t) = 3
        /\ pc[t] = "save" => StepsLeft(t) = 2
        /\ pc[t] = "commit" => StepsLeft(t) = 1
        /\ pc[t] = "done" => StepsLeft(t) = 0
    BY <2>4 DEF StepsLeft
  <2>8. /\ pc'[t] = "idle" => StepsLeft(t)' = l + 5
        /\ pc'[t] = "claim" => StepsLeft(t)' = l + 4
        /\ pc'[t] = "lines" => StepsLeft(t)' = l - line'[t] + 3
        /\ pc'[t] = "pay" => StepsLeft(t)' = 3
        /\ pc'[t] = "save" => StepsLeft(t)' = 2
        /\ pc'[t] = "commit" => StepsLeft(t)' = 1
        /\ pc'[t] = "done" => StepsLeft(t)' = 0
    BY <2>4 DEF StepsLeft
  <2>9. /\ StepsLeft(t) \in Nat /\ StepsLeft(t)' \in Nat
        /\ StepsLeft(t)' < StepsLeft(t)
    <3> HIDE DEF StepsLeft
    <3> QED BY <1>1, <2>1, <2>5, <2>6, <2>7, <2>8, CallMoves DEF Steps
  <2> QED BY <2>3, <2>9 DEF LeavesFewer
<1>2. Inv /\ Inv' /\ [Next]_vars => [LeavesFewer]_vars
  BY <1>1
<1> QED BY <1>2, InvHolds, PTL DEF Spec, StepsRunOut

=============================================================================
