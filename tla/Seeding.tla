------------------------------- MODULE Seeding -------------------------------
(***************************************************************************)
(* seed.ts: it looks for every row by its natural key and inserts what it  *)
(* does not find, one row after the other and each in a transaction of its *)
(* own.  It may be killed, run again, and run twice at once, while orders  *)
(* are deleted and buyers spend.  Only users have a unique index.          *)
(***************************************************************************)
EXTENDS Naturals

CONSTANTS
  Seeds,                     \* processes of seed.ts
  NUsers, NProducts, NOrders,  \* lengths of its lists
  MaxStarts, MaxDeletes      \* bounds, for model checking

\* Products have sellers, so there are users.
ListsAssumption == NUsers \in Nat \ {0} /\ NProducts \in Nat /\ NOrders \in Nat
BoundsAssumption == MaxStarts \in Nat /\ MaxDeletes \in Nat

VARIABLES
  count,       \* how many rows each natural key has
  short,       \* users whose balance is below 100 000 000
  reached,          \* the row a seed has reached, 0 when it does not run
  doing,        \* whether it looks for the row, or inserts or raises it
  starts, deletes,
  overlapped,  \* history variable: two seeds have run at once
  gone         \* history variable: rows deleted while a seed runs

seedVars == <<count, short, reached, doing, starts, deletes, overlapped, gone>>

Users == 1 .. NUsers
SeedOrders == NUsers + NProducts + 1 .. NUsers + NProducts + NOrders
Rows == 1 .. NUsers + NProducts + NOrders

TypeOK ==
  /\ count \in [Rows -> 0 .. MaxStarts]
  /\ short \subseteq Users
  /\ reached \in [Seeds -> {0} \cup Rows]
  /\ doing \in [Seeds -> {"look", "insert", "raise"}]
  /\ starts \in 0 .. MaxStarts /\ deletes \in 0 .. MaxDeletes
  /\ overlapped \in BOOLEAN
  /\ gone \in [Seeds -> SUBSET Rows]

Init ==
  /\ count = [i \in Rows |-> 0]
  /\ short = {}
  /\ reached = [r \in Seeds |-> 0]
  /\ doing = [r \in Seeds |-> "look"]
  /\ starts = 0 /\ deletes = 0
  /\ overlapped = FALSE
  /\ gone = [r \in Seeds |-> {}]

Runs(r) == reached[r] # 0

Start(r) ==
  /\ ~ Runs(r) /\ starts < MaxStarts
  /\ starts' = starts + 1
  /\ reached' = [reached EXCEPT ![r] = 1]
  /\ overlapped' = (overlapped \/ \E q \in Seeds : Runs(q))
  /\ gone' = [gone EXCEPT ![r] = {}]
  /\ UNCHANGED <<count, short, doing, deletes>>

\* On to the next row, or to the end of the program.
Advance(r) ==
  /\ reached' = [reached EXCEPT ![r] = IF @ + 1 \in Rows THEN @ + 1 ELSE 0]
  /\ doing' = [doing EXCEPT ![r] = "look"]

Do(r, s) == doing' = [doing EXCEPT ![r] = s] /\ UNCHANGED reached

\* As it would be, in the words of the comment on SEED_ORDERS, "counting
\* '>= 10' and inserting again".
FoundByNumber(i) ==
  IF i \in SeedOrders THEN \A j \in SeedOrders : count[j] > 0 ELSE count[i] > 0

\* findOne by email, by name and seller, by email and created_at.
Found(i) == count[i] > 0

Look(r) ==
  /\ Runs(r) /\ doing[r] = "look"
  /\ IF ~ Found(reached[r]) THEN Do(r, "insert")
     ELSE IF reached[r] \in short THEN Do(r, "raise")
     ELSE Advance(r)
  /\ UNCHANGED <<count, short, starts, deletes, overlapped, gone>>

Exits(r) ==
  /\ reached' = [reached EXCEPT ![r] = 0]
  /\ doing' = [doing EXCEPT ![r] = "look"]

\* save() of a new row; the unique index refuses a second user.
Insert(r) ==
  /\ Runs(r) /\ doing[r] = "insert"
  /\ IF reached[r] \in Users /\ count[reached[r]] > 0
     THEN Exits(r) /\ UNCHANGED count
     ELSE Advance(r) /\ count' = [count EXCEPT ![reached[r]] = @ + 1]
  /\ UNCHANGED <<short, starts, deletes, overlapped, gone>>

Raise(r) ==
  /\ Runs(r) /\ doing[r] = "raise"
  /\ short' = short \ {reached[r]}
  /\ Advance(r)
  /\ UNCHANGED <<count, starts, deletes, overlapped, gone>>

Kill(r) ==
  /\ Runs(r)
  /\ Exits(r)
  /\ UNCHANGED <<count, short, starts, deletes, overlapped, gone>>

\* A checkout.
Spend(i) ==
  /\ count[i] > 0 /\ i \notin short
  /\ short' = short \cup {i}
  /\ UNCHANGED <<count, reached, doing, starts, deletes, overlapped, gone>>

\* "someone deletes a single order"
Delete(i) ==
  /\ deletes < MaxDeletes /\ count[i] > 0
  /\ deletes' = deletes + 1
  /\ count' = [count EXCEPT ![i] = @ - 1]
  /\ gone' = [r \in Seeds |-> IF Runs(r) THEN gone[r] \cup {i} ELSE gone[r]]
  /\ UNCHANGED <<short, reached, doing, starts, overlapped>>

Next ==
  \/ \E r \in Seeds : Start(r) \/ Look(r) \/ Insert(r) \/ Raise(r) \/ Kill(r)
  \/ \E i \in Users : Spend(i)
  \/ \E i \in SeedOrders : Delete(i)

Spec == Init /\ [][Next]_seedVars

-----------------------------------------------------------------------------
(* Properties.                                                             *)

\* Killed anywhere and run again, seed.ts completes what is missing and
\* repeats nothing.  Two of them at once may insert a product or an order
\* twice, never a user; and what one has passed is there.
SeedConverges ==
  /\ \A i \in Rows : ~ overlapped \/ i \in Users => count[i] <= 1
  /\ \A r \in Seeds : \A i \in Rows : i < reached[r] => count[i] > 0 \/ i \in gone[r]

==============================================================================
