------------------------- MODULE OrderPipelineProofs -------------------------
(***************************************************************************)
(* Proofs about OrderPipeline, for every value of its constants.           *)
(*                                                                         *)
(* The inductive invariant has one part per group of variables.  For each  *)
(* part a lemma says which changes of the other variables leave it alone,  *)
(* and one lemma per action that does disturb it proves it again.          *)
(***************************************************************************)
EXTENDS OrderPipeline, TLAPS

USE OrdersAssumption, BoundsAssumption, NamesAssumption

\* The relay: attempts has counted every publish that was begun, one not yet
\* begun is nowhere in the broker, and no two claim transactions hold a lock
\* on the same row.
ClaimsCount ==
  \A r \in Relays : \A e \in batch[r] :
    /\ rstep[r] = "claiming" => e[2] = attempts[e[1]] + 1
    /\ rstep[r] # "claiming" => e[2] <= attempts[e[1]]

ClaimsDisjoint ==
  \A r, q \in Relays :
    r # q /\ rstep[r] = "claiming" /\ rstep[q] = "claiming" =>
      OrdersIn(batch[r]) \cap OrdersIn(batch[q]) = {}

\* No publish is in two batches, and no row is twice in one batch.
PublishesUnique ==
  /\ \A r, q \in Relays : r # q => batch[r] \cap batch[q] = {}
  /\ \A r \in Relays : \A e, f \in batch[r] : e[1] = f[1] => e = f

BegunCounted == \A e \in Events : where[e] # "none" => e[2] <= attempts[e[1]]

UnsentNowhere ==
  \A r \in Relays : \A e \in batch[r] :
    rstep[r] = "holding" \/ ~ First(r, e) => where[e] = "none"

ConfirmedAccepted ==
  \A r \in Relays : \A e \in batch[r] :
    rstep[r] = "confirmed" /\ First(r, e) => Accepted(e)

RelayInv == /\ ClaimsCount /\ ClaimsDisjoint /\ PublishesUnique
            /\ BegunCounted /\ UnsentNowhere /\ ConfirmedAccepted

\* The work queue: only a dead-lettered message is over the delivery limit.
QueueInv ==
  /\ \A m \in Messages : where[m] # "dlq" => returns[m] <= DeliveryLimit
  /\ \A e \in Events : where[e] = "dlq" => returns[e] > DeliveryLimit

\* The inbox: mark and effect stand or fall together; an open transaction that
\* has inserted the mark is the only one, and nobody has committed it before;
\* a handler whose channel is open still holds its delivery.
TaskInv(c) ==
  /\ task[c].step # "idle" => task[c].msg \in Events
  /\ task[c].step \in {"marked", "effected"} => OrderOf(c) \notin processed
  /\ task[c].step \in {"skipping", "committed"} => OrderOf(c) \in processed
  /\ task[c].step # "idle" /\ session[c] = "open" => where[task[c].msg] = c
  /\ session[c] \in {"opening", "closing"} => task[c] = NoTask

OneMark ==
  \A c, d \in Consumers :
    /\ c # d
    /\ task[c].step \in {"marked", "effected"}
    /\ task[d].step \in {"marked", "effected"}
    => OrderOf(c) # OrderOf(d)

InboxInv ==
  /\ processed = effects
  /\ \A o \in Orders : applied[o] = IF o \in effects THEN 1 ELSE 0
  /\ AckedMeansApplied
  /\ \A c \in Consumers : TaskInv(c)
  /\ OneMark

Inv == TypeOK /\ RelayInv /\ QueueInv /\ PublishedMeansConfirmed /\ InboxInv

LEMMA EventFacts == \A e \in Events : /\ e[1] \in Orders
                                      /\ e[2] \in 1 .. MaxAttempts
                                      /\ e \in Messages
                                      /\ e = <<e[1], e[2]>>
BY DEF Events, Messages

LEMMA InitHolds == Init => Inv
<1>. SUFFICES ASSUME Init PROVE Inv
  OBVIOUS
<1>1. TypeOK
  BY DEF Init, TypeOK, DbType, InboxType, BrokerType, RelayType, ConsumerType,
         OutboxStates, RelaySteps, TaskSteps, NoTask, Places, Messages
<1>2. RelayInv
  BY EventFacts DEF Init, RelayInv, ClaimsCount, ClaimsDisjoint, PublishesUnique,
         BegunCounted, UnsentNowhere, ConfirmedAccepted
<1>3. QueueInv
  BY EventFacts DEF Init, QueueInv
<1>4. PublishedMeansConfirmed
  BY DEF Init, PublishedMeansConfirmed
<1>5. InboxInv
  BY EventFacts DEF Init, InboxInv, AckedMeansApplied, TaskInv, OneMark, NoTask
<1>. QED
  BY <1>1, <1>2, <1>3, <1>4, <1>5 DEF Inv

-----------------------------------------------------------------------------
(* The relay's part.                                                       *)

\* What the other processes may do to the broker without disturbing it: move
\* a message on, never back to "none" nor to "lost" once it is accepted.
Moves ==
  \A e \in Events : /\ where'[e] = "none" <=> where[e] = "none"
                    /\ Accepted(e) => Accepted(e)'

LEMMA RelayFrame ==
  ASSUME TypeOK, RelayInv, Moves, UNCHANGED <<attempts, rstep, batch>>
  PROVE  RelayInv'
<1>1. ClaimsCount' /\ ClaimsDisjoint' /\ PublishesUnique'
  BY DEF RelayInv, ClaimsCount, ClaimsDisjoint, PublishesUnique
<1>2. \A r \in Relays, e \in Events : First(r, e)' <=> First(r, e)
  BY DEF First
<1>3. BegunCounted' /\ UnsentNowhere' /\ ConfirmedAccepted'
  BY <1>2 DEF RelayInv, BegunCounted, UnsentNowhere, ConfirmedAccepted, Moves,
     TypeOK, RelayType
<1>. QED
  BY <1>1, <1>3 DEF RelayInv

LEMMA LockRowsRelay ==
  ASSUME TypeOK, RelayInv, NEW r \in Relays, LockRows(r)
  PROVE  RelayType' /\ RelayInv'
<1>1. PICK S \in SUBSET Claimable :
        /\ \A o \in S : attempts[o] < MaxAttempts
        /\ batch' = [batch EXCEPT ![r] = {<<o, attempts[o] + 1>> : o \in S}]
  BY DEF LockRows
<1>. DEFINE B == {<<o, attempts[o] + 1>> : o \in S}
<1>2. S \subseteq Orders /\ S \cap Locked = {}
  BY DEF Claimable
<1>3. \A o \in S : attempts[o] \in Nat /\ attempts[o] + 1 \in 1 .. MaxAttempts
  BY <1>1, <1>2 DEF TypeOK, DbType
<1>4. B \subseteq Events /\ OrdersIn(B) = S
  <2>1. B \subseteq Events
    BY <1>2, <1>3 DEF Events
  <2>2. \A o \in S : <<o, attempts[o] + 1>> \in B /\ <<o, attempts[o] + 1>>[1] = o
    OBVIOUS
  <2>3. \A e \in B : e[1] \in S
    OBVIOUS
  <2>. HIDE DEF B
  <2>4. OrdersIn(B) \subseteq S
    BY <2>3 DEF OrdersIn
  <2>5. S \subseteq OrdersIn(B)
    BY <2>2 DEF OrdersIn
  <2>. QED
    BY <2>1, <2>4, <2>5
<1>5. \A e \in B : e[1] \in S /\ e[2] = attempts[e[1]] + 1
  OBVIOUS
<1>6. /\ rstep' = [rstep EXCEPT ![r] = "claiming"]
      /\ UNCHANGED <<attempts, where>>
      /\ rstep \in [Relays -> RelaySteps] /\ batch \in [Relays -> SUBSET Events]
  BY DEF LockRows, dbVars, brokerVars, TypeOK, RelayType
<1>7. RelayType'
  BY <1>1, <1>4, <1>6 DEF RelayType, RelaySteps
<1>8. \A q \in Relays : /\ rstep'[q] = IF q = r THEN "claiming" ELSE rstep[q]
                        /\ batch'[q] = IF q = r THEN B ELSE batch[q]
  BY <1>1, <1>6
<1>9. ClaimsCount'
  <2>. SUFFICES ASSUME NEW q \in Relays, NEW e \in batch'[q]
                PROVE  /\ rstep'[q] = "claiming" => e[2] = attempts[e[1]] + 1
                       /\ rstep'[q] # "claiming" => e[2] <= attempts[e[1]]
    BY <1>6 DEF ClaimsCount
  <2>1. CASE q = r
    BY <1>5, <1>8, <2>1
  <2>2. CASE q # r
    <3>1. e \in batch[q] /\ rstep'[q] = rstep[q]
      BY <1>8, <2>2
    <3>. QED
      BY <3>1 DEF RelayInv, ClaimsCount
  <2>. QED
    BY <2>1, <2>2
<1>10. ClaimsDisjoint'
  <2>1. ASSUME NEW q \in Relays, rstep[q] = "claiming"
        PROVE  S \cap OrdersIn(batch[q]) = {}
    BY <1>2, <2>1 DEF Locked
  <2>. QED
    BY <1>4, <1>8, <2>1 DEF RelayInv, ClaimsDisjoint
<1>11. PublishesUnique'
  <2>1. ASSUME NEW q \in Relays, q # r  PROVE B \cap batch[q] = {}
    <3>. SUFFICES ASSUME NEW e \in B, e \in batch[q] PROVE FALSE
      OBVIOUS
    <3>1. CASE rstep[q] = "claiming"
      BY <1>2, <1>5, <3>1 DEF Locked, OrdersIn
    <3>2. CASE rstep[q] # "claiming"
      BY <1>3, <1>5, <3>2 DEF RelayInv, ClaimsCount
    <3>. QED
      BY <3>1, <3>2
  <2>2. \A e, f \in B : e[1] = f[1] => e = f
    OBVIOUS
  <2>. QED
    BY <1>8, <2>1, <2>2 DEF RelayInv, PublishesUnique
<1>12. BegunCounted'
  BY <1>6 DEF RelayInv, BegunCounted
<1>13. \A q \in Relays, e \in Events : q # r => (First(q, e)' <=> First(q, e))
  BY <1>8 DEF First
<1>14. \A e \in B : where[e] = "none"
  BY <1>3, <1>4, <1>5 DEF RelayInv, BegunCounted
<1>15. UnsentNowhere' /\ ConfirmedAccepted'
  BY <1>6, <1>8, <1>13, <1>14 DEF RelayInv, UnsentNowhere, ConfirmedAccepted, Accepted
<1>. QED
  BY <1>7, <1>9, <1>10, <1>11, <1>12, <1>15 DEF RelayInv

LEMMA CommitClaimRelay ==
  ASSUME TypeOK, RelayInv, NEW r \in Relays, CommitClaim(r)
  PROVE  attempts' \in [Orders -> 0 .. MaxAttempts] /\ RelayType' /\ RelayInv'
<1>1. /\ rstep[r] = "claiming"
      /\ rstep' = [rstep EXCEPT ![r] = "holding"]
      /\ batch' = batch /\ where' = where
      /\ rstep \in [Relays -> RelaySteps] /\ batch \in [Relays -> SUBSET Events]
  BY DEF CommitClaim, brokerVars, TypeOK, RelayType
<1>2. RelayType'
  BY <1>1 DEF RelayType, RelaySteps
<1>3. \A e \in batch[r] : /\ e[1] \in Orders /\ e[1] \in OrdersIn(batch[r])
                          /\ attempts'[e[1]] = attempts[e[1]] + 1
                          /\ e[2] = attempts'[e[1]]
  BY <1>1, EventFacts DEF CommitClaim, OrdersIn, RelayInv, ClaimsCount
<1>4. attempts' \in [Orders -> 0 .. MaxAttempts]
  <2>1. \A o \in OrdersIn(batch[r]) : attempts[o] + 1 \in 0 .. MaxAttempts
    BY <1>1, EventFacts DEF OrdersIn, RelayInv, ClaimsCount
  <2>. QED
    BY <2>1 DEF CommitClaim, TypeOK, DbType
<1>5. \A o \in Orders : /\ attempts[o] \in Nat /\ attempts'[o] \in Nat
                        /\ attempts[o] <= attempts'[o]
  <2>. SUFFICES ASSUME NEW o \in Orders
                PROVE  /\ attempts[o] \in Nat /\ attempts'[o] \in Nat
                       /\ attempts[o] <= attempts'[o]
    OBVIOUS
  <2>1. attempts[o] \in Nat
    BY BoundsAssumption DEF TypeOK, DbType
  <2>2. attempts'[o] = attempts[o] \/ attempts'[o] = attempts[o] + 1
    BY DEF CommitClaim
  <2>. QED
    BY <2>1, <2>2
<1>6. \A q \in Relays : rstep'[q] = IF q = r THEN "holding" ELSE rstep[q]
  BY <1>1
<1>7. ClaimsCount'
  <2>. SUFFICES ASSUME NEW q \in Relays, NEW e \in batch[q]
                PROVE  /\ rstep'[q] = "claiming" => e[2] = attempts'[e[1]] + 1
                       /\ rstep'[q] # "claiming" => e[2] <= attempts'[e[1]]
    BY <1>1 DEF ClaimsCount
  <2>1. e[1] \in Orders /\ e[2] \in Nat /\ e[1] \in OrdersIn(batch[q])
    BY <1>1, EventFacts DEF OrdersIn
  <2>2. CASE q = r
    BY <1>3, <1>6, <2>1, <2>2
  <2>3. CASE q # r /\ rstep[q] = "claiming"
    <3>1. e[1] \notin OrdersIn(batch[r])
      BY <1>1, <2>1, <2>3 DEF RelayInv, ClaimsDisjoint
    <3>2. attempts'[e[1]] = attempts[e[1]]
      BY <2>1, <3>1 DEF CommitClaim
    <3>. QED
      BY <1>6, <2>3, <3>2 DEF RelayInv, ClaimsCount
  <2>4. CASE q # r /\ rstep[q] # "claiming"
    <3>1. e[2] <= attempts[e[1]]
      BY <2>4 DEF RelayInv, ClaimsCount
    <3>2. /\ attempts[e[1]] \in Nat /\ attempts'[e[1]] \in Nat
          /\ attempts[e[1]] <= attempts'[e[1]]
      BY <1>5, <2>1
    <3>3. e[2] <= attempts'[e[1]]
      BY <2>1, <3>1, <3>2
    <3>4. rstep'[q] # "claiming"
      BY <1>6, <2>4
    <3>. QED
      BY <3>3, <3>4
  <2>. QED
    BY <2>2, <2>3, <2>4
<1>8. ClaimsDisjoint' /\ PublishesUnique'
  BY <1>1, <1>6 DEF RelayInv, ClaimsDisjoint, PublishesUnique
<1>9. BegunCounted'
  BY <1>1, <1>4, <1>5, EventFacts DEF RelayInv, BegunCounted, TypeOK, DbType
<1>10. \A q \in Relays, e \in Events : First(q, e)' <=> First(q, e)
  BY <1>1 DEF First
<1>11. \A e \in batch[r] : where[e] = "none"
  BY <1>1, EventFacts DEF RelayInv, ClaimsCount, BegunCounted, TypeOK, DbType
<1>12. UnsentNowhere' /\ ConfirmedAccepted'
  BY <1>1, <1>6, <1>10, <1>11 DEF RelayInv, UnsentNowhere, ConfirmedAccepted, Accepted
<1>. QED
  BY <1>2, <1>4, <1>7, <1>8, <1>9, <1>12 DEF RelayInv

\* At most one event of a batch comes first.
LEMMA FirstUnique ==
  ASSUME TypeOK, RelayInv, NEW r \in Relays, NEW e, NEW f, First(r, e), First(r, f)
  PROVE  e = f
<1>1. e \in batch[r] /\ f \in batch[r] /\ e \in Events /\ f \in Events
  BY DEF First, TypeOK, RelayType
<1>2. e[1] <= f[1] /\ f[1] <= e[1] /\ e[1] \in Nat /\ f[1] \in Nat
  BY <1>1, EventFacts DEF First
<1>. QED
  BY <1>1, <1>2 DEF RelayInv, PublishesUnique

LEMMA SendRelay ==
  ASSUME TypeOK, RelayInv, NEW r \in Relays, Send(r)
  PROVE  /\ RelayType' /\ RelayInv'
         /\ \E e \in Events : where[e] = "none" /\ where' = [where EXCEPT ![e] = "wire"]
<1>1. PICK e \in Events : First(r, e) /\ where' = [where EXCEPT ![e] = "wire"]
  BY DEF Send
<1>2. /\ rstep[r] = "holding"
      /\ rstep' = [rstep EXCEPT ![r] = "sent"]
      /\ batch' = batch /\ attempts' = attempts
      /\ rstep \in [Relays -> RelaySteps] /\ batch \in [Relays -> SUBSET Events]
      /\ where \in [Messages -> Places \cup Consumers]
  BY DEF Send, dbVars, TypeOK, RelayType, BrokerType
<1>3. where[e] = "none" /\ e \in batch[r] /\ e \in Messages
  BY <1>1, <1>2, EventFacts DEF First, RelayInv, UnsentNowhere
<1>4. RelayType'
  BY <1>2 DEF RelayType, RelaySteps
<1>5. \A q \in Relays : rstep'[q] = IF q = r THEN "sent" ELSE rstep[q]
  BY <1>2
<1>6. \A f \in Events : where'[f] = IF f = e THEN "wire" ELSE where[f]
  BY <1>1, <1>2, EventFacts
<1>7. ClaimsCount' /\ ClaimsDisjoint' /\ PublishesUnique'
  BY <1>2, <1>5 DEF RelayInv, ClaimsCount, ClaimsDisjoint, PublishesUnique
<1>8. BegunCounted'
  BY <1>2, <1>3, <1>6 DEF RelayInv, BegunCounted, ClaimsCount
<1>9. \A q \in Relays, f \in Events : First(q, f)' <=> First(q, f)
  BY <1>2 DEF First
<1>10. \A q \in Relays : q # r => e \notin batch[q]
  BY <1>3 DEF RelayInv, PublishesUnique
<1>11. UnsentNowhere'
  BY <1>1, <1>2, <1>5, <1>6, <1>9, <1>10 DEF RelayInv, UnsentNowhere
<1>12. ConfirmedAccepted'
  BY <1>2, <1>5, <1>6, <1>9, <1>10 DEF RelayInv, ConfirmedAccepted, Accepted
<1>. QED
  BY <1>1, <1>3, <1>4, <1>7, <1>8, <1>11, <1>12 DEF RelayInv

LEMMA ConfirmedRelay ==
  ASSUME TypeOK, RelayInv, NEW r \in Relays, Confirmed(r)
  PROVE  RelayType' /\ RelayInv'
<1>1. PICK e \in Events : First(r, e) /\ Accepted(e)
  BY DEF Confirmed, Accepted
<1>2. /\ rstep[r] = "sent"
      /\ rstep' = [rstep EXCEPT ![r] = "confirmed"]
      /\ batch' = batch /\ attempts' = attempts /\ where' = where
      /\ rstep \in [Relays -> RelaySteps] /\ batch \in [Relays -> SUBSET Events]
  BY DEF Confirmed, dbVars, brokerVars, TypeOK, RelayType
<1>3. RelayType'
  BY <1>2 DEF RelayType, RelaySteps
<1>4. \A q \in Relays : rstep'[q] = IF q = r THEN "confirmed" ELSE rstep[q]
  BY <1>2
<1>5. ClaimsCount' /\ ClaimsDisjoint' /\ PublishesUnique' /\ BegunCounted'
  BY <1>2, <1>4 DEF RelayInv, ClaimsCount, ClaimsDisjoint, PublishesUnique, BegunCounted
<1>6. \A q \in Relays, f \in Events : First(q, f)' <=> First(q, f)
  BY <1>2 DEF First
<1>7. UnsentNowhere'
  BY <1>2, <1>4, <1>6 DEF RelayInv, UnsentNowhere
<1>8. \A f \in batch[r] : First(r, f) => f = e
  BY <1>1, FirstUnique
<1>9. ConfirmedAccepted'
  BY <1>1, <1>2, <1>4, <1>6, <1>8 DEF RelayInv, ConfirmedAccepted, Accepted
<1>. QED
  BY <1>3, <1>5, <1>7, <1>9 DEF RelayInv

LEMMA MarkPublishedRelay ==
  ASSUME TypeOK, RelayInv, NEW r \in Relays, MarkPublished(r)
  PROVE  RelayType' /\ RelayInv'
<1>1. PICK e \in Events :
        /\ First(r, e)
        /\ batch' = [batch EXCEPT ![r] = @ \ {e}]
        /\ rstep' = [rstep EXCEPT ![r] = IF batch[r] = {e} THEN "idle" ELSE "holding"]
  BY DEF MarkPublished
<1>2. /\ rstep[r] = "confirmed"
      /\ attempts' = attempts /\ where' = where
      /\ rstep \in [Relays -> RelaySteps] /\ batch \in [Relays -> SUBSET Events]
  BY DEF MarkPublished, brokerVars, TypeOK, RelayType
<1>3. RelayType'
  BY <1>1, <1>2 DEF RelayType, RelaySteps
<1>4. \A q \in Relays :
        /\ q # r => rstep'[q] = rstep[q] /\ batch'[q] = batch[q]
        /\ batch'[q] \subseteq batch[q]
        /\ batch'[r] = batch[r] \ {e}
        /\ rstep'[r] \in {"idle", "holding"}
  BY <1>1, <1>2
<1>5. ClaimsCount' /\ PublishesUnique' /\ BegunCounted'
  BY <1>2, <1>4 DEF RelayInv, ClaimsCount, PublishesUnique, BegunCounted
<1>6. ClaimsDisjoint'
  BY <1>4 DEF RelayInv, ClaimsDisjoint
<1>7. \A q \in Relays, f \in Events : q # r => (First(q, f)' <=> First(q, f))
  BY <1>4 DEF First
<1>8. \A f \in batch'[r] : f \in Events /\ ~ First(r, f) /\ where[f] = "none"
  BY <1>1, <1>2, <1>4, FirstUnique DEF RelayInv, UnsentNowhere
<1>9. UnsentNowhere' /\ ConfirmedAccepted'
  BY <1>2, <1>3, <1>4, <1>7, <1>8 DEF RelayInv, UnsentNowhere, ConfirmedAccepted,
     Accepted, RelayType
<1>. QED
  BY <1>3, <1>5, <1>6, <1>9 DEF RelayInv

LEMMA AbandonRelay ==
  ASSUME TypeOK, RelayInv, NEW r \in Relays, Abandon(r)
  PROVE  RelayType' /\ RelayInv'
<1>1. /\ attempts' = attempts /\ where' = where
      /\ rstep' = [rstep EXCEPT ![r] = "idle"] /\ batch' = [batch EXCEPT ![r] = {}]
      /\ rstep \in [Relays -> RelaySteps] /\ batch \in [Relays -> SUBSET Events]
  BY DEF Abandon, dbVars, brokerVars, TypeOK, RelayType
<1>2. \A q \in Relays : /\ rstep'[q] = IF q = r THEN "idle" ELSE rstep[q]
                        /\ batch'[q] = IF q = r THEN {} ELSE batch[q]
  BY <1>1
<1>3. RelayType'
  BY <1>1 DEF RelayType, RelaySteps
<1>4. ClaimsCount' /\ ClaimsDisjoint' /\ PublishesUnique' /\ BegunCounted'
  BY <1>1, <1>2 DEF RelayInv, ClaimsCount, ClaimsDisjoint, PublishesUnique, BegunCounted
<1>5. \A q \in Relays, f \in Events : q # r => (First(q, f)' <=> First(q, f))
  BY <1>2 DEF First
<1>6. UnsentNowhere' /\ ConfirmedAccepted'
  BY <1>1, <1>2, <1>5 DEF RelayInv, UnsentNowhere, ConfirmedAccepted, Accepted
<1>. QED
  BY <1>3, <1>4, <1>6 DEF RelayInv

-----------------------------------------------------------------------------
(* What leaves each of the other parts alone.                              *)

LEMMA QueueFrame ==
  ASSUME QueueInv, UNCHANGED <<where, returns>>
  PROVE  QueueInv'
BY DEF QueueInv

LEMMA PublishedFrame ==
  ASSUME TypeOK, PublishedMeansConfirmed, Moves,
         attempts' \in [Orders -> 0 .. MaxAttempts],
         \A o \in Orders : attempts[o] <= attempts'[o],
         outbox' = outbox
  PROVE  PublishedMeansConfirmed'
<1>. SUFFICES ASSUME NEW o \in Orders, outbox[o] \in {"published", "purged"}
              PROVE  \E e \in Publishes(o) : e[2] <= attempts'[o] /\ Accepted(e)'
  BY DEF PublishedMeansConfirmed, Publishes
<1>1. PICK e \in Publishes(o) : e[2] <= attempts[o] /\ Accepted(e)
  BY DEF PublishedMeansConfirmed
<1>2. e \in Events /\ e[2] \in Nat /\ attempts[o] \in Nat /\ attempts'[o] \in Nat
  BY EventFacts DEF Publishes, TypeOK, DbType
<1>3. e[2] <= attempts'[o]
  BY <1>1, <1>2
<1>4. Accepted(e)'
  BY <1>1, <1>2 DEF Moves
<1>. QED
  BY <1>1, <1>3, <1>4

\* Held deliveries stay where they are and nothing is newly acknowledged.
HeldStay ==
  \A e \in Events : /\ where'[e] = "acked" => where[e] = "acked"
                    /\ \A c \in Consumers : where[e] = c => where'[e] = c

LEMMA InboxFrame ==
  ASSUME InboxInv, HeldStay, UNCHANGED <<inboxVars, consumerVars>>
  PROVE  InboxInv'
<1>1. /\ UNCHANGED <<processed, effects, applied, session, task>>
      /\ \A c \in Consumers : OrderOf(c)' = OrderOf(c)
  BY DEF inboxVars, consumerVars, OrderOf
<1>2. AckedMeansApplied'
  BY <1>1 DEF InboxInv, AckedMeansApplied, HeldStay
<1>3. \A c \in Consumers : TaskInv(c)'
  BY <1>1 DEF InboxInv, TaskInv, HeldStay
<1>4. OneMark'
  BY <1>1 DEF InboxInv, OneMark
<1>. QED
  BY <1>1, <1>2, <1>3, <1>4 DEF InboxInv

LEMMA SameWhere == ASSUME where' = where PROVE Moves /\ HeldStay
BY DEF Moves, HeldStay, Accepted

-----------------------------------------------------------------------------
(* The steps.                                                              *)

LEMMA PlaceStep ==
  ASSUME Inv, NEW o \in Orders, Place(o) \/ Purge(o)
  PROVE  Inv'
<1>1. /\ UNCHANGED <<attempts, inboxVars, brokerVars, relayVars, consumerVars, faults>>
      /\ UNCHANGED <<where, returns, rstep, batch>>
  BY DEF Place, Purge, brokerVars, relayVars
<1>2. TypeOK'
  BY <1>1 DEF Inv, TypeOK, DbType, InboxType, BrokerType, RelayType, ConsumerType,
     Place, Purge, OutboxStates, inboxVars, brokerVars, relayVars, consumerVars
<1>3. RelayInv' /\ QueueInv' /\ InboxInv'
  BY <1>1, SameWhere, RelayFrame, QueueFrame, InboxFrame DEF Inv
<1>4. PublishedMeansConfirmed'
  <2>1. \A p \in Orders : outbox'[p] \in {"published", "purged"} =>
                          outbox[p] \in {"published", "purged"}
    BY DEF Place, Purge, Inv, TypeOK, DbType
  <2>. QED
    BY <1>1, <2>1 DEF Inv, PublishedMeansConfirmed, Publishes, Accepted
<1>. QED
  BY <1>2, <1>3, <1>4 DEF Inv

LEMMA RelayStepInv ==
  ASSUME Inv, NEW r \in Relays, RelayStep(r) \/ RelayFails(r)
  PROVE  Inv'
<1>. USE DEF Inv
<1>1. CASE Send(r)
  <2>1. PICK e \in Events : where[e] = "none" /\ where' = [where EXCEPT ![e] = "wire"]
    BY <1>1, SendRelay
  <2>2. e \in Messages /\ where \in [Messages -> Places \cup Consumers]
    BY EventFacts DEF TypeOK, BrokerType
  <2>3. \A m \in Messages : where'[m] = IF m = e THEN "wire" ELSE where[m]
    BY <2>1, <2>2
  <2>4. RelayType' /\ RelayInv'
    BY <1>1, SendRelay
  <2>5. UNCHANGED <<binding, returns, dbVars, inboxVars, consumerVars, faults>>
    BY <1>1 DEF Send
  <2>6. TypeOK'
    BY <2>1, <2>2, <2>4, <2>5 DEF TypeOK, DbType, InboxType, BrokerType, ConsumerType,
       Places, dbVars, inboxVars, consumerVars
  <2>7. QueueInv'
    BY <2>1, <2>2, <2>3, <2>5, EventFacts DEF QueueInv
  <2>8. HeldStay /\ \A f \in Events : Accepted(f) => Accepted(f)'
    BY <2>1, <2>2, <2>3, EventFacts DEF HeldStay, Accepted, Places
  <2>9. PublishedMeansConfirmed'
    BY <2>5, <2>8 DEF PublishedMeansConfirmed, Publishes, dbVars
  <2>. QED
    BY <2>4, <2>5, <2>6, <2>7, <2>8, <2>9, InboxFrame
<1>2. CASE MarkPublished(r)
  <2>1. /\ RelayType' /\ RelayInv'
        /\ UNCHANGED <<orders, attempts, inboxVars, brokerVars, consumerVars, faults>>
    BY <1>2, MarkPublishedRelay DEF MarkPublished
  <2>2. PICK e \in Events :
          /\ First(r, e)
          /\ outbox' = [outbox EXCEPT ![e[1]] = IF @ = "unpublished" THEN "published" ELSE @]
    BY <1>2 DEF MarkPublished
  <2>3. TypeOK'
    BY <2>1, <2>2 DEF TypeOK, DbType, InboxType, BrokerType, ConsumerType, OutboxStates,
       inboxVars, brokerVars, consumerVars
  <2>4. Accepted(e) /\ e[2] <= attempts[e[1]] /\ e \in Publishes(e[1])
    BY <1>2, <2>2 DEF MarkPublished, RelayInv, ClaimsCount, ConfirmedAccepted, First, Publishes
  <2>5. \A o \in Orders : o # e[1] => outbox'[o] = outbox[o]
    BY <2>2 DEF TypeOK, DbType
  <2>6. PublishedMeansConfirmed'
    BY <2>1, <2>4, <2>5 DEF PublishedMeansConfirmed, Publishes, Accepted, brokerVars
  <2>7. QueueInv' /\ InboxInv'
    BY <2>1, SameWhere, QueueFrame, InboxFrame DEF brokerVars
  <2>. QED
    BY <2>1, <2>3, <2>6, <2>7
<1>3. CASE CommitClaim(r)
  <2>1. /\ RelayType' /\ RelayInv' /\ attempts' \in [Orders -> 0 .. MaxAttempts]
        /\ UNCHANGED <<orders, outbox, inboxVars, brokerVars, consumerVars, faults>>
    BY <1>3, CommitClaimRelay DEF CommitClaim
  <2>2. TypeOK'
    BY <2>1 DEF TypeOK, DbType, InboxType, BrokerType, ConsumerType,
       inboxVars, brokerVars, consumerVars
  <2>3. \A o \in Orders : attempts[o] <= attempts'[o]
    BY <1>3 DEF CommitClaim, TypeOK, DbType
  <2>. QED
    BY <2>1, <2>2, <2>3, SameWhere, PublishedFrame, QueueFrame, InboxFrame DEF brokerVars
<1>4. CASE LockRows(r) \/ Confirmed(r) \/ PublishRejected(r) \/ RelayFails(r)
  <2>1. /\ RelayType' /\ RelayInv' /\ faults' \in 0 .. MaxFaults
        /\ UNCHANGED <<dbVars, inboxVars, brokerVars, consumerVars>>
    BY <1>4, LockRowsRelay, ConfirmedRelay, AbandonRelay DEF LockRows, Confirmed,
       PublishRejected, RelayFails, Abandon, Fault, TypeOK
  <2>2. TypeOK'
    BY <2>1 DEF TypeOK, DbType, InboxType, BrokerType, ConsumerType,
       dbVars, inboxVars, brokerVars, consumerVars
  <2>3. PublishedMeansConfirmed'
    BY <2>1 DEF PublishedMeansConfirmed, Publishes, Accepted, dbVars, brokerVars
  <2>. QED
    BY <2>1, <2>2, <2>3, SameWhere, QueueFrame, InboxFrame DEF brokerVars
<1>. QED
  BY <1>1, <1>2, <1>3, <1>4 DEF RelayStep

LEMMA BrokerStep ==
  ASSUME Inv, NEW m \in Messages, Accept(m) \/ LoseMessage(m) \/ (m \in BadBodies /\ PublishBad(m))
  PROVE  Inv'
<1>. USE DEF Inv
<1>1. PICK w \in Places :
        /\ where' = [where EXCEPT ![m] = w]
        /\ w \notin {"none", "acked", "dlq"}
        /\ where[m] = "wire" \/ (m \in BadBodies /\ where[m] = "none")
  BY DEF Accept, LoseMessage, PublishBad, Places
<1>2. /\ UNCHANGED <<binding, returns, dbVars, inboxVars, relayVars, consumerVars>>
      /\ faults' \in 0 .. MaxFaults
  BY DEF Accept, LoseMessage, PublishBad, Fault, TypeOK
<1>3. where \in [Messages -> Places \cup Consumers]
  BY DEF TypeOK, BrokerType
<1>4. \A n \in Messages : where'[n] = IF n = m THEN w ELSE where[n]
  BY <1>1, <1>3
<1>5. TypeOK'
  BY <1>1, <1>2, <1>3 DEF TypeOK, DbType, InboxType, BrokerType, RelayType, ConsumerType,
     dbVars, inboxVars, relayVars, consumerVars
<1>6. Moves /\ HeldStay
  BY <1>1, <1>4, EventFacts DEF Moves, HeldStay, Accepted, Places
<1>7. RelayInv' /\ InboxInv'
  BY <1>2, <1>6, RelayFrame, InboxFrame DEF dbVars, relayVars
<1>8. PublishedMeansConfirmed'
  BY <1>2, <1>6 DEF PublishedMeansConfirmed, Publishes, Moves, dbVars
<1>9. QueueInv'
  BY <1>1, <1>2, <1>4, EventFacts DEF QueueInv
<1>. QED
  BY <1>5, <1>7, <1>8, <1>9

LEMMA OpenStep ==
  ASSUME Inv, NEW c \in Consumers, Open(c) \/ Bind(c)
  PROVE  Inv'
<1>. USE DEF Inv
<1>1. /\ UNCHANGED <<where, returns, task, dbVars, inboxVars, relayVars, faults>>
      /\ UNCHANGED <<attempts, outbox, rstep, batch, processed, effects, applied>>
      /\ task[c] = NoTask
  BY DEF Open, Bind, InboxInv, TaskInv, dbVars, inboxVars, relayVars
<1>2. TypeOK'
  BY <1>1 DEF Open, Bind, TypeOK, DbType, InboxType, BrokerType, RelayType, ConsumerType,
     dbVars, inboxVars, relayVars
<1>3. RelayInv' /\ QueueInv'
  BY <1>1, SameWhere, RelayFrame, QueueFrame
<1>4. PublishedMeansConfirmed'
  BY <1>1 DEF PublishedMeansConfirmed, Publishes, Accepted
<1>5. \A d \in Consumers : d # c => session'[d] = session[d]
  BY DEF Open, Bind, TypeOK, ConsumerType
<1>6. \A d \in Consumers : TaskInv(d)'
  BY <1>1, <1>5 DEF InboxInv, TaskInv, OrderOf, NoTask
<1>7. InboxInv'
  BY <1>1, <1>6 DEF InboxInv, AckedMeansApplied, OneMark, OrderOf
<1>. QED
  BY <1>2, <1>3, <1>4, <1>7

\* A message leaves the queue for a consumer, or a bad body for the DLQ.
LEMMA DeliverStep ==
  ASSUME Inv, NEW c \in Consumers, NEW m \in Messages, Deliver(c, m) \/ RejectBad(c, m)
  PROVE  Inv'
<1>. USE DEF Inv
<1>1. PICK w \in Consumers \cup {"dlq"} :
        /\ where' = [where EXCEPT ![m] = w]
        /\ \/ w \in Consumers /\ where[m] = "ready"
           \/ w = "dlq" /\ where[m] = c /\ m \in BadBodies
  BY DEF Deliver, RejectBad
<1>2. UNCHANGED <<binding, returns, dbVars, inboxVars, relayVars, consumerVars, faults>>
  BY DEF Deliver, RejectBad
<1>3. where \in [Messages -> Places \cup Consumers]
  BY DEF TypeOK, BrokerType
<1>4. \A n \in Messages : where'[n] = IF n = m THEN w ELSE where[n]
  BY <1>1, <1>3
<1>5. TypeOK'
  BY <1>1, <1>2, <1>3 DEF TypeOK, DbType, InboxType, BrokerType, RelayType, ConsumerType,
     dbVars, inboxVars, relayVars, consumerVars, Places
<1>6. \A e \in Events : e = m => w \in Consumers /\ where[e] = "ready"
  BY <1>1, EventFacts
<1>7. Moves /\ HeldStay
  BY <1>1, <1>4, <1>6, EventFacts DEF Moves, HeldStay, Accepted, Places
<1>8. RelayInv' /\ InboxInv'
  BY <1>2, <1>7, RelayFrame, InboxFrame DEF dbVars, relayVars
<1>9. PublishedMeansConfirmed'
  BY <1>2, <1>7 DEF PublishedMeansConfirmed, Publishes, Moves, dbVars
<1>10. QueueInv'
  BY <1>1, <1>2, <1>4, <1>6, EventFacts DEF QueueInv, Places
<1>. QED
  BY <1>5, <1>8, <1>9, <1>10

\* The steps of a handler that change nothing but its own task.
LEMMA TaskStep ==
  ASSUME Inv, NEW c \in Consumers,
         \/ InsertMark(c) \/ InsertEffect(c) \/ AckThrows(c)
         \/ \E m \in Messages : Begin(c, m)
  PROVE  Inv'
<1>. USE DEF Inv
<1>1. UNCHANGED <<session, dbVars, inboxVars, brokerVars, relayVars, faults>>
  BY DEF InsertMark, InsertEffect, AckThrows, Begin
<1>2. /\ UNCHANGED <<where, returns, attempts, outbox, rstep, batch>>
      /\ UNCHANGED <<processed, effects, applied>>
  BY <1>1 DEF dbVars, inboxVars, brokerVars, relayVars
<1>3. RelayInv' /\ QueueInv'
  BY <1>2, SameWhere, RelayFrame, QueueFrame
<1>4. PublishedMeansConfirmed'
  BY <1>2 DEF PublishedMeansConfirmed, Publishes, Accepted
<1>5. PICK t \in [step : TaskSteps, msg : Events \cup {<<0, 0>>}] :
        task' = [task EXCEPT ![c] = t]
  BY DEF InsertMark, InsertEffect, AckThrows, Begin, ToStep, NoTask, TaskSteps,
     TypeOK, ConsumerType
<1>6. TypeOK'
  BY <1>1, <1>5 DEF TypeOK, DbType, InboxType, BrokerType, RelayType, ConsumerType,
     dbVars, inboxVars, brokerVars, relayVars
<1>7. \A d \in Consumers : task'[d] = IF d = c THEN t ELSE task[d]
  BY <1>5 DEF TypeOK, ConsumerType
<1>8. TaskInv(c)'
  <2>1. CASE InsertMark(c)
    BY <1>2, <1>1, <2>1 DEF InsertMark, ToStep, InboxInv, TaskInv, OrderOf, NoTask, TypeOK, ConsumerType
  <2>2. CASE InsertEffect(c)
    BY <1>2, <1>1, <2>2 DEF InsertEffect, ToStep, InboxInv, TaskInv, OrderOf, NoTask, TypeOK, ConsumerType
  <2>3. CASE AckThrows(c)
    BY <1>2, <1>1, <2>3 DEF AckThrows, InboxInv, TaskInv, NoTask, TypeOK, ConsumerType
  <2>4. CASE \E m \in Messages : Begin(c, m)
    BY <1>2, <1>1, <2>4 DEF Begin, InboxInv, TaskInv, NoTask, TypeOK, ConsumerType
  <2>. QED
    BY <2>1, <2>2, <2>3, <2>4
<1>9. \A d \in Consumers : d # c => TaskInv(d)'
  BY <1>1, <1>2, <1>7 DEF InboxInv, TaskInv, OrderOf
<1>10. ASSUME t.step \in {"marked", "effected"}, NEW d \in Consumers, d # c,
              task[d].step \in {"marked", "effected"}
       PROVE  t.msg[1] # OrderOf(d)
  <2>1. CASE InsertMark(c)
    BY <1>5, <1>7, <1>10, <2>1 DEF InsertMark, HoldsMark, ToStep, OrderOf, TypeOK, ConsumerType
  <2>2. CASE InsertEffect(c)
    BY <1>5, <1>7, <1>10, <2>2 DEF InsertEffect, ToStep, OrderOf, TypeOK, ConsumerType,
       InboxInv, OneMark
  <2>3. CASE AckThrows(c) \/ \E m \in Messages : Begin(c, m)
    BY <1>7, <1>10, <2>3 DEF AckThrows, Begin, NoTask, TypeOK, ConsumerType
  <2>. QED
    BY <2>1, <2>2, <2>3
<1>11. OneMark'
  BY <1>7, <1>10 DEF InboxInv, OneMark, OrderOf
<1>12. InboxInv'
  BY <1>2, <1>8, <1>9, <1>11 DEF InboxInv, AckedMeansApplied
<1>. QED
  BY <1>3, <1>4, <1>6, <1>12

LEMMA CommitTxStep ==
  ASSUME Inv, NEW c \in Consumers, CommitTx(c)
  PROVE  Inv'
<1>. USE DEF Inv
<1>. DEFINE o == OrderOf(c)
<1>1. /\ UNCHANGED <<session, dbVars, brokerVars, relayVars, faults>>
      /\ UNCHANGED <<where, returns, attempts, outbox, rstep, batch>>
  BY DEF CommitTx, dbVars, brokerVars, relayVars
<1>2. RelayInv' /\ QueueInv'
  BY <1>1, SameWhere, RelayFrame, QueueFrame
<1>3. PublishedMeansConfirmed'
  BY <1>1 DEF PublishedMeansConfirmed, Publishes, Accepted
<1>4. task[c].msg \in Events /\ o \in Orders
  BY EventFacts DEF CommitTx, InboxInv, TaskInv, OrderOf
<1>5. task' = [task EXCEPT ![c].step = "committed"]
  BY DEF CommitTx, ToStep
<1>6. TypeOK'
  <2>1. InboxType' /\ ConsumerType'
    BY <1>1, <1>4, <1>5 DEF CommitTx, TypeOK, InboxType, ConsumerType, TaskSteps
  <2>. QED
    BY <1>1, <2>1 DEF TypeOK, DbType, BrokerType, RelayType, dbVars, brokerVars, relayVars
<1>7. \A d \in Consumers : /\ task'[d].msg = task[d].msg
                           /\ d # c => task'[d] = task[d]
                           /\ OrderOf(d)' = OrderOf(d)
  BY <1>5 DEF TypeOK, ConsumerType, OrderOf
<1>8. task'[c].step = "committed"
  BY <1>5 DEF TypeOK, ConsumerType
<1>9. OneMark'
  BY <1>7, <1>8 DEF InboxInv, OneMark
<1>10. CASE task[c].step = "effected"
  <2>1. /\ processed' = processed \cup {o} /\ effects' = effects \cup {o}
        /\ applied' = [applied EXCEPT ![o] = @ + 1]
        /\ o \notin effects
    BY <1>10 DEF CommitTx, InboxInv, TaskInv
  <2>2. \A p \in Orders : applied'[p] = IF p \in effects' THEN 1 ELSE 0
    BY <1>4, <2>1 DEF InboxInv, TypeOK, InboxType
  <2>3. \A d \in Consumers : d # c => TaskInv(d)'
    BY <1>1, <1>7, <1>10, <2>1 DEF InboxInv, TaskInv, OneMark
  <2>4. TaskInv(c)'
    BY <1>1, <1>4, <1>7, <1>8, <1>10, <2>1 DEF InboxInv, TaskInv, NoTask, OrderOf
  <2>. QED
    BY <1>1, <1>2, <1>3, <1>6, <1>9, <2>1, <2>2, <2>3, <2>4 DEF InboxInv, AckedMeansApplied
<1>11. CASE task[c].step = "skipping"
  <2>1. UNCHANGED <<processed, effects, applied>> /\ o \in processed
    BY <1>11 DEF CommitTx, InboxInv, TaskInv
  <2>2. \A d \in Consumers : d # c => TaskInv(d)'
    BY <1>1, <1>7, <2>1 DEF InboxInv, TaskInv
  <2>3. TaskInv(c)'
    BY <1>1, <1>4, <1>7, <1>8, <1>11, <2>1 DEF InboxInv, TaskInv, NoTask
  <2>. QED
    BY <1>1, <1>2, <1>3, <1>6, <1>9, <2>1, <2>2, <2>3 DEF InboxInv, AckedMeansApplied
<1>. QED
  BY <1>10, <1>11 DEF CommitTx

LEMMA AckStep ==
  ASSUME Inv, NEW c \in Consumers, Ack(c)
  PROVE  Inv'
<1>. USE DEF Inv
<1>. DEFINE e == task[c].msg
<1>1. /\ task[c].step = "committed" /\ session[c] = "open"
      /\ where' = [where EXCEPT ![e] = "acked"]
      /\ task' = [task EXCEPT ![c] = NoTask]
      /\ UNCHANGED <<binding, returns, session, dbVars, inboxVars, relayVars, faults>>
      /\ UNCHANGED <<attempts, outbox, rstep, batch, processed, effects, applied>>
  BY DEF Ack, dbVars, inboxVars, relayVars
<1>2. e \in Events /\ e \in Messages /\ where[e] = c /\ e[1] \in effects
  BY <1>1, EventFacts DEF InboxInv, TaskInv, OrderOf
<1>3. \A n \in Messages : where'[n] = IF n = e THEN "acked" ELSE where[n]
  BY <1>1, <1>2 DEF TypeOK, BrokerType
<1>4. \A d \in Consumers : task'[d] = IF d = c THEN NoTask ELSE task[d]
  BY <1>1 DEF TypeOK, ConsumerType
<1>5. TypeOK'
  BY <1>1 DEF TypeOK, DbType, InboxType, BrokerType, RelayType, ConsumerType, NoTask,
     TaskSteps, Places, dbVars, inboxVars, relayVars
<1>6. Moves
  BY <1>2, <1>3, EventFacts DEF Moves, Accepted, Places
<1>7. RelayInv'
  BY <1>1, <1>6, RelayFrame
<1>8. QueueInv'
  BY <1>1, <1>2, <1>3, EventFacts DEF QueueInv, Places
<1>9. PublishedMeansConfirmed'
  BY <1>1, <1>6 DEF PublishedMeansConfirmed, Publishes, Moves
<1>10. AckedMeansApplied'
  BY <1>1, <1>2, <1>3, EventFacts DEF InboxInv, AckedMeansApplied
<1>11. ASSUME NEW d \in Consumers PROVE TaskInv(d)'
  <2>1. CASE d = c
    BY <1>1, <1>4, <2>1 DEF TaskInv, NoTask
  <2>2. CASE d # c
    <3>1. task[d].step # "idle" /\ session[d] = "open" => task[d].msg \in Messages /\ task[d].msg # e
      BY <1>2, <2>2, EventFacts DEF InboxInv, TaskInv
    <3>. QED
      BY <1>1, <1>3, <1>4, <2>2, <3>1 DEF InboxInv, TaskInv, OrderOf
  <2>. QED
    BY <2>1, <2>2
<1>12. OneMark'
  BY <1>4 DEF InboxInv, OneMark, OrderOf, NoTask
<1>13. InboxInv'
  BY <1>1, <1>10, <1>11, <1>12 DEF InboxInv
<1>. QED
  BY <1>5, <1>7, <1>8, <1>9, <1>13

\* What the failures of c and the closing of its channel have in common: some
\* of what c holds is returned, its handler may end, its channel is not open.
GivesBack(c) ==
  /\ UNCHANGED <<binding, dbVars, inboxVars, relayVars>>
  /\ faults' \in 0 .. MaxFaults
  /\ \A m \in Messages :
       \/ where'[m] = where[m] /\ returns'[m] = returns[m]
       \/ where[m] = c /\ where'[m] = Returned(m) /\ returns'[m] = returns[m] + 1
  /\ \A d \in Consumers : task'[d] = task[d] \/ (d = c /\ task'[d] = NoTask)
  /\ \A d \in Consumers : d # c => session'[d] = session[d]
  /\ \/ session'[c] = "down"
     \/ session'[c] = "closing" /\ task'[c] = NoTask

Breaks(c) == Nack(c) \/ NackThrows(c) \/ SafeClose(c) \/ ChannelCloses(c) \/ Kill(c)

LEMMA BreaksGiveBack ==
  ASSUME Inv, NEW c \in Consumers, Breaks(c)
  PROVE  BrokerType' /\ ConsumerType' /\ GivesBack(c)
<1>. USE DEF Inv, TypeOK
<1>1. UNCHANGED <<binding, dbVars, inboxVars, relayVars>> /\ faults' \in 0 .. MaxFaults
  BY DEF Breaks, Nack, NackThrows, SafeClose, ChannelCloses, Kill, CloseChannel, Fault, brokerVars
<1>2. /\ \A d \in Consumers : task'[d] = task[d] \/ (d = c /\ task'[d] = NoTask)
      /\ task' \in [Consumers -> [step : TaskSteps, msg : Events \cup {<<0, 0>>}]]
  BY DEF Breaks, Nack, NackThrows, SafeClose, ChannelCloses, Kill, ConsumerType, NoTask, TaskSteps
<1>3. \A m \in Messages : where[m] = c => returns[m] + 1 \in 0 .. DeliveryLimit + 1
  BY DEF QueueInv, BrokerType, Places
<1>4. \A m \in Messages : Returned(m) \in Places
  BY DEF Returned, Places
<1>5. CASE CloseChannel(c) /\ ~ Nack(c) /\ ~ NackThrows(c)
  <2>1. /\ \A m \in Messages :
              /\ where'[m] = IF where[m] = c THEN Returned(m) ELSE where[m]
              /\ returns'[m] = IF where[m] = c THEN returns[m] + 1 ELSE returns[m]
        /\ session' = [session EXCEPT ![c] = "down"]
    BY <1>5 DEF CloseChannel
  <2>2. BrokerType'
    BY <1>1, <1>3, <1>4, <1>5 DEF CloseChannel, BrokerType
  <2>. QED
    BY <1>1, <1>2, <2>1, <2>2 DEF ConsumerType, GivesBack
<1>6. CASE Nack(c)
  <2>1. PICK e \in Messages :
          /\ where[e] = c
          /\ where' = [where EXCEPT ![e] = Returned(e)]
          /\ returns' = [returns EXCEPT ![e] = @ + 1]
    BY <1>6, EventFacts DEF Nack, TxOpen, InboxInv, TaskInv
  <2>2. /\ session' = [session EXCEPT ![c] = "closing"]
        /\ task' = [task EXCEPT ![c] = NoTask]
    BY <1>6 DEF Nack
  <2>3. \A m \in Messages : where'[m] = IF m = e THEN Returned(e) ELSE where[m]
    BY <2>1 DEF BrokerType
  <2>4. \A m \in Messages : returns'[m] = IF m = e THEN returns[e] + 1 ELSE returns[m]
    BY <2>1 DEF BrokerType
  <2>5. BrokerType'
    <3>1. Returned(e) \in Places /\ returns[e] + 1 \in 0 .. DeliveryLimit + 1
      BY <1>3, <1>4, <2>1
    <3>2. where' \in [Messages -> Places \cup Consumers]
      BY <2>1, <3>1 DEF BrokerType
    <3>3. returns' \in [Messages -> 0 .. DeliveryLimit + 1]
      BY <2>1, <3>1 DEF BrokerType
    <3>. QED
      BY <1>1, <3>2, <3>3 DEF BrokerType
  <2>6. /\ session'[c] = "closing" /\ task'[c] = NoTask
        /\ \A d \in Consumers : d # c => session'[d] = session[d]
        /\ ConsumerType'
    BY <1>2, <2>2 DEF ConsumerType
  <2>7. \A m \in Messages :
          \/ where'[m] = where[m] /\ returns'[m] = returns[m]
          \/ where[m] = c /\ where'[m] = Returned(m) /\ returns'[m] = returns[m] + 1
    BY <2>1, <2>3, <2>4
  <2>. QED
    BY <1>1, <1>2, <2>5, <2>6, <2>7 DEF GivesBack
<1>7. CASE NackThrows(c)
  <2>1. UNCHANGED <<where, returns, binding, session>>
    BY <1>7 DEF NackThrows, brokerVars
  <2>2. session[c] = "down"
    BY <1>7 DEF NackThrows, TxOpen, InboxInv, TaskInv, NoTask, ConsumerType
  <2>. QED
    BY <1>1, <1>2, <2>1, <2>2 DEF BrokerType, ConsumerType, GivesBack
<1>. QED
  BY <1>5, <1>6, <1>7 DEF Breaks, SafeClose, ChannelCloses, Kill

LEMMA FailureStep ==
  ASSUME Inv, NEW c \in Consumers, Breaks(c)
  PROVE  Inv'
<1>. USE DEF Inv
<1>1. BrokerType' /\ ConsumerType' /\ GivesBack(c)
  BY BreaksGiveBack
<1>2. UNCHANGED <<dbVars, inboxVars, relayVars>> /\ faults' \in 0 .. MaxFaults
  BY <1>1 DEF GivesBack
<1>3. UNCHANGED <<attempts, outbox, rstep, batch, processed, effects, applied>>
  BY <1>2 DEF dbVars, inboxVars, relayVars
<1>4. \A m \in Messages :
        \/ where'[m] = where[m] /\ returns'[m] = returns[m]
        \/ /\ where[m] = c
           /\ where'[m] = IF returns[m] >= DeliveryLimit THEN "dlq" ELSE "ready"
           /\ returns'[m] = returns[m] + 1
  BY <1>1 DEF GivesBack, Returned
<1>5. \A m \in Messages : where[m] = c => returns[m] <= DeliveryLimit /\ returns[m] \in Nat
  BY DEF QueueInv, TypeOK, BrokerType, Places
<1>6. TypeOK'
  BY <1>1, <1>2 DEF TypeOK, DbType, InboxType, RelayType, dbVars, inboxVars, relayVars
<1>7. QueueInv'
  BY <1>4, <1>5, <1>6, EventFacts DEF QueueInv, TypeOK, BrokerType
<1>8. Moves
  BY <1>4, EventFacts DEF Moves, Accepted, Places
<1>9. RelayInv'
  BY <1>3, <1>8, RelayFrame
<1>10. PublishedMeansConfirmed'
  BY <1>3, <1>8 DEF PublishedMeansConfirmed, Publishes, Moves
<1>11. AckedMeansApplied'
  BY <1>3, <1>4, EventFacts DEF InboxInv, AckedMeansApplied
<1>12. /\ \A d \in Consumers : task'[d] = task[d] \/ (d = c /\ task'[d] = NoTask)
       /\ \A d \in Consumers : d # c => session'[d] = session[d]
       /\ session'[c] = "down" \/ (session'[c] = "closing" /\ task'[c] = NoTask)
  BY <1>1 DEF GivesBack
<1>13. ASSUME NEW d \in Consumers PROVE TaskInv(d)'
  <2>1. CASE d = c
    BY <1>3, <1>12, <2>1 DEF InboxInv, TaskInv, OrderOf, NoTask
  <2>2. CASE d # c
    BY <1>3, <1>4, <1>12, <2>2, EventFacts DEF InboxInv, TaskInv, OrderOf
  <2>. QED
    BY <2>1, <2>2
<1>14. OneMark'
  BY <1>12 DEF InboxInv, OneMark, OrderOf, NoTask
<1>15. InboxInv'
  BY <1>3, <1>11, <1>13, <1>14 DEF InboxInv
<1>. QED
  BY <1>6, <1>7, <1>9, <1>10, <1>15

LEMMA InvStep == Inv /\ [Next]_vars => Inv'
<1>. SUFFICES ASSUME Inv, [Next]_vars PROVE Inv'
  OBVIOUS
<1>1. CASE UNCHANGED vars
  <2>1. /\ UNCHANGED <<dbVars, inboxVars, brokerVars, relayVars, consumerVars, faults>>
        /\ UNCHANGED <<attempts, outbox, where, returns, rstep, batch>>
    BY <1>1 DEF vars, dbVars, brokerVars, relayVars
  <2>2. TypeOK'
    BY <2>1 DEF Inv, TypeOK, DbType, InboxType, BrokerType, RelayType, ConsumerType,
       dbVars, inboxVars, brokerVars, relayVars, consumerVars
  <2>3. PublishedMeansConfirmed'
    BY <2>1 DEF Inv, PublishedMeansConfirmed, Publishes, Accepted
  <2>. QED
    BY <2>1, <2>2, <2>3, SameWhere, RelayFrame, QueueFrame, InboxFrame DEF Inv
<1>2. CASE \E o \in Orders : Place(o) \/ Purge(o)
  BY <1>2, PlaceStep
<1>3. CASE \E r \in Relays : RelayStep(r) \/ RelayFails(r)
  BY <1>3, RelayStepInv
<1>4. CASE \/ \E m \in Messages : Accept(m) \/ LoseMessage(m)
           \/ \E b \in BadBodies : PublishBad(b)
  BY <1>4, BrokerStep DEF Messages
<1>5. CASE \E c \in Consumers : SessionStep(c)
  BY <1>5, OpenStep, DeliverStep, FailureStep DEF SessionStep, Breaks
<1>6. CASE \E c \in Consumers : HandlerStep(c)
  BY <1>6, TaskStep, CommitTxStep, AckStep, DeliverStep DEF HandlerStep
<1>7. CASE \E c \in Consumers : Nack(c) \/ NackThrows(c) \/ ChannelCloses(c) \/ Kill(c)
  BY <1>7, FailureStep DEF Breaks
<1>. QED
  BY <1>1, <1>2, <1>3, <1>4, <1>5, <1>6, <1>7 DEF Next

-----------------------------------------------------------------------------
(* The theorems.                                                           *)

LEMMA Invariance == Spec => []Inv
BY InitHolds, InvStep, PTL DEF Spec

\* Every reachable state is well typed: attempts and the returns of a message
\* stay within their ranges.
THEOREM TypeCorrect == Spec => []TypeOK
<1>1. Inv => TypeOK
  BY DEF Inv
<1>. QED
  BY Invariance, <1>1, PTL

\* One outbox row per committed order: they share one COMMIT.
OutboxOfOrder == \A o \in Orders : o \in orders <=> outbox[o] # "absent"

LEMMA OutboxOfOrderInvariant == Spec => []OutboxOfOrder
<1>1. Init => OutboxOfOrder
  BY DEF Init, OutboxOfOrder
<1>2. TypeOK /\ OutboxOfOrder /\ [Next]_vars => OutboxOfOrder'
  <2>. SUFFICES ASSUME TypeOK, OutboxOfOrder, [Next]_vars PROVE OutboxOfOrder'
    OBVIOUS
  <2>. USE DEF OutboxOfOrder, TypeOK, DbType, OutboxStates, dbVars
  <2>1. ASSUME NEW o \in Orders, Place(o) \/ Purge(o) PROVE OutboxOfOrder'
    BY <2>1 DEF Place, Purge
  <2>2. ASSUME NEW r \in Relays, MarkPublished(r) PROVE OutboxOfOrder'
    BY <2>2 DEF MarkPublished
  <2>3. ASSUME UNCHANGED <<orders, outbox>> PROVE OutboxOfOrder'
    BY <2>3
  <2>4. ASSUME NEW r \in Relays, RelayStep(r) \/ RelayFails(r), ~ MarkPublished(r)
        PROVE  UNCHANGED <<orders, outbox>>
    BY <2>4 DEF RelayStep, RelayFails, LockRows, CommitClaim, Send, Confirmed,
       PublishRejected, Abandon
  <2>5. ASSUME NEW m \in Messages, Accept(m) \/ LoseMessage(m) \/ PublishBad(m)
        PROVE  UNCHANGED <<orders, outbox>>
    BY <2>5 DEF Accept, LoseMessage, PublishBad
  <2>6. ASSUME NEW c \in Consumers, SessionStep(c) \/ HandlerStep(c)
        PROVE  UNCHANGED <<orders, outbox>>
    BY <2>6 DEF SessionStep, Open, Bind, SafeClose, Deliver, HandlerStep, InsertMark, InsertEffect,
       CommitTx, Ack, AckThrows, Begin, RejectBad
  <2>7. ASSUME NEW c \in Consumers, Nack(c) \/ NackThrows(c) \/ ChannelCloses(c) \/ Kill(c)
        PROVE  UNCHANGED <<orders, outbox>>
    BY <2>7 DEF Nack, NackThrows, ChannelCloses, Kill
  <2>8. CASE UNCHANGED vars
    BY <2>3, <2>8 DEF vars
  <2>. QED
    BY <2>1, <2>2, <2>3, <2>4, <2>5, <2>6, <2>7, <2>8 DEF Next, Messages
<1>. QED
  BY <1>1, <1>2, TypeCorrect, PTL DEF Spec

\* The event of a committed order is never lost, whichever steps of the relay,
\* the broker and the consumers fail and however they interleave.
THEOREM EventsKept == Spec => []NoEventLost
<1>1. Inv /\ OutboxOfOrder => NoEventLost
  <2>. SUFFICES ASSUME Inv, OutboxOfOrder, NEW o \in orders,
                       outbox[o] # "unpublished", o \notin effects
                PROVE  \E e \in Publishes(o) :
                         where[e] \in {"ready", "dlq", "unroutable"} \cup Consumers
    BY DEF NoEventLost
  <2>1. o \in Orders /\ outbox[o] \in {"published", "purged"}
    BY DEF Inv, TypeOK, DbType, OutboxStates, OutboxOfOrder
  <2>2. PICK e \in Publishes(o) : Accepted(e)
    BY <2>1 DEF Inv, PublishedMeansConfirmed
  <2>3. e \in Events /\ e[1] = o /\ where[e] \in Places \cup Consumers
    BY <2>2, EventFacts DEF Publishes, Inv, TypeOK, BrokerType
  <2>4. where[e] # "acked"
    BY <2>3 DEF Inv, InboxInv, AckedMeansApplied
  <2>. QED
    BY <2>2, <2>3, <2>4 DEF Accepted, Places
<1>. QED
  BY <1>1, Invariance, OutboxOfOrderInvariant, PTL

\* published_at is set, and so the purge may run, only for a confirmed publish.
THEOREM PublishedConfirmed == Spec => []PublishedMeansConfirmed
<1>1. Inv => PublishedMeansConfirmed
  BY DEF Inv
<1>. QED
  BY Invariance, <1>1, PTL

\* A delivery is acknowledged only once its effect is committed.
THEOREM AckedApplied == Spec => []AckedMeansApplied
<1>1. Inv => AckedMeansApplied
  BY DEF Inv, InboxInv
<1>. QED
  BY Invariance, <1>1, PTL

\* The effect of an event is applied at most once, with its inbox mark.
THEOREM AppliedAtMostOnce == Spec => []AppliedOnce
<1>1. Inv => AppliedOnce
  BY DEF Inv, InboxInv, AppliedOnce
<1>. QED
  BY Invariance, <1>1, PTL

-----------------------------------------------------------------------------
(* OrderPipeline implements EventDelivery: every step of the pipeline is a *)
(* step of the abstract specification or leaves its variables unchanged.   *)

\* Nothing is in a batch, in the broker or in a handler but events of orders
\* whose checkout has committed.
OnlyPlaced ==
  /\ \A r \in Relays : OrdersIn(batch[r]) \subseteq orders
  /\ \A e \in Events : where[e] # "none" => e[1] \in orders
  /\ \A c \in Consumers : task[c].step # "idle" => OrderOf(c) \in orders

\* A claim takes rows that are in the outbox.
LEMMA LockRowsOnlyPlaced ==
  ASSUME TypeOK, OutboxOfOrder, OnlyPlaced, NEW r \in Relays, LockRows(r)
  PROVE  OnlyPlaced'
<1>1. PICK S \in SUBSET Claimable :
        batch' = [batch EXCEPT ![r] = {<<o, attempts[o] + 1>> : o \in S}]
  BY DEF LockRows
<1>2. S \subseteq orders
  BY DEF Claimable, OutboxOfOrder
<1>3. \A e \in {<<o, attempts[o] + 1>> : o \in S} : e[1] \in orders
  BY <1>2
<1>4. UNCHANGED <<orders, where, task>>
  BY DEF LockRows, dbVars, brokerVars, consumerVars
<1>5. \A q \in Relays : \A e \in batch'[q] : e[1] \in orders
  BY <1>1, <1>3 DEF OnlyPlaced, OrdersIn, TypeOK, RelayType
<1>. QED
  BY <1>4, <1>5 DEF OnlyPlaced, OrdersIn, OrderOf

LEMMA RelayOnlyPlaced ==
  ASSUME TypeOK, OnlyPlaced, NEW r \in Relays,
         RelayStep(r) \/ RelayFails(r), ~ LockRows(r)
  PROVE  OnlyPlaced'
<1>1. /\ UNCHANGED <<orders, task>>
      /\ \A q \in Relays : batch'[q] \subseteq batch[q]
  BY DEF RelayStep, CommitClaim, Send, Confirmed, MarkPublished, PublishRejected,
     RelayFails, Abandon, dbVars, consumerVars, TypeOK, RelayType
<1>2. ASSUME NEW e \in Events, where'[e] # "none" PROVE e[1] \in orders
  <2>1. CASE where[e] # "none"
    BY <2>1 DEF OnlyPlaced
  <2>2. CASE where[e] = "none"
    <3>1. Send(r)
      BY <1>2, <2>2 DEF RelayStep, CommitClaim, Confirmed, MarkPublished,
         PublishRejected, RelayFails, Abandon, brokerVars
    <3>2. PICK f \in Events : First(r, f) /\ where' = [where EXCEPT ![f] = "wire"]
      BY <3>1 DEF Send
    <3>3. f = e
      BY <1>2, <2>2, <3>2, EventFacts DEF TypeOK, BrokerType
    <3>. QED
      BY <3>2, <3>3 DEF First, OnlyPlaced, OrdersIn
  <2>. QED
    BY <2>1, <2>2
<1>. QED
  BY <1>1, <1>2 DEF OnlyPlaced, OrdersIn, OrderOf

\* The broker and the consumers only move messages on.
LEMMA OthersOnlyPlaced ==
  ASSUME TypeOK, OnlyPlaced, UNCHANGED batch, orders \subseteq orders',
         \A e \in Events : where'[e] # "none" => where[e] # "none",
         \A c \in Consumers :
           \/ task'[c].step = "idle"
           \/ task[c].step # "idle" /\ task'[c].msg = task[c].msg
           \/ task'[c].msg \in Events /\ where[task'[c].msg] # "none"
  PROVE  OnlyPlaced'
BY DEF OnlyPlaced, OrdersIn, OrderOf

LEMMA OnlyPlacedStep ==
  ASSUME Inv, OutboxOfOrder, OnlyPlaced, [Next]_vars
  PROVE  OnlyPlaced'
<1>. USE DEF Inv, TypeOK
<1>1. CASE UNCHANGED vars
  BY <1>1, OthersOnlyPlaced DEF vars, dbVars, brokerVars, relayVars, consumerVars
<1>2. ASSUME NEW o \in Orders, Place(o) \/ Purge(o) PROVE OnlyPlaced'
  BY <1>2, OthersOnlyPlaced DEF Place, Purge, brokerVars, relayVars, consumerVars
<1>3. ASSUME NEW r \in Relays, RelayStep(r) \/ RelayFails(r) PROVE OnlyPlaced'
  BY <1>3, LockRowsOnlyPlaced, RelayOnlyPlaced
<1>4. ASSUME NEW m \in Messages, Accept(m) \/ LoseMessage(m) PROVE OnlyPlaced'
  BY <1>4, EventFacts, OthersOnlyPlaced DEF Accept, LoseMessage, BrokerType,
     dbVars, relayVars, consumerVars
<1>5. ASSUME NEW b \in BadBodies, PublishBad(b) PROVE OnlyPlaced'
  BY <1>5, EventFacts, OthersOnlyPlaced DEF PublishBad, BrokerType, Messages,
     dbVars, relayVars, consumerVars
<1>6. ASSUME NEW c \in Consumers, SessionStep(c) PROVE OnlyPlaced'
  <2>1. UNCHANGED <<batch, orders, task>>
    BY <1>6 DEF SessionStep, Open, Bind, SafeClose, Deliver, dbVars, relayVars, consumerVars
  <2>2. \A e \in Events : where'[e] # "none" => where[e] # "none"
    BY <1>6, EventFacts DEF SessionStep, Open, Bind, SafeClose, CloseChannel, Deliver,
       BrokerType, Places
  <2>. QED
    BY <2>1, <2>2, OthersOnlyPlaced
<1>7. ASSUME NEW c \in Consumers, HandlerStep(c) PROVE OnlyPlaced'
  <2>1. UNCHANGED <<batch, orders>>
    BY <1>7 DEF HandlerStep, InsertMark, InsertEffect, CommitTx, Ack, AckThrows,
       Begin, RejectBad, dbVars, relayVars
  <2>2. task[c].step = "committed" /\ session[c] = "open" => where[task[c].msg] = c
    BY DEF InboxInv, TaskInv
  <2>3. \A e \in Events : where'[e] # "none" => where[e] # "none"
    BY <1>7, <2>2, EventFacts DEF HandlerStep, InsertMark, InsertEffect, CommitTx, Ack,
       AckThrows, Begin, RejectBad, brokerVars, BrokerType, Places
  <2>4. ASSUME NEW d \in Consumers
        PROVE  \/ task'[d].step = "idle"
               \/ task[d].step # "idle" /\ task'[d].msg = task[d].msg
               \/ task'[d].msg \in Events /\ where[task'[d].msg] # "none"
    <3>1. CASE InsertMark(c) \/ InsertEffect(c) \/ CommitTx(c)
      <4>1. PICK s \in TaskSteps : ToStep(c, s)
        BY <3>1 DEF InsertMark, InsertEffect, CommitTx, TaskSteps
      <4>2. task[c].step # "idle"
        BY <3>1 DEF InsertMark, InsertEffect, CommitTx
      <4>. QED
        BY <4>1, <4>2 DEF ToStep, ConsumerType
    <3>2. CASE Ack(c) \/ AckThrows(c)
      BY <3>2 DEF Ack, AckThrows, ConsumerType, NoTask
    <3>3. CASE \E m \in Messages : Begin(c, m)
      BY <3>3 DEF Begin, ConsumerType, Places
    <3>4. CASE \E m \in Messages : RejectBad(c, m)
      BY <3>4 DEF RejectBad, consumerVars
    <3>. QED
      BY <1>7, <3>1, <3>2, <3>3, <3>4 DEF HandlerStep
  <2>. QED
    BY <2>1, <2>3, <2>4, OthersOnlyPlaced
<1>8. ASSUME NEW c \in Consumers, Nack(c) \/ NackThrows(c) \/ ChannelCloses(c) \/ Kill(c)
      PROVE  OnlyPlaced'
  <2>1. GivesBack(c)
    BY <1>8, BreaksGiveBack DEF Breaks
  <2>2. \A e \in Events : where'[e] # "none" => where[e] # "none"
    BY <2>1, EventFacts DEF GivesBack, Places
  <2>3. \A d \in Consumers : task'[d] = task[d] \/ task'[d].step = "idle"
    BY <2>1 DEF GivesBack, NoTask
  <2>. QED
    BY <2>1, <2>2, <2>3, OthersOnlyPlaced DEF GivesBack, dbVars, relayVars, OnlyPlaced
<1>. QED
  BY <1>1, <1>2, <1>3, <1>4, <1>5, <1>6, <1>7, <1>8 DEF Next

-----------------------------------------------------------------------------
(* Nothing is taken back.                                                  *)

Final == {"acked", "dlq", "unroutable"}

LEMMA FinalKept ==
  ASSUME Inv, [Next]_vars, NEW m \in Messages, where[m] \in Final
  PROVE  where'[m] = where[m]
<1>. USE DEF Inv, TypeOK, Final
<1>1. CASE where' = where
  BY <1>1
<1>2. ASSUME NEW r \in Relays, Send(r) PROVE where'[m] = where[m]
  BY <1>2, SendRelay DEF BrokerType
<1>3. ASSUME NEW n \in Messages, Accept(n) \/ LoseMessage(n) PROVE where'[m] = where[m]
  BY <1>3 DEF Accept, LoseMessage, BrokerType
<1>4. ASSUME NEW b \in BadBodies, PublishBad(b) PROVE where'[m] = where[m]
  BY <1>4 DEF PublishBad, BrokerType
<1>5. ASSUME NEW c \in Consumers, NEW n \in Messages, Deliver(c, n) \/ RejectBad(c, n)
      PROVE  where'[m] = where[m]
  BY <1>5 DEF Deliver, RejectBad, BrokerType, Places
<1>6. ASSUME NEW c \in Consumers, Ack(c) PROVE where'[m] = where[m]
  <2>1. where[task[c].msg] = c /\ where' = [where EXCEPT ![task[c].msg] = "acked"]
    BY <1>6 DEF Ack, InboxInv, TaskInv
  <2>. QED
    BY <2>1 DEF BrokerType, Places
<1>7. ASSUME NEW c \in Consumers, Breaks(c) PROVE where'[m] = where[m]
  BY <1>7, BreaksGiveBack DEF GivesBack, Places
<1>8. ASSUME NEW r \in Relays, RelayStep(r) \/ RelayFails(r), ~ Send(r)
      PROVE  where' = where
  BY <1>8 DEF RelayStep, RelayFails, LockRows, CommitClaim, Confirmed, MarkPublished,
     PublishRejected, Abandon, brokerVars
<1>9. ASSUME NEW c \in Consumers, Open(c) \/ Bind(c) \/ InsertMark(c) \/ InsertEffect(c)
               \/ CommitTx(c) \/ AckThrows(c) \/ \E n \in Messages : Begin(c, n)
      PROVE  where' = where
  BY <1>9 DEF Open, Bind, InsertMark, InsertEffect, CommitTx, AckThrows, Begin, brokerVars
<1>10. CASE UNCHANGED vars \/ \E o \in Orders : Place(o) \/ Purge(o)
  BY <1>1, <1>10 DEF vars, Place, Purge, brokerVars
<1>11. CASE \E r \in Relays : RelayStep(r) \/ RelayFails(r)
  BY <1>1, <1>2, <1>8, <1>11
<1>12. CASE \E c \in Consumers : SessionStep(c) \/ HandlerStep(c)
  BY <1>1, <1>5, <1>6, <1>7, <1>9, <1>12 DEF SessionStep, HandlerStep, Breaks
<1>13. CASE \E c \in Consumers : Nack(c) \/ NackThrows(c) \/ ChannelCloses(c) \/ Kill(c)
  BY <1>7, <1>13 DEF Breaks
<1>. QED
  BY <1>3, <1>4, <1>10, <1>11, <1>12, <1>13 DEF Next

\* Only CommitTx touches the inbox, and it applies the effect of a placed
\* order that has none.
AppliesOne ==
  \E o \in Orders : /\ o \in orders /\ applied[o] = 0 /\ o \notin effects
                    /\ applied' = [applied EXCEPT ![o] = 1]
                    /\ effects' = effects \cup {o}
                    /\ UNCHANGED <<orders, where>>

LEMMA InboxChange ==
  ASSUME Inv, OnlyPlaced, [Next]_vars
  PROVE  UNCHANGED <<effects, applied>> \/ AppliesOne
<1>. USE DEF inboxVars
<1>1. ASSUME NEW c \in Consumers, CommitTx(c)
      PROVE  UNCHANGED <<effects, applied>> \/ AppliesOne
  <2>1. OrderOf(c) \in Orders /\ OrderOf(c) \in orders
    BY <1>1, EventFacts DEF CommitTx, Inv, InboxInv, TaskInv, OrderOf, OnlyPlaced
  <2>2. CASE task[c].step = "effected"
    <3>1. OrderOf(c) \notin effects /\ applied[OrderOf(c)] = 0
      BY <2>1, <2>2 DEF Inv, InboxInv, TaskInv
    <3>2. /\ applied' = [applied EXCEPT ![OrderOf(c)] = 1]
          /\ effects' = effects \cup {OrderOf(c)}
          /\ UNCHANGED <<orders, where>>
      BY <1>1, <2>2, <3>1 DEF CommitTx, dbVars, brokerVars
    <3>. QED
      BY <2>1, <3>1, <3>2 DEF AppliesOne
  <2>. QED
    BY <1>1, <2>2 DEF CommitTx
<1>2. CASE UNCHANGED vars \/ \E o \in Orders : Place(o) \/ Purge(o)
  BY <1>2 DEF vars, Place, Purge
<1>3. CASE \E r \in Relays : RelayStep(r) \/ RelayFails(r)
  BY <1>3 DEF RelayStep, RelayFails, LockRows, CommitClaim, Send, Confirmed,
     MarkPublished, PublishRejected, Abandon
<1>4. CASE \/ \E m \in Messages : Accept(m) \/ LoseMessage(m)
           \/ \E b \in BadBodies : PublishBad(b)
  BY <1>4 DEF Accept, LoseMessage, PublishBad
<1>5. CASE \E c \in Consumers : SessionStep(c) \/ HandlerStep(c)
  BY <1>1, <1>5 DEF SessionStep, Open, Bind, SafeClose, Deliver, HandlerStep, InsertMark,
     InsertEffect, Ack, AckThrows, Begin, RejectBad
<1>6. CASE \E c \in Consumers : Nack(c) \/ NackThrows(c) \/ ChannelCloses(c) \/ Kill(c)
  BY <1>6 DEF Nack, NackThrows, ChannelCloses, Kill
<1>. QED
  BY <1>2, <1>3, <1>4, <1>5, <1>6 DEF Next

LEMMA OrdersChange ==
  ASSUME [Next]_vars
  PROVE  UNCHANGED orders \/ \E o \in Orders : Place(o)
<1>. USE DEF dbVars
<1>1. CASE UNCHANGED vars \/ \E o \in Orders : Place(o) \/ Purge(o)
  BY <1>1 DEF vars, Purge
<1>2. CASE \E r \in Relays : RelayStep(r) \/ RelayFails(r)
  BY <1>2 DEF RelayStep, RelayFails, LockRows, CommitClaim, Send, Confirmed,
     MarkPublished, PublishRejected, Abandon
<1>3. CASE \/ \E m \in Messages : Accept(m) \/ LoseMessage(m)
           \/ \E b \in BadBodies : PublishBad(b)
  BY <1>3 DEF Accept, LoseMessage, PublishBad
<1>4. CASE \E c \in Consumers : SessionStep(c) \/ HandlerStep(c)
  BY <1>4 DEF SessionStep, Open, Bind, SafeClose, Deliver, HandlerStep, InsertMark, InsertEffect,
     CommitTx, Ack, AckThrows, Begin, RejectBad
<1>5. CASE \E c \in Consumers : Nack(c) \/ NackThrows(c) \/ ChannelCloses(c) \/ Kill(c)
  BY <1>5 DEF Nack, NackThrows, ChannelCloses, Kill
<1>. QED
  BY <1>1, <1>2, <1>3, <1>4, <1>5 DEF Next

RInv == Inv /\ OutboxOfOrder /\ OnlyPlaced

LEMMA RInvariance == Spec => []RInv
<1>1. Init => OnlyPlaced
  <2>. SUFFICES ASSUME Init PROVE OnlyPlaced
    OBVIOUS
  <2>1. \A r \in Relays : OrdersIn(batch[r]) = {}
    BY DEF Init, OrdersIn
  <2>2. \A e \in Events : where[e] = "none"
    BY EventFacts DEF Init
  <2>. QED
    BY <2>1, <2>2 DEF Init, OnlyPlaced, NoTask
<1>2. Inv /\ OutboxOfOrder /\ OnlyPlaced /\ [Next]_vars => OnlyPlaced'
  BY OnlyPlacedStep
<1>. QED
  BY <1>1, <1>2, Invariance, OutboxOfOrderInvariant, PTL DEF Spec, RInv

\* No step takes back an effect, applies one again, or moves a message that
\* was acknowledged, dead-lettered or kept as unroutable.
THEOREM NothingIsTakenBack == Spec => NothingTakenBack
<1>1. ASSUME RInv, [Next]_vars
      PROVE  /\ effects \subseteq effects'
             /\ \A o \in effects : applied'[o] = applied[o]
             /\ \A m \in Messages : where[m] \in {"acked", "dlq", "unroutable"}
                                      => where'[m] = where[m]
  <2>1. effects \subseteq effects' /\ \A o \in effects : applied'[o] = applied[o]
    BY <1>1, InboxChange DEF RInv, AppliesOne, Inv, TypeOK, InboxType
  <2>. QED
    BY <1>1, <2>1, FinalKept DEF RInv, Final
<1>. QED
  BY <1>1, RInvariance, PTL DEF Spec, NothingTakenBack

-----------------------------------------------------------------------------
(* The refinement.                                                         *)

ParkedOrders == {o \in Orders : Parked(o)}

LEMMA ParkedKept ==
  ASSUME RInv, RInv', [Next]_vars
  PROVE  /\ ParkedOrders \subseteq ParkedOrders'
         /\ ParkedOrders' \subseteq orders'
         /\ ParkedOrders' = ParkedOrders \cup ParkedOrders'
<1>1. \A o \in Orders : Parked(o) => Parked(o)'
  BY FinalKept, EventFacts DEF RInv, Final, Parked, Publishes
<1>2. \A o \in Orders : Parked(o)' => o \in orders'
  BY DEF RInv, OnlyPlaced, Parked, Publishes
<1>. QED
  BY <1>1, <1>2 DEF ParkedOrders

LEMMA ParkedUnchanged ==
  ASSUME where' = where
  PROVE  ParkedOrders' = ParkedOrders
BY DEF ParkedOrders, Parked, Publishes

\* The pipeline implements EventDelivery.
THEOREM PipelineDelivers == Spec => DeliveryContract
<1>1. Init => Delivery!Init
  <2>. SUFFICES ASSUME Init PROVE Delivery!Init
    OBVIOUS
  <2>1. ParkedOrders = {}
    BY EventFacts DEF Init, ParkedOrders, Parked, Publishes
  <2>. QED
    BY <2>1 DEF Init, Delivery!Init, ParkedOrders
<1>2. ASSUME RInv, RInv', [Next]_vars
      PROVE  [Delivery!Next]_(Delivery!vars)
  <2>1. CASE AppliesOne
    <3>1. PICK o \in Orders :
            /\ o \in orders /\ applied[o] = 0
            /\ applied' = [applied EXCEPT ![o] = 1]
            /\ UNCHANGED <<orders, where>>
      BY <2>1 DEF AppliesOne
    <3>2. Delivery!Apply(o)
      BY <3>1, ParkedUnchanged DEF Delivery!Apply, ParkedOrders
    <3>. QED
      BY <3>2 DEF Delivery!Next
  <2>2. CASE UNCHANGED applied
    <3>1. CASE \E o \in Orders : Place(o)
      <4>1. PICK o \in Orders : Place(o)
        BY <3>1
      <4>2. Delivery!Place(o)
        BY <4>1, ParkedUnchanged DEF Place, Delivery!Place, ParkedOrders, brokerVars, inboxVars
      <4>. QED
        BY <4>2 DEF Delivery!Next
    <3>2. CASE UNCHANGED orders
      <4>1. ParkedOrders' \in SUBSET Orders /\ ParkedOrders' \subseteq orders
        BY <1>2, <3>2, ParkedKept DEF ParkedOrders
      <4>2. Delivery!Park(ParkedOrders')
        BY <1>2, <2>2, <3>2, <4>1, ParkedKept DEF Delivery!Park, ParkedOrders
      <4>. QED
        BY <4>1, <4>2 DEF Delivery!Next
    <3>. QED
      BY <1>2, <3>1, <3>2, OrdersChange
  <2>. QED
    BY <1>2, <2>1, <2>2, InboxChange DEF RInv
<1>. QED
  BY <1>1, <1>2, RInvariance, PTL DEF Spec, DeliveryContract, Delivery!Spec

=============================================================================
