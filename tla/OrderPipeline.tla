---------------------------- MODULE OrderPipeline ----------------------------
(***************************************************************************)
(* The path of an order.placed event: the checkout transaction writes the  *)
(* order and one outbox row, relay workers poll the outbox and publish to  *)
(* RabbitMQ with confirms, consumers apply the effect in one transaction   *)
(* and acknowledge.                                                        *)
(*                                                                         *)
(* PostgreSQL rows, broker queues, relay workers and consumer sessions are *)
(* the four groups of variables below.  A worker stands for the relay tick *)
(* of one API process, a consumer for one broker session of one process;   *)
(* each can fail at any of its steps, MaxFaults times in all.              *)
(***************************************************************************)
EXTENDS Naturals, FiniteSets

CONSTANTS
  Orders,         \* orders that may be placed; the number is the row's
                  \* (created_at, id) position, which is not the commit order
  Relays,         \* relay workers (outbox/relay.ts under the publisher's tick)
  Consumers,      \* consumer sessions
  BadBodies,      \* messages some other publisher sends with a bad body
  Batch,          \* RELAY_BATCH
  Prefetch,       \* PREFETCH
  DeliveryLimit,  \* the quorum queue's delivery limit (20 in RabbitMQ 4)
  MaxAttempts,    \* bound on outbox.attempts, for model checking
  MaxFaults       \* bound on failures of all kinds, for model checking

Places == {"none", "wire", "lost", "ready", "acked", "dlq", "unroutable"}

\* One publish of an order's event.  The row is locked while attempts is
\* incremented, so the pair <<order, attempts>> names a publish uniquely.
Events == Orders \X (1 .. MaxAttempts)
Messages == Events \cup BadBodies

ASSUME OrdersAssumption == Orders \subseteq Nat
ASSUME BoundsAssumption == /\ Batch \in Nat \ {0}
                           /\ Prefetch \in Nat \ {0}
                           /\ DeliveryLimit \in Nat
                           /\ MaxAttempts \in Nat
                           /\ MaxFaults \in Nat
ASSUME NamesAssumption == /\ Consumers \cap Places = {}
                          /\ BadBodies \cap Events = {}

VARIABLES
  \* PostgreSQL, committed state
  orders,      \* rows of "orders"
  outbox,      \* the outbox row of each order
  attempts,    \* its attempts column
  processed,   \* message ids in processed_messages
  effects,     \* event ids in order_placed_effects
  deliveries,  \* rows per event in order_placed_deliveries
  applied,     \* how often applyOrderPlaced has returned 'applied', per event
  \* RabbitMQ
  binding,     \* how far shop.events and its binding are declared
  where,       \* where each message is
  returns,     \* how often the work queue got a message back unacknowledged
  \* relay workers
  rstep,       \* where a worker is in relayOutbox
  batch,       \* the publishes it still has to do
  \* consumers
  session,     \* state of the AMQP channel
  task,        \* the delivery its handler is working on
  faults       \* failures so far

dbVars       == <<orders, outbox, attempts>>
inboxVars    == <<processed, effects, deliveries, applied>>
brokerVars   == <<binding, where, returns>>
relayVars    == <<rstep, batch>>
consumerVars == <<session, task>>
vars == <<dbVars, inboxVars, brokerVars, relayVars, consumerVars, faults>>

OutboxStates == {"absent", "unpublished", "published", "purged"}
RelaySteps   == {"idle", "claiming", "holding", "sent", "confirmed"}
TaskSteps    == {"idle", "begun", "marked", "effected", "skipping", "committed"}
NoTask       == [step |-> "idle", msg |-> <<0, 0>>]

DbType == /\ orders \subseteq Orders
          /\ outbox \in [Orders -> OutboxStates]
          /\ attempts \in [Orders -> 0 .. MaxAttempts]

InboxType == /\ processed \subseteq Orders
             /\ effects \subseteq Orders
             /\ deliveries \in [Orders -> Nat]
             /\ applied \in [Orders -> Nat]

BrokerType == /\ binding \in {"absent", "declared", "bound"}
              /\ where \in [Messages -> Places \cup Consumers]
              /\ returns \in [Messages -> 0 .. DeliveryLimit + 1]

RelayType == /\ rstep \in [Relays -> RelaySteps]
             /\ batch \in [Relays -> SUBSET Events]

ConsumerType ==
  /\ session \in [Consumers -> {"down", "opening", "open", "closing"}]
  /\ task \in [Consumers -> [step : TaskSteps, msg : Events \cup {<<0, 0>>}]]

TypeOK == /\ DbType /\ InboxType /\ BrokerType /\ RelayType /\ ConsumerType
          /\ faults \in 0 .. MaxFaults

Init ==
  /\ orders = {}
  /\ outbox = [o \in Orders |-> "absent"]
  /\ attempts = [o \in Orders |-> 0]
  /\ processed = {}
  /\ effects = {}
  /\ deliveries = [o \in Orders |-> 0]
  /\ applied = [o \in Orders |-> 0]
  /\ binding = "absent"
  /\ where = [m \in Messages |-> "none"]
  /\ returns = [m \in Messages |-> 0]
  /\ rstep = [r \in Relays |-> "idle"]
  /\ batch = [r \in Relays |-> {}]
  /\ session = [c \in Consumers |-> "down"]
  /\ task = [c \in Consumers |-> NoTask]
  /\ faults = 0

Fault == faults < MaxFaults /\ faults' = faults + 1

-----------------------------------------------------------------------------
(* Checkout and the hourly purge.                                          *)

\* The transaction that commits the order commits its outbox row with it; one
\* that throws commits neither and changes nothing here (see Checkout).
Place(o) ==
  /\ o \notin orders
  /\ orders' = orders \cup {o}
  /\ outbox' = [outbox EXCEPT ![o] = "unpublished"]
  /\ UNCHANGED <<attempts, inboxVars, brokerVars, relayVars, consumerVars, faults>>

\* purgePublishedOutbox: published rows go, whatever happened downstream.
Purge(o) ==
  /\ outbox[o] = "published"
  /\ outbox' = [outbox EXCEPT ![o] = "purged"]
  /\ UNCHANGED <<orders, attempts, inboxVars, brokerVars, relayVars, consumerVars, faults>>

-----------------------------------------------------------------------------
(* relayOutbox.                                                            *)

OrdersIn(B) == {e[1] : e \in B}

\* Rows some claim transaction holds FOR UPDATE.
Locked == UNION {OrdersIn(batch[r]) : r \in {q \in Relays : rstep[q] = "claiming"}}

Claimable == {o \in Orders : outbox[o] = "unpublished"} \ Locked

\* ORDER BY created_at, id ... SKIP LOCKED LIMIT Batch
Oldest(S) ==
  /\ S \subseteq Claimable
  /\ \A o \in S, p \in Claimable \ S : o < p
  /\ \/ S = Claimable /\ Cardinality(S) <= Batch
     \/ Cardinality(S) = Batch

\* The SELECT of the claim transaction.  An empty result changes nothing.
LockRows(r) ==
  /\ rstep[r] = "idle"
  /\ \E S \in SUBSET Claimable :
       /\ S # {}
       /\ Oldest(S)
       /\ \A o \in S : attempts[o] < MaxAttempts
       /\ batch' = [batch EXCEPT ![r] = {<<o, attempts[o] + 1>> : o \in S}]
  /\ rstep' = [rstep EXCEPT ![r] = "claiming"]
  /\ UNCHANGED <<dbVars, inboxVars, brokerVars, consumerVars, faults>>

\* attempts + 1 for every row, COMMIT: the row locks are gone from here on.
CommitClaim(r) ==
  /\ rstep[r] = "claiming"
  /\ attempts' = [o \in Orders |-> IF o \in OrdersIn(batch[r])
                                   THEN attempts[o] + 1 ELSE attempts[o]]
  /\ rstep' = [rstep EXCEPT ![r] = "holding"]
  /\ UNCHANGED <<orders, outbox, batch, inboxVars, brokerVars, consumerVars, faults>>

First(r, e) == e \in batch[r] /\ \A f \in batch[r] : e[1] <= f[1]

\* channel.publish of the next row; nothing is known of it until the confirm.
Send(r) ==
  /\ rstep[r] = "holding"
  /\ \E e \in Events : First(r, e) /\ where' = [where EXCEPT ![e] = "wire"]
  /\ rstep' = [rstep EXCEPT ![r] = "sent"]
  /\ UNCHANGED <<binding, returns, batch, dbVars, inboxVars, consumerVars, faults>>

\* As it would be without waitForConfirms.
ConfirmedAtOnce(r) ==
  /\ rstep[r] = "sent"
  /\ rstep' = [rstep EXCEPT ![r] = "confirmed"]
  /\ UNCHANGED <<batch, dbVars, inboxVars, brokerVars, consumerVars, faults>>

\* waitForConfirms resolves: the broker has taken the message.
Confirmed(r) ==
  /\ rstep[r] = "sent"
  /\ \E e \in Events : First(r, e) /\ where[e] \notin {"none", "wire", "lost"}
  /\ rstep' = [rstep EXCEPT ![r] = "confirmed"]
  /\ UNCHANGED <<batch, dbVars, inboxVars, brokerVars, consumerVars, faults>>

\* UPDATE outbox SET published_at ... AND published_at IS NULL, which waits
\* for a claim that has the row locked.
MarkPublished(r) ==
  /\ rstep[r] = "confirmed"
  /\ \E e \in Events :
       /\ First(r, e)
       /\ e[1] \notin Locked
       /\ outbox' = [outbox EXCEPT ![e[1]] = IF @ = "unpublished" THEN "published" ELSE @]
       /\ batch' = [batch EXCEPT ![r] = @ \ {e}]
       /\ rstep' = [rstep EXCEPT ![r] = IF batch[r] = {e} THEN "idle" ELSE "holding"]
  /\ UNCHANGED <<orders, attempts, inboxVars, brokerVars, consumerVars, faults>>

\* As it would be if the failed tick never cleared its ticking flag.
AbandonStillTicking(r) ==
  /\ batch' = [batch EXCEPT ![r] = {}]
  /\ UNCHANGED <<rstep, dbVars, inboxVars, brokerVars, consumerVars>>

\* The rest of the batch is forgotten; a claim not yet committed rolls back.
Abandon(r) ==
  /\ rstep' = [rstep EXCEPT ![r] = "idle"]
  /\ batch' = [batch EXCEPT ![r] = {}]
  /\ UNCHANGED <<dbVars, inboxVars, brokerVars, consumerVars>>

\* The message never reached a queue, so waitForConfirms rejects.
PublishRejected(r) ==
  /\ rstep[r] = "sent"
  /\ \E e \in Events : First(r, e) /\ where[e] = "lost"
  /\ Abandon(r)
  /\ UNCHANGED faults

\* A crash, a database error or a lost confirm, at any step.
RelayFails(r) ==
  /\ rstep[r] # "idle"
  /\ Abandon(r)
  /\ Fault

-----------------------------------------------------------------------------
(* RabbitMQ.                                                               *)

\* The exchange routes by its binding; without one the alternate exchange
\* keeps the message, and the publish is confirmed all the same.
Accept(m) ==
  /\ where[m] = "wire"
  /\ binding # "absent"
  /\ where' = [where EXCEPT ![m] = IF binding = "bound" THEN "ready" ELSE "unroutable"]
  /\ UNCHANGED <<binding, returns, dbVars, inboxVars, relayVars, consumerVars, faults>>

\* The connection drops first, or shop.events does not exist yet (404).
LoseMessage(m) ==
  /\ where[m] = "wire"
  /\ where' = [where EXCEPT ![m] = "lost"]
  /\ Fault
  /\ UNCHANGED <<binding, returns, dbVars, inboxVars, relayVars, consumerVars>>

\* Somebody publishes a body that parseOrderPlaced does not accept.
PublishBad(b) ==
  /\ where[b] = "none"
  /\ binding = "bound"
  /\ where' = [where EXCEPT ![b] = "ready"]
  /\ UNCHANGED <<binding, returns, dbVars, inboxVars, relayVars, consumerVars, faults>>

Held(c) == {m \in Messages : where[m] = c}

\* Where m goes unacknowledged: back to the queue, or to the DLQ once it has
\* been returned DeliveryLimit times.
Returned(m) == IF returns[m] >= DeliveryLimit THEN "dlq" ELSE "ready"

\* The channel of c closes: all its unacknowledged deliveries are returned.
CloseChannel(c) ==
  /\ session' = [session EXCEPT ![c] = "down"]
  /\ where' = [m \in Messages |-> IF where[m] = c THEN Returned(m) ELSE where[m]]
  /\ returns' = [m \in Messages |->
                   IF where[m] = c THEN returns[m] + 1 ELSE returns[m]]
  /\ UNCHANGED binding

-----------------------------------------------------------------------------
(* The consumer: open and attach, applyOrderPlaced, the acknowledgement.   *)

\* As it would be if a failure left the queue without a consumer.
OpenOnce(c) ==
  /\ session[c] = "down"
  /\ task[c] = NoTask
  /\ faults = 0
  /\ session' = [session EXCEPT ![c] = "opening"]
  /\ binding' = IF binding = "absent" THEN "declared" ELSE binding
  /\ UNCHANGED <<where, returns, task, dbVars, inboxVars, relayVars, faults>>

\* assertTopology up to the declaration of shop.events.  A process whose old
\* handler is still running is two members of Consumers.
Open(c) ==
  /\ session[c] = "down"
  /\ task[c] = NoTask
  /\ session' = [session EXCEPT ![c] = "opening"]
  /\ binding' = IF binding = "absent" THEN "declared" ELSE binding
  /\ UNCHANGED <<where, returns, task, dbVars, inboxVars, relayVars, faults>>

\* The rest of assertTopology binds the queue, then ch.consume.
Bind(c) ==
  /\ session[c] = "opening"
  /\ session' = [session EXCEPT ![c] = "open"]
  /\ binding' = "bound"
  /\ UNCHANGED <<where, returns, task, dbVars, inboxVars, relayVars, faults>>

\* The broker delivers until the channel is closed, also when attach has been
\* rejected and no handler begins any more.
Deliver(c, m) ==
  /\ session[c] \in {"open", "closing"}
  /\ where[m] = "ready"
  /\ Cardinality(Held(c)) < Prefetch
  /\ where' = [where EXCEPT ![m] = c]
  /\ UNCHANGED <<binding, returns, dbVars, inboxVars, relayVars, consumerVars, faults>>

\* As it would be if the body were taken for an event without being parsed.
BeginUnparsed(c, m) ==
  /\ session[c] = "open"
  /\ task[c] = NoTask
  /\ where[m] = c
  /\ task' = [task EXCEPT ![c] = [step |-> "begun", msg |-> m]]
  /\ UNCHANGED <<session, dbVars, inboxVars, brokerVars, relayVars, faults>>

\* The handlers share a chain, so one delivery is worked on at a time.
Begin(c, m) ==
  /\ session[c] = "open"
  /\ task[c] = NoTask
  /\ where[m] = c
  /\ m \in Events
  /\ task' = [task EXCEPT ![c] = [step |-> "begun", msg |-> m]]
  /\ UNCHANGED <<session, dbVars, inboxVars, brokerVars, relayVars, faults>>

\* BadEvent: reject without requeue, which dead-letters at once.
RejectBad(c, m) ==
  /\ session[c] = "open"
  /\ task[c] = NoTask
  /\ where[m] = c
  /\ m \in BadBodies
  /\ where' = [where EXCEPT ![m] = "dlq"]
  /\ UNCHANGED <<binding, returns, dbVars, inboxVars, relayVars, consumerVars, faults>>

OrderOf(c) == task[c].msg[1]

\* c has an uncommitted processed_messages row for order o.
HoldsMark(c, o) == task[c].step \in {"marked", "effected"} /\ OrderOf(c) = o

ToStep(c, s) == task' = [task EXCEPT ![c].step = s]

\* As it would be without the RETURNING test, and as a plain SELECT of the mark.
InsertMarkUnread(c) ==
  /\ task[c].step = "begun"
  /\ \A d \in Consumers : ~ HoldsMark(d, OrderOf(c))
  /\ ToStep(c, "marked")
  /\ UNCHANGED <<session, dbVars, inboxVars, brokerVars, relayVars, faults>>
SelectMark(c) ==
  /\ task[c].step = "begun"
  /\ ToStep(c, IF OrderOf(c) \in processed THEN "skipping" ELSE "marked")
  /\ UNCHANGED <<session, dbVars, inboxVars, brokerVars, relayVars, faults>>

\* INSERT INTO processed_messages ... ON CONFLICT DO NOTHING: waits for the
\* transaction of another consumer that has inserted the same id.
InsertMark(c) ==
  /\ task[c].step = "begun"
  /\ \A d \in Consumers : ~ HoldsMark(d, OrderOf(c))
  /\ ToStep(c, IF OrderOf(c) \in processed THEN "skipping" ELSE "marked")
  /\ UNCHANGED <<session, dbVars, inboxVars, brokerVars, relayVars, faults>>

InsertEffect(c) ==
  /\ task[c].step = "marked"
  /\ ToStep(c, "effected")
  /\ UNCHANGED <<session, dbVars, inboxVars, brokerVars, relayVars, faults>>

\* COMMIT of applyOrderPlaced: the delivery row, and the mark with the effect
\* or neither of them.  It needs no broker channel.
CommitTx(c) ==
  /\ task[c].step \in {"skipping", "effected"}
  /\ deliveries' = [deliveries EXCEPT ![OrderOf(c)] = @ + 1]
  /\ IF task[c].step = "effected"
     THEN /\ processed' = processed \cup {OrderOf(c)}
          /\ effects' = effects \cup {OrderOf(c)}
          /\ applied' = [applied EXCEPT ![OrderOf(c)] = @ + 1]
     ELSE UNCHANGED <<processed, effects, applied>>
  /\ ToStep(c, "committed")
  /\ UNCHANGED <<session, dbVars, brokerVars, relayVars, faults>>

\* As it would be with the ack before the insert.
AckFirst(c) ==
  /\ task[c].step \in {"begun", "committed"}
  /\ session[c] = "open"
  /\ where' = [where EXCEPT ![task[c].msg] = "acked"]
  /\ task' = [task EXCEPT ![c] = NoTask]
  /\ UNCHANGED <<binding, returns, session, dbVars, inboxVars, relayVars, faults>>

Ack(c) ==
  /\ task[c].step = "committed"
  /\ session[c] = "open"
  /\ where' = [where EXCEPT ![task[c].msg] = "acked"]
  /\ task' = [task EXCEPT ![c] = NoTask]
  /\ UNCHANGED <<binding, returns, session, dbVars, inboxVars, relayVars, faults>>

\* The channel has closed since: ack throws, and so does the nack after it.
AckThrows(c) ==
  /\ task[c].step = "committed"
  /\ session[c] # "open"
  /\ task' = [task EXCEPT ![c] = NoTask]
  /\ UNCHANGED <<session, dbVars, inboxVars, brokerVars, relayVars, faults>>

TxOpen(c) == task[c].step \in {"begun", "marked", "skipping", "effected"}

\* A database error: rollback, and nack with requeue.  attach is rejected, so
\* that no other handler begins; the channel is open until the loop closes it.
Nack(c) ==
  /\ TxOpen(c)
  /\ session[c] = "open"
  /\ session' = [session EXCEPT ![c] = "closing"]
  /\ task' = [task EXCEPT ![c] = NoTask]
  /\ where' = [where EXCEPT ![task[c].msg] = Returned(task[c].msg)]
  /\ returns' = [returns EXCEPT ![task[c].msg] = @ + 1]
  /\ Fault
  /\ UNCHANGED <<binding, dbVars, inboxVars, relayVars>>

\* The same error in a handler that has outlived its channel: nack throws.
NackThrows(c) ==
  /\ TxOpen(c)
  /\ session[c] # "open"
  /\ task' = [task EXCEPT ![c] = NoTask]
  /\ Fault
  /\ UNCHANGED <<session, dbVars, inboxVars, brokerVars, relayVars>>

\* The finally of the loop: safeClose, with what else the channel holds.
SafeClose(c) ==
  /\ session[c] = "closing"
  /\ CloseChannel(c)
  /\ UNCHANGED <<task, dbVars, inboxVars, relayVars, faults>>

\* The channel closes under the consumer; a handler already running goes on.
ChannelCloses(c) ==
  /\ session[c] # "down"
  /\ CloseChannel(c)
  /\ Fault
  /\ UNCHANGED <<task, dbVars, inboxVars, relayVars>>

\* kill -9: an open transaction rolls back, the broker sees the socket drop.
Kill(c) ==
  /\ session[c] # "down" \/ task[c] # NoTask
  /\ task' = [task EXCEPT ![c] = NoTask]
  /\ CloseChannel(c)
  /\ Fault
  /\ UNCHANGED <<dbVars, inboxVars, relayVars>>

-----------------------------------------------------------------------------
RelayStep(r) == \/ LockRows(r) \/ CommitClaim(r) \/ Send(r) \/ Confirmed(r)
                \/ MarkPublished(r) \/ PublishRejected(r)

HandlerStep(c) == \/ InsertMark(c) \/ InsertEffect(c) \/ CommitTx(c)
                  \/ Ack(c) \/ AckThrows(c)
                  \/ \E m \in Messages : Begin(c, m) \/ RejectBad(c, m)

SessionStep(c) == \/ Open(c) \/ Bind(c) \/ SafeClose(c)
                  \/ \E m \in Messages : Deliver(c, m)

Next ==
  \/ \E o \in Orders : Place(o) \/ Purge(o)
  \/ \E r \in Relays : RelayStep(r) \/ RelayFails(r)
  \/ \E m \in Messages : Accept(m) \/ LoseMessage(m)
  \/ \E b \in BadBodies : PublishBad(b)
  \/ \E c \in Consumers : \/ SessionStep(c) \/ HandlerStep(c)
                          \/ Nack(c) \/ NackThrows(c) \/ ChannelCloses(c) \/ Kill(c)

Spec == Init /\ [][Next]_vars

\* The relay ticks every two seconds, the consumer loop reopens after one, a
\* handler and the broker go on unless they fail.  Nothing makes a client place
\* an order, the purge run or a failure happen.
RelaysTick == \A r \in Relays : WF_vars(RelayStep(r))
BrokerGoesOn == \A m \in Messages : WF_vars(Accept(m))
ConsumersGoOn == \A c \in Consumers : WF_vars(SessionStep(c)) /\ WF_vars(HandlerStep(c))

Fairness == RelaysTick /\ BrokerGoesOn /\ ConsumersGoOn

FairSpec == Spec /\ Fairness

-----------------------------------------------------------------------------
(* Properties.                                                             *)

Publishes(o) == {e \in Events : e[1] = o}

\* Where a message is once the broker has confirmed it.
Accepted(e) == where[e] \notin {"none", "wire", "lost"}

\* Kept where an operator finds it, and never consumed again.
Parked(o) == \E e \in Publishes(o) : where[e] \in {"dlq", "unroutable"}

\* relayOutbox publishes first and sets published_at after the confirm, the
\* consumer acknowledges after its COMMIT: whatever fails in between, the
\* event of a committed order is still to be published, or in the broker, or
\* its effect is in the database.
NoEventLost ==
  \A o \in orders :
    \/ outbox[o] = "unpublished"
    \/ o \in effects
    \/ \E e \in Publishes(o) : where[e] \in {"ready", "dlq", "unroutable"} \cup Consumers

\* published_at (and with it the purge) says that the broker confirmed a
\* publish of the row, one counted in attempts.
PublishedMeansConfirmed ==
  \A o \in Orders : outbox[o] \in {"published", "purged"} =>
    \E e \in Publishes(o) : e[2] <= attempts[o] /\ Accepted(e)

\* An acknowledged delivery is gone from the queue for good, so its effect
\* must be in the database by then.
AckedMeansApplied ==
  \A e \in Events : where[e] = "acked" => e[1] \in effects

\* However often the event is published and delivered, and to however many
\* consumers at once, applyOrderPlaced returns 'applied' at most once for it,
\* and the inbox mark is there exactly when the effect is.
AppliedOnce ==
  \A o \in Orders :
    /\ applied[o] <= 1
    /\ applied[o] = 1 <=> o \in effects
    /\ o \in effects <=> o \in processed

\* Once a delivery of the event has been applied, published_at may still be
\* unset, but the effect never goes away and is never applied again by a later
\* copy: no step takes back an effect, an acknowledgement or a parked copy.
NothingTakenBack ==
  [][/\ effects \subseteq effects'
     /\ \A o \in effects : applied'[o] = applied[o]
     /\ \A m \in Messages : where[m] \in {"acked", "dlq", "unroutable"} => where'[m] = where[m]]_vars

Delivery == INSTANCE EventDelivery WITH
              placed <- orders,
              parked <- {o \in Orders : Parked(o)}

\* The pipeline does what EventDelivery promises of it.
DeliveryContract == Delivery!Spec

\* Every placed order's event is applied or parked in the end: failures stop,
\* the relay keeps ticking and the consumers keep reopening.
EverySettled == Delivery!EverySettled

\* No row is left behind: an unpublished row is marked in the end, also when
\* its worker's batch was abandoned or another worker holds it too.
EveryRowPublished ==
  \A o \in Orders : outbox[o] = "unpublished" ~> outbox[o] \in {"published", "purged"}

=============================================================================
