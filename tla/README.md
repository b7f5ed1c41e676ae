# Verification of the marketplace API

TLA+ models of the order marketplace in this repository (NestJS, PostgreSQL behind PgBouncer, RabbitMQ), the TLC
runs that check them, and TLAPS proofs of the properties that matter most. Paths are relative to the repository;
`PROJECT.json` maps every definition that models code to its lines.

To check: `tlc -config OrderPipeline_safe.cfg MCOrderPipeline` (and so on, see *Runs*), `tlapm OrderPipelineProofs.tla`.

## 1. Inventory

| Component | State | Operations | Interacts with |
| --- | --- | --- | --- |
| Checkout transaction (`src/checkout.ts`) | rows of products, users, orders, order_items, jobs, outbox, idempotency_keys | one READ COMMITTED transaction: claim key, take stock by line, debit, save, commit | the outbox relay and the job workers read what it commits |
| Outbox relay (`src/outbox/relay.ts`) | `outbox.published_at`, `attempts` | claim a batch, publish each row, mark, purge | publisher service, broker |
| Publisher service (`src/broker/order-placed-publisher.service.ts`) | `publisher`, `opening`, `ticking`, `tail` | init, tick, confirm, send, ensure, destroy | RabbitMQ sessions, relay |
| Consumer and inbox (`src/broker/consume-order-placed.ts`, `order-placed-consumer.service.ts`, `effects.ts`) | processed_messages, order_placed_effects, order_placed_deliveries; `current`, `stopped`, the chain of a channel | attach, apply, ack/reject/nack, the reopening loop, close | broker queues, PostgreSQL, the publisher beside it in the process |
| Topology (`src/broker/topology.ts`) | exchanges, queues, bindings | declare, drop and declare again | publisher never declares |
| Orders service (`src/orders/orders.service.ts`) | — | create, list, findOne, updateStatus | checkout, events |
| Status events (`src/orders/order-events.service.ts`, `orders.controller.ts`) | order_status_events, a Subject per process, open streams | publish, since, stream, SSE connect/disconnect | PATCH, SSE clients, gateway |
| Gateway (`src/orders/orders.gateway.ts`) | socket.io rooms, one subscription per process | join, emit, unsubscribe | Subject of the process, ownerId |
| Idempotency interceptor | a Map per process | handle, sweep | POST /orders, the table of keys |
| Job worker (`src/job-worker.ts`) | jobs.processed, attempts | claim, process, count, return | PostgreSQL row locks |
| Serialization retry (`src/retry.ts`, `demo-retry.ts`) | — | run again on 40001/40P01 | REPEATABLE READ transactions |
| Cursor pagination | the client's cursor | page | tables that change meanwhile |
| Password rotation (`rotate.sh`, `db/up.sh`, `pgbouncer/`) | role password, secret file, userlist | rotate, up, restart | both pools of the API |
| Pools and health (`src/database`, `src/typeorm`, `src/data-source.ts`) | connections | query, connect, drop | PgBouncer |
| Backup and drill (`scripts/backup.sh`, `restore-drill.sh`) | dump files and sidecars | dump, seal, prune; take, restore, compare | live database |
| Seed (`src/seed.ts`) | rows found by natural key | find, insert, raise a balance | users, products, orders |
| Demos (`src/demo-*.ts`, `src/outbox/demo-support.ts`, `src/broker/demo-setup.ts`) | what they leave in the database and the broker | delete, drop, declare, send, relay, consume, count | all of the event path |
| StoreService, repositories, migrations, HTTP shell, contract, scripts | see *Not modelled* | | |

**What is hard.** PostgreSQL is shared by API processes, workers and scripts, so most of the code is a race that a
row lock, a unique key, an advisory lock or a snapshot is to decide: two checkouts for one product, two requests with
one key, two relays for one row, two consumers for one event, two publishers of one order's status. Between the steps
the process can be killed, a connection can be lost with or without its COMMIT having happened, the broker may drop a
channel before or after it accepted a message. The event path is at-least-once on each hop and is to be exactly-once
in its effect. Memory caches what the database decides (the interceptor's map, `this.publisher`, the pool's password,
PgBouncer's userlist, a stream's `seen`), so staleness is everywhere. The hazards, each with its line and the properties
that would catch it, are listed in `PROJECT.json`.

**What makes each component correct**: sections 3 and 4.

## 2. How the models follow the code

Common to all modules: a step ends where the code awaits something another actor can get in between; a SQL statement
is one step, and a transaction's writes are seen by others at its COMMIT. Names follow the source. A definition
whose comment begins "As it would be" or "A slip" is a variant of the one after it, with a plausible mistake in it; nothing refers
to it, and putting it in the place of the original makes TLC report the property named in `PROJECT.json` "mutants".

### EventDelivery, OrderPipeline
The path of an `order.placed` event. *State*: the order and outbox rows (`orders`, `outbox`, `attempts`), the inbox
(`processed`, `effects`, `deliveries`), the place of each published copy (`where`, with `returns` counting requeues),
relay workers and consumer sessions with the step each is at. *Actions*: `Place` (the checkout commits), `LockRows`,
`CommitClaim`, `Send`, `Confirmed`, `MarkPublished`, `Abandon`, `PublishRejected`, `RelayFails`, `Purge` for the
relay; `Accept`, `LoseMessage`, `CloseChannel` for the broker; `Open`, `Bind`, `Deliver`, `Begin`, `InsertMark`,
`InsertEffect`, `CommitTx`, `Ack`, `RejectBad` and the failures `Nack`, `NackThrows`, `AckThrows`, `ChannelCloses`, `Kill`
for the consumer. After a `Nack` the channel is open, and the broker delivers on it, until `SafeClose`. A copy of an event is the pair of its order and the attempt that published it. `EventDelivery` is the
contract: a placed event is applied once or parked where an operator finds it; `OrderPipeline` implements it.

Abstractions: a queue is a set (README.md:517 promises no order); an acknowledgement takes effect when the broker gets
it; `AckThrows` ends the handler, and the process death that may follow is `Kill`; the dead-letter exchange is
taken to reach its queue (the hop is at-most-once, README.md:488); a publish to an exchange that is missing fails and costs one of `MaxFaults`; the relay and
the consumer of a process fail separately, a superset of failing together; a handler that outlives its session is covered
by having two consumers.

### CheckoutCalls, AtomicCheckout, Checkout
`checkout()` call by call: `Begin`, `ClaimKey` (INSERT ... ON CONFLICT waits for an uncommitted holder), `TakeLine` for
each line, `Pay`, `Save` (order, job, outbox row and the key's order_id), `Commit`, and `Fail` at any step, a COMMIT whose
reply is lost included. Locks follow from the step a call has reached; `BreakDeadlock` is PostgreSQL's detector and aborts
one waiter of a circle. READ COMMITTED: a waiting UPDATE re-evaluates its WHERE, and a row with too little refuses
without waiting when its committed version already fails the condition. A product in two lines passes the decrements
and is refused by the composite key of order_items. `AtomicCheckout` does each call in one step; `Checkout` implements it.
Prices do not change during a run; an order's id is that of its call. `withSerializationRetry` is not around
checkout (README.md:265), so a deadlock's victim is a failed call.

### OrderEvents
One order (lock, log and filter are all by order id). `SaveRow`, `Lock` (advisory), `Insert` (max + 1), `CommitEvent`
with the trimming DELETE, `Emit` in the process of the PATCH; `Connect`, `Query`, `Replay`, `Receive`, `Drop`,
`Disconnect` for streams, with `seen` per stream; `PatchFails`, `Kill`. A PATCH stands for its status. Emits of
different PATCH calls may come in any order, since each resumes after its own COMMIT. The primary key (order_id, event_id) is
left out: the log is right without its help, and with it a repeated number would be refused.

### KeyStore, IdempotentOrders
The interceptor's map per process as a sequence of records in insertion order, with `Get`, `Set` (which keeps the slot of
a key), `Swept`; `Arrive`, `Create`, `FindOne`, `Kill`, and `Tick` for time. `OrdersService.create` is one step, which
`ChecksOutAtomically` justifies. Raw body (the interceptor's fingerprint) and dto (the table's) are told apart.
The clock is monotone and no request runs as long as KEY_TTL. The contract requires the key, so every request has one.
`KeyStore` says what that comes to without processes, maps and clocks: a key is given one order and keeps it; a 201 names that order, a
422 follows a request of the key with another body, a 409 one with the same body that is running or has failed.
`IdempotentOrders` implements it, with the row of the key (`keyRow`) as the order of the key. The contract promises that for
24 hours (openapi.yaml:80-84); that it holds of an older key too is what the code does and contradicts the contract, which
`MCKeyAge` shows with the time at which each request came (`key_age` under *Disagreements*).

### JobQueue, JobWorker
`ClaimJob` (the lowest free pending id), `Finish`, `Throw`, `CountAttempt`, `CountPending`, `Die`; row locks are those of
the workers at work. `JobQueue` is the promise without workers and locks: a job is processed once, or given up after it has
failed JOB_MAX_ATTEMPTS times; either is for good, and nothing is tried after it. `JobWorker` implements it; what has become
of a job (`Outcome`) is read from the columns `processed` and `attempts` of its row.

### PublisherService
One process: the tick and its batch, `send` on a session, `ensure()` with `this.opening`, the sessions' dialing, failing
and closing, and shutdown. A channel that closes alone (`ChannelDrops`) makes the drop listener forget the session, with
its connection still open ("leaked"). Only the tick calls `confirm()`, one at a time, so `tail` never queues. SIGTERM while the
process is still booting is left out.

### ConsumerService, ApiBroker
`startBackgroundConsumer` in the same process: the loop (`Opened`, `OpenFails`, `Leaves` for the finally, `LoopClosed`,
`Restart` for the timer), each channel with its connection (`ChannelCloses` for the channel alone, after which the finally
awaits the close of the connection, `Dropped` for both, `CloseOk`, `Cancel`), the chain of handlers on it
(`Deliver`, `Settled`, `ApplyFails`, `AckThrows`, `AckThrowsUnheard`), and `Close` from onModuleDestroy. `ch.ack` and
`ch.nack` throw on a channel that has closed; the rejection is handled by the next delivery of the chain, or by nobody, and
then Node ends the process. `ApiBroker` is BrokerModule: publisher and consumer start together, are destroyed
together (`Shutdown`), and what ends one ends both (`ProcessEnds`). `OrderPipeline` has the same handlers with what they do to
rows and messages, this pair of modules has what they do to connections.

### OrdersGateway, OrderFeeds
The sockets of one order's room: `Handshake` (the user a socket says it is), `Ask` (join up to the query of ownerId), `Join`,
`Leave`, `Unsubscribe`, `Broadcast`. The two awaits of join are one step between `Ask` and `Join`: with the in-memory
adapter, `client.join` resolves at once. `OrderFeeds` puts the sockets and `OrderEvents` behind the one Subject of each
process: its `Emit` is one step with `Broadcast`. The body of a join names any user, and the code does not read it.

### PasswordRotation
The steps of `rotate.sh` and `db/up.sh`, each of which may be the last; the redirection empties the secret file before
printf fills it (`Truncate`, `Write`), and an empty file is no password to PostgreSQL and to `start.sh`; PgBouncer with its userlist and its server
connection; for each pool whether it has a connection. `DatabaseService` reads the file for every new connection,
`TypeormService` when it starts. The URL has no password and DB_PASSWORD is unset, the set-up `rotate.sh` is for; one
operator at a time.

### CursorPages
A client's walk over the pages of `GET /orders` or `/products` while rows are inserted, committed in another order than
their ids, rolled back and deleted. A page is one SELECT and `paginate`.

### SerializationRetry
`withSerializationRetry` around the `bumpBalance` of demo-retry: `Read` takes the snapshot, `Write` waits for the row lock,
`SerializationFailure` is PostgreSQL's 40001, `Retry` the loop, `ConnectionLost` and `CommitAnswerLost` the errors it does
not retry. The transactions take one row each, so 40P01 cannot occur; the length of the backoff is left out.

### BackupDrill
`backup.sh` step by step (`Sum`, `StartDump`, `FinishDump`, `CreateSidecar`, `Seal`, `Prune`), cut off at any (`Abort`), and
`restore-drill.sh` (`Take`, `Restore`) beside it. The sidecar is created empty and then written, so a drill may read it blank. The content of orders is the number of writes so far; drill and backup may
overlap, two backups may not (cron).

### Seeding
`seed.ts` row by row: `Look` for the natural key, `Insert`, `Raise` a balance that has fallen; `Kill`, `Start` again or a second
time; `Spend` and `Delete` by others. Only users have a unique index to refuse a second row.

### Demos
The six demos of the broker and the outbox, one after another over one database and one broker, each cut off anywhere
(`Cut`): what each deletes and redeclares, the steps of its script, and the counts it compares. The API is stopped, as
README.md:492 and :531 ask; the 20 seconds of each poll are enough; `demo:publish` sends one event for its five; a
program that is cut off takes the child of demo:duplicate with it (Ctrl-C does; a SIGKILL of the parent alone would not).

### MCWorkers
`OrderPipeline` and `JobWorker` for the questions that need fairness. They share no state; a behaviour is of the relay and two
orders, of two relays and one order, or of the jobs (`part`), each with the fairness of its own module.

### MCParts
`IdempotentOrders`, `PasswordRotation`, `CursorPages`, `SerializationRetry`, `BackupDrill`, `Seeding` and `Demos` share no
state with each other. `MCParts` puts them side by side, and `part` says which of them a behaviour is of, so their state
spaces add up and do not multiply.

## 3. Runs

Each cfg is an instance of the MC module of its model, or of the model itself (`PublisherService_failure.cfg`).
`CHECK_DEADLOCK FALSE` wherever a finite number of calls, jobs or faults lets everything come to its end.

| Run | Question | States | Bounds, and why they suffice |
| --- | --- | --- | --- |
| pipeline_safe | is a committed event ever lost, a row marked without a confirm; is the effect applied exactly once, does an ack stand on it, is the contract kept? | 0.62 M | 1 order published up to twice, 2 relay workers, 2 sessions, limit 1, 1 bad body, 2 faults: both workers on one row, redelivery beside a running handler, the limit reached |
| checkout_calls | stock, money, keys, answers, atomicity, no hang | 43 k | 7 calls, 2 products, 1 buyer, 2 keys: a retry, a reused key, opposite line orders, a repeated and an unknown product, an unknown buyer, a balance too small for two calls; every answer occurs |
| order_feeds | numbering, trimming, streams; rooms | 0.78 M | 2 PATCH calls, limit 1 so that trimming happens, 2 processes, 1 stream, 1 socket of the buyer or another, 2 faults, lost COMMIT replies |
| workers_go_on | does every event settle and every row get marked; is a job processed once, or given up for good, counted; does every worker end? | 0.12 M | three instances. 2 orders in a batch of 2, one relay, one consumer, 1 fault, 2 attempts a row: a batch with one row published and one not, a failure at every step, one more attempt than faults can spoil. 1 order and 2 relays: each passes the row the other holds, and both publish it. 3 jobs, 1 of them poison, 3 workers, 2 attempts, 2 faults: two workers waiting beside a holder that fails |
| api_sessions | one connection each, nothing opened after shutdown, nothing of the consumer left open, rows go out, the queue is read again, shutdown ends | 150 k | 2 rows, 3 faults, 4 sessions and 4 channels: a failure while another is being cleaned up; a chain of 2 deliveries; the queue may be deleted |
| parts_alone | does a key keep its order; rotation, pages, retry, backup, seed, demos | 1.10 M | see below |

Of the parts: keys, 5 requests with 2 keys and 3 bodies on 2 processes, 1 kill, time as far as KEY_TTL = 2, when the first
records expire; rotation, 3 passwords and 2 scripts cut off anywhere; pages, 5 ids and pages of 1 or 2, so three pages
and a boundary on every id; retry, 3 callers, 2 attempts, 2 lost connections, so one is refused twice; backup, 3 runs
that keep 2 dumps, 2 writes; seed, 2 processes, 3 starts, a user, a product and two orders; demos, 3 programs in any
order and cut off anywhere, the third over what two others left.

JOB_MAX_ATTEMPTS, BUFFER_LIMIT, the batch size, prefetch, the delivery limit and the 24 hours of a key are constants of the
modules and take small values in the runs; `MaxFaults`, `MaxAttempts`, `MaxKills`, `MaxTime`, `MaxCuts`, `MaxRotations`,
`MaxId`, `MaxWrites`, `MaxRuns`, `MaxStarts`, `MaxDeletes` and `MaxPrograms` bound what is unbounded in the code. Symmetry is
used over workers, sessions, processes and equal requests, in runs without liveness only. What each property says is in the
comment on it.

### Disagreements
Six runs end in a violation of something the repository says of itself; `PROJECT.json` "findings" quotes each.

| Run | What TLC finds |
| --- | --- |
| events_replay | a live event that overtakes the replay makes the stream drop the older events (README.md:427) |
| keys_inflight | "still in flight" is answered for a request that has failed, for 24 hours (idempotency.interceptor.ts:60) |
| key_age | a request that repeats a key of 24 hours ago gets the old order from the table, which never forgets a key; "the same request counts as a new attempt" (openapi.yaml:82-84) |
| publisher_failure | a broker that cannot be reached again ends the process through an unhandled rejection (order-placed-publisher.service.ts:74) |
| queue_unread | a queue that is deleted and declared again under a running API is not read again: the callback with null returns, and nothing rejects (README.md:478, consume-order-placed.ts:133) |
| demos_again | demo:publish run twice shows effect=0, and demo:duplicate times out: their inbox marks are never deleted (topology.ts:54) |

The models show some more behaviour a reader of the docs may not expect. No run of its own checks these:

- SKIP LOCKED does not keep a second relay off a row that is being published, since the claim has committed by then
  (`CommitClaim`; README.md:517). The inbox makes that harmless: `AppliedOnce`.
- A poison job can be tried beyond JOB_MAX_ATTEMPTS: its attempt is counted after the rollback, when another worker may
  have claimed it already (`AttemptsAreFailures` has the bound that does hold).
- A demo cut off between its drops and the declare leaves no exchange; the API's publisher, which declares nothing, fails
  until its consumer or another demo has declared it.
- An acknowledgement that finds its channel closed ends the API process when no other delivery is behind it
  (`AckThrowsUnheard`; `ShutdownEnds` allows for it).
- `open()` of the consumer leaks its connection when the channel, the topology or the prefetch fails (`OpenFails`;
  `NothingLeftOpen` excepts it). Of the publisher, a session that is being dialed when the process shuts down is opened later
  and never closed, and an idle session whose channel closes alone is forgotten with its connection open
  (`ChannelDrops`); `NothingLeftOpen` speaks of the consumer only.
- A rotation cut off between the two halves of `printf > file` leaves an empty file; `db:up` then takes the role's password
  away and PgBouncer lists none, and the API is locked out until the next rotation (`FailsOnlyInRotation` excepts it).
- A backup cut off between the two halves of its last `printf` leaves a blank sidecar, and the drill a MISMATCH on a sound
  dump although nothing was written (`BackupsRestore` excepts it).
- Two seeds at once duplicate products and orders (`SeedConverges` excepts it).
- A new connection of `TypeormService` fails after a rotation until the API is restarted (rotate.sh:2,6 promise
  otherwise), and every new connection fails between step 1 and the restart of PgBouncer.

## 4. Fairness

Weak fairness only, and only of what the code or the runtime schedules by itself: relay ticks (`setInterval`), the
reopening loop of the consumer and its timer, handlers that have been started, the broker answering or its connection
ending, workers at work. Faults, placing orders, messages that arrive, shutdown have none, and faults are
finite. `EverySettled` needs faults to stop: in an outage that never ends the limit parks a delivered event, which
counts as settled, but the relay would try for ever. `EveryRowGoesOut` and `ReadsAgain` speak of a process that stays up,
`ShutdownEnds` of one that has been asked to stop.
`SomeoneGoesOn` says the same for checkout without fairness: while a call is open, some call has a step that no lock
keeps it from, PostgreSQL's deadlock detector included. Since every step uses up one of the finitely many a call has
(`StepsRunOut`), all end. Both are proved, see `NobodyHangs` and `CallsRunOut`.

## 5. Proofs

TLAPS proves the following for every value of the constants that meets the modules' ASSUMEs: every invariant of the passing
runs (`SomeoneGoesOn` with its guards written out in place of ENABLED), the action properties `NothingTakenBack`,
`FailsOnlyInRotation` and `OpensNothingMore`, and the four refinements: of `EventDelivery`, `AtomicCheckout`, `JobQueue`
and `KeyStore`.

| Module | Theorems, with the property each states |
| --- | --- |
| `OrderPipelineProofs` | `TypeCorrect`, `EventsKept` (NoEventLost), `PublishedConfirmed` (PublishedMeansConfirmed), `AckedApplied` (AckedMeansApplied), `AppliedAtMostOnce` (AppliedOnce), `NothingIsTakenBack`, `PipelineDelivers` (`Spec => DeliveryContract`) |
| `CheckoutProofs` | `TypeCorrect`, `StockAndMoneyConserved` (Conserved), `KeysAreHonoured` (OneOrderPerKey), `AnswersAreTrue` (AnswersTrue), `ChecksOut` (`Spec => ChecksOutAtomically`), `NobodyHangs` (`Spec => []SomeoneCanGoOn`), `CallsRunOut` (`Spec => StepsRunOut`) |
| `OrderFeedsProofs`, on lemmas of `OrderEventsProofs` | `FeedTypes`, `LogIsTheNewest` (LogIsNewestEvents), `StreamsFollow` (StreamsFollowLog), `StreamsAreCurrent` (OpenStreamsAreCurrent), `RoomsHearOnce` (RoomHearsEachOnce), `RoomsAreOwned` (RoomIsTheOwners) |
| `JobWorkerProofs` | `JobsSettleForGood` (`Spec => SettledForGood`), `JobsTypeCorrect`, `EachJobOnce` (ProcessedOnce), `ReturnsSettled` (ReturnsWhenSettled), `OnlyFailuresCount` (AttemptsAreFailures) |
| `ApiBrokerProofs` | `ApiTypes`, `OneOfEach` (OneConnectionEach), `CloseLeavesNothing` (NothingLeftOpen), `StopIsFinal` (`ApiSpec => OpensNothingMore`) |
| `PartsProofs` | `PartsTypeCorrect`, `MapsAreSwept` (SweepLeavesNothing), `KeysKeepPromise` (`PartsSpec => KeysKeepTheirOrder`), `KeysStandForOneOrder` (OneAnswerPerKey), `WalksSeeEachOnce` (WalkSeesEachOnce), `NoUpdateLost` (NoLostUpdate), `DumpsRestore` (BackupsRestore), `SeedsConverge` (SeedConverges), `DemosShowTheirCounts` (DemosRepeat), `RotationsLetIn` (FailsOnlyInRotation) |

`JobsTypeCorrect`, `ApiTypes`, `NothingIsTakenBack`, `KeysStandForOneOrder`, `NobodyHangs` and `CallsRunOut` are of formulas
no cfg lists. TLC finds them true in the runs of their components too.

**Assumptions.** They are on constants only, and TLC evaluates each on a run: names that stand for different things are
different (`None` is no call, no session and so on); limits are natural numbers, and positive where zero would mean a
program that does nothing (`BUFFER_LIMIT`, `KEY_TTL`, `PREFETCH`, attempts, a page's limit); prices, stock and balances are
natural numbers; job and order ids are numbers, and workers, PATCH calls and callers finitely many; a request has at least
one line; equal raw bodies are equal dtos; the seed has a user, since products have sellers; an order's id is not the id of
a demo's own event. The `ASSUME`s of the parts are definitions in their modules, and `MCParts` assumes them all.

**How the arguments go.** Almost none of the invariants is inductive alone. Each proof strengthens it by named conjuncts,
has one lemma per action, and puts them together in a step lemma; the theorems follow with temporal logic. TLC finds each
strengthening (`Inv`, `RInv`, `CountInv`, `FeedsInv`, `ApiInv`, and of the parts `KeysInv` to `DemoInv`) true in every state
of its component's run: give it as an INVARIANT with a module that EXTENDS the MC module and the proof module.

*The pipeline.* `Inv` adds three groups. Relay: what a worker holds follows from its step, a row in a batch has been
counted by its worker, the attempt numbers of two workers on one row differ, and a publish in progress has a number no
other copy has (`RelayFrame` collects what the relay's steps leave alone). Broker: a row marked or about to be marked has an
accepted copy, and no step un-accepts one (`Moves`, `HeldStay`). Inbox: an open transaction holds its mark exclusively, so a
second insert of the mark waits; mark and effect commit together; a handler past its COMMIT has the effect. The refinement
needs `OnlyPlaced` besides: only orders that were placed have copies or effects.

*Checkout.* `Locks`: the locks that follow from the steps exclude each other. `Covered`: therefore what was checked when a row
was locked is still true at the COMMIT: the key has no order, the stock covers what was taken, the balance the total. `Sums`:
what a call has taken of a product is the sum over its lines so far, and its total the sum of their costs. With these a
COMMIT changes stock and money by what the order says, and no amount below zero. A refusal gives a reason that holds in the
committed state of that moment, which is what `AtomicCheckout` asks of it; every other step stutters there.
Nobody hangs: `CanGoOn(t)` is the guard of t's next step, with the locks it waits for (TLC finds it equal to `ENABLED
Proceed(t)` in every state of the run). If none of the open calls could go on, each would wait for another; a least set of
calls that wait only for one another is a circle, which `BreakDeadlock` may break. And `StepsLeft`, the
lines a call still has to take and the statements after them, falls with each of its steps and rises for no other call.
Sums over sets need an induction that the library states only with an operator as parameter. `InductionLemmas` has it in
first-order form: a non-empty family of subsets of a finite set has a least member (`LeastSubset`, from the library's
well-foundedness of strict inclusion). From that follow what the community modules' `SumFunctionOnSet` computes, and that
it does not depend on the order of the fold.

*Status events.* `Exclusive` and `Numbered`: one call at a time is between its INSERT's number and its COMMIT, so the number
is still the next one. For the streams: what a stream has been sent is a rising sequence of committed events not beyond
`seen` (`Sends`); and the answer of `since()` is a piece of the history that, together with `seen`, covers all that the process has
emitted (`Answered`), so that replay and live events meet.

*Rooms.* The gateway only listens, so a step of `FeedSpec` is a step of `OrderEvents` or none (`FeedIsEvents`), and the log's
invariant carries over. The owner's identity comes from the handshake, and a socket only makes a handshake when it is not
connected, so in no room and in no join: a socket whose join awaits `ownerId()` is the owner's already. `RoomsInv`: a socket
has heard an event at most once, only from its own process, and all that were emitted since its join.

*Job workers.* A row's `processed` rises only in the transaction that holds it; a worker has returned only after a count of
zero, and nothing makes a job pending again. A held job is pending until the transaction that holds it ends: the UPDATE that
counts an attempt, and may use up the last one, waits for the row (`WorkIsPending`). So each COMMIT of a worker is a
`Process` of `JobQueue`, each error in `process` a `Fails`, and a count that reaches the limit a `GiveUp`. `Counted`: each
try of a job is counted, about to be counted by a worker that caught it, or was lost with a worker that died, and each worker
may have begun one when one was left: hence the bound `JOB_MAX_ATTEMPTS + Cardinality(Workers) + MaxFaults`, and the failures
`GiveUp` asks for.

*Publisher and consumer.* Somebody still knows each connection that is not closed: `this.publisher`, `this.opening` or the
send that is cleaning up (`SessionsKnown`), the loop or `close()` (`ReadersKnown`, `LoopKnown`, `CurrentKnown`); and
`close()` is called once (`StoppedOnce`). So none is opened while another is there. The theorems are of `ApiSpec`, which the
run's `ApiFairSpec` implies. After shutdown `confirm()` refuses before `ensure()` opens a session; the loop has a timer only
while it is not stopped, and what an `open()` still brings is closed and not attached (`NothingBegins`).

*The parts* share no variable but `part`: a step of `MCParts` is a step of one and leaves the others alone (`PartsStep`).

- Keys: a running call has its in-flight record, not yet expired, in the map of its process, so a process runs one call per
  key; the map is in the order of expiry and has a key once; a record's or an answer's order is the one in the row of the
  key, which never changes. A killed process takes its map along but not the row. For `KeyStore`: an in-flight record speaks
  of a call that is running or has failed (`InFlightHeld`), which is the reason `KeyStore` asks of a 409.
- Pages: what a walk was given lies behind its cursor, and every old row behind the cursor was given (`WalkOn`).
- Retry: the row counts the commits; a transaction that has written has the last snapshot; the first two reads are of the
  row as it was, so one of the first two is refused.
- Backup: a dump has the number of its run; the sum and the snapshot of a run agree unless a write came between them; a
  sidecar appears only on a complete dump; a dump with a written sidecar is there from the first success on, since the dumps that
  are pruned are older than those kept.
- Rotation: the file has the role's password, or both have none, except between two steps of a rotation or where a script was cut
  off, and with no script at work PgBouncer has read that file.
- Seed: until two seeds have run at once only one runs, so what it has not found is still missing when it inserts it; users have
  a unique index and are never deleted; a seed passes a row only when it is there. A row is there at most as often as
  seeds were started: its count plus the seeds that may still insert it never exceeds the starts (`SeedStarts`).
- Demos: what a program has deleted is gone, and nothing is under way while it deletes (`Cleaning`); then copies in the queue,
  held and settled are as many as were sent, and the deliveries count those taken (`Awaits`); before the counts, all is settled.

**Model-checked only**: the temporal properties under fairness (`EverySettled`, `EveryRowPublished`, `EveryWorkerEnds`,
`EveryRowGoesOut`, `ReadsAgain`, `ShutdownEnds`), and that the guards in `SomeoneCanGoOn` are those of the steps, which is
what `SomeoneGoesOn` says: weak fairness and deadlock are about ENABLED, which is beyond the prover. What the runs in
*Disagreements* find, TLC finds.

## 6. Not modelled

- *StoreService*: StoreModule provides it, nothing injects it.
- *demo-race, demo-workers, demo-nplus1, realtime-demo*: they call `checkout`, `runWorker`, a query and the gateway, which are
  modelled for themselves.
- In the gateway: the parsing of the two ids; a server that scales out with an adapter (none is configured).
- In the demos: the products and users `prepareDemo` resets, which no count depends on; an orphan child of demo:duplicate.
- *Repositories, products controller, health of the process, query counter, report*: single statements or output.
- *Migrations, HTTP shell, validation, problem+json, OpenAPI, contract tests, CI*: no state, or executed once by hand.
- Known hazards without a property, and why, are the entries with a note under "hazards".

## 7. Plan

1. Done and checked: all the modules of section 2. Done and proved: their invariants, the four contracts, and the three
   action properties of section 5.
2. Next: lemmas behind the liveness properties that need no fairness, as `CallsRunOut` is for checkout (what a fault-free step
   of the relay, the consumer's loop and a worker decreases); that several feeds on one log agree.
3. Open: the two hazards with a note. Both need a promise from the authors before there is something to check.
