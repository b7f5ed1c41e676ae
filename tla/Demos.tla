-------------------------------- MODULE Demos --------------------------------
(***************************************************************************)
(* The demos of the broker and of the outbox, run one after another over   *)
(* one database and one broker, each cut off anywhere: what each deletes   *)
(* first (openDemo, prepareDemo), what it does, and the counts it reports. *)
(* The API is stopped, as README asks, and 20 seconds are enough.          *)
(*                                                                         *)
(* `demo:publish' sends one event for its five.  A program cut off takes   *)
(* its child with it.                                                      *)
(***************************************************************************)
EXTENDS Naturals, Sequences, FiniteSets

CONSTANTS
  Orders,    \* ids of the orders the demos place
  None,      \* no order, no program
  MaxPrograms  \* bound on programs started, for model checking

Keyed == {"demo:outbox", "demo:crash-relay", "demo:crash-write"}  \* each has a KEY
Named == {"demo:publish", "demo:duplicate"}  \* each has an EVENT_ID of its own
Programs == Keyed \cup Named \cup {"demo:dlq"}

Events == Orders \cup Named
Poison == "not-a-contract"

NamesAssumption ==
  /\ None \notin Orders \cup Programs
  /\ Orders \cap (Named \cup {Poison}) = {}
  /\ MaxPrograms \in Nat

VARIABLES
  owned,       \* idempotency_keys: the order of each KEY
  outbox,      \* the outbox rows: order -> "none", "waiting", "published"
  inbox,       \* [deliveries, effects, processed] of the events
  broker,      \* [up, work, dlq]: topology declared, the two queues
  held,        \* the delivery a consumer has not acknowledged
  demo,        \* the program: its name, step, and what it has counted
  placed,      \* ids used so far
  programs     \* programs started

demoVars == <<owned, outbox, inbox, broker, held, demo, placed, programs>>

\* What a program does between its opening and its closing.
Opening == <<"delete-deliveries", "delete-effects", "drop", "declare">>
Preparing == <<"delete-deliveries", "delete-effects", "delete-processed", "delete-outbox",
               "delete-key", "drop", "declare">>
SendAndCount == Opening \o <<"send", "consume", "count">>
Duplicate == Opening \o <<"send", "child", "kill", "consume", "count">>
Outbox == Preparing \o <<"order", "order", "relay", "mark", "consume", "count">>
CrashRelay == Preparing \o <<"order", "crash", "relay", "mark", "consume", "count">>
CrashWrite == Preparing \o <<"write-failed", "count">>
Script == [p \in Programs |->
  CASE p \in {"demo:publish", "demo:dlq"} -> SendAndCount
    [] p = "demo:duplicate"   -> Duplicate
    [] p = "demo:outbox"      -> Outbox
    [] p = "demo:crash-relay" -> CrashRelay
    [] p = "demo:crash-write" -> CrashWrite]

NoDemo == [name |-> None, step |-> 1, published |-> 0, settled |-> 0, verdict |-> "none",
           marked |-> FALSE]

TypeOK ==
  /\ owned \in [Keyed -> Orders \cup {None}]
  /\ outbox \in [Orders -> {"none", "waiting", "published"}]
  /\ inbox.deliveries \in [Events -> 0 .. 3]
  /\ inbox.effects \subseteq Events /\ inbox.processed \subseteq Events
  /\ broker.work \in Seq(Events \cup {Poison}) /\ broker.up \in BOOLEAN /\ broker.dlq \in 0 .. 1
  /\ held \in Seq(Events \cup {Poison}) /\ Len(held) <= 1
  /\ demo.name \in Programs \cup {None} /\ demo.verdict \in {"none", "ok", "failed", "cut"}
  /\ demo.name # None => demo.step \in DOMAIN Script[demo.name]
  /\ placed \subseteq Orders /\ programs \in 0 .. MaxPrograms

Init ==
  /\ owned = [p \in Keyed |-> None]
  /\ outbox = [o \in Orders |-> "none"]
  /\ inbox = [deliveries |-> [e \in Events |-> 0], effects |-> {}, processed |-> {}]
  /\ broker = [up |-> FALSE, work |-> <<>>, dlq |-> 0]
  /\ held = <<>>
  /\ demo = NoDemo
  /\ placed = {} /\ programs = 0

At(step) == demo.name # None /\ Script[demo.name][demo.step] = step
Goes(d) == demo' = [d EXCEPT !.step = @ + 1]
Continues == Goes(demo)

\* closeDemo; an unacknowledged delivery goes back to the queue.
Ends(verdict) ==
  /\ demo' = [NoDemo EXCEPT !.verdict = verdict, !.marked = demo.marked]
  /\ broker' = [broker EXCEPT !.work = held \o @]
  /\ held' = <<>>

\* marked: some earlier run has left the mark of the event it will send.
Start(p) ==
  /\ demo.name = None /\ programs < MaxPrograms
  /\ programs' = programs + 1
  /\ demo' = [NoDemo EXCEPT !.name = p, !.marked = p \in inbox.processed]
  /\ UNCHANGED <<owned, outbox, inbox, broker, held, placed>>

-----------------------------------------------------------------------------
(* deleteDemoRows and cleanup: one statement after the other.              *)

\* The events whose rows it deletes: those of the last order of the KEY, or
\* LIKE 'demo:%'.
Mine == IF demo.name \in Keyed THEN {owned[demo.name]} \ {None} ELSE Named

DeleteInbox ==
  /\ \/ /\ At("delete-deliveries")
        /\ inbox' = [inbox EXCEPT !.deliveries = [e \in Events |-> IF e \in Mine THEN 0 ELSE @[e]]]
     \/ At("delete-effects") /\ inbox' = [inbox EXCEPT !.effects = @ \ Mine]
     \/ At("delete-processed") /\ inbox' = [inbox EXCEPT !.processed = @ \ Mine]
  /\ Continues
  /\ UNCHANGED <<owned, outbox, broker, held, placed, programs>>

DeleteOutbox ==
  /\ At("delete-outbox")
  /\ outbox' = [o \in Orders |-> IF o \in Mine THEN "none" ELSE outbox[o]]
  /\ Continues
  /\ UNCHANGED <<owned, inbox, broker, held, placed, programs>>

DeleteKey ==
  /\ At("delete-key")
  /\ owned' = [owned EXCEPT ![demo.name] = None]
  /\ Continues
  /\ UNCHANGED <<outbox, inbox, broker, held, placed, programs>>

\* resetTopology.
Drop ==
  /\ At("drop")
  /\ broker' = [up |-> FALSE, work |-> <<>>, dlq |-> 0]
  /\ Continues
  /\ UNCHANGED <<owned, outbox, inbox, held, placed, programs>>

Declare ==
  /\ At("declare")
  /\ broker' = [broker EXCEPT !.up = TRUE]
  /\ Continues
  /\ UNCHANGED <<owned, outbox, inbox, held, placed, programs>>

-----------------------------------------------------------------------------
(* What the programs do.                                                   *)

Route(b, events) == [b EXCEPT !.work = @ \o events]

\* publishConfirmed, in the demos that bring their own event or poison.
SendOwn ==
  /\ At("send") /\ broker.up
  /\ broker' = Route(broker, <<IF demo.name = "demo:dlq" THEN Poison ELSE demo.name>>)
  /\ Continues
  /\ UNCHANGED <<owned, outbox, inbox, held, placed, programs>>

\* Ids are not used again; which one comes next makes no difference.
NextOrder == CHOOSE o \in Orders : o \notin placed

\* checkout with the KEY: the second request finds the first one's order.
PlaceOrder ==
  /\ At("order")
  /\ IF owned[demo.name] # None
     THEN UNCHANGED <<owned, outbox, placed>>
     ELSE /\ placed # Orders
          /\ placed' = placed \cup {NextOrder}
          /\ owned' = [owned EXCEPT ![demo.name] = NextOrder]
          /\ outbox' = [outbox EXCEPT ![NextOrder] = "waiting"]
  /\ Continues
  /\ UNCHANGED <<inbox, broker, held, programs>>

\* crashAfterOutbox: the transaction rolls back.
WriteFails ==
  /\ At("write-failed")
  /\ Continues
  /\ UNCHANGED <<owned, outbox, inbox, broker, held, placed, programs>>

Waiting == {o \in Orders : outbox[o] = "waiting"}

\* As it would be without aggregateId.
ClaimAll == Waiting

\* aggregateId: the relay takes this order's row and leaves the others.
Claim == Waiting \cap {owned[demo.name]}

\* relayOutbox publishes; crashAfterPublish leaves it here.
Relay ==
  /\ At("relay") \/ At("crash")
  /\ broker.up
  /\ \E rows \in [1 .. Cardinality(Claim) -> Claim] :
       /\ \A o \in Claim : \E i \in DOMAIN rows : rows[i] = o
       /\ broker' = Route(broker, rows)
  /\ Goes([demo EXCEPT !.published = @ + Cardinality(Claim)])
  /\ UNCHANGED <<owned, outbox, inbox, held, placed, programs>>

\* The broker has confirmed: published_at.
Mark ==
  /\ At("mark")
  /\ outbox' = [o \in Orders |-> IF o \in Claim THEN "published" ELSE outbox[o]]
  /\ Continues
  /\ UNCHANGED <<owned, inbox, broker, held, placed, programs>>

-----------------------------------------------------------------------------
(* runBoundedConsumer, and the child of demo:duplicate.                    *)

StopAfter == IF demo.name = "demo:crash-relay" THEN 2 ELSE 1

\* applyOrderPlaced, committed.
Apply(e) ==
  inbox' = [deliveries |-> [inbox.deliveries EXCEPT ![e] = @ + 1],
            processed |-> inbox.processed \cup {e},
            effects |-> IF e \in inbox.processed THEN inbox.effects ELSE inbox.effects \cup {e}]

Handle ==
  /\ At("consume") \/ At("child")
  /\ held = <<>> /\ broker.work # <<>>
  /\ At("consume") => demo.settled < StopAfter
  /\ held' = <<Head(broker.work)>>
  /\ broker' = [broker EXCEPT !.work = Tail(@)]
  /\ IF Head(broker.work) = Poison THEN UNCHANGED inbox ELSE Apply(Head(broker.work))
  /\ UNCHANGED <<owned, outbox, demo, placed, programs>>

\* ack, or reject to the dead-letter queue.
Settle ==
  /\ At("consume") /\ held # <<>>
  /\ held' = <<>>
  /\ broker' = IF held = <<Poison>> THEN [broker EXCEPT !.dlq = @ + 1] ELSE broker
  /\ demo' = [demo EXCEPT !.settled = @ + 1]
  /\ UNCHANGED <<owned, outbox, inbox, placed, programs>>

\* stopAfter is reached, or nothing comes until the timeout.
Consumed ==
  /\ At("consume") /\ held = <<>>
  /\ demo.settled = StopAfter \/ broker.work = <<>>
  /\ Continues
  /\ UNCHANGED <<owned, outbox, inbox, broker, held, placed, programs>>

\* poll('effect committed before ack'), before the child is killed: it holds
\* the delivery and never acknowledges it.
EffectSeen ==
  /\ At("child") /\ held # <<>>
  /\ IF demo.name \in inbox.effects
     THEN Continues /\ UNCHANGED <<broker, held>>
     ELSE Ends("failed")
  /\ UNCHANGED <<owned, outbox, inbox, placed, programs>>

\* SIGKILL of the child: the broker has the delivery back, and the poll of
\* the queue's depth sees it.
KillChild ==
  /\ At("kill")
  /\ broker' = [broker EXCEPT !.work = held \o @]
  /\ held' = <<>>
  /\ Continues
  /\ UNCHANGED <<owned, outbox, inbox, placed, programs>>

-----------------------------------------------------------------------------
(* The counts.                                                             *)

\* measure(KEY).
Measured ==
  LET o == owned[demo.name]
  IN IF o = None THEN [orders |-> 0, outbox |-> 0, deliveries |-> 0, effect |-> 0, processed |-> 0]
     ELSE [orders |-> 1,
           outbox |-> IF outbox[o] = "none" THEN 0 ELSE 1,
           deliveries |-> inbox.deliveries[o],
           effect |-> IF o \in inbox.effects THEN 1 ELSE 0,
           processed |-> IF o \in inbox.processed THEN 1 ELSE 0]

\* The `ok' of each program.
PublishOk == demo.settled = 1 /\ demo.name \in inbox.effects /\ broker.dlq = 0
DlqOk ==
  demo.settled = 1 /\ broker.work = <<>> /\ broker.dlq = 1 /\ inbox.effects \cap Named = {}
DuplicateOk == inbox.deliveries[demo.name] >= 2 /\ demo.name \in inbox.effects
OutboxOk ==
  /\ demo.published = 1
  /\ Measured = [orders |-> 1, outbox |-> 1, deliveries |-> 1, effect |-> 1, processed |-> 1]
CrashRelayOk ==
  /\ demo.published >= 2 /\ Measured.deliveries >= 2
  /\ Measured.effect = 1 /\ Measured.processed = 1
CrashWriteOk ==
  /\ Measured.orders = 0 /\ Measured.outbox = 0
  /\ Measured.deliveries = 0 /\ Measured.effect = 0

AsShown ==
  CASE demo.name = "demo:publish"     -> PublishOk
    [] demo.name = "demo:dlq"         -> DlqOk
    [] demo.name = "demo:duplicate"   -> DuplicateOk
    [] demo.name = "demo:outbox"      -> OutboxOk
    [] demo.name = "demo:crash-relay" -> CrashRelayOk
    [] demo.name = "demo:crash-write" -> CrashWriteOk

\* report().
Report ==
  /\ At("count")
  /\ Ends(IF AsShown THEN "ok" ELSE "failed")
  /\ UNCHANGED <<owned, outbox, inbox, placed, programs>>

\* Ctrl-C, or a connection that is lost.
Cut ==
  /\ demo.name # None
  /\ Ends("cut")
  /\ UNCHANGED <<owned, outbox, inbox, placed, programs>>

Next ==
  \/ \E p \in Programs : Start(p)
  \/ DeleteInbox \/ DeleteOutbox \/ DeleteKey \/ Drop \/ Declare
  \/ SendOwn \/ PlaceOrder \/ WriteFails \/ Relay \/ Mark
  \/ Handle \/ Settle \/ Consumed \/ EffectSeen \/ KillChild
  \/ Report \/ Cut

Spec == Init /\ [][Next]_demoVars

-----------------------------------------------------------------------------
(* Properties.                                                             *)

\* A demo that is run to its end shows the counts of README, whatever demos
\* ran before it and wherever they were cut off: the database and the broker
\* it starts from are as good as new.  Except that demo:publish and
\* demo:duplicate do not survive the inbox marks of their own earlier programs.
DemosRepeat == demo.verdict = "failed" => demo.marked

\* The comment on resetTopology: "Demos start from an empty broker so a
\* previous run cannot change the counts".
CountsNeverChange == demo.verdict # "failed"

==============================================================================
