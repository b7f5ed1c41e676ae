--------------------------- MODULE ConsumerService ---------------------------
(***************************************************************************)
(* OrderPlacedConsumerService of one API process: startBackgroundConsumer, *)
(* which opens a channel, reads orders.placed until attach() rejects and   *)
(* opens the next one, and the close() that onModuleDestroy awaits.  What  *)
(* a handler does to the database is in OrderPipeline; here it is whether  *)
(* its channel is still open when it comes to acknowledge.                 *)
(*                                                                         *)
(* ApiBroker puts it beside PublisherService into one process.             *)
(***************************************************************************)
EXTENDS Naturals

CONSTANTS
  Readers,    \* channels, each with its connection, the loop may open
  None,       \* null
  PREFETCH,
  MaxFaults,  \* bound on failures of the broker and of the database
  Resets      \* whether somebody may delete the queue and declare it again

VARIABLES
  stage,     \* the process, as in PublisherService
  loop,      \* [step, on]: where the loop is, and on which channel
  current,   \* current
  reader,    \* each channel, with its connection
  stopped,   \* stopped
  closing,   \* the channel close() closes
  applying,  \* channels with a handler inside applyOrderPlaced
  behind,    \* deliveries behind that handler in the chain of the channel
  faults     \* failures so far

\* "cancelled" is open, but RabbitMQ has taken the consumer away; "leaked" is
\* a connection open() has made and forgotten.
Connected == {"opening", "open", "cancelled", "closing"}

TypeOK ==
  /\ loop \in [step : {"booting", "opening", "attached", "closing", "waiting", "ended"},
               on : Readers \cup {None}]
  /\ current \in Readers \cup {None}
  /\ reader \in [Readers -> Connected \cup {"unused", "leaked", "closed"}]
  /\ stopped \in BOOLEAN
  /\ closing \in Readers \cup {None}
  /\ applying \subseteq Readers
  /\ behind \in [Readers -> 0 .. PREFETCH - 1]

\* Channels not used yet are all alike: the next one is any of them.
AnyReader == CHOOSE s \in Readers : TRUE
NextReader == CHOOSE s \in Readers : reader[s] = "unused"

\* onModuleInit awaits the first open().
Init ==
  /\ loop = [step |-> "booting", on |-> AnyReader]
  /\ reader = [s \in Readers |-> IF s = AnyReader THEN "opening" ELSE "unused"]
  /\ current = None
  /\ stopped = FALSE
  /\ closing = None
  /\ applying = {}
  /\ behind = [s \in Readers |-> 0]

Alive == stage # "dead"
Fault == faults < MaxFaults /\ faults' = faults + 1
Usable(s) == reader[s] \in {"open", "cancelled"}
AttachedOn(s) == loop = [step |-> "attached", on |-> s]
Goto(step, s) == loop' = [step |-> step, on |-> s]

\* Node ends the process, and with it every connection.
Dies ==
  /\ stage' = "dead"
  /\ Goto("ended", None)
  /\ current' = None
  /\ reader' = [s \in Readers |-> IF reader[s] = "unused" THEN "unused" ELSE "closed"]
  /\ applying' = {}
  /\ behind' = [s \in Readers |-> 0]
  /\ closing' = None
  /\ UNCHANGED stopped

-----------------------------------------------------------------------------
(* The loop.                                                               *)

\* `if (stopped) break`, otherwise the restart timer.
GoesOn == Goto(IF stopped THEN "ended" ELSE "waiting", None)

Closes(s) == [reader EXCEPT ![s] = IF Usable(s) THEN "closing" ELSE @]

\* As it would be if the finally did not await safeClose.
LeavesUnclosed ==
  /\ current' = None
  /\ reader' = IF current = None THEN reader ELSE Closes(current)
  /\ GoesOn

\* The finally once attach() has rejected: it takes current, unless close()
\* has, and awaits safeClose.
Leaves ==
  /\ current' = None
  /\ IF current = None
     THEN GoesOn /\ UNCHANGED reader
     ELSE Goto("closing", current) /\ reader' = Closes(current)

\* As it would be with the break outside the try.
OpenedUnguarded(s) ==
  /\ Alive
  /\ loop.on = s /\ loop.step \in {"booting", "opening"}
  /\ reader' = [reader EXCEPT ![s] = "open"]
  /\ IF stopped
     THEN Goto("ended", None) /\ UNCHANGED current
     ELSE Goto("attached", s) /\ current' = s
  /\ UNCHANGED <<stage, stopped, closing, applying, behind, faults>>

\* As it would be without `if (stopped) break`.
OpenedAnyway(s) ==
  /\ Alive
  /\ loop.on = s /\ loop.step \in {"booting", "opening"}
  /\ reader' = [reader EXCEPT ![s] = "open"]
  /\ Goto("attached", s)
  /\ current' = s
  /\ UNCHANGED <<stage, stopped, closing, applying, behind, faults>>

\* open() resolves: current is set, and attach() begins unless close() has
\* been called meanwhile.
Opened(s) ==
  /\ Alive
  /\ loop.on = s /\ loop.step \in {"booting", "opening"}
  /\ IF stopped
     THEN /\ reader' = [reader EXCEPT ![s] = "closing"]
          /\ Goto("closing", s)
          /\ UNCHANGED current
     ELSE /\ reader' = [reader EXCEPT ![s] = "open"]
          /\ Goto("attached", s)
          /\ current' = s
  /\ UNCHANGED <<stage, stopped, closing, applying, behind, faults>>

\* open() rejects.  When it is not connect() but the channel, the topology or
\* the prefetch that fails, nobody closes the connection.
OpenFails(s) ==
  /\ Alive
  /\ Fault
  /\ loop = [step |-> "opening", on |-> s]
  /\ \E end \in {"closed", "leaked"} : reader' = [reader EXCEPT ![s] = end]
  /\ GoesOn
  /\ UNCHANGED <<stage, current, stopped, closing, applying, behind>>

\* In onModuleInit it ends the start of the process.
BootFails ==
  /\ Alive
  /\ loop.step = "booting"
  /\ Fault
  /\ Dies

\* As it would be without ch.once('close').
EndsUnheard(s) == reader' = [reader EXCEPT ![s] = "closed"] /\ UNCHANGED <<loop, current>>

\* A channel ends with its connection: attach() rejects if it is still waiting
\* for it, and what safeClose awaits throws at once.
Ends(s) ==
  /\ reader' = [reader EXCEPT ![s] = "closed"]
  /\ IF AttachedOn(s)
     THEN GoesOn /\ current' = None
     ELSE UNCHANGED <<loop, current>>

\* The channel of attach() closes alone: the broker closes it, or the first of
\* the two closes of close() is answered.  attach() rejects, and the finally has
\* the connection still to close unless close() has it.
ChannelCloses(s) ==
  /\ Alive
  /\ AttachedOn(s)
  /\ \/ Usable(s) /\ Fault
     \/ reader[s] = "closing" /\ UNCHANGED faults
  /\ Leaves
  /\ UNCHANGED <<stage, stopped, closing, applying, behind>>

\* The connection is lost.
Dropped(s) ==
  /\ Alive
  /\ reader[s] \in Connected \ {"opening"}
  /\ Fault
  /\ Ends(s)
  /\ UNCHANGED <<stage, stopped, closing, applying, behind>>

\* ch.close() and conn.close() are answered.
CloseOk(s) ==
  /\ Alive
  /\ reader[s] = "closing"
  /\ Ends(s)
  /\ UNCHANGED <<stage, stopped, closing, applying, behind, faults>>

\* safeClose resolves in the finally.
LoopClosed ==
  /\ Alive
  /\ loop.step = "closing" /\ reader[loop.on] = "closed"
  /\ GoesOn
  /\ UNCHANGED <<stage, current, reader, stopped, closing, applying, behind, faults>>

\* The timer.
Restart ==
  /\ Alive
  /\ loop.step = "waiting"
  /\ \E s \in Readers :
       /\ reader[s] = "unused" /\ s = NextReader
       /\ reader' = [reader EXCEPT ![s] = "opening"]
       /\ Goto("opening", s)
  /\ UNCHANGED <<stage, current, stopped, closing, applying, behind, faults>>

-----------------------------------------------------------------------------
(* Deliveries.                                                             *)

\* One handler runs, the others wait in the chain.
Deliver(s) ==
  /\ Alive
  /\ AttachedOn(s) /\ reader[s] = "open"
  /\ IF s \in applying
     THEN /\ behind[s] < PREFETCH - 1
          /\ behind' = [behind EXCEPT ![s] = @ + 1]
          /\ UNCHANGED applying
     ELSE applying' = applying \cup {s} /\ UNCHANGED behind
  /\ UNCHANGED <<stage, loop, current, reader, stopped, closing, faults>>

\* The chain of s is over: what is left in it finds `settled`.
ChainEnds(s) == applying' = applying \ {s} /\ behind' = [behind EXCEPT ![s] = 0]

\* The handler acks, or rejects a bad event, and the next one runs.
Settled(s) ==
  /\ Alive
  /\ s \in applying /\ Usable(s)
  /\ IF behind[s] > 0
     THEN behind' = [behind EXCEPT ![s] = @ - 1] /\ UNCHANGED applying
     ELSE ChainEnds(s)
  /\ UNCHANGED <<stage, loop, current, reader, stopped, closing, faults>>

\* The database fails: nack, and attach() rejects.
ApplyFails(s) ==
  /\ Alive
  /\ Fault
  /\ s \in applying /\ Usable(s)
  /\ ChainEnds(s)
  /\ Leaves
  /\ UNCHANGED <<stage, stopped, closing>>

\* The channel has been closed under the handler: ack throws, and so does the
\* nack in the catch.  The next delivery in the chain handles the rejection.
AckThrows(s) ==
  /\ Alive
  /\ s \in applying /\ ~ Usable(s)
  /\ behind[s] > 0
  /\ ChainEnds(s)
  /\ IF AttachedOn(s) THEN Leaves ELSE UNCHANGED <<loop, current, reader>>
  /\ UNCHANGED <<stage, stopped, closing, faults>>

\* Without a next delivery nobody does.
AckThrowsUnheard(s) ==
  /\ Alive
  /\ s \in applying /\ ~ Usable(s)
  /\ behind[s] = 0
  /\ Dies
  /\ UNCHANGED faults

\* A demo runs resetTopology: RabbitMQ cancels the consumer of the deleted
\* queue, and the callback returns at `if (!msg)`.
Cancel(s) ==
  /\ Resets
  /\ Alive
  /\ reader[s] = "open"
  /\ reader' = [reader EXCEPT ![s] = "cancelled"]
  /\ UNCHANGED <<stage, loop, current, stopped, closing, applying, behind, faults>>

-----------------------------------------------------------------------------
\* As it would be with `while (true)` and without wakeRestart.
CloseLeavesTimer ==
  /\ loop.step # "booting"
  /\ stopped' = TRUE
  /\ closing' = current
  /\ current' = None
  /\ reader' = IF current = None THEN reader ELSE Closes(current)
  /\ UNCHANGED <<loop, applying, behind>>

\* close(), from onModuleDestroy.
Close ==
  /\ loop.step # "booting"
  /\ stopped' = TRUE
  /\ closing' = current
  /\ current' = None
  /\ reader' = IF current = None THEN reader ELSE Closes(current)
  /\ loop' = IF loop.step = "waiting" THEN [step |-> "ended", on |-> None] ELSE loop
  /\ UNCHANGED <<applying, behind>>

\* close() has resolved.
Closed ==
  /\ stopped
  /\ closing = None \/ reader[closing] = "closed"
  /\ loop.step = "ended"

\* The steps that take nothing but time and the answers of others.
Proceeds ==
  \/ LoopClosed \/ Restart
  \/ \E s \in Readers : Opened(s) \/ CloseOk(s) \/ Settled(s) \/ AckThrows(s)

\* What may come besides.  Close, and the steps that end the process, are
\* joined with those of the rest of it.
Happens == \E s \in Readers : \/ OpenFails(s) \/ ChannelCloses(s) \/ Dropped(s)
                             \/ Deliver(s) \/ ApplyFails(s) \/ Cancel(s)

-----------------------------------------------------------------------------
(* Properties.                                                             *)

\* The queue has one reader: a channel is closed before the next is opened,
\* also when close() comes while the loop is opening, closing or waiting.
OneReader ==
  \A s, t \in Readers : reader[s] \in Connected /\ reader[t] \in Connected => s = t

\* When close() has resolved, no connection is left but those that open()
\* itself has lost.
NothingLeftOpen == Closed => \A s \in Readers : reader[s] \notin Connected

\* The queue is being read by a channel that is open.
Reads == \E s \in Readers : AttachedOn(s) /\ reader[s] = "open"
Cancelled == \E s \in Readers : AttachedOn(s) /\ reader[s] = "cancelled"

=============================================================================
