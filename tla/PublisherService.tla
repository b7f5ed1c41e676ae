-------------------------- MODULE PublisherService --------------------------
(***************************************************************************)
(* OrderPlacedPublisherService of one API process: the relay tick, the     *)
(* confirm channel it keeps, how the channel is replaced after a failure,  *)
(* and shutdown.  OrderPipeline sees of all this only that a publish is    *)
(* confirmed or fails; here the sessions with the broker are explicit.     *)
(*                                                                         *)
(* Every session is one ConfirmedPublisher, that is one connection with    *)
(* one channel.  Handlers run to their next await in one step.             *)
(***************************************************************************)
EXTENDS Naturals, FiniteSets

CONSTANTS
  Sessions,   \* connection attempts this process may make
  Rows,       \* outbox rows; a published one may stand for a later row
  None,       \* null
  MaxFaults   \* bound on broker failures, for model checking

ASSUME NoneAssumption == None \notin Sessions \cup Rows
ASSUME SessionsAssumption == Sessions # {}
ASSUME FaultsAssumption == MaxFaults \in Nat

VARIABLES
  stage,        \* the process: Nest calls onModuleInit, later onModuleDestroy
  publisher,    \* this.publisher
  opening,      \* this.opening
  conn,         \* each session's connection
  unpublished,  \* rows with published_at still NULL
  batch,        \* rows the running tick has still to publish
  ticking,      \* this.ticking
  send,         \* [step, on]: where send(event) is, and on which session
  dying,        \* the session onModuleDestroy closes
  faults        \* broker failures so far

relayVars == <<unpublished, batch, ticking>>
vars == <<stage, publisher, opening, conn, relayVars, send, dying, faults>>

Stages == {"booting", "running", "stopping", "stopped", "dead"}
NoSend == [step |-> "idle", on |-> None]

TypeOK ==
  /\ stage \in Stages
  /\ publisher \in Sessions \cup {None}
  /\ opening \in Sessions \cup {None}
  /\ conn \in [Sessions -> {"unused", "dialing", "open", "closing", "leaked", "closed"}]
  /\ unpublished \subseteq Rows
  /\ batch \subseteq Rows
  /\ ticking \in BOOLEAN
  /\ send \in {NoSend} \cup [step : {"ensuring", "publishing", "closing"}, on : Sessions]
  /\ dying \in Sessions \cup {None}
  /\ faults \in 0 .. MaxFaults

\* Sessions not used yet are all alike: the next one is any of them.
AnySession == CHOOSE s \in Sessions : TRUE
NextSession == CHOOSE s \in Sessions : conn[s] = "unused"

\* onModuleInit with a BROKER_URL: it awaits ensure(), so the first session is
\* being opened and nothing else runs yet.
Init ==
  /\ stage = "booting"
  /\ opening = AnySession
  /\ conn = [s \in Sessions |-> IF s = AnySession THEN "dialing" ELSE "unused"]
  /\ publisher = None
  /\ unpublished = {}
  /\ batch = {}
  /\ ticking = FALSE
  /\ send = NoSend
  /\ dying = None
  /\ faults = 0

Alive == stage # "dead"
Disposed == stage \in {"stopping", "stopped"}
Fault == faults < MaxFaults /\ faults' = faults + 1

-----------------------------------------------------------------------------
(* The relay tick.                                                         *)

\* Another request's checkout commits a row.
Commit(r) ==
  /\ r \notin unpublished
  /\ stage = "running"
  /\ unpublished' = unpublished \cup {r}
  /\ UNCHANGED <<stage, publisher, opening, conn, batch, ticking, send, dying, faults>>

\* The timer, which does nothing while the last tick is still running.
Tick ==
  /\ stage = "running"
  /\ ~ ticking
  /\ unpublished # {}
  /\ ticking' = TRUE
  /\ batch' = unpublished
  /\ UNCHANGED <<stage, publisher, opening, conn, unpublished, send, dying, faults>>

EndTick == /\ ticking' = FALSE
           /\ batch' = {}
           /\ send' = NoSend
           /\ UNCHANGED unpublished

\* ensure() with no this.publisher: it waits for the session being opened, and
\* opens s when there is none.
Await(s) ==
  /\ IF opening = None
     THEN /\ conn[s] = "unused" /\ s = NextSession
          /\ conn' = [conn EXCEPT ![s] = "dialing"]
     ELSE /\ s = opening
          /\ UNCHANGED conn
  /\ opening' = s
  /\ send' = [step |-> "ensuring", on |-> s]

\* confirm(event), which a disposed service refuses, then send(event) up to its
\* first await that waits.
Confirm ==
  /\ Alive
  /\ ticking
  /\ send = NoSend
  /\ \/ /\ Disposed
        /\ EndTick
        /\ UNCHANGED <<opening, conn>>
     \/ /\ ~ Disposed
        /\ UNCHANGED relayVars
        /\ \/ /\ publisher # None
              /\ send' = [step |-> "publishing", on |-> publisher]
              /\ UNCHANGED <<opening, conn>>
           \/ /\ publisher = None
              /\ \E s \in Sessions : Await(s)
  /\ UNCHANGED <<stage, publisher, dying, faults>>

\* waitForConfirms resolves, relayOutbox sets published_at and takes the next
\* row of the batch; with none left the tick is over.
Confirmed ==
  /\ Alive
  /\ send.step = "publishing"
  /\ conn[send.on] \in {"open", "closing"}
  /\ \E r \in batch :
       /\ unpublished' = unpublished \ {r}
       /\ batch' = batch \ {r}
       /\ ticking' = (batch # {r})
  /\ send' = NoSend
  /\ UNCHANGED <<stage, publisher, opening, conn, dying, faults>>

\* The broker rejects the message or closes the channel (shop.events is
\* missing): the catch of send forgets the session and closes it.
Rejected ==
  /\ Alive
  /\ send.step = "publishing"
  /\ conn[send.on] = "open"
  /\ publisher' = IF publisher = send.on THEN None ELSE publisher
  /\ conn' = [conn EXCEPT ![send.on] = "closing"]
  /\ send' = [send EXCEPT !.step = "closing"]
  /\ Fault
  /\ UNCHANGED <<stage, opening, relayVars, dying>>

\* The session is closed: what send awaited on it throws, and so does the tick.
SendThrows ==
  /\ Alive
  /\ send.step \in {"publishing", "closing"}
  /\ conn[send.on] = "closed"
  /\ publisher' = IF publisher = send.on THEN None ELSE publisher
  /\ EndTick
  /\ UNCHANGED <<stage, opening, conn, dying, faults>>

-----------------------------------------------------------------------------
(* Sessions.                                                               *)

\* As it would be without the finally that clears this.opening.
DialedStillOpening(s) ==
  /\ conn[s] = "dialing"
  /\ conn' = [conn EXCEPT ![s] = "open"]
  /\ publisher' = s
  /\ stage' = IF stage = "booting" THEN "running" ELSE stage
  /\ send' = IF send = [step |-> "ensuring", on |-> s]
             THEN [step |-> "publishing", on |-> s] ELSE send
  /\ UNCHANGED <<opening, relayVars, dying, faults>>

\* open() resolves: this.publisher is set, this.opening cleared, and whoever
\* awaits ensure() goes on, all before another event can come in.
Dialed(s) ==
  /\ Alive
  /\ conn[s] = "dialing"
  /\ conn' = [conn EXCEPT ![s] = "open"]
  /\ publisher' = s
  /\ opening' = None
  /\ stage' = IF stage = "booting" THEN "running" ELSE stage
  /\ send' = IF send = [step |-> "ensuring", on |-> s]
             THEN [step |-> "publishing", on |-> s] ELSE send
  /\ UNCHANGED <<relayVars, dying, faults>>

\* Node ends the process, and with it every connection.
Dies ==
  /\ stage' = "dead"
  /\ conn' = [s \in Sessions |-> IF conn[s] = "unused" THEN "unused" ELSE "closed"]
  /\ publisher' = None
  /\ opening' = None
  /\ EndTick
  /\ UNCHANGED dying

\* open() rejects.  The promise that finally() returns rejects too and nobody
\* handles it.
DialFails(s) ==
  /\ Alive
  /\ conn[s] = "dialing"
  /\ Dies
  /\ Fault

\* The connection is lost: the drop listeners forget the session.
Drops(s) ==
  /\ Alive
  /\ conn[s] \in {"open", "closing"}
  /\ conn' = [conn EXCEPT ![s] = "closed"]
  /\ publisher' = IF publisher = s THEN None ELSE publisher
  /\ Fault
  /\ UNCHANGED <<stage, opening, relayVars, send, dying>>

\* The channel of a session no send awaits closes alone.  The drop listener
\* forgets the session, and so nobody closes its connection.
ChannelDrops(s) ==
  /\ Alive
  /\ conn[s] = "open"
  /\ send.on # s
  /\ conn' = [conn EXCEPT ![s] = "leaked"]
  /\ publisher' = IF publisher = s THEN None ELSE publisher
  /\ Fault
  /\ UNCHANGED <<stage, opening, relayVars, send, dying>>

\* publisher.close() is answered.
Closed(s) ==
  /\ Alive
  /\ conn[s] = "closing"
  /\ conn' = [conn EXCEPT ![s] = "closed"]
  /\ UNCHANGED <<stage, publisher, opening, relayVars, send, dying, faults>>

-----------------------------------------------------------------------------
(* onModuleDestroy.                                                        *)

Destroy ==
  /\ stage = "running"
  /\ opening' = None
  /\ publisher' = None
  /\ dying' = publisher
  /\ stage' = IF publisher = None THEN "stopped" ELSE "stopping"
  /\ conn' = IF publisher = None THEN conn ELSE [conn EXCEPT ![publisher] = "closing"]
  /\ UNCHANGED <<relayVars, send, faults>>

Destroyed ==
  /\ stage = "stopping"
  /\ conn[dying] = "closed"
  /\ stage' = "stopped"
  /\ UNCHANGED <<publisher, opening, conn, relayVars, send, dying, faults>>

-----------------------------------------------------------------------------
TickStep == Tick \/ Confirm \/ SendThrows

Next == \/ TickStep \/ Confirmed \/ Rejected \/ Destroy \/ Destroyed
        \/ \E r \in Rows : Commit(r)
        \/ \E s \in Sessions : \/ Dialed(s) \/ DialFails(s) \/ Closed(s)
                              \/ Drops(s) \/ ChannelDrops(s)

Spec == Init /\ [][Next]_vars

\* The timer fires again, and the broker answers what it is asked or the
\* connection ends (heartbeats).  Nothing makes the process stop.
FairSpec ==
  /\ Spec
  /\ WF_vars(TickStep)
  /\ WF_vars(Confirmed)
  /\ WF_vars(Destroyed)
  /\ \A s \in Sessions : WF_vars(Dialed(s)) /\ WF_vars(Closed(s))

-----------------------------------------------------------------------------
(* Properties.                                                             *)

\* A leaked connection has no channel any more.
Live(s) == conn[s] \in {"dialing", "open", "closing"}

\* The API keeps one confirm channel: a failing session is closed before the
\* next one is opened, also when shutdown and a running tick overlap.  One whose
\* channel has closed alone is no session any more.
OneSession == \A s, t \in Sessions : Live(s) /\ Live(t) => s = t

\* While the process is up, a committed row gets out in the end however the
\* sessions before it ended: no failure leaves the service without a way to
\* open the next one.
EveryRowGoesOut ==
  \A r \in Rows : r \in unpublished ~> r \notin unpublished \/ stage # "running"

\* The comment on confirm(): a broker failure is logged.  So it does not end
\* a process that is up.
BrokerFailureIsLogged == [][stage = "running" => stage' # "dead"]_vars

=============================================================================
