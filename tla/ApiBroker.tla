------------------------------ MODULE ApiBroker ------------------------------
(***************************************************************************)
(* BrokerModule of one API process: PublisherService and ConsumerService   *)
(* start together, share the failures of the broker, are destroyed         *)
(* together, and an unhandled rejection of either ends both.               *)
(***************************************************************************)
EXTENDS PublisherService

CONSTANTS
  Readers,   \* channels the consumer may open
  PREFETCH,
  Resets     \* whether the queue may be deleted and declared again

ASSUME ReadersAssumption == Readers # {} /\ None \notin Readers
ASSUME PrefetchAssumption == PREFETCH \in Nat \ {0} /\ Resets \in BOOLEAN

VARIABLES loop, current, reader, stopped, closing, applying, behind

C == INSTANCE ConsumerService

publisherVars == <<publisher, opening, conn, relayVars, send, dying>>
consumerVars == <<loop, current, reader, stopped, closing, applying, behind>>
apiVars == <<vars, consumerVars>>

TypesOK == TypeOK /\ C!TypeOK

ApiInit == Init /\ C!Init

PublisherStep ==
  /\ \/ TickStep \/ Confirmed \/ Rejected \/ Destroyed
     \/ \E r \in Rows : Commit(r)
     \/ \E s \in Sessions : Dialed(s) \/ Drops(s) \/ ChannelDrops(s) \/ Closed(s)
  /\ UNCHANGED consumerVars

ConsumerStep == (C!Proceeds \/ C!Happens) /\ UNCHANGED publisherVars

\* An unhandled rejection, or a consumer that cannot start.
ProcessEnds ==
  \/ \E s \in Sessions : DialFails(s) /\ C!Dies
  \/ C!BootFails /\ Dies
  \/ \E s \in Readers : C!AckThrowsUnheard(s) /\ Dies

\* Nest calls both onModuleDestroy of the module and awaits them together.
Shutdown == Destroy /\ C!Close

ApiNext == PublisherStep \/ ConsumerStep \/ ProcessEnds \/ Shutdown

ApiSpec == ApiInit /\ [][ApiNext]_apiVars

\* The timers fire, the broker answers or the connection ends, the database
\* answers.  Nothing makes the process stop, and nothing makes messages come.
ApiFairSpec ==
  /\ ApiSpec
  /\ WF_apiVars(TickStep /\ UNCHANGED consumerVars)
  /\ WF_apiVars(Confirmed /\ UNCHANGED consumerVars)
  /\ WF_apiVars(Destroyed /\ UNCHANGED consumerVars)
  /\ \A s \in Sessions : WF_apiVars((Dialed(s) \/ Closed(s)) /\ UNCHANGED consumerVars)
  /\ WF_apiVars(C!Proceeds /\ UNCHANGED publisherVars)
  /\ WF_apiVars(\E s \in Readers : C!AckThrowsUnheard(s) /\ Dies)

-----------------------------------------------------------------------------
(* Properties.                                                             *)

\* "The API keeps one confirm channel", and its queue one reader: a session or a
\* channel that fails is closed before the next is opened, also when the
\* shutdown comes while a tick or the loop is opening, closing or waiting.  A
\* connection that is left without a channel does not count.
OneConnectionEach == OneSession /\ C!OneReader

\* When the consumer's close() has resolved, no channel of it is left open but
\* the connections that open() itself has lost.
NothingLeftOpen == C!NothingLeftOpen

\* Once onModuleDestroy is called nothing new is opened and nothing new is read,
\* wherever the tick and the loop are: confirm() refuses what is left of a batch,
\* the timer is cleared, and the loop looks at `stopped` after each await.
OpensNothingMore ==
  [][stopped =>
       /\ \A s \in Sessions : conn[s] = "unused" => conn'[s] = "unused"
       /\ \A s \in Readers : reader[s] = "unused" => reader'[s] = "unused"
       /\ \A s \in Readers : C!AttachedOn(s)' => C!AttachedOn(s)]_apiVars

\* Whatever fails, as long as the process is up the queue comes to be read
\* again, unless RabbitMQ has cancelled the consumer.
ReadsAgain == []<>(C!Reads \/ C!Cancelled \/ stage # "running")

\* Shutdown comes to an end: both services close what they hold, or an
\* acknowledgement in flight ends the process first.  A session of the publisher
\* that is still being dialed is not held, and is open after that.
ShutdownEnds == stopped ~> (stage = "stopped" /\ C!Closed) \/ stage = "dead"

\* The comment on startBackgroundConsumer: "this loop opens the queue again
\* instead of leaving it without a consumer".
NeverLeftUnread == []<>(C!Reads \/ stage # "running")

=============================================================================
