--------------------------- MODULE ApiBrokerProofs ---------------------------
(***************************************************************************)
(* The connections of one API process with RabbitMQ, for any number of     *)
(* sessions, channels and failures: the publisher has one at a time, the   *)
(* consumer has one at a time, and close() leaves none behind.             *)
(***************************************************************************)
EXTENDS ApiBroker, TLAPS

-----------------------------------------------------------------------------
(* The publisher.                                                          *)

\* Who still knows each session that is not closed.  As long as the service is
\* not disposed of somebody does, so send opens no second one.
SessionsKnown ==
  \A s \in Sessions :
    /\ conn[s] = "dialing" => opening = s \/ Disposed
    /\ conn[s] = "open" <=> publisher = s
    /\ conn[s] = "closing" => send = [step |-> "closing", on |-> s] \/ Disposed

PublisherInv ==
  /\ TypeOK /\ OneSession /\ SessionsKnown
  /\ opening # None => conn[opening] = "dialing"

USE NoneAssumption, SessionsAssumption, FaultsAssumption

LEMMA Senders ==
  ASSUME TypeOK
  PROVE  /\ send.step \in {"ensuring", "publishing", "closing"} => send.on \in Sessions
         /\ send # NoSend => send = [step |-> send.step, on |-> send.on]
         /\ send.step # "idle" => send # NoSend
BY DEF TypeOK, NoSend

\* A step that opens no session, and after which the sessions are known.
LEMMA PublisherFrame ==
  ASSUME PublisherInv, TypeOK', SessionsKnown',
         \A s \in Sessions : Live(s)' => Live(s),
         opening' # None => conn'[opening'] = "dialing"
  PROVE  PublisherInv'
BY DEF PublisherInv, OneSession

LEMMA TickInv ==
  ASSUME PublisherInv, Tick \/ SendThrows
  PROVE  PublisherInv'
<1>1. CASE Tick
  <2>1. TypeOK'
    BY <1>1 DEF PublisherInv, TypeOK, Tick, NoSend
  <2> QED BY <1>1, <2>1 DEF PublisherInv, Tick, OneSession, Live, SessionsKnown, Disposed
<1>2. CASE SendThrows
  <2>1. send.on \in Sessions /\ conn[send.on] = "closed" /\ send.step \in {"publishing", "closing"}
    BY <1>2, Senders DEF PublisherInv, SendThrows
  <2>2. publisher' = publisher /\ send' = NoSend /\ UNCHANGED <<stage, opening, conn>>
    BY <1>2, <2>1 DEF PublisherInv, SessionsKnown, SendThrows, EndTick
  <2>3. TypeOK'
    BY <1>2, <2>2 DEF PublisherInv, TypeOK, SendThrows, EndTick
  <2>4. SessionsKnown'
    <3>1. \A s \in Sessions : conn[s] = "closing" => Disposed
      BY <2>1 DEF PublisherInv, SessionsKnown
    <3> QED BY <2>2, <3>1 DEF PublisherInv, SessionsKnown, Disposed
  <2> QED BY <2>2, <2>3, <2>4 DEF PublisherInv, OneSession, Live
<1> QED BY <1>1, <1>2

\* ensure() opens a session only when none is left.
LEMMA ConfirmInv ==
  ASSUME PublisherInv, Confirm
  PROVE  PublisherInv'
<1> USE DEF PublisherInv
<1>1. /\ Alive /\ send = NoSend /\ UNCHANGED <<stage, publisher, dying, faults>>
  BY DEF Confirm
<1>2. CASE Disposed /\ EndTick /\ UNCHANGED <<opening, conn>>
  <2>1. TypeOK'
    BY <1>1, <1>2 DEF TypeOK, EndTick
  <2> QED BY <1>1, <1>2, <2>1 DEF OneSession, Live, SessionsKnown, Disposed, EndTick
<1>3. CASE /\ publisher # None /\ send' = [step |-> "publishing", on |-> publisher]
           /\ UNCHANGED <<opening, conn, relayVars>>
  <2>1. TypeOK'
    BY <1>1, <1>3 DEF TypeOK, relayVars
  <2>2. \A s \in Sessions : send # [step |-> "closing", on |-> s]
    BY <1>1 DEF NoSend
  <2> QED BY <1>1, <1>3, <2>1, <2>2 DEF OneSession, Live, SessionsKnown, Disposed
<1>4. ASSUME ~ Disposed, publisher = None, NEW s \in Sessions, Await(s), UNCHANGED relayVars
      PROVE  PublisherInv'
  <2>0. \A t \in Sessions : send # [step |-> "closing", on |-> t]
    BY <1>1 DEF NoSend
  <2>1. CASE opening # None
    <3>1. /\ s = opening /\ opening' = s /\ conn' = conn
          /\ send' = [step |-> "ensuring", on |-> s]
      BY <1>4, <2>1 DEF Await
    <3>2. TypeOK'
      BY <1>1, <1>4, <3>1 DEF TypeOK, relayVars
    <3> QED BY <1>1, <2>0, <3>1, <3>2 DEF OneSession, Live, SessionsKnown, Disposed
  <2>2. CASE opening = None
    <3>1. /\ conn[s] = "unused" /\ conn' = [conn EXCEPT ![s] = "dialing"]
          /\ opening' = s /\ send' = [step |-> "ensuring", on |-> s]
      BY <1>4, <2>2 DEF Await
    <3>2. \A t \in Sessions : ~ Live(t)
      BY <1>4, <2>0, <2>2 DEF SessionsKnown, Live
    <3>3. TypeOK'
      BY <1>1, <1>4, <3>1 DEF TypeOK, relayVars
    <3>4. conn'[s] = "dialing" /\ \A t \in Sessions \ {s} : conn'[t] = conn[t]
      BY <3>1 DEF TypeOK
    <3>5. OneSession'
      BY <3>2, <3>4 DEF OneSession, Live
    <3>6. SessionsKnown'
      BY <1>1, <1>4, <3>1, <3>2, <3>4 DEF SessionsKnown, Live
    <3> QED BY <3>1, <3>3, <3>4, <3>5, <3>6
  <2> QED BY <2>1, <2>2
<1> QED BY <1>2, <1>3, <1>4 DEF Confirm

LEMMA ConfirmedInv ==
  ASSUME PublisherInv, Confirmed
  PROVE  PublisherInv'
<1> USE DEF PublisherInv
<1>1. /\ send.step = "publishing" /\ send' = NoSend
      /\ UNCHANGED <<stage, publisher, opening, conn, dying, faults>>
  BY DEF Confirmed
<1>2. TypeOK'
  BY DEF TypeOK, Confirmed
<1>3. \A s \in Sessions : send # [step |-> "closing", on |-> s]
  BY <1>1
<1> QED BY <1>1, <1>2, <1>3 DEF OneSession, Live, SessionsKnown, Disposed

\* The catch of send closes the session it forgets.
LEMMA RejectedInv ==
  ASSUME PublisherInv, Rejected
  PROVE  PublisherInv'
<1> USE DEF PublisherInv
<1> DEFINE s == send.on
<1>1. /\ s \in Sessions /\ conn[s] = "open" /\ publisher = s /\ send.step = "publishing"
      /\ send = [step |-> send.step, on |-> s]
  BY Senders DEF Rejected, SessionsKnown
<1>2. /\ publisher' = None /\ conn' = [conn EXCEPT ![s] = "closing"]
      /\ send' = [step |-> "closing", on |-> s]
      /\ UNCHANGED <<stage, opening, relayVars, dying>>
      /\ faults' = faults + 1 /\ faults < MaxFaults
  BY <1>1 DEF Rejected, Fault
<1> HIDE DEF s
<1>3. TypeOK'
  BY <1>1, <1>2 DEF TypeOK, relayVars
<1>4. conn'[s] = "closing" /\ \A t \in Sessions \ {s} : conn'[t] = conn[t] /\ ~ Live(t)
  BY <1>1, <1>2 DEF TypeOK, OneSession, Live
<1>5. SessionsKnown'
  BY <1>1, <1>2, <1>4 DEF SessionsKnown, Live
<1>6. \A t \in Sessions : Live(t)' => Live(t)
  BY <1>1, <1>4 DEF Live
<1>7. opening' # None => conn'[opening'] = "dialing"
  BY <1>1, <1>2, <1>4 DEF TypeOK
<1> QED BY <1>3, <1>5, <1>6, <1>7, PublisherFrame

\* open() resolves, also after the service has been disposed of.
LEMMA DialedInv ==
  ASSUME PublisherInv, NEW s \in Sessions, Dialed(s)
  PROVE  PublisherInv'
<1> USE DEF PublisherInv
<1>1. /\ conn[s] = "dialing" /\ conn' = [conn EXCEPT ![s] = "open"]
      /\ publisher' = s /\ opening' = None
      /\ UNCHANGED <<relayVars, dying, faults>>
  BY DEF Dialed
<1>2. conn'[s] = "open" /\ \A t \in Sessions \ {s} : conn'[t] = conn[t] /\ ~ Live(t)
  BY <1>1 DEF TypeOK, OneSession, Live
<1>3. TypeOK'
  <2>1. send' \in {NoSend} \cup [step : {"ensuring", "publishing", "closing"}, on : Sessions]
    BY DEF TypeOK, Dialed
  <2>2. stage' \in Stages
    BY DEF TypeOK, Dialed, Stages
  <2> QED BY <1>1, <2>1, <2>2 DEF TypeOK, relayVars
<1>4. SessionsKnown'
  BY <1>1, <1>2 DEF SessionsKnown, Live
<1>5. \A t \in Sessions : Live(t)' => Live(t)
  BY <1>1, <1>2 DEF Live
<1> QED BY <1>1, <1>3, <1>4, <1>5, PublisherFrame

LEMMA SessionEndsInv ==
  ASSUME PublisherInv, NEW s \in Sessions, Drops(s) \/ ChannelDrops(s) \/ Closed(s)
  PROVE  PublisherInv'
<1> USE DEF PublisherInv
<1>1. PICK end \in {"closed", "leaked"} :
      /\ conn[s] \in {"open", "closing"} /\ conn' = [conn EXCEPT ![s] = end]
      /\ publisher' = IF publisher = s THEN None ELSE publisher
      /\ UNCHANGED <<stage, opening, relayVars, send, dying>>
      /\ faults' \in 0 .. MaxFaults
  BY DEF Drops, ChannelDrops, Closed, SessionsKnown, TypeOK, Fault
<1>2. conn'[s] = end /\ \A t \in Sessions \ {s} : conn'[t] = conn[t]
  BY <1>1 DEF TypeOK
<1>3. TypeOK'
  BY <1>1 DEF TypeOK, relayVars
<1>4. SessionsKnown'
  BY <1>1, <1>2 DEF SessionsKnown, Disposed
<1>5. \A t \in Sessions : Live(t)' => Live(t)
  BY <1>1, <1>2 DEF Live
<1>6. opening' # None => conn'[opening'] = "dialing"
  BY <1>1, <1>2 DEF TypeOK
<1> QED BY <1>3, <1>4, <1>5, <1>6, PublisherFrame

LEMMA DestroyInv ==
  ASSUME PublisherInv, Destroy \/ Destroyed
  PROVE  PublisherInv'
<1> USE DEF PublisherInv
<1>1. CASE Destroy
  <2>1. /\ opening' = None /\ publisher' = None /\ stage' \in {"stopping", "stopped"}
        /\ dying' = publisher /\ UNCHANGED <<relayVars, send, faults>>
        /\ conn' = IF publisher = None THEN conn ELSE [conn EXCEPT ![publisher] = "closing"]
    BY <1>1 DEF Destroy
  <2>2. TypeOK'
    BY <2>1 DEF TypeOK, relayVars, Stages
  <2>3. \A s \in Sessions :
          /\ s = publisher => conn'[s] = "closing" /\ conn[s] = "open"
          /\ s # publisher => conn'[s] = conn[s] /\ conn[s] # "open"
    BY <2>1 DEF TypeOK, SessionsKnown
  <2>4. SessionsKnown'
    BY <2>1, <2>3 DEF SessionsKnown, Disposed
  <2>5. \A s \in Sessions : Live(s)' => Live(s)
    BY <2>3 DEF Live
  <2> QED BY <2>1, <2>2, <2>4, <2>5, PublisherFrame
<1>2. CASE Destroyed
  <2>1. TypeOK'
    BY <1>2 DEF TypeOK, Destroyed, Stages, relayVars
  <2> QED BY <1>2, <2>1 DEF Destroyed, OneSession, Live, SessionsKnown, Disposed
<1> QED BY <1>1, <1>2

\* With the process go all its connections.
LEMMA DiesInv ==
  ASSUME PublisherInv, Dies, faults' \in 0 .. MaxFaults
  PROVE  PublisherInv'
<1> USE DEF PublisherInv
<1>1. TypeOK'
  BY DEF TypeOK, Dies, EndTick, Stages
<1>2. \A s \in Sessions : conn'[s] \in {"unused", "closed"}
  BY DEF Dies
<1> QED BY <1>1, <1>2 DEF Dies, OneSession, Live, SessionsKnown

-----------------------------------------------------------------------------
(* The consumer.                                                           *)

On(step, s) == loop.step = step /\ loop.on = s

\* Who closes each channel that is connected: the loop, or close().
ReadersKnown ==
  \A s \in Readers :
    /\ reader[s] = "opening" => On("booting", s) \/ On("opening", s)
    /\ C!Usable(s) => On("attached", s) /\ current = s
    /\ reader[s] = "closing" => On("closing", s) \/ (stopped /\ closing = s)

\* What the loop may rely on where it is: attach() waits on a channel that is
\* open or that close() is closing, and the timer runs with none left.
LoopKnown ==
  /\ loop.step \in {"booting", "opening"} => loop.on \in Readers /\ reader[loop.on] = "opening"
  /\ loop.step = "attached" =>
       /\ loop.on \in Readers
       /\ C!Usable(loop.on) \/ (stopped /\ closing = loop.on /\ reader[loop.on] = "closing")
  /\ loop.step = "closing" => loop.on \in Readers /\ reader[loop.on] \in {"closing", "closed"}
  /\ loop.step = "waiting" => \A s \in Readers : reader[s] \notin C!Connected
  /\ loop.step \in {"booting", "waiting"} => ~ stopped

CurrentKnown == current # None => On("attached", current) /\ C!Usable(current)

ConsumerInv == C!TypeOK /\ C!OneReader /\ ReadersKnown /\ LoopKnown /\ CurrentKnown

\* close() is called once: it needs a process that runs.
StoppedOnce == stopped => stage \notin {"booting", "running"}

ApiInv == PublisherInv /\ ConsumerInv /\ StoppedOnce


LEMMA OnLoop ==
  ASSUME C!TypeOK, NEW s
  PROVE  C!AttachedOn(s) <=> On("attached", s)
BY DEF C!TypeOK, C!AttachedOn, On

\* A step that opens no channel, and after which the channels are known.
LEMMA ConsumerFrame ==
  ASSUME ConsumerInv, C!TypeOK', ReadersKnown', LoopKnown', CurrentKnown',
         \A s \in Readers : reader'[s] \in C!Connected => reader[s] \in C!Connected
  PROVE  ConsumerInv'
BY DEF ConsumerInv, C!OneReader

\* open() resolves.
LEMMA OpenedInv ==
  ASSUME ConsumerInv, NEW s \in Readers, C!Opened(s)
  PROVE  ConsumerInv'
<1> USE DEF ConsumerInv, On
<1>1. /\ On("booting", s) \/ On("opening", s)
      /\ reader[s] = "opening" /\ UNCHANGED <<stopped, closing, applying, behind>>
  BY DEF C!Opened, LoopKnown
<1>2. \A t \in Readers \ {s} : reader[t] \notin C!Connected
  BY <1>1 DEF C!OneReader, C!Connected
<1>3. current = None
  BY <1>1 DEF CurrentKnown
<1>4. CASE stopped
  <2>1. /\ loop' = [step |-> "closing", on |-> s] /\ current' = None
        /\ reader' = [reader EXCEPT ![s] = "closing"]
    BY <1>3, <1>4 DEF C!Opened, C!Goto
  <2>2. reader'[s] = "closing" /\ \A t \in Readers \ {s} : reader'[t] = reader[t]
    BY <2>1 DEF C!TypeOK
  <2>3. C!TypeOK'
    BY <1>1, <2>1 DEF C!TypeOK, C!Connected
  <2>4. ReadersKnown' /\ LoopKnown' /\ CurrentKnown'
    BY <1>1, <1>2, <2>1, <2>2 DEF ReadersKnown, LoopKnown, CurrentKnown, C!Usable, C!Connected
  <2> QED BY <1>1, <2>2, <2>3, <2>4, ConsumerFrame DEF C!Connected
<1>5. CASE ~ stopped
  <2>1. /\ loop' = [step |-> "attached", on |-> s] /\ current' = s
        /\ reader' = [reader EXCEPT ![s] = "open"]
    BY <1>5 DEF C!Opened, C!Goto
  <2>2. reader'[s] = "open" /\ \A t \in Readers \ {s} : reader'[t] = reader[t]
    BY <2>1 DEF C!TypeOK
  <2>3. C!TypeOK'
    BY <1>1, <2>1 DEF C!TypeOK, C!Connected
  <2>4. ReadersKnown' /\ LoopKnown' /\ CurrentKnown'
    BY <1>1, <1>2, <2>1, <2>2 DEF ReadersKnown, LoopKnown, CurrentKnown, C!Usable, C!Connected
  <2> QED BY <1>1, <2>2, <2>3, <2>4, ConsumerFrame DEF C!Connected
<1> QED BY <1>4, <1>5

\* The loop goes on from where it has no channel, and nothing is left connected
\* unless close() has been called.
LEMMA GoesOnInv ==
  ASSUME ConsumerInv, C!TypeOK', C!GoesOn, current' = None,
         UNCHANGED <<stopped, closing>>,
         \A s \in Readers : reader'[s] = reader[s] \/ reader'[s] \in {"closed", "leaked"},
         \A s \in Readers : reader'[s] \in C!Connected =>
           stopped /\ closing = s /\ reader[s] = "closing"
  PROVE  ConsumerInv'
<1>1. /\ stopped => On("ended", None)'
      /\ ~ stopped => On("waiting", None)'
  BY DEF C!GoesOn, C!Goto, On
<1>2. ReadersKnown'
  BY DEF ReadersKnown, C!Usable, C!Connected
<1>3. LoopKnown' /\ CurrentKnown'
  BY <1>1 DEF ConsumerInv, C!TypeOK, LoopKnown, CurrentKnown, On
<1>4. \A s \in Readers : reader'[s] \in C!Connected => reader[s] \in C!Connected
  BY DEF C!Connected
<1> QED BY <1>2, <1>3, <1>4, ConsumerFrame

LEMMA GoesOnType ==
  ASSUME C!TypeOK, C!GoesOn
  PROVE  loop' \in [step : {"waiting", "ended"}, on : {None}]
BY DEF C!GoesOn, C!Goto

\* open() rejects.
LEMMA OpenFailsInv ==
  ASSUME ConsumerInv, NEW s \in Readers, C!OpenFails(s)
  PROVE  ConsumerInv'
<1> USE DEF ConsumerInv
<1>1. /\ On("opening", s) /\ C!GoesOn
      /\ UNCHANGED <<current, stopped, closing, applying, behind>>
      /\ reader' = [reader EXCEPT ![s] = "closed"] \/ reader' = [reader EXCEPT ![s] = "leaked"]
  BY DEF C!OpenFails, On
<1>2. reader[s] = "opening" /\ current = None
  BY <1>1 DEF LoopKnown, CurrentKnown, On
<1>3. \A t \in Readers \ {s} : reader[t] \notin C!Connected
  BY <1>2 DEF C!OneReader, C!Connected
<1>4. reader'[s] \in {"closed", "leaked"} /\ \A t \in Readers \ {s} : reader'[t] = reader[t]
  BY <1>1 DEF C!TypeOK
<1>5. C!TypeOK'
  BY <1>1, GoesOnType DEF C!TypeOK, C!Connected
<1>6. \A t \in Readers : reader'[t] = reader[t] \/ reader'[t] \in {"closed", "leaked"}
  BY <1>4
<1>7. \A t \in Readers : reader'[t] \notin C!Connected
  BY <1>3, <1>4 DEF C!Connected
<1> QED BY <1>1, <1>2, <1>5, <1>6, <1>7, GoesOnInv

\* The channel of attach() ends, or one that is being closed.
LEMMA EndsInv ==
  ASSUME ConsumerInv, NEW s \in Readers, reader[s] \in C!Connected \ {"opening"},
         C!Ends(s), UNCHANGED <<stopped, closing, applying, behind>>
  PROVE  ConsumerInv'
<1> USE DEF ConsumerInv
<1>1. reader' = [reader EXCEPT ![s] = "closed"]
  BY DEF C!Ends
<1>2. reader'[s] = "closed" /\ \A t \in Readers \ {s} : reader'[t] = reader[t]
  BY <1>1 DEF C!TypeOK
<1>3. \A t \in Readers \ {s} : reader[t] \notin C!Connected
  BY DEF C!OneReader
<1>4. CASE On("attached", s)
  <2>1. C!GoesOn /\ current' = None
    BY <1>4, OnLoop DEF C!Ends
  <2>2. C!TypeOK'
    BY <1>1, <2>1, GoesOnType DEF C!TypeOK, C!Connected
  <2>3. \A t \in Readers : reader'[t] \notin C!Connected
    BY <1>2, <1>3 DEF C!Connected
  <2>4. \A t \in Readers : reader'[t] = reader[t] \/ reader'[t] \in {"closed", "leaked"}
    BY <1>2
  <2> QED BY <2>1, <2>2, <2>3, <2>4, GoesOnInv
<1>5. CASE ~ On("attached", s)
  <2>1. UNCHANGED <<loop, current>>
    BY <1>5, OnLoop DEF C!Ends
  <2>2. C!TypeOK'
    BY <1>1, <2>1 DEF C!TypeOK, C!Connected
  <2>3. reader[s] = "closing"
    BY <1>5 DEF ReadersKnown, C!Connected, C!Usable
  <2>4. ReadersKnown'
    BY <1>2, <1>3, <2>1 DEF ReadersKnown, C!Connected, C!Usable
  <2>5. LoopKnown' /\ CurrentKnown'
    BY <1>2, <1>3, <1>5, <2>1, <2>3 DEF LoopKnown, CurrentKnown, C!Connected, C!Usable, On, C!TypeOK
  <2>6. \A t \in Readers : reader'[t] \in C!Connected => reader[t] \in C!Connected
    BY <1>2 DEF C!Connected
  <2> QED BY <2>2, <2>4, <2>5, <2>6, ConsumerFrame
<1> QED BY <1>4, <1>5


LEMMA LoopClosedInv ==
  ASSUME ConsumerInv, C!LoopClosed
  PROVE  ConsumerInv'
<1> USE DEF ConsumerInv
<1>1. /\ loop.step = "closing" /\ loop.on \in Readers /\ reader[loop.on] = "closed"
      /\ C!GoesOn /\ UNCHANGED <<current, reader, stopped, closing, applying, behind>>
  BY DEF C!LoopClosed, LoopKnown
<1>2. current' = None
  BY <1>1 DEF CurrentKnown, On
<1>3. \A s \in Readers : reader[s] \in C!Connected =>
        stopped /\ closing = s /\ reader[s] = "closing"
  BY <1>1 DEF ReadersKnown, C!Connected, C!Usable, On
<1>4. C!TypeOK'
  BY <1>1, GoesOnType DEF C!TypeOK, C!Connected
<1> QED BY <1>1, <1>2, <1>3, <1>4, GoesOnInv

\* The timer opens the next channel when no other is left.
LEMMA RestartInv ==
  ASSUME ConsumerInv, C!Restart
  PROVE  ConsumerInv'
<1> USE DEF ConsumerInv
<1>1. PICK s \in Readers : /\ reader[s] = "unused"
                           /\ reader' = [reader EXCEPT ![s] = "opening"]
                           /\ loop' = [step |-> "opening", on |-> s]
  BY DEF C!Restart, C!Goto
<1>2. /\ loop.step = "waiting" /\ UNCHANGED <<current, stopped, closing, applying, behind>>
  BY DEF C!Restart
<1>3. \A t \in Readers : reader[t] \notin C!Connected
  BY <1>2 DEF LoopKnown
<1>4. reader'[s] = "opening" /\ \A t \in Readers \ {s} : reader'[t] = reader[t]
  BY <1>1 DEF C!TypeOK
<1>5. C!TypeOK'
  BY <1>1, <1>2 DEF C!TypeOK, C!Connected
<1>6. C!OneReader'
  BY <1>3, <1>4 DEF C!OneReader, C!Connected
<1>7. current = None
  BY <1>2 DEF CurrentKnown, On
<1>8. ReadersKnown' /\ LoopKnown' /\ CurrentKnown'
  BY <1>1, <1>2, <1>3, <1>4, <1>7
     DEF ReadersKnown, LoopKnown, CurrentKnown, C!Connected, C!Usable, On
<1> QED BY <1>5, <1>6, <1>8

\* A delivery, or the end of a handler whose channel is open, changes neither
\* the loop nor a channel.
LEMMA HandlersInv ==
  ASSUME ConsumerInv, NEW s \in Readers, C!Deliver(s) \/ C!Settled(s)
  PROVE  ConsumerInv'
<1> USE DEF ConsumerInv
<1>1. UNCHANGED <<loop, current, reader, stopped, closing>>
  BY DEF C!Deliver, C!Settled
<1>2. behind[s] \in 0 .. PREFETCH - 1 /\ PREFETCH \in Nat \ {0}
  BY PrefetchAssumption DEF C!TypeOK
<1>3. \/ UNCHANGED behind
      \/ behind[s] < PREFETCH - 1 /\ behind' = [behind EXCEPT ![s] = behind[s] + 1]
      \/ behind[s] > 0 /\ behind' = [behind EXCEPT ![s] = behind[s] - 1]
      \/ behind' = [behind EXCEPT ![s] = 0]
  BY DEF C!Deliver, C!Settled, C!ChainEnds
<1>4. behind' \in [Readers -> 0 .. PREFETCH - 1]
  BY <1>2, <1>3 DEF C!TypeOK
<1>5. applying' \subseteq Readers
  BY DEF C!Deliver, C!Settled, C!ChainEnds, C!TypeOK
<1>6. C!TypeOK'
  BY <1>1, <1>4, <1>5 DEF C!TypeOK
<1> QED BY <1>1, <1>6
        DEF C!OneReader, ReadersKnown, LoopKnown, CurrentKnown, C!Usable, On

\* The finally: the loop closes the channel it was attached to, unless close()
\* has taken it.
LEMMA LeavesInv ==
  ASSUME ConsumerInv, C!TypeOK', NEW s \in Readers, On("attached", s), C!Leaves,
         UNCHANGED <<stopped, closing>>
  PROVE  ConsumerInv'
<1> USE DEF ConsumerInv
<1>1. \A t \in Readers \ {s} : reader[t] \notin C!Connected
  BY DEF LoopKnown, On, C!OneReader, C!Connected, C!Usable
<1>2. CASE current = None
  <2>1. C!GoesOn /\ UNCHANGED reader /\ current' = None
    BY <1>2 DEF C!Leaves
  <2>2. stopped /\ closing = s /\ reader[s] = "closing"
    BY <1>2, NoneAssumption, ReadersAssumption DEF LoopKnown, ReadersKnown, On
  <2> QED BY <1>1, <2>1, <2>2, GoesOnInv
<1>3. CASE current # None
  <2>1. current = s /\ C!Usable(s)
    BY <1>3 DEF CurrentKnown, On
  <2>2. /\ loop' = [step |-> "closing", on |-> s] /\ current' = None
        /\ reader' = [reader EXCEPT ![s] = "closing"]
    BY <1>3, <2>1 DEF C!Leaves, C!Goto, C!Closes
  <2>3. reader'[s] = "closing" /\ \A t \in Readers \ {s} : reader'[t] = reader[t]
    BY <2>2 DEF C!TypeOK
  <2>4. ReadersKnown' /\ LoopKnown' /\ CurrentKnown'
    BY <1>1, <2>2, <2>3 DEF ReadersKnown, LoopKnown, CurrentKnown, C!Connected, C!Usable, On
  <2>5. \A t \in Readers : reader'[t] \in C!Connected => reader[t] \in C!Connected
    BY <2>1, <2>3 DEF C!Connected, C!Usable
  <2> QED BY <2>4, <2>5, ConsumerFrame
<1> QED BY <1>2, <1>3

LEMMA LeavesType ==
  ASSUME C!TypeOK, C!Leaves
  PROVE  /\ loop' \in [step : {"closing", "waiting", "ended"}, on : Readers \cup {None}]
         /\ reader' \in [Readers -> C!Connected \cup {"unused", "leaked", "closed"}]
         /\ current' = None
BY DEF C!TypeOK, C!Leaves, C!GoesOn, C!Goto, C!Closes, C!Connected

LEMMA ChainEndsType ==
  ASSUME C!TypeOK, NEW s \in Readers, C!ChainEnds(s)
  PROVE  applying' \subseteq Readers /\ behind' \in [Readers -> 0 .. PREFETCH - 1]
<1>1. 0 \in 0 .. PREFETCH - 1
  BY PrefetchAssumption
<1> QED BY <1>1 DEF C!TypeOK, C!ChainEnds

\* The channel of attach() closes and leaves its connection to be closed.
LEMMA ChannelClosesInv ==
  ASSUME ConsumerInv, NEW s \in Readers, C!ChannelCloses(s)
  PROVE  ConsumerInv'
<1> USE DEF ConsumerInv
<1>1. C!Leaves /\ On("attached", s) /\ UNCHANGED <<stopped, closing, applying, behind>>
  BY OnLoop DEF C!ChannelCloses
<1>2. C!TypeOK'
  BY <1>1, LeavesType DEF C!TypeOK
<1> QED BY <1>1, <1>2, LeavesInv

\* A handler that fails, or that finds its channel closed.
LEMMA HandlerFailsInv ==
  ASSUME ConsumerInv, NEW s \in Readers, C!ApplyFails(s) \/ C!AckThrows(s)
  PROVE  ConsumerInv'
<1> USE DEF ConsumerInv
<1>1. C!ChainEnds(s) /\ UNCHANGED <<stopped, closing>>
  BY DEF C!ApplyFails, C!AckThrows
<1>2. applying' \subseteq Readers /\ behind' \in [Readers -> 0 .. PREFETCH - 1]
  BY <1>1, ChainEndsType
<1>3. CASE C!Leaves /\ On("attached", s)
  <2>1. C!TypeOK'
    BY <1>1, <1>2, <1>3, LeavesType DEF C!TypeOK
  <2> QED BY <1>1, <1>3, <2>1, LeavesInv
<1>4. CASE UNCHANGED <<loop, current, reader>>
  <2>1. C!TypeOK'
    BY <1>1, <1>2, <1>4 DEF C!TypeOK
  <2> QED BY <1>1, <1>4, <2>1
          DEF C!OneReader, ReadersKnown, LoopKnown, CurrentKnown, C!Usable, On
<1>5. C!ApplyFails(s) => On("attached", s)
  BY DEF C!ApplyFails, ReadersKnown
<1>6. CASE C!ApplyFails(s)
  BY <1>3, <1>5, <1>6 DEF C!ApplyFails
<1>7. CASE C!AckThrows(s)
  <2>1. CASE C!AttachedOn(s)
    <3>1. C!Leaves /\ On("attached", s)
      BY <1>7, <2>1, OnLoop DEF C!AckThrows
    <3> QED BY <1>3, <3>1
  <2>2. CASE ~ C!AttachedOn(s)
    <3>1. UNCHANGED <<loop, current, reader>>
      BY <1>7, <2>2 DEF C!AckThrows
    <3> QED BY <1>4, <3>1
  <2> QED BY <2>1, <2>2
<1> QED BY <1>6, <1>7

LEMMA CancelInv ==
  ASSUME ConsumerInv, NEW s \in Readers, C!Cancel(s)
  PROVE  ConsumerInv'
<1> USE DEF ConsumerInv
<1>1. /\ reader[s] = "open" /\ reader' = [reader EXCEPT ![s] = "cancelled"]
      /\ UNCHANGED <<loop, current, stopped, closing, applying, behind>>
  BY DEF C!Cancel
<1>2. reader'[s] = "cancelled" /\ \A t \in Readers \ {s} : reader'[t] = reader[t]
  BY <1>1 DEF C!TypeOK
<1>3. C!TypeOK'
  BY <1>1 DEF C!TypeOK, C!Connected
<1>4. ReadersKnown'
  BY <1>1, <1>2 DEF ReadersKnown, C!Usable, On
<1>5. /\ On("attached", s)
      /\ \A t \in Readers : C!Usable(t) => C!Usable(t)'
  BY <1>1, <1>2 DEF ReadersKnown, C!Usable
<1>6. LoopKnown' /\ CurrentKnown'
  BY <1>1, <1>2, <1>5 DEF LoopKnown, CurrentKnown, On, C!TypeOK, C!Usable
<1>7. \A t \in Readers : reader'[t] \in C!Connected => reader[t] \in C!Connected
  BY <1>1, <1>2 DEF C!Connected
<1> QED BY <1>3, <1>4, <1>6, <1>7, ConsumerFrame

\* close(), called for the first time.
LEMMA CloseInv ==
  ASSUME ConsumerInv, ~ stopped, C!Close
  PROVE  ConsumerInv'
<1> USE DEF ConsumerInv
<1>1. /\ stopped' = TRUE /\ closing' = current /\ current' = None
      /\ loop.step # "booting"
      /\ UNCHANGED <<applying, behind>>
      /\ loop' = IF loop.step = "waiting" THEN [step |-> "ended", on |-> None] ELSE loop
  BY DEF C!Close
<1>2. loop'.step # "waiting" /\ loop'.step # "booting"
  BY <1>1
<1>3. CASE current = None
  <2>1. UNCHANGED reader
    BY <1>3 DEF C!Close
  <2>2. C!TypeOK'
    BY <1>1, <2>1 DEF C!TypeOK
  <2>3. loop.step # "attached"
    BY <1>3, NoneAssumption, ReadersAssumption DEF LoopKnown, ReadersKnown
  <2>4. ReadersKnown'
    BY <1>1, <2>1, <2>3 DEF ReadersKnown, LoopKnown, C!Usable, On
  <2>5. LoopKnown' /\ CurrentKnown'
    BY <1>1, <2>1, <2>3 DEF LoopKnown, CurrentKnown
  <2> QED BY <2>1, <2>2, <2>4, <2>5, ConsumerFrame
<1>4. CASE current # None
  <2> DEFINE s == current
  <2>1. s \in Readers /\ On("attached", s) /\ C!Usable(s)
    BY <1>4 DEF C!TypeOK, CurrentKnown
  <2>2. reader' = [reader EXCEPT ![s] = "closing"] /\ loop' = loop
    BY <1>1, <1>4, <2>1 DEF C!Close, C!Closes, On
  <2>3. closing' = s
    BY <1>1
  <2> HIDE DEF s
  <2>4. reader'[s] = "closing" /\ \A t \in Readers \ {s} : reader'[t] = reader[t]
    BY <2>1, <2>2 DEF C!TypeOK
  <2>5. C!TypeOK'
    BY <1>1, <2>1, <2>2, <2>3 DEF C!TypeOK, C!Connected
  <2>6. \A t \in Readers \ {s} : reader[t] \notin C!Connected
    BY <2>1 DEF C!OneReader, C!Usable, C!Connected
  <2>7. ReadersKnown' /\ LoopKnown' /\ CurrentKnown'
    BY <1>1, <2>1, <2>2, <2>3, <2>4, <2>6
       DEF ReadersKnown, LoopKnown, CurrentKnown, C!Usable, C!Connected, On
  <2>8. \A t \in Readers : reader'[t] \in C!Connected => reader[t] \in C!Connected
    BY <2>1, <2>4 DEF C!Usable, C!Connected
  <2> QED BY <2>5, <2>7, <2>8, ConsumerFrame
<1> QED BY <1>3, <1>4

\* With the process go all channels.
LEMMA ConsumerDiesInv ==
  ASSUME ConsumerInv, C!Dies
  PROVE  ConsumerInv'
<1> USE DEF ConsumerInv
<1>1. 0 \in 0 .. PREFETCH - 1
  BY PrefetchAssumption
<1>2. C!TypeOK'
  BY <1>1 DEF C!TypeOK, C!Dies, C!Goto, C!Connected
<1>3. /\ loop' = [step |-> "ended", on |-> None] /\ current' = None
      /\ \A s \in Readers : reader'[s] \in {"unused", "closed"}
  BY DEF C!Dies, C!Goto
<1> QED BY <1>2, <1>3
        DEF C!OneReader, ReadersKnown, LoopKnown, CurrentKnown, C!Usable, C!Connected, On

-----------------------------------------------------------------------------
(* The process.                                                            *)

LEMMA InitInv ==
  ASSUME ApiInit
  PROVE  ApiInv
<1>1. PublisherInv
  <2>1. AnySession \in Sessions
    BY DEF AnySession
  <2>2. TypeOK
    <3>1. conn \in [Sessions -> {"unused", "dialing", "open", "closing", "leaked", "closed"}]
      BY DEF ApiInit, Init
    <3>2. faults \in 0 .. MaxFaults
      BY DEF ApiInit, Init
    <3> QED BY <2>1, <3>1, <3>2 DEF ApiInit, Init, TypeOK, Stages
  <2>3. \A s \in Sessions : conn[s] = IF s = AnySession THEN "dialing" ELSE "unused"
    BY DEF ApiInit, Init
  <2> QED BY <2>1, <2>2, <2>3 DEF ApiInit, Init, PublisherInv, OneSession, Live, SessionsKnown
<1>2. ConsumerInv
  <2>1. C!AnyReader \in Readers
    BY ReadersAssumption DEF C!AnyReader
  <2>2. 0 \in 0 .. PREFETCH - 1
    BY PrefetchAssumption
  <2>3. C!TypeOK
    BY <2>1, <2>2 DEF ApiInit, C!Init, C!TypeOK, C!Connected
  <2>4. \A s \in Readers : reader[s] = IF s = C!AnyReader THEN "opening" ELSE "unused"
    BY DEF ApiInit, C!Init
  <2>5. /\ loop = [step |-> "booting", on |-> C!AnyReader] /\ current = None /\ ~ stopped
    BY DEF ApiInit, C!Init
  <2>6. C!OneReader /\ ReadersKnown /\ LoopKnown /\ CurrentKnown
    BY <2>1, <2>4, <2>5
       DEF C!OneReader, ReadersKnown, LoopKnown, CurrentKnown, C!Usable, C!Connected, On
  <2> QED BY <2>3, <2>6 DEF ConsumerInv
<1>3. StoppedOnce
  BY DEF ApiInit, C!Init, StoppedOnce
<1> QED BY <1>1, <1>2, <1>3 DEF ApiInv

\* What the publisher's invariants do not see.
LEMMA FaultInv ==
  ASSUME PublisherInv, faults' \in 0 .. MaxFaults, UNCHANGED publisherVars, stage' = stage
  PROVE  PublisherInv'
BY DEF PublisherInv, TypeOK, OneSession, Live, SessionsKnown, Disposed, publisherVars, relayVars

LEMMA ConsumerUnchanged ==
  ASSUME ConsumerInv, UNCHANGED consumerVars
  PROVE  ConsumerInv'
BY DEF ConsumerInv, C!TypeOK, C!OneReader, ReadersKnown, LoopKnown, CurrentKnown,
       C!Usable, On, consumerVars

LEMMA PublisherStepInv ==
  ASSUME ApiInv, PublisherStep
  PROVE  ApiInv'
<1> USE DEF ApiInv
<1>1. PublisherInv'
  <2>1. CASE TickStep
    BY <2>1, TickInv, ConfirmInv DEF TickStep
  <2>2. ASSUME NEW r \in Rows, Commit(r)
        PROVE  PublisherInv'
    <3>1. /\ unpublished' \subseteq Rows
          /\ UNCHANGED <<stage, publisher, opening, conn, batch, ticking, send, dying, faults>>
      BY <2>2 DEF Commit, PublisherInv, TypeOK
    <3> QED BY <3>1 DEF PublisherInv, TypeOK, OneSession, Live, SessionsKnown, Disposed
  <2> QED BY <2>1, <2>2, ConfirmedInv, RejectedInv, DialedInv, SessionEndsInv, DestroyInv
          DEF PublisherStep
<1>2. ConsumerInv'
  BY ConsumerUnchanged DEF PublisherStep
<1>3. StoppedOnce'
  <2>1. UNCHANGED stopped
    BY DEF PublisherStep, consumerVars
  <2>2. stage' = stage \/ stage' = "stopped" \/ (stage = "booting" /\ stage' = "running")
    BY DEF PublisherStep, TickStep, Tick, Confirm, SendThrows, Confirmed, Rejected, Destroyed,
           Commit, Dialed, Drops, ChannelDrops, Closed
  <2> QED BY <2>1, <2>2 DEF StoppedOnce
<1> QED BY <1>1, <1>2, <1>3

LEMMA ConsumerStepInv ==
  ASSUME ApiInv, ConsumerStep
  PROVE  ApiInv'
<1> USE DEF ApiInv
<1>1. ConsumerInv'
  BY LoopClosedInv, RestartInv, OpenedInv, OpenFailsInv, EndsInv, HandlersInv, HandlerFailsInv,
     ChannelClosesInv, CancelInv
     DEF ConsumerStep, C!Proceeds, C!Happens, C!Dropped, C!CloseOk, C!Connected
<1>2. faults' \in 0 .. MaxFaults
  <2>1. faults \in 0 .. MaxFaults
    BY DEF PublisherInv, TypeOK
  <2>2. faults' = faults \/ C!Fault
    BY DEF ConsumerStep, C!Proceeds, C!Happens, C!LoopClosed, C!Restart, C!Opened, C!CloseOk,
           C!Settled, C!AckThrows, C!OpenFails, C!ChannelCloses, C!Dropped, C!Deliver, C!ApplyFails,
           C!Cancel
  <2> QED BY <2>1, <2>2 DEF C!Fault
<1>3. UNCHANGED <<stage, stopped>>
  BY DEF ConsumerStep, publisherVars, C!Proceeds, C!Happens, C!LoopClosed, C!Restart, C!Opened,
         C!CloseOk, C!Settled, C!AckThrows, C!OpenFails, C!ChannelCloses, C!Dropped, C!Deliver,
         C!ApplyFails, C!Cancel
<1>4. PublisherInv'
  BY <1>2, <1>3, FaultInv DEF ConsumerStep
<1> QED BY <1>1, <1>3, <1>4 DEF StoppedOnce

LEMMA ProcessEndsInv ==
  ASSUME ApiInv, ProcessEnds
  PROVE  ApiInv'
<1> USE DEF ApiInv
<1>1. faults' \in 0 .. MaxFaults /\ Dies /\ C!Dies
  BY DEF ProcessEnds, DialFails, C!BootFails, C!AckThrowsUnheard, Fault, C!Fault, PublisherInv,
         TypeOK
<1>2. PublisherInv' /\ ConsumerInv'
  BY <1>1, DiesInv, ConsumerDiesInv
<1>3. StoppedOnce'
  BY <1>1 DEF Dies, StoppedOnce
<1> QED BY <1>2, <1>3

LEMMA ShutdownInv ==
  ASSUME ApiInv, Shutdown
  PROVE  ApiInv'
<1> USE DEF ApiInv
<1>1. stage = "running" /\ stage' \notin {"booting", "running"}
  BY DEF Shutdown, Destroy
<1>2. PublisherInv' /\ ConsumerInv'
  BY <1>1, DestroyInv, CloseInv DEF Shutdown, StoppedOnce
<1> QED BY <1>1, <1>2 DEF StoppedOnce

THEOREM ApiInvariant == ApiSpec => []ApiInv
<1>1. ApiInit => ApiInv
  BY InitInv
<1>2. ApiInv /\ [ApiNext]_apiVars => ApiInv'
  <2> SUFFICES ASSUME ApiInv, [ApiNext]_apiVars PROVE ApiInv'
    OBVIOUS
  <2>1. CASE ApiNext
    BY <2>1, PublisherStepInv, ConsumerStepInv, ProcessEndsInv, ShutdownInv DEF ApiNext
  <2>2. CASE UNCHANGED apiVars
    <3>1. /\ UNCHANGED publisherVars /\ UNCHANGED consumerVars /\ faults' = faults
          /\ UNCHANGED <<stage, stopped>>
      BY <2>2 DEF apiVars, vars, publisherVars, consumerVars
    <3>2. faults' \in 0 .. MaxFaults
      BY <3>1 DEF ApiInv, PublisherInv, TypeOK
    <3> QED BY <3>1, <3>2, FaultInv, ConsumerUnchanged DEF ApiInv, StoppedOnce
  <2> QED BY <2>1, <2>2
<1> QED BY <1>1, <1>2, PTL DEF ApiSpec

-----------------------------------------------------------------------------
(* The properties.                                                         *)

\* Both services keep their types.
THEOREM ApiTypes == ApiSpec => []TypesOK
<1>1. ApiInv => TypesOK
  BY DEF ApiInv, PublisherInv, ConsumerInv, TypesOK
<1> QED BY <1>1, ApiInvariant, PTL

\* The process never has two sessions of the publisher, or two channels of the
\* consumer, that are connected or being connected.
THEOREM OneOfEach == ApiSpec => []OneConnectionEach
<1>1. ApiInv => OneConnectionEach
  BY DEF ApiInv, PublisherInv, ConsumerInv, OneConnectionEach
<1> QED BY <1>1, ApiInvariant, PTL

\* A close() that has resolved leaves no channel connected: the loop has ended,
\* and the channel close() took is closed.
THEOREM CloseLeavesNothing == ApiSpec => []NothingLeftOpen
<1>1. ApiInv => NothingLeftOpen
  <2> SUFFICES ASSUME ApiInv, C!Closed, NEW s \in Readers
               PROVE  reader[s] \notin C!Connected
    BY DEF NothingLeftOpen, C!NothingLeftOpen
  <2>1. loop.step = "ended" /\ (closing = None \/ reader[closing] = "closed")
    BY DEF C!Closed
  <2> QED BY <2>1, ReadersAssumption
          DEF ApiInv, ConsumerInv, ReadersKnown, C!Connected, C!Usable, On
<1> QED BY <1>1, ApiInvariant, PTL

\* What a step after onModuleDestroy may do to the sessions and the channels.
NothingBegins ==
  stopped =>
    /\ \A s \in Sessions : conn[s] = "unused" => conn'[s] = "unused"
    /\ \A s \in Readers : reader[s] = "unused" => reader'[s] = "unused"
    /\ \A s \in Readers : C!AttachedOn(s)' => C!AttachedOn(s)

\* A tick that is still running is refused, and dialing ends or fails.
LEMMA PublisherBeginsNothing ==
  ASSUME ApiInv, stopped, PublisherStep
  PROVE  NothingBegins
<1>1. /\ stage \notin {"booting", "running"}
      /\ conn \in [Sessions -> {"unused", "dialing", "open", "closing", "leaked", "closed"}]
  BY DEF ApiInv, StoppedOnce, PublisherInv, TypeOK
<1>2. UNCHANGED <<loop, reader>>
  BY DEF PublisherStep, consumerVars
<1>3. \A s \in Sessions : conn[s] = "unused" => conn'[s] = "unused"
  <2>1. CASE TickStep
    BY <1>1, <2>1 DEF TickStep, Tick, Confirm, SendThrows, Disposed, Alive, Stages, ApiInv, PublisherInv,
       TypeOK
  <2>2. CASE Rejected
    BY <1>1, <2>2 DEF Rejected
  <2>3. ASSUME NEW t \in Sessions, Dialed(t) \/ Drops(t) \/ ChannelDrops(t) \/ Closed(t)
        PROVE  \A s \in Sessions : conn[s] = "unused" => conn'[s] = "unused"
    BY <1>1, <2>3 DEF Dialed, Drops, ChannelDrops, Closed
  <2> QED BY <2>1, <2>2, <2>3 DEF PublisherStep, Confirmed, Destroyed, Commit
<1> QED BY <1>2, <1>3 DEF NothingBegins, C!AttachedOn

\* The loop waits for its timer only while it is not stopped, and an open() that
\* resolves after that is closed again.
LEMMA ConsumerBeginsNothing ==
  ASSUME ApiInv, stopped, ConsumerStep
  PROVE  NothingBegins
<1> DEFINE Quiet == /\ \A s \in Readers : reader[s] = "unused" => reader'[s] = "unused"
                    /\ loop' = loop \/ loop'.step # "attached"
<1>1. /\ loop.step # "waiting"
      /\ reader \in [Readers -> C!Connected \cup {"unused", "leaked", "closed"}]
      /\ \A s \in Readers : loop.on = s /\ loop.step \in {"booting", "opening"} => reader[s] = "opening"
  BY DEF ApiInv, ConsumerInv, LoopKnown, C!TypeOK
<1>2. UNCHANGED conn
  BY DEF ConsumerStep, publisherVars
<1>3. C!GoesOn => loop'.step = "ended"
  BY DEF C!GoesOn, C!Goto
<1>4. ASSUME C!LoopClosed \/ C!Restart PROVE Quiet
  BY <1>1, <1>3, <1>4 DEF C!LoopClosed, C!Restart
<1>5. ASSUME NEW s \in Readers, C!Opened(s) PROVE Quiet
  <2>1. reader[s] = "opening"
    BY <1>1, <1>5 DEF C!Opened
  <2>2. loop' = [step |-> "closing", on |-> s]
    BY <1>5 DEF C!Opened, C!Goto
  <2>3. reader' = [reader EXCEPT ![s] = "closing"]
    BY <1>5 DEF C!Opened
  <2> QED BY <1>1, <2>1, <2>2, <2>3
<1>6. ASSUME NEW s \in Readers, C!OpenFails(s) PROVE Quiet
  <2>1. loop = [step |-> "opening", on |-> s]
    BY <1>6 DEF C!OpenFails
  <2>2. reader[s] = "opening"
    BY <1>1, <2>1
  <2>3. loop'.step = "ended"
    BY <1>3, <1>6 DEF C!OpenFails
  <2>4. \E e \in {"closed", "leaked"} : reader' = [reader EXCEPT ![s] = e]
    BY <1>6 DEF C!OpenFails
  <2> QED BY <1>1, <2>2, <2>3, <2>4
<1>7. ASSUME NEW s \in Readers, C!CloseOk(s) \/ C!Dropped(s) PROVE Quiet
  BY <1>1, <1>3, <1>7 DEF C!CloseOk, C!Dropped, C!Ends, C!Connected
<1>8. ASSUME NEW s \in Readers, C!Settled(s) \/ C!Deliver(s) \/ C!Cancel(s) PROVE Quiet
  BY <1>1, <1>8 DEF C!Settled, C!Deliver, C!Cancel
<1>9. ASSUME NEW s \in Readers, C!AckThrows(s) \/ C!ApplyFails(s) \/ C!ChannelCloses(s) PROVE Quiet
  <2>1. (C!Leaves \/ UNCHANGED <<loop, current, reader>>) /\ current \in Readers \cup {None}
    BY <1>9 DEF C!AckThrows, C!ApplyFails, C!ChannelCloses, ApiInv, ConsumerInv, C!TypeOK
  <2>2. loop' = loop \/ loop'.step \in {"closing", "ended"}
    BY <1>3, <2>1 DEF C!Leaves, C!Goto
  <2>3. \A t \in Readers : reader'[t] = reader[t] \/ C!Usable(t)
    BY <1>1, <2>1 DEF C!Leaves, C!Closes
  <2> QED BY <2>2, <2>3 DEF C!Usable
<1>10. Quiet
  BY <1>4, <1>5, <1>6, <1>7, <1>8, <1>9 DEF ConsumerStep, C!Proceeds, C!Happens
<1> QED BY <1>2, <1>10 DEF NothingBegins, C!AttachedOn

LEMMA EndBeginsNothing ==
  ASSUME ApiInv, ProcessEnds
  PROVE  NothingBegins
<1>1. Dies /\ C!Dies
  BY DEF ProcessEnds, DialFails, C!BootFails, C!AckThrowsUnheard
<1>2. \A s \in Sessions : conn[s] = "unused" => conn'[s] = "unused"
  BY <1>1 DEF Dies
<1>3. \A s \in Readers : reader[s] = "unused" => reader'[s] = "unused"
  BY <1>1 DEF C!Dies
<1>4. loop'.step = "ended"
  BY <1>1 DEF C!Dies, C!Goto
<1> QED BY <1>2, <1>3, <1>4 DEF NothingBegins, C!AttachedOn

\* After onModuleDestroy neither service opens or reads anything anew, wherever
\* it was caught, for any number of sessions, channels and failures.
THEOREM StopIsFinal == ApiSpec => OpensNothingMore
<1>1. ApiInv /\ [ApiNext]_apiVars => [NothingBegins]_apiVars
  <2> SUFFICES ASSUME ApiInv, ApiNext, stopped PROVE NothingBegins
    BY DEF NothingBegins
  <2>1. CASE Shutdown
    BY <2>1 DEF ApiInv, StoppedOnce, Shutdown, Destroy
  <2> QED BY <2>1, PublisherBeginsNothing, ConsumerBeginsNothing, EndBeginsNothing DEF ApiNext
<1>2. ApiSpec => [][NothingBegins]_apiVars
  BY <1>1, ApiInvariant, PTL DEF ApiSpec
<1> QED BY <1>2 DEF OpensNothingMore, NothingBegins

=============================================================================
