-------------------------- MODULE OrderFeedsProofs --------------------------
(***************************************************************************)
(* The feeds of an order for any number of sockets, users, PATCH calls,    *)
(* streams and processes: what OrderEventsProofs proves of the log and the *)
(* streams holds beside the gateway, and the rooms keep their promises.    *)
(***************************************************************************)
EXTENDS OrderFeeds, OrderEventsProofs

Shape ==
  /\ joining \subseteq Sockets /\ room \subseteq Sockets
  /\ auth \in [Sockets -> Users \cup {None}]
  /\ link \in [Sockets -> Procs \cup {None}]
  /\ heard \in [Sockets -> [Patches -> Nat]]

\* The owner's, and connected.
Owned(s) == link[s] # None /\ auth[s] = Owner

\* A socket that awaits ownerId() is the owner's already, and a socket that has
\* heard something is still the one that did.
Inv ==
  /\ Shape
  /\ \A s \in joining \cup room : Owned(s)
  /\ \A s \in Sockets : heard[s] # G!NoEvents => Owned(s)

\* Only a socket that is not connected says who it is: it is in no room yet.
LEMMA HandshakeInv ==
  ASSUME Inv, NEW s \in Sockets, G!Handshake(s)
  PROVE  Inv'
<1>1. link[s] = None /\ UNCHANGED <<joining, room, heard>>
  BY DEF G!Handshake
<1>2. Shape'
  BY <1>1 DEF G!Handshake, Inv, Shape
<1>3. \A t \in Sockets \ {s} : link'[t] = link[t] /\ auth'[t] = auth[t]
  BY DEF G!Handshake, Inv, Shape
<1>4. s \notin joining \cup room /\ heard[s] = G!NoEvents
  BY <1>1 DEF Inv, Owned
<1>5. \A t \in joining' \cup room' : Owned(t)'
  BY <1>1, <1>3, <1>4 DEF Inv, Shape, Owned
<1>6. \A t \in Sockets : heard'[t] # G!NoEvents => Owned(t)'
  BY <1>1, <1>3, <1>4 DEF Inv, Owned
<1> QED BY <1>2, <1>5, <1>6 DEF Inv, G!NoEvents

LEMMA JoiningInv ==
  ASSUME Inv, NEW s \in Sockets, G!Ask(s) \/ G!Join(s)
  PROVE  Inv'
<1>1. UNCHANGED <<auth, link, heard>>
  BY DEF G!Ask, G!Join
<1>2. CASE G!Ask(s)
  <2>1. room' = room /\ (joining' = joining \/ (joining' = joining \cup {s} /\ Owned(s)))
    BY <1>2 DEF G!Ask, G!Identity, Owned
  <2> QED BY <1>1, <2>1 DEF Inv, Shape, Owned, G!NoEvents
<1>3. CASE G!Join(s)
  BY <1>1, <1>3 DEF G!Join, G!Enter, Inv, Shape, Owned, G!NoEvents
<1> QED BY <1>2, <1>3

\* A disconnected socket is out of the room, and out of the join it awaited.
LEMMA GoneInv ==
  ASSUME Inv, NEW ss \in SUBSET Sockets, G!Gone(ss)
  PROVE  Inv'
<1>1. G!NoEvents \in [Patches -> Nat]
  BY DEF G!NoEvents
<1>2. Shape'
  BY <1>1 DEF G!Gone, Inv, Shape
<1>3. \A s \in joining' \cup room' : s \in (joining \cup room) \ ss
  BY DEF G!Gone
<1>4. \A s \in Sockets \ ss : link'[s] = link[s] /\ auth'[s] = auth[s] /\ heard'[s] = heard[s]
  BY DEF G!Gone
<1>5. \A s \in ss : heard'[s] = G!NoEvents
  BY DEF G!Gone
<1>6. \A s \in joining' \cup room' : Owned(s)'
  BY <1>3, <1>4 DEF Inv, Shape, Owned
<1>7. \A s \in Sockets : heard'[s] # G!NoEvents => Owned(s)'
  BY <1>4, <1>5 DEF Inv, Owned
<1> QED BY <1>2, <1>6, <1>7 DEF Inv, G!NoEvents

\* Only the sockets of the room hear of an event.
LEMMA BroadcastInv ==
  ASSUME Inv, NEW p \in Patches, NEW n, G!Broadcast(p, n)
  PROVE  Inv'
<1>1. UNCHANGED <<auth, link, joining, room>>
  BY DEF G!Broadcast
<1>2. \A s \in Sockets : [heard[s] EXCEPT ![p] = heard[s][p] + 1] \in [Patches -> Nat]
  BY DEF Inv, Shape
<1>3. Shape'
  BY <1>1, <1>2 DEF G!Broadcast, Inv, Shape
<1>4. \A s \in Sockets : s \notin room => heard'[s] = heard[s]
  BY DEF G!Broadcast
<1> QED BY <1>1, <1>3, <1>4 DEF Inv, Shape, Owned, G!NoEvents

LEMMA FeedInv ==
  ASSUME Inv, [FeedNext]_feedVars
  PROVE  Inv'
<1> USE DEF socketVars
<1>1. CASE UNCHANGED socketVars
  BY <1>1 DEF Inv, Shape, Owned, G!NoEvents
<1>2. ASSUME NEW p \in Patches, G!Broadcast(p, home[p])
      PROVE  Inv'
  BY <1>2, BroadcastInv
<1>3. CASE G!SocketStep
  <2>1. ASSUME NEW s \in Sockets, G!Handshake(s) \/ G!Ask(s) \/ G!Join(s)
        PROVE  Inv'
    BY <2>1, HandshakeInv, JoiningInv
  <2>2. ASSUME NEW s \in Sockets, G!Leave(s)
        PROVE  Inv'
    BY <2>2, GoneInv DEF G!Leave
  <2>3. ASSUME NEW n \in Procs, G!Unsubscribe(n)
        PROVE  Inv'
    BY <2>3 DEF G!Unsubscribe, Inv, Shape, Owned, G!NoEvents
  <2> QED BY <1>3, <2>1, <2>2, <2>3 DEF G!SocketStep
<1>4. ASSUME NEW n \in Procs, G!Restarted(n)
      PROVE  Inv'
  BY <1>4, GoneInv DEF G!Restarted
<1>5. CASE FeedPatch
  BY <1>1, <1>2, <1>5 DEF FeedPatch
<1>6. CASE FeedStream
  BY <1>1, <1>6 DEF FeedStream
<1>7. CASE FeedSocket
  BY <1>3, <1>7 DEF FeedSocket
<1>8. CASE FeedKill
  BY <1>4, <1>8 DEF FeedKill
<1>9. CASE UNCHANGED feedVars
  BY <1>1, <1>9 DEF feedVars
<1> QED BY <1>5, <1>6, <1>7, <1>8, <1>9 DEF FeedNext

-----------------------------------------------------------------------------
(* The log and the streams beside the gateway.                             *)

\* The gateway only listens: a step of the feeds is one of OrderEvents or none.
LEMMA FeedIsEvents ==
  ASSUME [FeedNext]_feedVars
  PROVE  [Next]_vars
<1>1. CASE FeedPatch
  BY <1>1 DEF FeedPatch, Next, PatchStep
<1>2. CASE FeedStream
  BY <1>2 DEF FeedStream, Next
<1>3. CASE FeedSocket \/ UNCHANGED feedVars
  BY <1>3 DEF FeedSocket, feedVars
<1>4. CASE FeedKill
  BY <1>4 DEF FeedKill, Next
<1> QED BY <1>1, <1>2, <1>3, <1>4 DEF FeedNext

-----------------------------------------------------------------------------
(* What a room hears.                                                      *)

\* The properties of RoomHearsEachOnce, of every socket, joined or not.
RoomsInv ==
  /\ told \subseteq room /\ subscribed \subseteq Procs
  /\ expected \in [Sockets -> SUBSET Patches]
  /\ \A s \in Sockets, p \in Patches :
       heard[s][p] # 0 => heard[s][p] = 1 /\ pc[p] \in {"told", "done"} /\ home[p] = link[s]
  /\ \A s \in told, p \in Patches :
       (pc[p] = "told" /\ p \in expected[s] /\ home[p] = link[s] /\ link[s] \in subscribed)
         => heard[s][p] = 1

FeedsInv == EventsInv /\ Inv /\ RoomsInv

\* A step that emits nothing and touches no socket.
LEMMA RoomsFrame ==
  ASSUME RoomsInv, UNCHANGED <<socketVars, expected>>,
         \A p \in Patches :
           /\ pc[p] \in {"told", "done"} => pc'[p] \in {"told", "done"} /\ home'[p] = home[p]
           /\ pc'[p] = "told" => pc[p] = "told"
  PROVE  RoomsInv'
BY DEF RoomsInv, socketVars

\* The calls of a step that is not an emit.
LEMMA RoomsPatch ==
  ASSUME FeedsInv, NEW p \in Patches, UNCHANGED <<socketVars, expected>>,
         Request(p) \/ SaveRow(p) \/ Lock(p) \/ Insert(p) \/ CommitEvent(p) \/ PatchFails(p)
  PROVE  RoomsInv'
<1>1. TypeOK /\ RoomsInv
  BY DEF FeedsInv, EventsInv
<1>2. pc[p] \notin {"told", "done"} /\ \E t \in {"save", "lock", "insert", "commit", "emit", "done"} : Goto(p, t)
  BY DEF Request, SaveRow, Lock, Insert, CommitEvent, PatchFails
<1>3. \A q \in Patches \ {p} : home'[q] = home[q]
  BY <1>1 DEF TypeOK, Request, SaveRow, Lock, Insert, CommitEvent, PatchFails
<1>4. pc'[p] # "told" /\ \A q \in Patches \ {p} : pc'[q] = pc[q]
  BY <1>1, <1>2 DEF Goto, TypeOK
<1> QED BY <1>1, <1>2, <1>3, <1>4, RoomsFrame

\* Every socket of the room, in the process of the call, hears of it now.
LEMMA RoomsEmit ==
  ASSUME FeedsInv, NEW p \in Patches, Emit(p), G!Broadcast(p, home[p]), UNCHANGED expected
  PROVE  RoomsInv'
<1>1. TypeOK /\ RoomsInv /\ Shape
  BY DEF FeedsInv, EventsInv, Inv
<1>2. /\ pc[p] = "emit" /\ home' = home
      /\ pc'[p] = "told" /\ \A q \in Patches \ {p} : pc'[q] = pc[q]
  BY <1>1 DEF Emit, Goto, TypeOK
<1>3. UNCHANGED <<link, told, room, subscribed>>
  BY DEF G!Broadcast
<1>4. ASSUME NEW s \in Sockets
      PROVE  /\ heard[s][p] = 0
             /\ \A q \in Patches \ {p} : heard'[s][q] = heard[s][q]
             /\ IF home[p] \in subscribed /\ s \in room /\ link[s] = home[p]
                THEN heard'[s][p] = 1 ELSE heard'[s][p] = 0
  <2>1. heard[s] \in [Patches -> Nat] /\ heard[s][p] = 0
    BY <1>1, <1>2 DEF Shape, RoomsInv
  <2>2. heard'[s] = IF home[p] \in subscribed /\ s \in room /\ link[s] = home[p]
                    THEN [heard[s] EXCEPT ![p] = heard[s][p] + 1] ELSE heard[s]
    BY DEF G!Broadcast
  <2> QED BY <2>1, <2>2
<1>5. ASSUME NEW s \in Sockets, NEW q \in Patches, heard'[s][q] # 0
      PROVE  heard'[s][q] = 1 /\ pc'[q] \in {"told", "done"} /\ home'[q] = link'[s]
  <2>1. CASE q = p
    BY <1>2, <1>3, <1>4, <1>5, <2>1
  <2>2. CASE q # p
    BY <1>1, <1>2, <1>3, <1>4, <1>5, <2>2 DEF RoomsInv
  <2> QED BY <2>1, <2>2
<1>6. ASSUME NEW s \in told', NEW q \in Patches, pc'[q] = "told", q \in expected'[s],
             home'[q] = link'[s], link'[s] \in subscribed'
      PROVE  heard'[s][q] = 1
  <2>1. s \in told /\ s \in room /\ s \in Sockets
    BY <1>1, <1>3 DEF RoomsInv, Shape
  <2>2. CASE q = p
    BY <1>2, <1>3, <1>4, <1>6, <2>1, <2>2
  <2>3. CASE q # p
    BY <1>1, <1>2, <1>3, <1>4, <1>6, <2>1, <2>3 DEF RoomsInv
  <2> QED BY <2>2, <2>3
<1>7. told' \subseteq room' /\ subscribed' \subseteq Procs /\ expected' \in [Sockets -> SUBSET Patches]
  BY <1>1, <1>3 DEF RoomsInv
<1> QED BY <1>5, <1>6, <1>7 DEF RoomsInv

\* Sockets that are gone have heard nothing and expect nothing.
LEMMA RoomsGone ==
  ASSUME FeedsInv, NEW ss \in SUBSET Sockets, G!Gone(ss),
         expected' = [s \in Sockets |-> IF s \in told' THEN expected[s] ELSE {}],
         subscribed' \subseteq Procs,
         \A s \in Sockets \ ss : link[s] \in subscribed' => link[s] \in subscribed,
         \A p \in Patches : /\ home'[p] = home[p]
                            /\ pc'[p] = pc[p] \/ pc'[p] = "done"
  PROVE  RoomsInv'
<1>1. RoomsInv /\ Shape
  BY DEF FeedsInv, Inv
<1>2. told' = told \ ss /\ room' = room \ ss /\ told' \subseteq Sockets
  BY <1>1 DEF G!Gone, RoomsInv, Shape
<1>3. \A s \in Sockets \ ss : heard'[s] = heard[s] /\ link'[s] = link[s]
  BY DEF G!Gone
<1>4. \A s \in ss, p \in Patches : heard'[s][p] = 0
  BY DEF G!Gone, G!NoEvents
<1>5. told' \subseteq room' /\ subscribed' \subseteq Procs /\ expected' \in [Sockets -> SUBSET Patches]
  BY <1>1, <1>2 DEF RoomsInv
<1>6. ASSUME NEW s \in Sockets, NEW p \in Patches, heard'[s][p] # 0
      PROVE  heard'[s][p] = 1 /\ pc'[p] \in {"told", "done"} /\ home'[p] = link'[s]
  BY <1>1, <1>3, <1>4, <1>6 DEF RoomsInv
<1>7. ASSUME NEW s \in told', NEW p \in Patches, pc'[p] = "told", p \in expected'[s],
             home'[p] = link'[s], link'[s] \in subscribed'
      PROVE  heard'[s][p] = 1
  <2>1. s \in told /\ s \in Sockets \ ss /\ p \in expected[s] /\ pc[p] = "told"
    BY <1>2, <1>7
  <2> QED BY <1>1, <1>3, <1>7, <2>1 DEF RoomsInv
<1> QED BY <1>5, <1>6, <1>7 DEF RoomsInv

\* A socket that is told of its join expects what has not been emitted yet.
LEMMA RoomsSocket ==
  ASSUME FeedsInv, FeedSocket
  PROVE  RoomsInv'
<1>1. RoomsInv /\ Shape /\ (\A s \in Sockets : heard[s] # G!NoEvents => Owned(s))
      /\ (\A s \in joining \cup room : Owned(s))
  BY DEF FeedsInv, Inv
<1>2. UNCHANGED <<pc, home>>
  BY DEF FeedSocket, vars, patchVars
<1>3. expected' = [s \in Sockets |-> IF s \in told' \ told THEN Unemitted
                                    ELSE IF s \in told' THEN expected[s] ELSE {}]
  BY DEF FeedSocket
<1>4. Unemitted \subseteq Patches /\ \A p \in Unemitted : pc[p] # "told"
  BY DEF Unemitted
<1>5. expected' \in [Sockets -> SUBSET Patches]
  BY <1>1, <1>3, <1>4 DEF RoomsInv
<1>6. ASSUME NEW s \in told', s \in Sockets, NEW p \in Patches, pc'[p] = "told", p \in expected'[s]
      PROVE  s \in told /\ p \in expected[s] /\ pc[p] = "told"
  BY <1>2, <1>3, <1>4, <1>6
<1>7. ASSUME NEW s \in Sockets, G!Handshake(s)
      PROVE  RoomsInv'
  <2>1. link[s] = None /\ UNCHANGED <<told, room, heard, subscribed>>
    BY <1>7 DEF G!Handshake
  <2>2. \A t \in Sockets \ {s} : link'[t] = link[t]
    BY <1>1, <1>7 DEF G!Handshake, Shape
  <2>3. s \notin told /\ \A p \in Patches : heard[s][p] = 0
    BY <1>1, <2>1 DEF Owned, RoomsInv, G!NoEvents
  <2>4. told' \subseteq room' /\ subscribed' \subseteq Procs
    BY <1>1, <2>1 DEF RoomsInv
  <2>5. ASSUME NEW t \in Sockets, NEW p \in Patches, heard'[t][p] # 0
        PROVE  heard'[t][p] = 1 /\ pc'[p] \in {"told", "done"} /\ home'[p] = link'[t]
    BY <1>1, <1>2, <2>1, <2>2, <2>3, <2>5 DEF RoomsInv
  <2>6. ASSUME NEW t \in told', NEW p \in Patches, pc'[p] = "told", p \in expected'[t],
               home'[p] = link'[t], link'[t] \in subscribed'
        PROVE  heard'[t][p] = 1
    <3>1. t \in Sockets \ {s}
      BY <1>1, <2>1, <2>3 DEF RoomsInv, Shape
    <3> QED BY <1>1, <1>2, <1>6, <2>1, <2>2, <2>6, <3>1 DEF RoomsInv
  <2> QED BY <1>5, <2>4, <2>5, <2>6 DEF RoomsInv
<1>8. ASSUME NEW s \in Sockets, G!Ask(s) \/ G!Join(s)
      PROVE  RoomsInv'
  <2>1. UNCHANGED <<link, heard, subscribed>> /\ told' \subseteq room' /\ room' \subseteq Sockets
    BY <1>1, <1>8 DEF G!Ask, G!Join, G!Enter, RoomsInv, Shape
  <2>2. ASSUME NEW t \in told', NEW p \in Patches, pc'[p] = "told", p \in expected'[t],
               home'[p] = link'[t], link'[t] \in subscribed'
        PROVE  heard'[t][p] = 1
    <3>1. t \in Sockets
      BY <2>1
    <3> QED BY <1>1, <1>2, <1>6, <2>1, <2>2, <3>1 DEF RoomsInv
  <2> QED BY <1>1, <1>2, <1>5, <2>1, <2>2 DEF RoomsInv
<1>9. ASSUME NEW s \in Sockets, G!Leave(s)
      PROVE  RoomsInv'
  <2>1. G!Gone({s}) /\ subscribed' = subscribed /\ told' = told \ {s}
    BY <1>9 DEF G!Leave, G!Gone
  <2>2. expected' = [t \in Sockets |-> IF t \in told' THEN expected[t] ELSE {}]
    BY <1>3, <2>1
  <2> DEFINE ss == {s}
  <2>3. ss \in SUBSET Sockets /\ G!Gone(ss)
    BY <2>1
  <2> HIDE DEF ss
  <2>4. subscribed' \subseteq Procs
    BY <1>1, <2>1 DEF RoomsInv
  <2> QED BY <1>2, <2>1, <2>2, <2>3, <2>4, RoomsGone
<1>10. ASSUME NEW n \in Procs, G!Unsubscribe(n)
       PROVE  RoomsInv'
  <2>1. UNCHANGED <<link, told, room, heard>> /\ subscribed' \subseteq subscribed
    BY <1>10 DEF G!Unsubscribe
  <2>2. ASSUME NEW t \in told', NEW p \in Patches, pc'[p] = "told", p \in expected'[t],
               home'[p] = link'[t], link'[t] \in subscribed'
        PROVE  heard'[t][p] = 1
    <3>1. t \in Sockets
      BY <1>1, <2>1 DEF RoomsInv, Shape
    <3> QED BY <1>1, <1>2, <1>6, <2>1, <2>2, <3>1 DEF RoomsInv
  <2> QED BY <1>1, <1>2, <1>5, <2>1, <2>2 DEF RoomsInv
<1> QED BY <1>7, <1>8, <1>9, <1>10 DEF FeedSocket, G!SocketStep

\* A process that dies takes its sockets with it before it subscribes again.
LEMMA RoomsKill ==
  ASSUME FeedsInv, FeedKill
  PROVE  RoomsInv'
<1>1. PICK n \in Procs : Kill(n) /\ G!Restarted(n)
  BY DEF FeedKill
<1> DEFINE ss == {s \in Sockets : link[s] = n}
<1>2. ss \in SUBSET Sockets /\ G!Gone(ss) /\ subscribed' = subscribed \cup {n}
  BY <1>1 DEF G!Restarted
<1>3. \A s \in Sockets \ ss : link[s] # n
  OBVIOUS
<1>4. \A p \in Patches : home'[p] = home[p] /\ (pc'[p] = pc[p] \/ pc'[p] = "done")
  BY <1>1 DEF Kill
<1>5. subscribed' \subseteq Procs
  BY <1>2 DEF FeedsInv, RoomsInv
<1>6. expected' = [s \in Sockets |-> IF s \in told' THEN expected[s] ELSE {}]
  BY DEF FeedKill
<1> HIDE DEF ss
<1> QED BY <1>2, <1>3, <1>4, <1>5, <1>6, RoomsGone

\* FeedsInv is inductive.
LEMMA FeedsNext == FeedsInv /\ [FeedNext]_feedVars => FeedsInv'
<1> SUFFICES ASSUME FeedsInv, [FeedNext]_feedVars PROVE FeedsInv'
  OBVIOUS
<1>1. EventsInv' /\ Inv'
  BY FeedIsEvents, EventsNext, FeedInv DEF FeedsInv
<1> SUFFICES RoomsInv'
  BY <1>1 DEF FeedsInv
<1>2. CASE FeedPatch
  <2>1. PICK p \in Patches :
          \/ Request(p) /\ UNCHANGED socketVars
          \/ (SaveRow(p) \/ Lock(p) \/ Insert(p) \/ CommitEvent(p)) /\ UNCHANGED socketVars
          \/ PatchFails(p) /\ UNCHANGED socketVars
          \/ Emit(p) /\ G!Broadcast(p, home[p])
    BY <1>2 DEF FeedPatch
  <2>2. UNCHANGED expected
    BY <1>2 DEF FeedPatch
  <2> QED BY <2>1, <2>2, RoomsPatch, RoomsEmit
<1>3. CASE FeedStream \/ UNCHANGED feedVars
  <2>1. UNCHANGED <<socketVars, expected, pc, home>>
    BY <1>3 DEF FeedStream, feedVars, vars, patchVars, Connect, Query, Replay, Receive, Disconnect
  <2> QED BY <2>1, RoomsFrame DEF FeedsInv
<1>4. CASE FeedSocket
  BY <1>4, RoomsSocket
<1>5. CASE FeedKill
  BY <1>5, RoomsKill
<1> QED BY <1>2, <1>3, <1>4, <1>5 DEF FeedNext

LEMMA FeedsInit == FeedInit => FeedsInv
<1> SUFFICES ASSUME FeedInit PROVE FeedsInv
  OBVIOUS
<1>1. EventsInv
  BY EventsInit DEF FeedInit
<1>2. Inv
  BY DEF FeedInit, G!Init, G!NoEvents, Inv, Shape, Owned
<1>3. RoomsInv
  BY DEF FeedInit, G!Init, G!NoEvents, RoomsInv
<1> QED BY <1>1, <1>2, <1>3 DEF FeedsInv

LEMMA FeedsAlways == FeedSpec => []FeedsInv
BY FeedsInit, FeedsNext, PTL DEF FeedSpec

-----------------------------------------------------------------------------
(* The theorems.                                                           *)

\* Every variable of the feeds keeps its type; a socket hears an event at most
\* twice, as OrdersGateway.TypeOK has it.
THEOREM FeedTypes == FeedSpec => []TypesOK
<1>1. FeedsInv => TypesOK
  <2> SUFFICES ASSUME FeedsInv PROVE TypesOK
    OBVIOUS
  <2>1. TypeOK /\ Shape /\ RoomsInv
    BY DEF FeedsInv, EventsInv, Inv
  <2>2. heard \in [Sockets -> [Patches -> 0 .. 2]]
    <3>1. \A s \in Sockets, p \in Patches : heard[s][p] \in 0 .. 2
      BY <2>1 DEF RoomsInv
    <3> QED BY <2>1, <3>1 DEF Shape
  <2> QED BY <2>1, <2>2 DEF TypesOK, G!TypeOK, Shape, RoomsInv
<1> QED BY <1>1, FeedsAlways, PTL

\* Whatever concurrent PATCH calls, rollbacks and restarts do, the log holds the
\* newest BUFFER_LIMIT committed events, numbered in commit order without a hole
\* (order-events.service.ts, append).
THEOREM LogIsTheNewest == FeedSpec => []LogIsNewestEvents
<1>1. FeedsInv => LogIsNewestEvents
  BY DEF FeedsInv, EventsInv
<1> QED BY <1>1, FeedsAlways, PTL

\* Over all its connections a client is sent committed events only, each under
\* its number, and never one twice or after a newer one
\* (orders.controller.ts, events).
THEOREM StreamsFollow == FeedSpec => []StreamsFollowLog
<1>1. FeedsInv => StreamsFollowLog
  BY SendsFollowLog DEF FeedsInv
<1> QED BY <1>1, FeedsAlways, PTL

\* Replay and live events meet without a gap: an open stream has been sent every
\* event its process has emitted, or a newer one.
THEOREM StreamsAreCurrent == FeedSpec => []OpenStreamsAreCurrent
<1>1. FeedsInv => OpenStreamsAreCurrent
  BY DEF FeedsInv, EventsInv
<1> QED BY <1>1, FeedsAlways, PTL

\* Whoever connects, disconnects and joins with whatever user in the body, the
\* room of an order holds connected sockets of its owner only, and nobody else
\* is told of its status (OrdersGateway.join).
THEOREM RoomsAreOwned == FeedSpec => []RoomIsTheOwners
<1>1. FeedsInv => RoomIsTheOwners
  BY DEF FeedsInv, Inv, Shape, Owned, G!NoEvents, RoomIsTheOwners
<1> QED BY <1>1, FeedsAlways, PTL

\* A joined socket hears each later status change of its own process once, and
\* none of another's, as long as the process has not begun to shut down.
THEOREM RoomsHearOnce == FeedSpec => []RoomHearsEachOnce
<1>1. FeedsInv => RoomHearsEachOnce
  <2> SUFFICES ASSUME FeedsInv, NEW s \in told, NEW p \in Patches
               PROVE  /\ heard[s][p] = 1 => pc[p] \in {"told", "done"} /\ home[p] = link[s]
                      /\ heard[s][p] <= 1
                      /\ (pc[p] = "told" /\ p \in expected[s] /\ home[p] = link[s]
                            /\ link[s] \in subscribed) => heard[s][p] = 1
    BY DEF RoomHearsEachOnce
  <2>1. s \in Sockets /\ RoomsInv /\ heard[s][p] \in Nat
    BY DEF FeedsInv, RoomsInv, Inv, Shape
  <2> QED BY <2>1 DEF RoomsInv
<1> QED BY <1>1, FeedsAlways, PTL

=============================================================================
