------------------------------ MODULE OrderFeeds ------------------------------
(***************************************************************************)
(* Everybody who is told of an order's status: OrderEvents with its event  *)
(* streams, and the rooms of OrdersGateway, both behind the one Subject of *)
(* each process.                                                           *)
(***************************************************************************)
EXTENDS OrderEvents

CONSTANTS
  Sockets,  \* socket.io clients
  Users,    \* who they may say they are
  Owner     \* the buyer of the order

ASSUME UsersAssumption == Owner \in Users /\ None \notin Users

VARIABLES
  auth, link, joining, told, room, heard, subscribed,
  expected  \* history variable: the events a socket's room is still to hear of,
            \* as of the answer to its join

G == INSTANCE OrdersGateway

socketVars == <<auth, link, joining, told, room, heard, subscribed>>
feedVars == <<vars, socketVars, expected>>

TypesOK ==
  /\ TypeOK /\ G!TypeOK
  /\ expected \in [Sockets -> SUBSET Patches]

FeedInit == Init /\ G!Init /\ expected = [s \in Sockets |-> {}]

Unemitted == {p \in Patches : pc[p] \notin {"told", "done"}}

FeedPatch ==
  /\ \E p \in Patches :
       \/ Request(p) /\ UNCHANGED socketVars
       \/ (SaveRow(p) \/ Lock(p) \/ Insert(p) \/ CommitEvent(p)) /\ UNCHANGED socketVars
       \/ PatchFails(p) /\ UNCHANGED socketVars
       \/ Emit(p) /\ G!Broadcast(p, home[p])
  /\ UNCHANGED expected

FeedStream ==
  /\ \E c \in Clients : Connect(c) \/ Query(c) \/ Replay(c) \/ Receive(c) \/ Disconnect(c)
  /\ UNCHANGED <<socketVars, expected>>

FeedSocket ==
  /\ G!SocketStep
  /\ expected' = [s \in Sockets |-> IF s \in told' \ told THEN Unemitted
                                    ELSE IF s \in told' THEN expected[s] ELSE {}]
  /\ UNCHANGED vars

FeedKill ==
  /\ \E n \in Procs : Kill(n) /\ G!Restarted(n)
  /\ expected' = [s \in Sockets |-> IF s \in told' THEN expected[s] ELSE {}]

FeedNext == FeedPatch \/ FeedStream \/ FeedSocket \/ FeedKill

FeedSpec == FeedInit /\ [][FeedNext]_feedVars

-----------------------------------------------------------------------------
(* Properties.                                                             *)

\* README: "a socket opened as one buyer cannot enter another buyer's room by
\* naming their id".  Nobody but the owner hears of the order, and the room
\* holds no socket that is gone, whatever disconnects, kills and repeated joins
\* come between the handshake, the query and the join.
RoomIsTheOwners ==
  \A s \in Sockets :
    /\ s \in room => link[s] # None /\ auth[s] = Owner
    /\ heard[s] # [p \in Patches |-> 0] => auth[s] = Owner

\* A socket that has been told { ok: true } hears each later status change of
\* its own process once, and none of another process: "a status change handled
\* by another instance is not delivered to sockets joined elsewhere".  It ends
\* with the shutdown of the process.
RoomHearsEachOnce ==
  \A s \in told, p \in Patches :
    /\ heard[s][p] = 1 => pc[p] \in {"told", "done"} /\ home[p] = link[s]
    /\ heard[s][p] <= 1
    /\ (pc[p] = "told" /\ p \in expected[s] /\ home[p] = link[s] /\ link[s] \in subscribed)
         => heard[s][p] = 1

=============================================================================
