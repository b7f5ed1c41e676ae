---------------------------- MODULE OrdersGateway ----------------------------
(***************************************************************************)
(* OrdersGateway: the socket.io sockets of one process each, the room of   *)
(* one order, and the gateway's subscription to the process's events.      *)
(* OrderFeeds puts it beside OrderEvents, whose PATCH calls emit.          *)
(*                                                                         *)
(* socket.io is external: its rooms are in memory, join() on a socket that *)
(* has disconnected does nothing, and what is emitted to a room reaches    *)
(* every socket in it as long as it is connected.                          *)
(***************************************************************************)
EXTENDS Naturals, FiniteSets

CONSTANTS
  Sockets,    \* socket.io clients
  Users,      \* who a handshake or a join body may name
  Owner,      \* the buyer of the order
  Patches,    \* the order's events, one for each PATCH
  Procs, None

VARIABLES
  auth,       \* handshake.auth.userId of each socket, None without one
  link,       \* the process each socket is connected to
  joining,    \* sockets whose join awaits ownerId()
  told,       \* sockets that have been answered { ok: true }
  room,       \* sockets in the order's room
  heard,      \* how often each event has been emitted to a connected socket
  subscribed  \* processes whose gateway is subscribed to events$

TypeOK ==
  /\ auth \in [Sockets -> Users \cup {None}]
  /\ link \in [Sockets -> Procs \cup {None}]
  /\ joining \subseteq Sockets /\ told \subseteq Sockets /\ room \subseteq Sockets
  /\ heard \in [Sockets -> [Patches -> 0 .. 2]]
  /\ subscribed \subseteq Procs

NoEvents == [p \in Patches |-> 0]

\* afterInit has run in every process.
Init ==
  /\ auth = [s \in Sockets |-> None]
  /\ link = [s \in Sockets |-> None]
  /\ joining = {} /\ told = {} /\ room = {}
  /\ heard = [s \in Sockets |-> NoEvents]
  /\ subscribed = Procs

\* The handshake says who the socket is, once and for all.
Handshake(s) ==
  /\ link[s] = None
  /\ \E n \in Procs : link' = [link EXCEPT ![s] = n]
  /\ \E u \in Users \cup {None} : auth' = [auth EXCEPT ![s] = u]
  /\ UNCHANGED <<joining, told, room, heard, subscribed>>

\* As it would be with the user named in the body of the join.
IdentityInBody(s, named) == named

\* join reads the user of the handshake; the one its body names is ignored.
Identity(s, named) == auth[s]

\* join, up to the query of ownerId().  The answer is the same whenever it is
\* read: orders keep their buyer.
Ask(s) ==
  /\ link[s] # None /\ s \notin joining
  /\ \E named \in Users \cup {None} :
       joining' = IF Identity(s, named) = Owner THEN joining \cup {s} ELSE joining
  /\ UNCHANGED <<auth, link, told, room, heard, subscribed>>

\* As it would be with the answer before the await of join().
AnswerFirst(s) == told' = told \cup {s} /\ UNCHANGED room

\* client.join(room), then the answer.
Enter(s) == room' = room \cup {s} /\ told' = told \cup {s}

\* ownerId() has answered.  A socket that is gone by now is not in joining.
Join(s) ==
  /\ s \in joining
  /\ joining' = joining \ {s}
  /\ Enter(s)
  /\ UNCHANGED <<auth, link, heard, subscribed>>

\* socket.io takes the sockets of ss out of every room; a join under way finds
\* its socket disconnected.
Gone(ss) ==
  /\ link' = [s \in Sockets |-> IF s \in ss THEN None ELSE link[s]]
  /\ auth' = [s \in Sockets |-> IF s \in ss THEN None ELSE auth[s]]
  /\ heard' = [s \in Sockets |-> IF s \in ss THEN NoEvents ELSE heard[s]]
  /\ joining' = joining \ ss /\ told' = told \ ss /\ room' = room \ ss

Leave(s) == link[s] # None /\ Gone({s}) /\ UNCHANGED subscribed

\* onModuleDestroy of process n: its sockets stay until the server closes.
Unsubscribe(n) ==
  /\ n \in subscribed
  /\ subscribed' = subscribed \ {n}
  /\ UNCHANGED <<auth, link, joining, told, room, heard>>

\* Process n is gone, and started again.
Restarted(n) ==
  /\ Gone({s \in Sockets : link[s] = n})
  /\ subscribed' = subscribed \cup {n}

\* server.to(room).emit, when process n emits p.
Broadcast(p, n) ==
  /\ heard' = [s \in Sockets |->
       IF n \in subscribed /\ s \in room /\ link[s] = n
       THEN [heard[s] EXCEPT ![p] = @ + 1] ELSE heard[s]]
  /\ UNCHANGED <<auth, link, joining, told, room, subscribed>>

SocketStep == \/ \E s \in Sockets : Handshake(s) \/ Ask(s) \/ Join(s) \/ Leave(s)
              \/ \E n \in Procs : Unsubscribe(n)

=============================================================================
