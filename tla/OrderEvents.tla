---------------------------- MODULE OrderEvents ----------------------------
(***************************************************************************)
(* PATCH /orders/:id and GET /orders/:id/events for one order: the saved   *)
(* status, the numbered log in PostgreSQL, the live fan-out inside each    *)
(* process and the event streams of the order's buyer.                     *)
(*                                                                         *)
(* Orders do not touch each other: the advisory lock, the log and the      *)
(* filter of a stream are all by order id.                                 *)
(***************************************************************************)
EXTENDS Integers, FiniteSets, SequencesExt

CONSTANTS
  Patches,       \* PATCH calls, each made once; one stands for its status too
  Procs,         \* API processes
  Clients,       \* EventSource clients, who reconnect with Last-Event-ID
  Initial,       \* the status of the order when it was placed
  None,          \* no process
  BUFFER_LIMIT,
  MaxFaults      \* bound on kills, broken connections and failed queries

ASSUME PatchesAssumption == IsFiniteSet(Patches) /\ Initial \notin Patches
ASSUME ProcsAssumption == None \notin Procs
ASSUME LimitAssumption == BUFFER_LIMIT \in Nat \ {0} /\ MaxFaults \in Nat

VARIABLES
  row,      \* orders.status
  log,      \* order_status_events: the status of each retained event id
  history,  \* history variable: every event ever committed, by its number
  pc, home, \* where each PATCH call is, and in which process
  number,   \* the event id its INSERT was given
  conn, at, \* where each client's stream is, and in which process
  lastId,   \* the Last-Event-ID it came with
  seen,     \* `seen`: the newest event written to it
  rows,     \* what since() answered
  wire,     \* written to the response, not received
  got,      \* the events the client has received, over all its connections
  faults

patchVars == <<row, log, history, pc, home, number>>
streamVars == <<conn, at, lastId, seen, rows>>
clientVars == <<wire, got>>
vars == <<patchVars, streamVars, clientVars, faults>>

Events == [id : Nat \ {0}, status : Patches]

TypeOK ==
  /\ row \in Patches \cup {Initial}
  /\ DOMAIN log \subseteq Nat \ {0} /\ \A i \in DOMAIN log : log[i] \in Patches
  /\ history \in Seq(Patches)
  /\ pc \in [Patches -> {"idle", "save", "lock", "insert", "commit", "emit", "told", "done"}]
  /\ home \in [Patches -> Procs \cup {None}]
  /\ number \in [Patches -> Nat]
  /\ conn \in [Clients -> {"away", "subscribed", "queried", "open"}]
  /\ at \in [Clients -> Procs \cup {None}]
  /\ lastId \in [Clients -> Nat] /\ seen \in [Clients -> Nat]
  /\ rows \in [Clients -> SUBSET Events]
  /\ wire \in [Clients -> Seq(Events)] /\ got \in [Clients -> Seq(Events)]
  /\ faults \in 0 .. MaxFaults

Init ==
  /\ row = Initial
  /\ log = <<>> /\ history = <<>>
  /\ pc = [p \in Patches |-> "idle"] /\ home = [p \in Patches |-> None]
  /\ number = [p \in Patches |-> 0]
  /\ conn = [c \in Clients |-> "away"] /\ at = [c \in Clients |-> None]
  /\ lastId = [c \in Clients |-> 0] /\ seen = [c \in Clients |-> 0]
  /\ rows = [c \in Clients |-> {}]
  /\ wire = [c \in Clients |-> <<>>] /\ got = [c \in Clients |-> <<>>]
  /\ faults = 0

Fault == faults < MaxFaults /\ faults' = faults + 1

-----------------------------------------------------------------------------
(* updateStatus and publish                                                *)

Goto(p, s) == pc' = [pc EXCEPT ![p] = s]

Request(p) ==
  /\ pc[p] = "idle"
  /\ \E n \in Procs : home' = [home EXCEPT ![p] = n]
  /\ Goto(p, "save")
  /\ UNCHANGED <<row, log, history, number, streamVars, clientVars, faults>>

\* A transaction of its own: the row can be saved and the event never be.
SaveRow(p) ==
  /\ pc[p] = "save"
  /\ row' = p
  /\ Goto(p, "lock")
  /\ UNCHANGED <<log, history, home, number, streamVars, clientVars, faults>>

\* A slip the properties must catch: no advisory lock.
LockNothing(p) ==
  /\ pc[p] = "lock"
  /\ Goto(p, "insert")
  /\ UNCHANGED <<row, log, history, home, number, streamVars, clientVars, faults>>

\* pg_advisory_xact_lock(order): held from here to the end of the transaction.
Lock(p) ==
  /\ pc[p] = "lock"
  /\ \A q \in Patches : pc[q] \notin {"insert", "commit"}
  /\ Goto(p, "insert")
  /\ UNCHANGED <<row, log, history, home, number, streamVars, clientVars, faults>>

\* A slip: coalesce(max(event_id), 0), not one more.
LastNumber == IF DOMAIN log = {} THEN 0 ELSE Max(DOMAIN log)

\* coalesce(max(event_id), 0) + 1
NextNumber == IF DOMAIN log = {} THEN 1 ELSE Max(DOMAIN log) + 1

\* The INSERT reads what is committed when it runs.
Insert(p) ==
  /\ pc[p] = "insert"
  /\ number' = [number EXCEPT ![p] = NextNumber]
  /\ Goto(p, "commit")
  /\ UNCHANGED <<row, log, history, home, streamVars, clientVars, faults>>

\* The rows the DELETE leaves: those above the BUFFER_LIMIT-th after the newest.
Retained(ids) == {i \in ids : Cardinality({j \in ids : j > i}) < BUFFER_LIMIT}

\* The DELETE and the COMMIT.  If the reply is lost, updateStatus throws.
CommitEvent(p) ==
  LET ids == DOMAIN log \cup {number[p]} IN
  /\ pc[p] = "commit"
  /\ log' = [i \in Retained(ids) |-> IF i = number[p] THEN p ELSE log[i]]
  /\ history' = Append(history, p)
  /\ \E s \in {"emit", "done"} : Goto(p, s)
  /\ UNCHANGED <<row, home, number, streamVars, clientVars, faults>>

\* A query of the call fails: its transaction is rolled back, PATCH answers 500.
PatchFails(p) ==
  /\ Fault
  /\ pc[p] \in {"save", "lock", "insert", "commit"}
  /\ Goto(p, "done")
  /\ UNCHANGED <<row, log, history, home, number, streamVars, clientVars>>

-----------------------------------------------------------------------------
(* OrdersController.events                                                 *)

\* A slip: subscribing only after the replay.
ListensLate(c, n) == conn[c] = "open" /\ at[c] = n

\* The handler subscribes before it asks for the replay.
Listens(c, n) == conn[c] # "away" /\ at[c] = n

\* A slip: `write` without `if (event.id <= seen) return`.
FreshAll(c, es) == es

\* What `write` lets through of the events of es: they come with rising ids, so
\* what is newer than `seen` at the start is what is newer when its turn comes.
Fresh(c, es) == {e \in es : e.id > seen[c]}

\* ORDER BY event_id.  No two rows have the same one.
InOrder(es) ==
  CHOOSE s \in [1 .. Cardinality(es) -> es] : \A i, j \in DOMAIN s : i < j => s[i].id < s[j].id

\* events.next: every stream of this process writes, or drops, the event.
Emit(p) ==
  LET e == [id |-> number[p], status |-> p]
      hears(c) == Listens(c, home[p]) /\ Fresh(c, {e}) # {}
  IN
  /\ pc[p] = "emit"
  /\ wire' = [c \in Clients |-> IF hears(c) THEN Append(wire[c], e) ELSE wire[c]]
  /\ seen' = [c \in Clients |-> IF hears(c) THEN e.id ELSE seen[c]]
  /\ Goto(p, "told")
  /\ UNCHANGED <<row, log, history, home, number, conn, at, lastId, rows, got, faults>>

LastGot(c) == IF got[c] = <<>> THEN 0 ELSE Last(got[c]).id

\* From the headers to the subscription there is no await.
Connect(c) ==
  /\ conn[c] = "away"
  /\ \E n \in Procs : at' = [at EXCEPT ![c] = n]
  /\ conn' = [conn EXCEPT ![c] = "subscribed"]
  /\ lastId' = [lastId EXCEPT ![c] = LastGot(c)]
  /\ seen' = [seen EXCEPT ![c] = LastGot(c)]
  /\ UNCHANGED <<patchVars, rows, clientVars, faults>>

\* since(id, lastId), evaluated in PostgreSQL while live events arrive.
Query(c) ==
  /\ conn[c] = "subscribed"
  /\ conn' = [conn EXCEPT ![c] = "queried"]
  /\ rows' = [rows EXCEPT ![c] =
       {[id |-> i, status |-> log[i]] : i \in {j \in DOMAIN log : j > lastId[c]}}]
  /\ UNCHANGED <<patchVars, at, lastId, seen, clientVars, faults>>

\* for (const event of await ...) write(event)
Replay(c) ==
  LET new == InOrder(Fresh(c, rows[c])) IN
  /\ conn[c] = "queried"
  /\ conn' = [conn EXCEPT ![c] = "open"]
  /\ wire' = [wire EXCEPT ![c] = wire[c] \o new]
  /\ seen' = [seen EXCEPT ![c] = IF new = <<>> THEN seen[c] ELSE Last(new).id]
  /\ UNCHANGED <<patchVars, at, lastId, rows, got, faults>>

Receive(c) ==
  /\ wire[c] # <<>>
  /\ got' = [got EXCEPT ![c] = Append(@, Head(wire[c]))]
  /\ wire' = [wire EXCEPT ![c] = Tail(@)]
  /\ UNCHANGED <<patchVars, streamVars, faults>>

\* The streams of the clients of cs are gone, with what was on the wire.
Drop(cs) ==
  /\ conn' = [c \in Clients |-> IF c \in cs THEN "away" ELSE conn[c]]
  /\ at' = [c \in Clients |-> IF c \in cs THEN None ELSE at[c]]
  /\ rows' = [c \in Clients |-> IF c \in cs THEN {} ELSE rows[c]]
  /\ wire' = [c \in Clients |-> IF c \in cs THEN <<>> ELSE wire[c]]
  /\ lastId' = [c \in Clients |-> IF c \in cs THEN 0 ELSE lastId[c]]
  /\ seen' = [c \in Clients |-> IF c \in cs THEN 0 ELSE seen[c]]

\* The connection breaks, or since() fails after the headers are sent.
Disconnect(c) ==
  /\ Fault
  /\ conn[c] # "away"
  /\ Drop({c})
  /\ UNCHANGED <<patchVars, got>>

\* A process dies and is started again.
Kill(n) ==
  /\ Fault
  /\ Drop({c \in Clients : at[c] = n})
  /\ pc' = [p \in Patches |-> IF home[p] = n THEN "done" ELSE pc[p]]
  /\ UNCHANGED <<row, log, history, home, number, got>>

PatchStep(p) == SaveRow(p) \/ Lock(p) \/ Insert(p) \/ CommitEvent(p) \/ Emit(p)

Next ==
  \/ \E p \in Patches : Request(p) \/ PatchStep(p) \/ PatchFails(p)
  \/ \E c \in Clients : Connect(c) \/ Query(c) \/ Replay(c) \/ Receive(c) \/ Disconnect(c)
  \/ \E n \in Procs : Kill(n)

Spec == Init /\ [][Next]_vars

-----------------------------------------------------------------------------
(* Properties.                                                             *)

\* The log is the newest BUFFER_LIMIT events, numbered in commit order without
\* a hole or a repetition, whatever concurrent PATCH calls, rollbacks and
\* restarts do: "a process restart does not reset the numbers".
LogIsNewestEvents ==
  /\ DOMAIN log = {i \in 1 .. Len(history) : i > Len(history) - BUFFER_LIMIT}
  /\ \A i \in DOMAIN log : log[i] = history[i]

\* Over all its connections, with live events and replays overlapping, a
\* client sees committed events only, under the number the log gives them,
\* and never an event twice or after a newer one.
StreamsFollowLog ==
  \A c \in Clients :
    LET s == got[c] \o wire[c] IN
    /\ \A k \in DOMAIN s : s[k].id \in DOMAIN history /\ s[k].status = history[s[k].id]
    /\ \A k \in 1 .. Len(s) - 1 : s[k].id < s[k + 1].id

\* The replay and the live events meet without a gap: a stream that is open
\* has been sent every event its process has emitted, or a newer one, whether
\* the event came before its query, during it or after, and wherever the
\* client's earlier connections and the process's earlier lives broke off.
OpenStreamsAreCurrent ==
  \A c \in Clients, p \in Patches :
    conn[c] = "open" /\ pc[p] = "told" /\ home[p] = at[c] => seen[c] >= number[p]

\* README: "Last-Event-ID: N is replayed from order_status_events
\* (event_id > N)".  The stream has been sent all that since() answered.
ReplaysTheLog ==
  \A c \in Clients :
    conn[c] = "open" => rows[c] \subseteq Range(got[c] \o wire[c])

=============================================================================
