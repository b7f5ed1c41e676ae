-------------------------- MODULE IdempotentOrders --------------------------
(***************************************************************************)
(* IdempotencyInterceptor in front of POST /orders: a map of keys in the   *)
(* memory of each API process, over the idempotency_keys table they share. *)
(*                                                                         *)
(* OrdersService.create is one step here, as AtomicCheckout promises it:   *)
(* what refuses an order (validation, stock, funds, a database error) is   *)
(* one refusal.                                                            *)
(***************************************************************************)
EXTENDS Integers, FiniteSetsExt, SequencesExt

CONSTANTS
  Requests,   \* POST requests, each sent once; one lends its name to its order
  Procs,      \* API processes
  Keys, Key,  \* the Idempotency-Key of each request
  Body,       \* its body as received, which the interceptor hashes
  Dto,        \* the validated body, which OrdersService.create hashes
  KEY_TTL,
  None,       \* no order, no process
  MaxTime,    \* bound on the clock
  MaxKills    \* bound on restarts

ASSUME RequestsAssumption ==
  Key \in [Requests -> Keys] /\ DOMAIN Body = Requests /\ None \notin Requests \cup Procs
ASSUME SameBodySameDto == \A r, u \in Requests : Body[r] = Body[u] => Dto[r] = Dto[u]
ASSUME TimesAssumption == KEY_TTL \in Nat \ {0} /\ MaxTime \in Nat /\ MaxKills \in Nat

VARIABLES
  map,            \* the records of each process, in insertion order
  keyRow,         \* idempotency_keys: the request whose order the key has
  pc, at,         \* where each request is, and in which process
  order,          \* the order create() returned to it
  expiresAt,      \* `expiresAt` of its call
  answer, reply,  \* how it was answered, and with which order
  now, kills

locals == <<at, order, expiresAt>>
answers == <<answer, reply>>
vars == <<map, keyRow, pc, locals, answers, now, kills>>

Records == [key : Keys, state : {"in-flight", "done"}, body : Range(Body),
            expiresAt : Nat, order : Requests \cup {None}]

TypeOK ==
  /\ map \in [Procs -> Seq(Records)]
  /\ keyRow \in [Keys -> Requests \cup {None}]
  /\ pc \in [Requests -> {"idle", "create", "findOne", "done"}]
  /\ at \in [Requests -> Procs \cup {None}]
  /\ order \in [Requests -> Requests \cup {None}]
  /\ expiresAt \in [Requests -> Nat]
  /\ answer \in [Requests -> {"none", "created", "in_flight", "key_reuse", "failed"}]
  /\ reply \in [Requests -> Requests \cup {None}]
  /\ now \in 0 .. MaxTime /\ kills \in 0 .. MaxKills
  /\ \A r \in Requests : answer[r] = "created" <=> reply[r] # None

Init ==
  /\ map = [n \in Procs |-> <<>>]
  /\ keyRow = [k \in Keys |-> None]
  /\ pc = [r \in Requests |-> "idle"] /\ at = [r \in Requests |-> None]
  /\ order = [r \in Requests |-> None]
  /\ expiresAt = [r \in Requests |-> 0]
  /\ answer = [r \in Requests |-> "none"] /\ reply = [r \in Requests |-> None]
  /\ now = 0 /\ kills = 0

Running(r) == pc[r] \in {"create", "findOne"}

\* sweep(): the scan stops at the first live record.
Swept(m) ==
  LET live == {i \in DOMAIN m : m[i].expiresAt > now}
  IN IF live = {} THEN <<>> ELSE SubSeq(m, Min(live), Len(m))

Holds(m, k) == \E i \in DOMAIN m : m[i].key = k
Get(m, k) == m[CHOOSE i \in DOMAIN m : m[i].key = k]

\* A slip the properties must catch: a record that is written again moves to
\* the end of the map.
SetLast(m, rec) == Append(SelectSeq(m, LAMBDA e : e.key # rec.key), rec)

\* Map.set keeps the slot of a key that is there.
Set(m, rec) ==
  IF Holds(m, rec.key)
  THEN [i \in DOMAIN m |-> IF m[i].key = rec.key THEN rec ELSE m[i]]
  ELSE Append(m, rec)

Record(r, s, o, e) ==
  [key |-> Key[r], state |-> s, body |-> Body[r], expiresAt |-> e, order |-> o]

\* The call of r is over, and its local variables with it.
Done(r, a, o) ==
  /\ pc' = [pc EXCEPT ![r] = "done"]
  /\ answer' = [answer EXCEPT ![r] = a]
  /\ reply' = [reply EXCEPT ![r] = o]
  /\ at' = [at EXCEPT ![r] = None]
  /\ order' = [order EXCEPT ![r] = None]
  /\ expiresAt' = [expiresAt EXCEPT ![r] = 0]

\* What a record of the map answers.
Hit(r, rec) ==
  IF rec.body # Body[r] THEN Done(r, "key_reuse", None)
  ELSE IF rec.state = "in-flight" THEN Done(r, "in_flight", None)
  ELSE Done(r, "created", rec.order)

\* handle(), up to next.handle(): it has no await.
Arrive(r, n) ==
  LET m == Swept(map[n])
      e == now + KEY_TTL
  IN
  /\ pc[r] = "idle"
  /\ \/ /\ Holds(m, Key[r])
        /\ Hit(r, Get(m, Key[r]))
        /\ map' = [map EXCEPT ![n] = m]
     \/ /\ ~ Holds(m, Key[r])
        /\ map' = [map EXCEPT ![n] = Set(m, Record(r, "in-flight", None, e))]
        /\ at' = [at EXCEPT ![r] = n]
        /\ expiresAt' = [expiresAt EXCEPT ![r] = e]
        /\ pc' = [pc EXCEPT ![r] = "create"]
        /\ UNCHANGED <<order, answers>>
  /\ UNCHANGED <<keyRow, now, kills>>

\* A slip: the table's fingerprint is that of the key alone.
CreateAnyDto(r) ==
  LET u == keyRow[Key[r]] IN
  /\ pc[r] = "create"
  /\ \E o \in {IF u = None THEN r ELSE u} :
       /\ keyRow' = [keyRow EXCEPT ![Key[r]] = o]
       /\ order' = [order EXCEPT ![r] = o]
  /\ pc' = [pc EXCEPT ![r] = "findOne"]
  /\ UNCHANGED <<map, at, expiresAt, answers, now, kills>>

\* OrdersService.create up to its checkout().  An exception passes the
\* interceptor by: the key stays in-flight in the map.
Create(r) ==
  LET u == keyRow[Key[r]] IN
  /\ pc[r] = "create"
  /\ \/ \* a new key: the order and the key's row are committed
        /\ u = None
        /\ keyRow' = [keyRow EXCEPT ![Key[r]] = r]
        /\ order' = [order EXCEPT ![r] = r]
        /\ pc' = [pc EXCEPT ![r] = "findOne"]
        /\ UNCHANGED <<at, expiresAt, answers>>
     \/ \* the table knows the key and the body
        /\ u # None /\ Dto[u] = Dto[r]
        /\ order' = [order EXCEPT ![r] = u]
        /\ pc' = [pc EXCEPT ![r] = "findOne"]
        /\ UNCHANGED <<keyRow, at, expiresAt, answers>>
     \/ \* the table knows the key with another body
        /\ u # None /\ Dto[u] # Dto[r]
        /\ Done(r, "key_reuse", None)
        /\ UNCHANGED keyRow
     \/ \* refused, or failed
        /\ Done(r, "failed", None)
        /\ UNCHANGED keyRow
  /\ UNCHANGED <<map, now, kills>>

\* findOne, and the record of the answer when it succeeds.
FindOne(r) ==
  /\ pc[r] = "findOne"
  /\ \/ /\ Done(r, "created", order[r])
        /\ map' = [map EXCEPT ![at[r]] = Set(@, Record(r, "done", order[r], expiresAt[r]))]
     \/ /\ Done(r, "failed", None)
        /\ UNCHANGED map
  /\ UNCHANGED <<keyRow, now, kills>>

\* A process dies and starts again with an empty map.
Kill(n) ==
  LET lost == {r \in Requests : Running(r) /\ at[r] = n} IN
  /\ kills < MaxKills
  /\ kills' = kills + 1
  /\ map' = [map EXCEPT ![n] = <<>>]
  /\ pc' = [r \in Requests |-> IF r \in lost THEN "done" ELSE pc[r]]
  /\ answer' = [r \in Requests |-> IF r \in lost THEN "failed" ELSE answer[r]]
  /\ at' = [r \in Requests |-> IF r \in lost THEN None ELSE at[r]]
  /\ order' = [r \in Requests |-> IF r \in lost THEN None ELSE order[r]]
  /\ expiresAt' = [r \in Requests |-> IF r \in lost THEN 0 ELSE expiresAt[r]]
  /\ UNCHANGED <<keyRow, reply, now>>

\* Time passes; the clock does not step back, and no request runs for KEY_TTL.
Tick ==
  /\ now < MaxTime
  /\ \A r \in Requests : Running(r) => now + 1 < expiresAt[r]
  /\ now' = now + 1
  /\ UNCHANGED <<map, keyRow, pc, locals, answers, kills>>

Next ==
  \/ \E r \in Requests : (\E n \in Procs : Arrive(r, n)) \/ Create(r) \/ FindOne(r)
  \/ \E n \in Procs : Kill(n)
  \/ Tick

Spec == Init /\ [][Next]_vars

-----------------------------------------------------------------------------
(* Properties.                                                             *)

\* "Insertion order is expiry order": where the scan of sweep stops, no
\* expired record is left behind, so an old answer is never served from the
\* map and the map does not grow with the age of the process.
SweepLeavesNothing ==
  \A n \in Procs :
    /\ \A i, j \in DOMAIN map[n] : i < j => map[n][i].expiresAt <= map[n][j].expiresAt
    /\ \A i, j \in DOMAIN map[n] : map[n][i].key = map[n][j].key => i = j

\* A key stands for one order, whichever process its requests reach, after
\* restarts and after the map has forgotten it: every 201 names that order and
\* answers one body, and 422 idempotency-key-reuse means another body came.
OneAnswerPerKey ==
  \A r, u \in Requests :
    /\ answer[r] = "created" /\ answer[u] = "created" /\ Key[r] = Key[u]
         => reply[r] = reply[u] /\ Dto[r] = Dto[u]
    /\ answer[r] = "key_reuse" =>
         \E v \in Requests : Key[v] = Key[r] /\ pc[v] # "idle" /\ Body[v] # Body[r]

Promise == INSTANCE KeyStore WITH
             orderOf <- keyRow, sent <- {r \in Requests : pc[r] # "idle"}

\* What the interceptor and the table together do with a key, in whichever
\* process, after restarts, and when the map has forgotten the key: it is given
\* one order and keeps it; a 201 names that order, a 422 follows another body,
\* and a 409 means that a request with this body is running or has failed.
\* Within KEY_TTL that is the promise of openapi.yaml.  Beyond it the promise is
\* another one, a new attempt, and idempotency_keys breaks it: see MCKeyAge.
KeysKeepTheirOrder == Promise!Spec

\* The interceptor's 409: "A request with this key is still in flight".
InFlightMeansRunning ==
  [][\A r \in Requests :
       answer[r] = "none" /\ answer'[r] = "in_flight"
         => \E u \in Requests \ {r} : Key[u] = Key[r] /\ Running(u)]_vars

=============================================================================
