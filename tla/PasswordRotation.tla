--------------------------- MODULE PasswordRotation ---------------------------
(***************************************************************************)
(* Rotating app_user's password under a running API: rotate.sh and db/up.sh *)
(* change the role, the secret file and PgBouncer's userlist one after     *)
(* another, while the API's two pools go on opening and reusing their      *)
(* connections to PgBouncer.  DatabaseService reads the file for every new *)
(* connection; TypeormService reads it when the process starts.            *)
(*                                                                         *)
(* Passwords are numbered in the order rotate.sh makes them up; an empty   *)
(* file is none, and so is a role without one.  A pool has one connection  *)
(* or none, and so has PgBouncer to PostgreSQL: what matters is whether a  *)
(* query finds one open or has to log in.                                  *)
(***************************************************************************)
EXTENDS Naturals

CONSTANTS
  MaxRotations,  \* bound on rotations begun, for model checking
  MaxCuts        \* bound on scripts cut off half way, for model checking

BoundsAssumption == MaxRotations \in Nat /\ MaxCuts \in Nat

VARIABLES
  role,      \* password of app_user in PostgreSQL
  file,      \* contents of secrets/db_password
  userlist,  \* what PgBouncer lists for app_user: one password or none
  bouncer,   \* PgBouncer listens or is being restarted
  server,    \* PgBouncer has a connection logged in as app_user
  client,    \* which pools have a connection to PgBouncer
  startup,   \* the password in the TypeORM options
  script,    \* what the operator's script has done last
  made,      \* number of the newest password
  cuts,      \* scripts cut off so far
  outcome     \* the last query: its pool and whether it was answered

secrets == <<role, file, made>>
pooler  == <<userlist, bouncer, server>>
vars == <<secrets, pooler, client, startup, script, cuts, outcome>>

Pools == {"database", "typeorm"}
Nothing == 0
Passwords == 1 .. MaxRotations + 1

TypeOK ==
  /\ role \in Passwords \cup {Nothing}
  /\ file \in Passwords \cup {Nothing}
  /\ userlist \in {{}} \cup {{w} : w \in Passwords}
  /\ bouncer \in {"up", "restarting"}
  /\ server \in BOOLEAN
  /\ client \in [Pools -> BOOLEAN]
  /\ startup \in Passwords \cup {Nothing}
  /\ script \in {"idle", "altered", "truncated", "written", "terminated", "pushed", "cut"}
  /\ made \in Passwords
  /\ cuts \in 0 .. MaxCuts
  /\ outcome \in [pool : Pools, ok : BOOLEAN]

\* After db/up.sh and the start of the API.
Init ==
  /\ role = 1
  /\ file = 1
  /\ userlist = {1}
  /\ bouncer = "up"
  /\ server = FALSE
  /\ client = [p \in Pools |-> FALSE]
  /\ startup = 1
  /\ script = "idle"
  /\ made = 1
  /\ cuts = 0
  /\ outcome = [pool |-> "database", ok |-> TRUE]

-----------------------------------------------------------------------------
(* The scripts.                                                            *)

\* rotate.sh 1: ALTER ROLE.  It may follow a rotation that was cut off.
Alter ==
  /\ script \in {"idle", "cut"}
  /\ made \in 1 .. MaxRotations
  /\ made' = made + 1
  /\ role' = made'
  /\ script' = "altered"
  /\ UNCHANGED <<file, pooler, client, startup, cuts, outcome>>

\* rotate.sh 2: the shell opens the secret file, and empties it,
Truncate ==
  /\ script = "altered"
  /\ file' = Nothing
  /\ script' = "truncated"
  /\ UNCHANGED <<role, made, pooler, client, startup, cuts, outcome>>

\* and printf writes it.
Write ==
  /\ script = "truncated"
  /\ file' = role
  /\ script' = "written"
  /\ UNCHANGED <<role, made, pooler, client, startup, cuts, outcome>>

\* rotate.sh 3: pg_terminate_backend, which ends PgBouncer's connections.
Terminate ==
  /\ script = "written"
  /\ server' = FALSE
  /\ script' = "terminated"
  /\ UNCHANGED <<secrets, userlist, bouncer, client, startup, cuts, outcome>>

\* db/up.sh: the file's password goes into the role.  PostgreSQL takes an empty
\* one as none.
Push ==
  /\ script \in {"idle", "cut"}
  /\ role' = file
  /\ script' = "pushed"
  /\ UNCHANGED <<file, made, pooler, client, startup, cuts, outcome>>

\* The last step of both: docker compose restart pgbouncer, which returns
\* before PgBouncer listens again.
RestartBouncer ==
  /\ script \in {"terminated", "pushed"}
  /\ bouncer' = "restarting"
  /\ server' = FALSE
  /\ client' = [p \in Pools |-> FALSE]
  /\ script' = "idle"
  /\ UNCHANGED <<secrets, userlist, startup, cuts, outcome>>

\* set -e (a full disk), or the operator's Ctrl-C, between two steps.
Cut ==
  /\ script \in {"altered", "truncated", "written", "terminated", "pushed"}
  /\ cuts < MaxCuts
  /\ cuts' = cuts + 1
  /\ script' = "cut"
  /\ UNCHANGED <<secrets, pooler, client, startup, outcome>>

-----------------------------------------------------------------------------
(* PgBouncer.                                                              *)

\* As it would be without the cp, with the password appended to the file of the
\* last start.
BouncerListensAppends ==
  /\ bouncer = "restarting"
  /\ bouncer' = "up"
  /\ userlist' = userlist \cup ({file} \ {Nothing})
  /\ UNCHANGED <<secrets, server, client, startup, script, cuts, outcome>>

\* start.sh merges the secret file, unless it is empty, into the userlist that
\* PgBouncer reads.
BouncerListens ==
  /\ bouncer = "restarting"
  /\ bouncer' = "up"
  /\ userlist' = {file} \ {Nothing}
  /\ UNCHANGED <<secrets, server, client, startup, script, cuts, outcome>>

\* server_idle_timeout and server_lifetime.
ServerExpires ==
  /\ server
  /\ server' = FALSE
  /\ UNCHANGED <<secrets, userlist, bouncer, client, startup, script, cuts, outcome>>

-----------------------------------------------------------------------------
(* The API process.                                                        *)

\* As it would be with the password read once, in the constructor.
SecretAtStart(p) == startup

\* What a pool presents when it opens a connection.
Secret(p) == IF p = "database" THEN file ELSE startup

\* PgBouncer lets a client in by its userlist and logs in to PostgreSQL with
\* the same password.
Answered(p) ==
  /\ bouncer = "up"
  /\ client[p] \/ Secret(p) \in userlist
  /\ server \/ role \in userlist

\* GET /health/db, or any request that goes through TypeORM.  A login that
\* fails costs the pool its connection too.
Query(p) ==
  /\ outcome' = [pool |-> p, ok |-> Answered(p)]
  /\ client' = [client EXCEPT ![p] = Answered(p)]
  /\ server' = (server \/ Answered(p))
  /\ UNCHANGED <<secrets, userlist, bouncer, startup, script, cuts>>

\* pg closes connections that idle.
ClientExpires(p) ==
  /\ client[p]
  /\ client' = [client EXCEPT ![p] = FALSE]
  /\ UNCHANGED <<secrets, pooler, startup, script, cuts, outcome>>

\* The process starts anew, and onModuleInit builds its data source.
RestartApi ==
  /\ startup' = file
  /\ client' = [p \in Pools |-> FALSE]
  /\ UNCHANGED <<secrets, pooler, script, cuts, outcome>>

-----------------------------------------------------------------------------
Next == \/ Alter \/ Truncate \/ Write \/ Terminate \/ Push \/ RestartBouncer \/ Cut
        \/ BouncerListens \/ ServerExpires \/ RestartApi
        \/ \E p \in Pools : Query(p) \/ ClientExpires(p)

Spec == Init /\ [][Next]_vars

-----------------------------------------------------------------------------
(* Properties.                                                             *)

Fails(p) == outcome' = [pool |-> p, ok |-> FALSE] /\ Query(p)

\* With no script at work and PgBouncer back, no query fails, however the
\* rotations and db:up runs before were cut off and repeated: except through
\* TypeORM, in a process that is older than the password, and when a rotation
\* was cut off with the file emptied, which db:up does not repair.
FailsOnlyInRotation ==
  [][\A p \in Pools :
       Fails(p) => \/ script # "idle"
                   \/ bouncer # "up"
                   \/ file = Nothing
                   \/ p = "typeorm" /\ startup # file]_vars

=============================================================================
