-------------------------- MODULE SerializationRetry --------------------------
(***************************************************************************)
(* withSerializationRetry (retry.ts) around the REPEATABLE READ            *)
(* read-modify-write of demo-retry.ts: several callers read one balance    *)
(* from their snapshots and write back one more.  PostgreSQL refuses the   *)
(* write of a row that has changed since the snapshot (40001), and the     *)
(* whole transaction, the SELECT included, is run again.                   *)
(***************************************************************************)
EXTENDS Naturals, FiniteSets, FiniteSetsExt

CONSTANTS
  Callers,      \* concurrent withSerializationRetry(bumpBalance)
  MaxAttempts,  \* options.maxAttempts (8)
  MaxFaults     \* bound on lost connections, for model checking

CallersAssumption == IsFiniteSet(Callers) /\ Callers # {}
BoundsAssumption == MaxAttempts \in Nat \ {0} /\ MaxFaults \in Nat

VARIABLES
  balance,  \* the committed balance, counted from START
  version,  \* commits of the row so far
  step,     \* where a caller is
  snap,     \* the balance and the version its transaction has read
  attempt,  \* attempt, from 1
  retries,  \* retries
  arrived,  \* arrived: reads done by all callers together
  wave,     \* the caller's own number among them
  commits,  \* how often the caller's transaction has committed
  faults    \* connections lost so far

table == <<balance, version>>
retryVars == <<table, step, snap, attempt, retries, arrived, wave, commits, faults>>

Reads == Cardinality(Callers) * MaxAttempts

TypeOK ==
  /\ balance \in 0 .. Reads
  /\ version \in 0 .. Reads
  /\ step \in [Callers -> {"begin", "read", "written", "returned", "threw"}]
  /\ snap \in [Callers -> [balance : 0 .. Reads, version : 0 .. Reads]]
  /\ attempt \in [Callers -> 1 .. MaxAttempts]
  /\ retries \in [Callers -> 0 .. MaxAttempts - 1]
  /\ arrived \in 0 .. Reads
  /\ wave \in [Callers -> 0 .. Reads]
  /\ commits \in [Callers -> Nat]
  /\ faults \in 0 .. MaxFaults

Init ==
  /\ balance = 0
  /\ version = 0
  /\ step = [c \in Callers |-> "begin"]
  /\ snap = [c \in Callers |-> [balance |-> 0, version |-> 0]]
  /\ attempt = [c \in Callers |-> 1]
  /\ retries = [c \in Callers |-> 0]
  /\ arrived = 0
  /\ wave = [c \in Callers |-> 0]
  /\ commits = [c \in Callers |-> 0]
  /\ faults = 0

Goto(c, s) == step' = [step EXCEPT ![c] = s]
Fault == faults < MaxFaults /\ faults' = faults + 1

-----------------------------------------------------------------------------
(* bumpBalance.                                                            *)

\* The SELECT takes the snapshot; then the caller counts itself in.
Read(c) ==
  /\ step[c] = "begin"
  /\ snap' = [snap EXCEPT ![c] = [balance |-> balance, version |-> version]]
  /\ arrived' = arrived + 1
  /\ wave' = [wave EXCEPT ![c] = arrived']
  /\ Goto(c, "read")
  /\ UNCHANGED <<table, attempt, retries, commits, faults>>

\* The first two to arrive wait for each other.
Passes(c) == wave[c] <= 2 => arrived >= 2

\* The UPDATE waits for a transaction that has written the row.
RowFree == \A d \in Callers : step[d] # "written"

\* As it would be under READ COMMITTED, where the UPDATE takes the row as it is.
TakesAnyVersion(c) == TRUE

UnchangedSinceSnapshot(c) == snap[c].version = version

Write(c) ==
  /\ step[c] = "read"
  /\ Passes(c)
  /\ RowFree
  /\ UnchangedSinceSnapshot(c)
  /\ Goto(c, "written")
  /\ UNCHANGED <<table, snap, attempt, retries, arrived, wave, commits, faults>>

\* COMMIT, wherever its answer gets to.
CommitRow(c) == /\ balance' = snap[c].balance + 1
                /\ version' = version + 1
                /\ commits' = [commits EXCEPT ![c] = @ + 1]

-----------------------------------------------------------------------------
(* withSerializationRetry.                                                 *)

Returns(c) ==
  /\ step[c] = "written"
  /\ CommitRow(c)
  /\ Goto(c, "returned")
  /\ UNCHANGED <<snap, attempt, retries, arrived, wave, faults>>

\* A retryable error: again after the backoff, or the error for the caller.
Retry(c) ==
  IF attempt[c] = MaxAttempts
  THEN Goto(c, "threw") /\ UNCHANGED <<attempt, retries>>
  ELSE /\ Goto(c, "begin")
       /\ attempt' = [attempt EXCEPT ![c] = @ + 1]
       /\ retries' = [retries EXCEPT ![c] = @ + 1]

\* 40001: the row has changed since the snapshot.
SerializationFailure(c) ==
  /\ step[c] = "read"
  /\ Passes(c)
  /\ RowFree
  /\ ~ UnchangedSinceSnapshot(c)
  /\ Retry(c)
  /\ UNCHANGED <<table, snap, arrived, wave, commits, faults>>

\* Any other error is the caller's.
Throw(c) == Goto(c, "threw") /\ UNCHANGED <<attempt, retries>>

\* The connection is lost and the transaction rolls back, or the connection
\* is lost with the answer to a COMMIT that has taken effect.
ConnectionLost(c) ==
  /\ step[c] \in {"begin", "read", "written"}
  /\ Throw(c)
  /\ Fault
  /\ UNCHANGED <<table, snap, arrived, wave, commits>>

CommitAnswerLost(c) ==
  /\ step[c] = "written"
  /\ CommitRow(c)
  /\ Throw(c)
  /\ Fault
  /\ UNCHANGED <<snap, arrived, wave>>

-----------------------------------------------------------------------------
CallerStep(c) == Read(c) \/ Write(c) \/ SerializationFailure(c) \/ Returns(c)

Next == \E c \in Callers : CallerStep(c) \/ ConnectionLost(c) \/ CommitAnswerLost(c)

Spec == Init /\ [][Next]_retryVars

-----------------------------------------------------------------------------
(* Properties.                                                             *)

\* No update is lost and none is made twice: the balance is START plus the
\* transactions that committed, at most one for each caller, also when the
\* answer to a COMMIT never came.  Who got a result has its update in the
\* database; when all did, as in demo-retry, somebody was retried.
NoLostUpdate ==
  /\ balance = SumFunction(commits)
  /\ \A c \in Callers : commits[c] <= 1
  /\ \A c \in Callers : step[c] = "returned" => commits[c] = 1
  /\ (\A c \in Callers : step[c] = "returned") => SumFunction(retries) >= 1

=============================================================================
