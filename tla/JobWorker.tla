------------------------------ MODULE JobWorker ------------------------------
(***************************************************************************)
(* runWorker(): workers of one kind of job, who claim a row of jobs with   *)
(* FOR UPDATE SKIP LOCKED, keep it locked while they work, and count a     *)
(* failed attempt in a second statement, after the rollback.               *)
(***************************************************************************)
EXTENDS Integers, FiniteSets

CONSTANTS
  Jobs,             \* ids of the jobs, all queued before the workers start
  Poison,           \* jobs whose processing always throws
  Workers,
  JOB_MAX_ATTEMPTS,
  None,             \* no job
  MaxFaults         \* bound on deaths, database errors and lost replies

ASSUME JobsAssumption == Jobs \subseteq Nat /\ Poison \subseteq Jobs /\ None \notin Jobs
ASSUME LimitsAssumption == JOB_MAX_ATTEMPTS \in Nat \ {0} /\ MaxFaults \in Nat
ASSUME WorkersAssumption == IsFiniteSet(Workers)

VARIABLES
  processed, attempts, \* columns of jobs
  tries,               \* history variable: how often processing threw
  pc,                  \* where each worker is
  claimedId,           \* the job a worker has claimed in this round
  done,                \* `done` of each worker
  faults

jobVars == <<processed, attempts, tries>>
vars == <<jobVars, pc, claimedId, done, faults>>

TypeOK ==
  /\ processed \in [Jobs -> Nat]
  /\ attempts \in [Jobs -> Nat]
  /\ tries \in [Jobs -> Nat]
  /\ pc \in [Workers -> {"claim", "work", "caught", "count", "returned", "dead"}]
  /\ claimedId \in [Workers -> Jobs \cup {None}]
  /\ done \in [Workers -> Nat]
  /\ faults \in 0 .. MaxFaults
  /\ \A w \in Workers : pc[w] \in {"work", "caught"} => claimedId[w] # None

Init ==
  /\ processed = [j \in Jobs |-> 0]
  /\ attempts = [j \in Jobs |-> 0]
  /\ tries = [j \in Jobs |-> 0]
  /\ pc = [w \in Workers |-> "claim"]
  /\ claimedId = [w \in Workers |-> None]
  /\ done = [w \in Workers |-> 0]
  /\ faults = 0

Fault == faults < MaxFaults /\ faults' = faults + 1

Goto(w, s) == pc' = [pc EXCEPT ![w] = s]
Forget(w) == claimedId' = [claimedId EXCEPT ![w] = None]

Pending(j) == processed[j] = 0 /\ attempts[j] < JOB_MAX_ATTEMPTS
\* A slip the properties must catch: the claim takes no lock.
LockedByNone(j) == FALSE

Locked(j) == \E w \in Workers : pc[w] = "work" /\ claimedId[w] = j
Free == {j \in Jobs : Pending(j) /\ ~ Locked(j)}

\* claimJob: the first pending row that nobody has locked.  When the query
\* itself throws, nothing was claimed and the worker tries again.
ClaimJob(w) ==
  /\ pc[w] = "claim"
  /\ \/ /\ \E j \in Free : /\ \A i \in Free : j <= i
                            /\ claimedId' = [claimedId EXCEPT ![w] = j]
        /\ Goto(w, "work")
     \/ /\ Free = {}
        /\ Forget(w)
        /\ Goto(w, "count")
  /\ UNCHANGED <<jobVars, done, faults>>

\* The COMMIT of the work.  When its reply is lost the worker lands in `catch`.
Finish(w) ==
  /\ pc[w] = "work"
  /\ claimedId[w] \notin Poison
  /\ processed' = [processed EXCEPT ![claimedId[w]] = @ + 1]
  /\ UNCHANGED <<attempts, tries>>
  /\ \/ /\ Goto(w, "claim") /\ Forget(w)
        /\ done' = [done EXCEPT ![w] = @ + 1]
        /\ UNCHANGED faults
     \/ /\ Fault
        /\ Goto(w, "caught")
        /\ UNCHANGED <<claimedId, done>>

\* Processing throws: the transaction is rolled back and the row is free again.
Throw(w) ==
  /\ pc[w] = "work"
  /\ \/ claimedId[w] \in Poison /\ UNCHANGED faults
     \/ claimedId[w] \notin Poison /\ Fault
  /\ tries' = [tries EXCEPT ![claimedId[w]] = @ + 1]
  /\ Goto(w, "caught")
  /\ UNCHANGED <<processed, attempts, claimedId, done>>

\* A slip: the follow-up UPDATE without AND processed = 0.
CountAttemptAlways(w) ==
  LET j == claimedId[w] IN
  /\ pc[w] = "caught"
  /\ ~ Locked(j)
  /\ attempts' = [attempts EXCEPT ![j] = @ + 1]
  /\ Goto(w, "claim") /\ Forget(w)
  /\ UNCHANGED <<processed, tries, done, faults>>

\* UPDATE jobs SET attempts = attempts + 1 WHERE id = j AND processed = 0, which
\* waits for the row.
CountAttempt(w) ==
  LET j == claimedId[w] IN
  /\ pc[w] = "caught"
  /\ ~ Locked(j)
  /\ attempts' = [attempts EXCEPT ![j] = IF processed[j] = 0 THEN @ + 1 ELSE @]
  /\ Goto(w, "claim") /\ Forget(w)
  /\ UNCHANGED <<processed, tries, done, faults>>

\* A slip: an empty claim is taken for an empty queue.
ReturnOnEmpty(w) ==
  /\ pc[w] = "count"
  /\ Goto(w, "returned")
  /\ UNCHANGED <<jobVars, claimedId, done, faults>>

\* A slip: jobs without attempts left are still counted as pending.
CountUnprocessed(w) ==
  /\ pc[w] = "count"
  /\ Goto(w, IF \E j \in Jobs : processed[j] = 0 THEN "claim" ELSE "returned")
  /\ UNCHANGED <<jobVars, claimedId, done, faults>>

\* "SKIP LOCKED returning empty means none free right now, not queue empty."
CountPending(w) ==
  /\ pc[w] = "count"
  /\ Goto(w, IF \E j \in Jobs : Pending(j) THEN "claim" ELSE "returned")
  /\ UNCHANGED <<jobVars, claimedId, done, faults>>

\* The process dies, or the UPDATE or the count throws out of runWorker.  What
\* was not committed is rolled back, and no attempt is counted.
Die(w) ==
  /\ Fault
  /\ pc[w] \notin {"returned", "dead"}
  /\ Goto(w, "dead") /\ Forget(w)
  /\ UNCHANGED <<jobVars, done>>

WorkerStep(w) ==
  ClaimJob(w) \/ Finish(w) \/ Throw(w) \/ CountAttempt(w) \/ CountPending(w)

Next == \E w \in Workers : WorkerStep(w) \/ Die(w)

Spec == Init /\ [][Next]_vars

\* A worker that is not waiting for a row goes on.
FairSpec == Spec /\ \A w \in Workers : WF_vars(WorkerStep(w))

-----------------------------------------------------------------------------
(* Properties.                                                             *)

\* "SKIP LOCKED keeps this at 1": no two workers hold a job, and no job is
\* processed again, even when the reply to its COMMIT is lost.
ProcessedOnce ==
  /\ \A j \in Jobs : processed[j] <= 1
  /\ \A w, v \in Workers :
       pc[w] = "work" /\ pc[v] = "work" /\ claimedId[w] = claimedId[v] => w = v

\* A worker returns only when nothing is left for it or anyone to do: each job
\* is processed or has used up its attempts.
ReturnsWhenSettled ==
  (\E w \in Workers : pc[w] = "returned") => \A j \in Jobs : ~ Pending(j)

\* Only failed processing is counted, and a processed job no more; a poison job
\* is tried at most once more by each other worker than it may be.
AttemptsAreFailures ==
  \A j \in Jobs :
    /\ attempts[j] <= tries[j]
    /\ tries[j] < JOB_MAX_ATTEMPTS + Cardinality(Workers) + MaxFaults

\* What the columns of a row say of its job.
Outcome(j) == IF processed[j] > 0 THEN "processed" ELSE IF Pending(j) THEN "pending" ELSE "given_up"

Queue == INSTANCE JobQueue WITH outcome <- [j \in Jobs |-> Outcome(j)], failures <- tries

\* A job is settled for good.  The count of an attempt waits for the row, so a
\* job whose attempts are used up is at nobody's hands: none that was given up
\* is processed or tried after all, and none is given up before it has failed
\* JOB_MAX_ATTEMPTS times.
SettledForGood == Queue!Spec

\* Every worker comes to an end, whatever is locked by whom and whatever fails.
WorkersEnd == \A w \in Workers : <>(pc[w] \in {"returned", "dead"})

=============================================================================
