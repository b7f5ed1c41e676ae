--------------------------- MODULE JobWorkerProofs ---------------------------
(***************************************************************************)
(* The safety of runWorker for any jobs, workers and number of faults.     *)
(***************************************************************************)
EXTENDS JobWorker, FiniteSetTheorems, TLAPS

\* A job that is worked on is not processed yet: a claim takes unprocessed jobs
\* only, and while the row is locked nobody else can process it.
WorkIsNew == \A w \in Workers : pc[w] = "work" => processed[claimedId[w]] = 0

Inv == TypeOK /\ ProcessedOnce /\ WorkIsNew /\ ReturnsWhenSettled

USE JobsAssumption, LimitsAssumption

LEMMA InitInv == Init => Inv
  BY DEF Init, Inv, TypeOK, ProcessedOnce, WorkIsNew, ReturnsWhenSettled

LEMMA ClaimJobInv ==
  ASSUME Inv, NEW w \in Workers, ClaimJob(w)
  PROVE  Inv'
<1>1. TypeOK'
  BY DEF Inv, TypeOK, ClaimJob, Free, Goto, Forget, jobVars
<1>2. ProcessedOnce'
  BY DEF Inv, TypeOK, ProcessedOnce, ClaimJob, Free, Locked, Goto, Forget, jobVars
<1>3. WorkIsNew'
  BY DEF Inv, TypeOK, WorkIsNew, ClaimJob, Free, Pending, Goto, Forget, jobVars
<1>4. ReturnsWhenSettled'
  BY DEF Inv, TypeOK, ReturnsWhenSettled, ClaimJob, Free, Pending, Goto, Forget, jobVars
<1> QED BY <1>1, <1>2, <1>3, <1>4 DEF Inv

LEMMA FinishInv ==
  ASSUME Inv, NEW w \in Workers, Finish(w)
  PROVE  Inv'
<1> DEFINE j == claimedId[w]
<1>1. j \in Jobs /\ processed[j] = 0 /\ pc[w] = "work"
  BY DEF Inv, TypeOK, WorkIsNew, Finish
<1>2. processed' = [processed EXCEPT ![j] = 1]
  BY <1>1 DEF Finish, Inv, TypeOK
<1>3. \A v \in Workers \ {w} : pc[v] = "work" => claimedId[v] # j
  BY <1>1 DEF Inv, ProcessedOnce
<1>4. /\ pc' \in [Workers -> {"claim", "work", "caught", "count", "returned", "dead"}]
      /\ pc'[w] \in {"claim", "caught"}
      /\ \A v \in Workers \ {w} : pc'[v] = pc[v] /\ claimedId'[v] = claimedId[v]
  BY DEF Inv, TypeOK, Finish, Goto, Forget
<1>5. TypeOK'
  BY <1>1, <1>2 DEF Inv, TypeOK, Finish, Goto, Forget, Fault
<1>6. ProcessedOnce'
  BY <1>1, <1>2, <1>4 DEF Inv, TypeOK, ProcessedOnce
<1>7. WorkIsNew'
  BY <1>1, <1>2, <1>3, <1>4 DEF Inv, TypeOK, WorkIsNew
<1>8. ReturnsWhenSettled'
  <2>1. attempts' = attempts
    BY DEF Finish
  <2>2. \A v \in Workers : pc'[v] = "returned" => pc[v] = "returned"
    BY <1>4
  <2> QED BY <1>1, <1>2, <2>1, <2>2 DEF Inv, TypeOK, ReturnsWhenSettled, Pending
<1> QED BY <1>5, <1>6, <1>7, <1>8 DEF Inv

LEMMA ThrowInv ==
  ASSUME Inv, NEW w \in Workers, Throw(w)
  PROVE  Inv'
<1>1. TypeOK'
  <2> DEFINE j == claimedId[w]
  <2>1. j \in Jobs
    BY DEF Inv, TypeOK, Throw
  <2>2. tries' \in [Jobs -> Nat]
    <3>1. tries' = [tries EXCEPT ![j] = tries[j] + 1]
      BY DEF Throw
    <3>2. tries \in [Jobs -> Nat]
      BY DEF Inv, TypeOK
    <3> HIDE DEF j
    <3>3. tries[j] + 1 \in Nat
      BY <2>1, <3>2
    <3> QED BY <2>1, <3>1, <3>2, <3>3
  <2>3. faults' \in 0 .. MaxFaults
    BY DEF Inv, TypeOK, Throw, Fault
  <2> QED BY <2>1, <2>2, <2>3 DEF Inv, TypeOK, Throw, Goto
<1>2. ProcessedOnce'
  BY DEF Inv, TypeOK, ProcessedOnce, Throw, Goto
<1>3. WorkIsNew'
  BY DEF Inv, TypeOK, WorkIsNew, Throw, Goto
<1>4. ReturnsWhenSettled'
  BY DEF Inv, TypeOK, ReturnsWhenSettled, Pending, Throw, Goto
<1> QED BY <1>1, <1>2, <1>3, <1>4 DEF Inv

LEMMA CountAttemptInv ==
  ASSUME Inv, NEW w \in Workers, CountAttempt(w)
  PROVE  Inv'
<1> DEFINE j == claimedId[w]
<1>1. j \in Jobs
  BY DEF Inv, TypeOK, CountAttempt
<1>2. attempts' \in [Jobs -> Nat] /\ \A i \in Jobs : attempts[i] <= attempts'[i]
  <2>1. \/ attempts' = [attempts EXCEPT ![j] = attempts[j] + 1]
        \/ attempts' = [attempts EXCEPT ![j] = attempts[j]]
    BY <1>1 DEF Inv, TypeOK, CountAttempt
  <2> QED BY <1>1, <2>1 DEF Inv, TypeOK
<1>3. TypeOK'
  BY <1>1, <1>2 DEF Inv, TypeOK, CountAttempt, Goto, Forget
<1>4. ProcessedOnce'
  BY DEF Inv, TypeOK, ProcessedOnce, CountAttempt, Goto, Forget
<1>5. WorkIsNew'
  BY DEF Inv, TypeOK, WorkIsNew, CountAttempt, Goto, Forget
<1>6. ReturnsWhenSettled'
  <2>1. \A i \in Jobs : Pending(i)' => Pending(i)
    BY <1>2 DEF Inv, TypeOK, Pending, CountAttempt
  <2>2. \A v \in Workers : pc'[v] = "returned" => pc[v] = "returned"
    BY DEF Inv, TypeOK, CountAttempt, Goto
  <2> QED BY <2>1, <2>2 DEF Inv, ReturnsWhenSettled
<1> QED BY <1>3, <1>4, <1>5, <1>6 DEF Inv

LEMMA CountPendingInv ==
  ASSUME Inv, NEW w \in Workers, CountPending(w)
  PROVE  Inv'
<1>1. TypeOK'
  BY DEF Inv, TypeOK, CountPending, Goto, jobVars
<1>2. ProcessedOnce'
  BY DEF Inv, TypeOK, ProcessedOnce, CountPending, Goto, jobVars
<1>3. WorkIsNew'
  BY DEF Inv, TypeOK, WorkIsNew, CountPending, Goto, jobVars
<1>4. ReturnsWhenSettled'
  <2>1. \A i \in Jobs : Pending(i)' <=> Pending(i)
    BY DEF Pending, CountPending, jobVars
  <2>2. CASE \E i \in Jobs : Pending(i)
    <3>1. \A v \in Workers : pc'[v] = "returned" => pc[v] = "returned"
      BY <2>2 DEF Inv, TypeOK, CountPending, Goto
    <3> QED BY <2>1, <3>1 DEF Inv, ReturnsWhenSettled
  <2>3. CASE ~ \E i \in Jobs : Pending(i)
    BY <2>1, <2>3 DEF ReturnsWhenSettled
  <2> QED BY <2>2, <2>3
<1> QED BY <1>1, <1>2, <1>3, <1>4 DEF Inv

LEMMA DieInv ==
  ASSUME Inv, NEW w \in Workers, Die(w)
  PROVE  Inv'
<1>1. TypeOK'
  BY DEF Inv, TypeOK, Die, Goto, Forget, Fault, jobVars
<1>2. ProcessedOnce'
  BY DEF Inv, TypeOK, ProcessedOnce, Die, Goto, Forget, jobVars
<1>3. WorkIsNew'
  BY DEF Inv, TypeOK, WorkIsNew, Die, Goto, Forget, jobVars
<1>4. ReturnsWhenSettled'
  BY DEF Inv, TypeOK, ReturnsWhenSettled, Pending, Die, Goto, jobVars
<1> QED BY <1>1, <1>2, <1>3, <1>4 DEF Inv

LEMMA StepInv == Inv /\ [Next]_vars => Inv'
<1> SUFFICES ASSUME Inv, [Next]_vars PROVE Inv'
  OBVIOUS
<1>1. CASE UNCHANGED vars
  BY <1>1 DEF vars, jobVars, Inv, TypeOK, ProcessedOnce, WorkIsNew, ReturnsWhenSettled, Pending
<1>2. ASSUME NEW w \in Workers, ClaimJob(w) PROVE Inv'
  BY <1>2, ClaimJobInv
<1>3. ASSUME NEW w \in Workers, Finish(w) PROVE Inv'
  BY <1>3, FinishInv
<1>4. ASSUME NEW w \in Workers, Throw(w) PROVE Inv'
  BY <1>4, ThrowInv
<1>5. ASSUME NEW w \in Workers, CountAttempt(w) PROVE Inv'
  BY <1>5, CountAttemptInv
<1>6. ASSUME NEW w \in Workers, CountPending(w) PROVE Inv'
  BY <1>6, CountPendingInv
<1>7. ASSUME NEW w \in Workers, Die(w) PROVE Inv'
  BY <1>7, DieInv
<1> QED BY <1>1, <1>2, <1>3, <1>4, <1>5, <1>6, <1>7 DEF Next, WorkerStep

-----------------------------------------------------------------------------
(* Attempts.                                                               *)

\* The workers that have failed at j and not counted it yet, and those with it.
Caught(j) == {w \in Workers : pc[w] = "caught" /\ claimedId[w] = j}
Busy(j) == {w \in Workers : pc[w] \in {"work", "caught"} /\ claimedId[w] = j}

\* While j is not processed, its tries are counted, about to be counted, or
\* were lost with a worker that died; each worker may still be at a try it
\* began when one was left.
Counted(j) ==
  /\ attempts[j] <= tries[j]
  /\ tries[j] < JOB_MAX_ATTEMPTS + Cardinality(Workers) + MaxFaults
  /\ attempts[j] + Cardinality(Busy(j)) < JOB_MAX_ATTEMPTS + Cardinality(Workers)
  /\ processed[j] = 0 => /\ attempts[j] + Cardinality(Caught(j)) <= tries[j]
                         /\ tries[j] <= attempts[j] + Cardinality(Caught(j)) + faults

CountInv == \A j \in Jobs : Counted(j)

LEMMA Crowds ==
  ASSUME NEW j
  PROVE  /\ IsFiniteSet(Caught(j)) /\ Cardinality(Caught(j)) \in Nat
         /\ IsFiniteSet(Busy(j)) /\ Cardinality(Busy(j)) \in Nat
         /\ Cardinality(Caught(j)) <= Cardinality(Busy(j))
         /\ Cardinality(Workers) \in Nat /\ Cardinality(Busy(j)) <= Cardinality(Workers)
<1>1. Caught(j) \subseteq Busy(j) /\ Busy(j) \subseteq Workers
  BY DEF Caught, Busy
<1>2. IsFiniteSet(Busy(j)) /\ Cardinality(Busy(j)) <= Cardinality(Workers)
  BY <1>1, WorkersAssumption, FS_Subset
<1>3. IsFiniteSet(Caught(j)) /\ Cardinality(Caught(j)) <= Cardinality(Busy(j))
  BY <1>1, <1>2, FS_Subset
<1> QED BY <1>2, <1>3, WorkersAssumption, FS_CardinalityType

\* The same after the step.
LEMMA CrowdsNext ==
  ASSUME NEW j
  PROVE  /\ IsFiniteSet(Caught(j)') /\ Cardinality(Caught(j)') \in Nat
         /\ IsFiniteSet(Busy(j)') /\ Cardinality(Busy(j)') \in Nat
         /\ Cardinality(Caught(j)') <= Cardinality(Busy(j)')
         /\ Cardinality(Busy(j)') <= Cardinality(Workers)
<1>1. Caught(j)' \subseteq Busy(j)' /\ Busy(j)' \subseteq Workers
  BY DEF Caught, Busy
<1>2. IsFiniteSet(Busy(j)') /\ Cardinality(Busy(j)') <= Cardinality(Workers)
  BY <1>1, WorkersAssumption, FS_Subset
<1>3. IsFiniteSet(Caught(j)') /\ Cardinality(Caught(j)') <= Cardinality(Busy(j)')
  BY <1>1, <1>2, FS_Subset
<1> QED BY <1>2, <1>3, FS_CardinalityType

\* A step that neither tries nor counts j, and gives nobody a claim to it.
LEMMA Untouched ==
  ASSUME TypeOK, TypeOK', NEW j \in Jobs, Counted(j),
         attempts'[j] = attempts[j], tries'[j] = tries[j],
         processed'[j] = 0 => processed[j] = 0,
         faults <= faults', Busy(j)' \subseteq Busy(j), Caught(j)' = Caught(j)
  PROVE  Counted(j)'
<1>1. Cardinality(Busy(j)') <= Cardinality(Busy(j)) /\ Cardinality(Busy(j)') \in Nat
  BY Crowds, FS_Subset, FS_CardinalityType
<1>2. attempts[j] \in Nat /\ tries[j] \in Nat /\ faults \in Nat /\ faults' \in Nat
  BY DEF TypeOK
<1>3. attempts[j] + Cardinality(Busy(j)') < JOB_MAX_ATTEMPTS + Cardinality(Workers)
  BY <1>1, <1>2, Crowds DEF Counted
<1>4. processed'[j] = 0 => /\ attempts[j] + Cardinality(Caught(j)) <= tries[j]
                           /\ tries[j] <= attempts[j] + Cardinality(Caught(j)) + faults'
  BY <1>2, Crowds DEF Counted
<1> QED BY <1>3, <1>4 DEF Counted

LEMMA ClaimCounts ==
  ASSUME Inv, Inv', CountInv, NEW w \in Workers, ClaimJob(w)
  PROVE  CountInv'
<1> SUFFICES ASSUME NEW j \in Jobs PROVE Counted(j)'
  BY DEF CountInv
<1>1. /\ TypeOK /\ TypeOK' /\ Counted(j) /\ pc[w] = "claim"
      /\ attempts[j] \in Nat /\ tries[j] \in Nat /\ faults \in Nat
      /\ UNCHANGED <<processed, attempts, tries, faults>>
  BY DEF Inv, TypeOK, CountInv, ClaimJob, jobVars
<1>2. pc' = [pc EXCEPT ![w] = pc'[w]] /\ pc'[w] \in {"work", "count"}
      /\ claimedId' = [claimedId EXCEPT ![w] = claimedId'[w]]
  BY <1>1 DEF TypeOK, ClaimJob, Goto, Forget
<1>3. Caught(j)' = Caught(j)
  BY <1>1, <1>2 DEF Caught, TypeOK
<1>4. CASE claimedId'[w] = j /\ pc'[w] = "work"
  <2>1. attempts[j] < JOB_MAX_ATTEMPTS
    BY <1>1, <1>4 DEF ClaimJob, Goto, TypeOK, Free, Pending
  <2>2. attempts[j] + Cardinality(Busy(j)') < JOB_MAX_ATTEMPTS + Cardinality(Workers)
    BY <1>1, <2>1, Crowds, CrowdsNext
  <2> QED BY <1>1, <1>3, <2>2 DEF Counted
<1>5. CASE ~ (claimedId'[w] = j /\ pc'[w] = "work")
  <2>1. Busy(j)' \subseteq Busy(j)
    BY <1>1, <1>2, <1>5 DEF Busy, TypeOK
  <2> QED BY <1>1, <1>3, <2>1, Untouched
<1> QED BY <1>4, <1>5

LEMMA FinishCounts ==
  ASSUME Inv, Inv', CountInv, NEW w \in Workers, Finish(w)
  PROVE  CountInv'
<1> SUFFICES ASSUME NEW j \in Jobs PROVE Counted(j)'
  BY DEF CountInv
<1>1. /\ TypeOK /\ TypeOK' /\ Counted(j) /\ pc[w] = "work" /\ claimedId[w] \in Jobs
      /\ attempts[j] \in Nat /\ tries[j] \in Nat /\ faults \in Nat /\ faults' \in Nat
      /\ UNCHANGED <<attempts, tries>> /\ faults <= faults'
  BY DEF Inv, TypeOK, CountInv, Finish, Fault
<1>2. processed' = [processed EXCEPT ![claimedId[w]] = 1]
  <2>1. processed[claimedId[w]] = 0
    BY <1>1 DEF Inv, WorkIsNew
  <2> QED BY <1>1, <2>1 DEF Finish, TypeOK
<1>3. /\ pc' = [pc EXCEPT ![w] = pc'[w]] /\ pc'[w] \in {"claim", "caught"}
      /\ claimedId' = [claimedId EXCEPT ![w] = claimedId'[w]]
      /\ claimedId'[w] \in {claimedId[w], None}
  BY <1>1 DEF TypeOK, Finish, Goto, Forget
<1>4. Busy(j)' \subseteq Busy(j)
  BY <1>1, <1>3 DEF Busy, TypeOK
<1>5. CASE j # claimedId[w]
  <2>1. Caught(j)' = Caught(j)
    BY <1>1, <1>3, <1>5 DEF Caught, TypeOK
  <2>2. processed'[j] = processed[j]
    BY <1>1, <1>2, <1>5 DEF TypeOK
  <2> QED BY <1>1, <1>4, <2>1, <2>2, Untouched
<1>6. CASE j = claimedId[w]
  <2>1. processed'[j] # 0
    BY <1>1, <1>2, <1>6 DEF TypeOK
  <2>2. Cardinality(Busy(j)') <= Cardinality(Busy(j)) /\ Cardinality(Busy(j)') \in Nat
    BY <1>4, Crowds, FS_Subset, FS_CardinalityType
  <2>3. attempts[j] + Cardinality(Busy(j)') < JOB_MAX_ATTEMPTS + Cardinality(Workers)
    BY <1>1, <2>2, Crowds DEF Counted
  <2> QED BY <1>1, <2>1, <2>3 DEF Counted
<1> QED BY <1>5, <1>6

\* A try that failed waits to be counted.
LEMMA ThrowCounts ==
  ASSUME Inv, Inv', CountInv, NEW w \in Workers, Throw(w)
  PROVE  CountInv'
<1> SUFFICES ASSUME NEW j \in Jobs PROVE Counted(j)'
  BY DEF CountInv
<1>1. /\ TypeOK /\ TypeOK' /\ Counted(j) /\ pc[w] = "work" /\ claimedId[w] \in Jobs
      /\ processed[claimedId[w]] = 0
      /\ attempts[j] \in Nat /\ tries[j] \in Nat
      /\ UNCHANGED <<processed, attempts, claimedId>>
  BY DEF Inv, TypeOK, CountInv, Throw, WorkIsNew
<1>2. faults \in Nat /\ faults' \in Nat /\ faults <= faults' /\ faults' <= MaxFaults
  BY <1>1 DEF TypeOK, Throw, Fault
<1>3. pc' = [pc EXCEPT ![w] = "caught"] /\ tries' = [tries EXCEPT ![claimedId[w]] = tries[claimedId[w]] + 1]
  BY DEF Throw, Goto
<1>4. Busy(j)' = Busy(j)
  BY <1>1, <1>3 DEF Busy, TypeOK
<1>5. CASE j # claimedId[w]
  <2>1. Caught(j)' = Caught(j) /\ tries'[j] = tries[j]
    BY <1>1, <1>3, <1>5 DEF Caught, TypeOK
  <2> QED BY <1>1, <1>2, <1>4, <2>1, Untouched
<1>6. CASE j = claimedId[w]
  <2>1. Caught(j)' = Caught(j) \cup {w} /\ w \notin Caught(j)
    BY <1>1, <1>3, <1>6 DEF Caught, TypeOK
  <2>2. Cardinality(Caught(j)') = Cardinality(Caught(j)) + 1
    BY <2>1, Crowds, FS_AddElement
  <2>3. tries'[j] = tries[j] + 1
    BY <1>1, <1>3, <1>6 DEF TypeOK
  <2> DEFINE a == attempts[j]
             t == tries[j]
             k == Cardinality(Caught(j))
             b == Cardinality(Busy(j))
             n == Cardinality(Workers)
  <2>4. /\ k \in Nat /\ b \in Nat /\ n \in Nat /\ k + 1 <= b
        /\ a <= t /\ a + b < JOB_MAX_ATTEMPTS + n /\ a + k <= t /\ t <= a + k + faults
        /\ a \in Nat /\ t \in Nat
    BY <1>1, <1>4, <1>6, <2>2, Crowds, CrowdsNext DEF Counted
  <2>5. /\ a <= t + 1 /\ t + 1 < JOB_MAX_ATTEMPTS + n + MaxFaults
        /\ a + (k + 1) <= t + 1 /\ t + 1 <= a + (k + 1) + faults'
    <3> HIDE DEF a, t, k, b, n
    <3>1. t + 1 <= a + (k + 1) + faults /\ a + (k + 1) <= t + 1
      BY <1>2, <2>4
    <3>2. a + (k + 1) < JOB_MAX_ATTEMPTS + n
      BY <2>4
    <3>3. JOB_MAX_ATTEMPTS \in Nat /\ MaxFaults \in Nat /\ faults <= MaxFaults
      BY <1>2
    <3>4. t + 1 < JOB_MAX_ATTEMPTS + n + MaxFaults
      BY <1>2, <2>4, <3>1, <3>2, <3>3
    <3>5. t + 1 <= a + (k + 1) + faults'
      <4>1. \A x, y, u, v \in Nat : x <= y + u /\ u <= v => x <= y + v
        OBVIOUS
      <4>2. t + 1 \in Nat /\ a + (k + 1) \in Nat
        BY <2>4
      <4> QED BY <1>2, <3>1, <4>1, <4>2
    <3>6. a <= t + 1
      BY <2>4
    <3> QED BY <3>1, <3>4, <3>5, <3>6
  <2> QED BY <1>1, <1>4, <2>2, <2>3, <2>4, <2>5 DEF Counted
<1> QED BY <1>5, <1>6

\* The try is counted, unless another worker has finished the job since.
LEMMA CountAttemptCounts ==
  ASSUME Inv, Inv', CountInv, NEW w \in Workers, CountAttempt(w)
  PROVE  CountInv'
<1> SUFFICES ASSUME NEW j \in Jobs PROVE Counted(j)'
  BY DEF CountInv
<1>1. /\ TypeOK /\ TypeOK' /\ Counted(j) /\ pc[w] = "caught" /\ claimedId[w] \in Jobs
      /\ attempts[j] \in Nat /\ tries[j] \in Nat /\ faults \in Nat
      /\ UNCHANGED <<processed, tries, faults>>
  BY DEF Inv, TypeOK, CountInv, CountAttempt
<1>2. pc' = [pc EXCEPT ![w] = "claim"] /\ claimedId' = [claimedId EXCEPT ![w] = None]
  BY DEF CountAttempt, Goto, Forget
<1>3. CASE j # claimedId[w]
  <2>1. attempts'[j] = attempts[j]
    BY <1>1, <1>3 DEF CountAttempt, TypeOK
  <2>2. Caught(j)' = Caught(j) /\ Busy(j)' \subseteq Busy(j)
    BY <1>1, <1>2, <1>3, JobsAssumption DEF Caught, Busy, TypeOK
  <2> QED BY <1>1, <2>1, <2>2, Untouched
<1>4. CASE j = claimedId[w]
  <2>1. attempts'[j] = IF processed[j] = 0 THEN attempts[j] + 1 ELSE attempts[j]
    BY <1>1, <1>4 DEF CountAttempt, TypeOK
  <2>2. /\ Caught(j)' = Caught(j) \ {w} /\ w \in Caught(j)
        /\ Busy(j)' = Busy(j) \ {w} /\ w \in Busy(j)
    BY <1>1, <1>2, <1>4 DEF Caught, Busy, TypeOK
  <2>3. /\ Cardinality(Caught(j)') = Cardinality(Caught(j)) - 1
        /\ Cardinality(Busy(j)') = Cardinality(Busy(j)) - 1
    <3>1. IsFiniteSet(Caught(j)) /\ IsFiniteSet(Busy(j))
      BY Crowds
    <3>2. Cardinality(Caught(j) \ {w}) = Cardinality(Caught(j)) - 1
      BY <2>2, <3>1, FS_RemoveElement
    <3>3. Cardinality(Busy(j) \ {w}) = Cardinality(Busy(j)) - 1
      BY <2>2, <3>1, FS_RemoveElement
    <3> QED BY <2>2, <3>2, <3>3
  <2> DEFINE a == attempts[j]
             t == tries[j]
             k == Cardinality(Caught(j))
             b == Cardinality(Busy(j))
             n == Cardinality(Workers)
  <2>4. /\ k \in Nat /\ b \in Nat /\ n \in Nat /\ k - 1 \in Nat
        /\ a <= t /\ a + b < JOB_MAX_ATTEMPTS + n
        /\ processed[j] = 0 => a + k <= t /\ t <= a + k + faults
        /\ a \in Nat /\ t \in Nat
    BY <1>1, <2>3, Crowds, CrowdsNext DEF Counted
  <2>5. CASE processed[j] = 0
    <3>1. /\ a + 1 <= t /\ (a + 1) + (b - 1) < JOB_MAX_ATTEMPTS + n
          /\ (a + 1) + (k - 1) <= t /\ t <= (a + 1) + (k - 1) + faults
      <4> HIDE DEF a, t, k, b, n
      <4> QED BY <1>1, <2>4, <2>5
    <3> QED BY <1>1, <2>1, <2>3, <2>5, <3>1 DEF Counted
  <2>6. CASE processed[j] # 0
    <3>1. a + (b - 1) < JOB_MAX_ATTEMPTS + n
      <4> HIDE DEF a, t, k, b, n
      <4> QED BY <2>4
    <3> QED BY <1>1, <2>1, <2>3, <2>6, <3>1 DEF Counted
  <2> QED BY <2>5, <2>6
<1> QED BY <1>3, <1>4

LEMMA CountPendingCounts ==
  ASSUME Inv, Inv', CountInv, NEW w \in Workers, CountPending(w)
  PROVE  CountInv'
<1> SUFFICES ASSUME NEW j \in Jobs PROVE Counted(j)'
  BY DEF CountInv
<1>1. /\ TypeOK /\ TypeOK' /\ Counted(j) /\ pc[w] = "count" /\ faults \in Nat
      /\ UNCHANGED <<processed, attempts, tries, claimedId, faults>>
  BY DEF Inv, TypeOK, CountInv, CountPending, jobVars
<1>2. pc' = [pc EXCEPT ![w] = pc'[w]] /\ pc'[w] \in {"claim", "returned"}
  BY <1>1 DEF TypeOK, CountPending, Goto
<1>3. Caught(j)' = Caught(j) /\ Busy(j)' \subseteq Busy(j)
  BY <1>1, <1>2 DEF Caught, Busy, TypeOK
<1> QED BY <1>1, <1>3, Untouched

\* A worker that dies takes with it at most the one try it had not counted.
LEMMA DieCounts ==
  ASSUME Inv, Inv', CountInv, NEW w \in Workers, Die(w)
  PROVE  CountInv'
<1> SUFFICES ASSUME NEW j \in Jobs PROVE Counted(j)'
  BY DEF CountInv
<1>1. /\ TypeOK /\ TypeOK' /\ Counted(j)
      /\ attempts[j] \in Nat /\ tries[j] \in Nat /\ faults \in Nat /\ faults' = faults + 1
      /\ UNCHANGED <<processed, attempts, tries>>
  BY DEF Inv, TypeOK, CountInv, Die, Fault, jobVars
<1>2. pc' = [pc EXCEPT ![w] = "dead"] /\ claimedId' = [claimedId EXCEPT ![w] = None]
  BY DEF Die, Goto, Forget
<1>3. Busy(j)' \subseteq Busy(j)
  BY <1>1, <1>2 DEF Busy, TypeOK
<1>4. CASE w \notin Caught(j)
  <2>1. Caught(j)' = Caught(j)
    BY <1>1, <1>2, <1>4 DEF Caught, TypeOK
  <2> QED BY <1>1, <1>3, <2>1, Untouched
<1>5. CASE w \in Caught(j)
  <2>1. Caught(j)' = Caught(j) \ {w}
    BY <1>1, <1>2 DEF Caught, TypeOK
  <2>2. Cardinality(Caught(j)') = Cardinality(Caught(j)) - 1
    <3>1. IsFiniteSet(Caught(j))
      BY Crowds
    <3> QED BY <1>5, <2>1, <3>1, FS_RemoveElement
  <2>3. Cardinality(Busy(j)') <= Cardinality(Busy(j))
    BY <1>3, Crowds, FS_Subset
  <2> DEFINE a == attempts[j]
             t == tries[j]
             k == Cardinality(Caught(j))
             b == Cardinality(Busy(j))
             c == Cardinality(Busy(j)')
             n == Cardinality(Workers)
  <2>4. /\ k \in Nat /\ b \in Nat /\ c \in Nat /\ n \in Nat /\ a \in Nat /\ t \in Nat /\ c <= b
        /\ a + b < JOB_MAX_ATTEMPTS + n
        /\ processed[j] = 0 => a + k <= t /\ t <= a + k + faults
    BY <1>1, <2>3, Crowds, CrowdsNext DEF Counted
  <2>5. /\ a + c < JOB_MAX_ATTEMPTS + n
        /\ processed[j] = 0 => a + (k - 1) <= t /\ t <= a + (k - 1) + (faults + 1)
    <3> HIDE DEF a, t, k, b, c, n
    <3> QED BY <1>1, <2>4
  <2> QED BY <1>1, <2>2, <2>5 DEF Counted
<1> QED BY <1>4, <1>5

LEMMA InitCounts == Init => CountInv
<1> SUFFICES ASSUME Init, NEW j \in Jobs PROVE Counted(j)
  BY DEF CountInv
<1>1. Caught(j) = {} /\ Busy(j) = {}
  BY DEF Init, Caught, Busy
<1>2. Cardinality(Caught(j)) = 0 /\ Cardinality(Busy(j)) = 0 /\ Cardinality(Workers) \in Nat
  BY <1>1, Crowds, FS_EmptySet
<1> QED BY <1>2 DEF Init, Counted

LEMMA StepCounts == Inv /\ CountInv /\ [Next]_vars => CountInv'
<1> SUFFICES ASSUME Inv, CountInv, [Next]_vars PROVE CountInv'
  OBVIOUS
<1>1. Inv'
  BY StepInv
<1>2. CASE UNCHANGED vars
  BY <1>2 DEF vars, jobVars, CountInv, Counted, Caught, Busy
<1>3. ASSUME NEW w \in Workers, WorkerStep(w) \/ Die(w)
      PROVE  CountInv'
  BY <1>1, <1>3, ClaimCounts, FinishCounts, ThrowCounts, CountAttemptCounts, CountPendingCounts, DieCounts
     DEF WorkerStep
<1> QED BY <1>2, <1>3 DEF Next

-----------------------------------------------------------------------------
(* The workers implement the queue.                                        *)

\* A job that is worked on is pending: a claim takes pending jobs only, and the
\* UPDATE that may use up its attempts waits for the row.
WorkIsPending == \A w \in Workers : pc[w] = "work" => Pending(claimedId[w])

LEMMA StepPending == Inv /\ WorkIsPending /\ [Next]_vars => WorkIsPending'
<1> SUFFICES ASSUME Inv, WorkIsPending, [Next]_vars,
                    NEW v \in Workers, pc'[v] = "work"
             PROVE  Pending(claimedId[v])'
  BY DEF WorkIsPending
<1>1. CASE UNCHANGED vars
  BY <1>1 DEF vars, jobVars, WorkIsPending, Pending
<1>2. ASSUME NEW w \in Workers, ClaimJob(w) PROVE Pending(claimedId[v])'
  BY <1>2 DEF Inv, TypeOK, WorkIsPending, ClaimJob, Free, Pending, Goto, Forget, jobVars
<1>3. ASSUME NEW w \in Workers, Finish(w) PROVE Pending(claimedId[v])'
  <2>1. pc[v] = "work" /\ v # w /\ claimedId'[v] = claimedId[v]
    BY <1>3 DEF Inv, TypeOK, Finish, Goto, Forget
  <2>2. claimedId[v] # claimedId[w] /\ claimedId[v] \in Jobs
    BY <1>3, <2>1 DEF Inv, TypeOK, ProcessedOnce, Finish
  <2>3. processed'[claimedId[v]] = processed[claimedId[v]] /\ attempts' = attempts
    BY <1>3, <2>2 DEF Inv, TypeOK, Finish
  <2> QED BY <2>1, <2>3 DEF WorkIsPending, Pending
<1>4. ASSUME NEW w \in Workers, Throw(w) PROVE Pending(claimedId[v])'
  BY <1>4 DEF Inv, TypeOK, WorkIsPending, Throw, Pending, Goto
<1>5. ASSUME NEW w \in Workers, CountAttempt(w) PROVE Pending(claimedId[v])'
  <2>1. pc[v] = "work" /\ v # w /\ claimedId'[v] = claimedId[v]
    BY <1>5 DEF Inv, TypeOK, CountAttempt, Goto, Forget
  <2>2. claimedId[v] # claimedId[w] /\ claimedId[v] \in Jobs
    BY <1>5, <2>1 DEF Inv, TypeOK, Locked, CountAttempt
  <2>3. attempts'[claimedId[v]] = attempts[claimedId[v]] /\ processed' = processed
    BY <1>5, <2>2 DEF Inv, TypeOK, CountAttempt
  <2> QED BY <2>1, <2>3 DEF WorkIsPending, Pending
<1>6. ASSUME NEW w \in Workers, CountPending(w) PROVE Pending(claimedId[v])'
  BY <1>6 DEF Inv, TypeOK, WorkIsPending, CountPending, Pending, Goto, jobVars
<1>7. ASSUME NEW w \in Workers, Die(w) PROVE Pending(claimedId[v])'
  BY <1>7 DEF Inv, TypeOK, WorkIsPending, Die, Pending, Goto, Forget, jobVars
<1> QED BY <1>1, <1>2, <1>3, <1>4, <1>5, <1>6, <1>7 DEF Next, WorkerStep

\* A step that leaves the columns and the tries alone is none of the queue's.
LEMMA SameColumns ==
  ASSUME UNCHANGED jobVars
  PROVE  UNCHANGED Queue!vars
<1>1. \A j \in Jobs : Outcome(j)' = Outcome(j)
  BY DEF Outcome, Pending, jobVars
<1> QED BY <1>1 DEF Queue!vars, jobVars

\* The COMMIT of the work processes the job, and no other, once.
LEMMA FinishProcesses ==
  ASSUME Inv, WorkIsPending, NEW w \in Workers, Finish(w)
  PROVE  Queue!Process(claimedId[w])
<1>1. PICK j \in Jobs : j = claimedId[w]
  BY DEF Inv, TypeOK, Finish
<1>2. Pending(j) /\ j \notin Poison
  BY <1>1 DEF WorkIsPending, Finish
<1>3. /\ processed' = [processed EXCEPT ![j] = processed[j] + 1]
      /\ processed[j] = 0 /\ processed \in [Jobs -> Nat]
      /\ UNCHANGED <<attempts, tries>>
  BY <1>1, <1>2 DEF Inv, TypeOK, Finish, Pending
<1>4. Outcome(j) = "pending" /\ Outcome(j)' = "processed"
  BY <1>2, <1>3 DEF Outcome, Pending
<1>5. \A i \in Jobs \ {j} : Outcome(i)' = Outcome(i)
  BY <1>3 DEF Outcome, Pending
<1> QED BY <1>1, <1>2, <1>3, <1>4, <1>5 DEF Queue!Process

\* A try that throws is a failure of a job that is still pending.
LEMMA ThrowFails ==
  ASSUME Inv, WorkIsPending, NEW w \in Workers, Throw(w)
  PROVE  Queue!Fails(claimedId[w])
<1>1. PICK j \in Jobs : j = claimedId[w]
  BY DEF Inv, TypeOK, Throw
<1>2. Pending(j)
  BY <1>1 DEF WorkIsPending, Throw
<1>3. tries' = [tries EXCEPT ![j] = tries[j] + 1] /\ UNCHANGED <<processed, attempts>>
  BY <1>1 DEF Throw
<1>4. Outcome(j) = "pending"
  BY <1>2 DEF Inv, TypeOK, Outcome, Pending
<1>5. \A i \in Jobs : Outcome(i)' = Outcome(i)
  BY <1>3 DEF Outcome, Pending
<1> QED BY <1>1, <1>3, <1>4, <1>5 DEF Queue!Fails

\* Counting an attempt gives the job up if it was the last, and is invisible
\* otherwise.
LEMMA CountGivesUp ==
  ASSUME Inv, CountInv, NEW w \in Workers, CountAttempt(w)
  PROVE  Queue!GiveUp(claimedId[w]) \/ UNCHANGED Queue!vars
<1>1. PICK j \in Jobs : j = claimedId[w]
  BY DEF Inv, TypeOK, CountAttempt
<1>2. /\ attempts \in [Jobs -> Nat] /\ processed \in [Jobs -> Nat] /\ tries \in [Jobs -> Nat]
      /\ UNCHANGED <<processed, tries>>
  BY DEF Inv, TypeOK, CountAttempt
<1>3. attempts' = [attempts EXCEPT ![j] = IF processed[j] = 0 THEN attempts[j] + 1 ELSE attempts[j]]
  BY <1>1 DEF CountAttempt
<1>4. \A i \in Jobs \ {j} : Outcome(i)' = Outcome(i)
  BY <1>2, <1>3 DEF Outcome, Pending
<1>5. CASE processed[j] > 0
  <2>1. Outcome(j)' = Outcome(j)
    BY <1>2, <1>5 DEF Outcome
  <2> QED BY <1>2, <1>4, <2>1 DEF Queue!vars
<1>6. CASE processed[j] = 0
  <2>1. attempts'[j] = attempts[j] + 1 /\ processed'[j] = 0
    BY <1>2, <1>3, <1>6
  <2>2. w \in Caught(j)
    BY <1>1 DEF Caught, CountAttempt
  <2>3. Cardinality(Caught(j)) >= 1
    <3>1. Cardinality(Caught(j)) # 0
      BY <2>2, Crowds, FS_EmptySet
    <3> QED BY <3>1, Crowds
  <2>4. attempts[j] + 1 <= tries[j]
    BY <1>2, <1>6, <2>3, Crowds DEF CountInv, Counted
  <2>5. CASE attempts[j] < JOB_MAX_ATTEMPTS /\ attempts[j] + 1 >= JOB_MAX_ATTEMPTS
    <3>1. Outcome(j) = "pending" /\ Outcome(j)' = "given_up"
      BY <1>2, <1>6, <2>1, <2>5 DEF Outcome, Pending
    <3>2. tries[j] >= JOB_MAX_ATTEMPTS
      BY <1>2, <2>4, <2>5
    <3> QED BY <1>1, <1>2, <1>4, <3>1, <3>2 DEF Queue!GiveUp
  <2>6. CASE ~ (attempts[j] < JOB_MAX_ATTEMPTS /\ attempts[j] + 1 >= JOB_MAX_ATTEMPTS)
    <3>1. Pending(j)' <=> Pending(j)
      BY <1>2, <2>1, <2>6 DEF Pending
    <3>2. Outcome(j)' = Outcome(j)
      BY <1>2, <3>1 DEF Outcome
    <3> QED BY <1>2, <1>4, <3>2 DEF Queue!vars
  <2> QED BY <2>5, <2>6
<1> QED BY <1>2, <1>5, <1>6

\* Each step of the workers is a step of the queue, or none that it sees.
LEMMA StepQueue == Inv /\ CountInv /\ WorkIsPending /\ [Next]_vars => [Queue!Next]_(Queue!vars)
<1> SUFFICES ASSUME Inv, CountInv, WorkIsPending, [Next]_vars
             PROVE  Queue!Next \/ UNCHANGED Queue!vars
  OBVIOUS
<1>1. CASE UNCHANGED vars
  BY <1>1, SameColumns DEF vars
<1>2. ASSUME NEW w \in Workers, ClaimJob(w) \/ CountPending(w) \/ Die(w)
      PROVE  UNCHANGED Queue!vars
  BY <1>2, SameColumns DEF ClaimJob, CountPending, Die
<1>3. ASSUME NEW w \in Workers, Finish(w) PROVE Queue!Next
  <2>1. claimedId[w] \in Jobs
    BY <1>3 DEF Inv, TypeOK, Finish
  <2> QED BY <1>3, <2>1, FinishProcesses DEF Queue!Next
<1>4. ASSUME NEW w \in Workers, Throw(w) PROVE Queue!Next
  <2>1. claimedId[w] \in Jobs
    BY <1>4 DEF Inv, TypeOK, Throw
  <2> QED BY <1>4, <2>1, ThrowFails DEF Queue!Next
<1>5. ASSUME NEW w \in Workers, CountAttempt(w) PROVE Queue!Next \/ UNCHANGED Queue!vars
  <2>1. claimedId[w] \in Jobs
    BY <1>5 DEF Inv, TypeOK, CountAttempt
  <2> QED BY <1>5, <2>1, CountGivesUp DEF Queue!Next
<1> QED BY <1>1, <1>2, <1>3, <1>4, <1>5 DEF Next, WorkerStep

LEMMA InitQueue == Init => Queue!Init
<1> SUFFICES ASSUME Init PROVE Queue!Init
  OBVIOUS
<1>1. \A j \in Jobs : Outcome(j) = "pending"
  BY DEF Init, Outcome, Pending
<1> QED BY <1>1 DEF Init, Queue!Init

-----------------------------------------------------------------------------
(* The theorems.                                                           *)

LEMMA AlwaysInv == Spec => []Inv
  BY InitInv, StepInv, PTL DEF Spec

\* The columns keep their types, and whoever works or has caught an error
\* knows its job.
THEOREM JobsTypeCorrect == Spec => []TypeOK
  BY AlwaysInv, PTL DEF Inv

\* SKIP LOCKED keeps `processed` at 1 for any number of workers, whatever dies
\* and whichever replies are lost.
THEOREM EachJobOnce == Spec => []ProcessedOnce
  BY AlwaysInv, PTL DEF Inv

\* No worker returns while a job could still be done.
THEOREM ReturnsSettled == Spec => []ReturnsWhenSettled
  BY AlwaysInv, PTL DEF Inv

LEMMA AlwaysCounts == Spec => []CountInv
  BY InitInv, InitCounts, StepInv, StepCounts, PTL DEF Spec

\* The follow-up UPDATE counts failed tries only, and a job is tried no oftener
\* than its attempts, the workers that may be at it and the faults account for.
THEOREM OnlyFailuresCount == Spec => []AttemptsAreFailures
<1>1. CountInv => AttemptsAreFailures
  BY DEF CountInv, Counted, AttemptsAreFailures
<1> QED BY <1>1, AlwaysCounts, PTL

\* The workers implement the queue: a job is processed once, or given up after
\* JOB_MAX_ATTEMPTS failures, for good, whoever dies and whatever is retried.
THEOREM JobsSettleForGood == Spec => SettledForGood
<1>1. Init => WorkIsPending
  BY DEF Init, WorkIsPending
<1> QED BY <1>1, InitInv, InitCounts, InitQueue, StepInv, StepCounts, StepPending, StepQueue, PTL
        DEF Spec, SettledForGood, Queue!Spec

=============================================================================
