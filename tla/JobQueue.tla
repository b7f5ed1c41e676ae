------------------------------ MODULE JobQueue ------------------------------
(***************************************************************************)
(* What the job workers promise about a job, stated without workers, rows  *)
(* and locks: it is processed once, or it is given up after it has failed  *)
(* JOB_MAX_ATTEMPTS times.  Either is for good, and nothing is tried after *)
(* it.                                                                     *)
(***************************************************************************)
EXTENDS Naturals

CONSTANTS Jobs, Poison, JOB_MAX_ATTEMPTS

VARIABLES outcome,  \* what has become of each job
          failures  \* how often it was tried in vain

vars == <<outcome, failures>>

Init == /\ outcome = [j \in Jobs |-> "pending"]
        /\ failures = [j \in Jobs |-> 0]

Process(j) == /\ outcome[j] = "pending"
              /\ j \notin Poison
              /\ outcome' = [outcome EXCEPT ![j] = "processed"]
              /\ UNCHANGED failures

Fails(j) == /\ outcome[j] = "pending"
            /\ failures' = [failures EXCEPT ![j] = @ + 1]
            /\ UNCHANGED outcome

GiveUp(j) == /\ outcome[j] = "pending"
             /\ failures[j] >= JOB_MAX_ATTEMPTS
             /\ outcome' = [outcome EXCEPT ![j] = "given_up"]
             /\ UNCHANGED failures

Next == \E j \in Jobs : Process(j) \/ Fails(j) \/ GiveUp(j)

Spec == Init /\ [][Next]_vars

=============================================================================
