------------------------------- MODULE MCWorkers -------------------------------
(***************************************************************************)
(* What must come to an end although its workers skip the rows others have *)
(* locked: the outbox and its events (OrderPipeline) and the queue of jobs *)
(* (JobWorker).  They share no state, so a behaviour is of one of them,    *)
(* and the variables of the other keep their initial values.  There are    *)
(* two instances of OrderPipeline, since either is small and two relay     *)
(* workers with two rows are not: all the orders with one relay worker,    *)
(* and one order with all the workers.                                     *)
(***************************************************************************)
EXTENDS JobWorker

CONSTANTS
  Orders, Relays, Consumers, BadBodies, Batch, Prefetch, DeliveryLimit, MaxAttempts,
  MaxFailures   \* MaxFaults of OrderPipeline

VARIABLES
  part,
  orders, outbox, published, marks, effects, deliveries, applied, binding, where, returns,
  rstep, batch, session, task, failures,
  rows,     \* orders that may be placed in this behaviour
  relays    \* relay workers that tick in it

Pipeline == INSTANCE OrderPipeline WITH
              attempts <- published, processed <- marks, faults <- failures,
              MaxFaults <- MaxFailures

pipelineVars == <<orders, outbox, published, marks, effects, deliveries, applied, binding, where,
                  returns, rstep, batch, session, task, failures>>
choiceVars == <<part, rows, relays>>
workersVars == <<vars, pipelineVars, choiceVars>>

OneOf(S) == {CHOOSE x \in S : TRUE}

WorkersInit ==
  /\ Init /\ Pipeline!Init
  /\ part \in {"jobs", "orders", "relays"}
  /\ rows = IF part = "orders" THEN Orders ELSE OneOf(Orders)
  /\ relays = IF part = "relays" THEN Relays ELSE OneOf(Relays)

OfJobs == part = "jobs" /\ UNCHANGED <<choiceVars, pipelineVars>>
OfPipeline == part # "jobs" /\ UNCHANGED <<choiceVars, vars>>

WorkersNext ==
  \/ OfJobs /\ Next
  \/ /\ OfPipeline /\ Pipeline!Next
     /\ orders' \subseteq rows
     /\ \A r \in Relays \ relays : rstep'[r] = "idle"

-----------------------------------------------------------------------------
(* The fairness of OrderPipeline and of JobWorker.                         *)

RelaysTick == \A r \in Relays : WF_workersVars(OfPipeline /\ r \in relays /\ Pipeline!RelayStep(r))

WorkersGoOn == \A w \in Workers : WF_workersVars(OfJobs /\ WorkerStep(w))

BrokerGoesOn == \A m \in Pipeline!Messages : WF_workersVars(OfPipeline /\ Pipeline!Accept(m))

ConsumersGoOn ==
  \A c \in Consumers : /\ WF_workersVars(OfPipeline /\ Pipeline!SessionStep(c))
                       /\ WF_workersVars(OfPipeline /\ Pipeline!HandlerStep(c))

WorkersSpec ==
  /\ WorkersInit /\ [][WorkersNext]_workersVars
  /\ RelaysTick /\ BrokerGoesOn /\ ConsumersGoOn /\ WorkersGoOn

-----------------------------------------------------------------------------
(* The properties of the pipeline; those of the jobs are JobWorker's.      *)

\* Every placed order's event is applied or parked in the end.
EverySettled == Pipeline!EverySettled

\* Every unpublished row is marked in the end, also when its worker's batch was
\* abandoned or another worker holds it.
EveryRowPublished == Pipeline!EveryRowPublished

\* Every worker of the jobs comes to an end.
EveryWorkerEnds == part = "jobs" => WorkersEnd

=============================================================================
