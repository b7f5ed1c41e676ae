SPECIFICATION WorkersSpec
CONSTANTS
  Orders = {1, 2}
  Relays = {r1, r2}
  Consumers = {c1}
  BadBodies = {}
  Batch = 2
  Prefetch = 2
  DeliveryLimit = 1
  MaxAttempts = 2
  MaxFailures = 1
  Jobs = {1, 2, 3}
  Poison = {2}
  Workers = {w1, w2, w3}
  JOB_MAX_ATTEMPTS = 2
  None = None
  MaxFaults = 2
INVARIANTS ProcessedOnce ReturnsWhenSettled AttemptsAreFailures
PROPERTIES EverySettled EveryRowPublished SettledForGood EveryWorkerEnds
CHECK_DEADLOCK FALSE
