SPECIFICATION Spec
CONSTANTS
  Orders = {1}
  Relays = {r1, r2}
  Consumers = {c1, c2}
  BadBodies = {b1}
  Batch = 1
  Prefetch = 2
  DeliveryLimit = 1
  MaxAttempts = 2
  MaxFaults = 2
SYMMETRY Workers
INVARIANTS TypeOK NoEventLost PublishedMeansConfirmed AckedMeansApplied AppliedOnce
PROPERTIES DeliveryContract
CHECK_DEADLOCK FALSE
