SPECIFICATION ApiFairSpec
CONSTANTS
  Sessions = {s1, s2, s3, s4}
  Rows = {r1, r2}
  Readers = {c1, c2, c3, c4}
  None = None
  PREFETCH = 2
  Resets = TRUE
  MaxFaults = 3
INVARIANTS OneConnectionEach NothingLeftOpen
PROPERTIES OpensNothingMore EveryRowGoesOut ReadsAgain ShutdownEnds
CHECK_DEADLOCK FALSE
