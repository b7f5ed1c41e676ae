SPECIFICATION ApiFairSpec
CONSTANTS
  Sessions = {s1}
  Rows = {}
  Readers = {c1}
  None = None
  PREFETCH = 1
  Resets = TRUE
  MaxFaults = 0
PROPERTIES NeverLeftUnread
CHECK_DEADLOCK FALSE
