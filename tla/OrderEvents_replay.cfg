SPECIFICATION Spec
CONSTANTS
  Patches = {a, b}
  Procs = {n1}
  Clients = {c1}
  Initial = Initial
  None = None
  BUFFER_LIMIT = 100
  MaxFaults = 0
INVARIANTS ReplaysTheLog
CHECK_DEADLOCK FALSE
