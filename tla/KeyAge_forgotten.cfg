SPECIFICATION AgeSpec
CONSTANTS
  r1 = r1  r2 = r2  r3 = r3  r4 = r4  r5 = r5  k1 = k1  k2 = k2
  Requests = {r1, r2}
  Procs = {n1}
  Keys = {k1, k2}
  Key <- MCKey
  Body <- MCBody
  Dto <- MCDto
  KEY_TTL = 2
  None = None
  MaxTime = 2
  MaxKills = 0
INVARIANTS KeysAreForgotten
CHECK_DEADLOCK FALSE
