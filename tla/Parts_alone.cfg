SPECIFICATION PartsSpec
CONSTANTS
  r1 = r1  r2 = r2  r3 = r3  r4 = r4  r5 = r5  k1 = k1  k2 = k2
  Requests = {r1, r2, r3, r4, r5}
  Procs = {n1, n2}
  Keys = {k1, k2}
  Key <- MCKey
  Body <- MCBody
  Dto <- MCDto
  KEY_TTL = 2
  None = None
  MaxTime = 2
  MaxKills = 1
  MaxRotations = 3
  MaxCuts = 2
  Walkers = {w1}
  Limits = {1, 2}
  MaxId = 5
  Callers = {c1, c2, c3}
  MaxAttempts = 2
  MaxFaults = 2
  Keep = 2
  MaxWrites = 2
  MaxRuns = 3
  Seeds = {s1, s2}
  NUsers = 1
  NProducts = 1
  NOrders = 2
  MaxStarts = 3
  MaxDeletes = 1
  Orders = {o1, o2, o3}
  MaxPrograms = 3
SYMMETRY Symmetric
INVARIANTS TypesOK SweepLeavesNothing WalkSeesEachOnce NoLostUpdate BackupsRestore SeedConverges DemosRepeat
PROPERTIES KeysKeepTheirOrder FailsOnlyInRotation
CHECK_DEADLOCK FALSE
