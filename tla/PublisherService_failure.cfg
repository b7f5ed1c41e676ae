SPECIFICATION FairSpec
CONSTANTS
  Sessions = {s1, s2}
  Rows = {r1}
  None = None
  MaxFaults = 2
PROPERTIES BrokerFailureIsLogged
CHECK_DEADLOCK FALSE
