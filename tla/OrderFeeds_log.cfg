SPECIFICATION FeedSpec
CONSTANTS
  Patches = {a, b}
  Procs = {n1, n2}
  Clients = {c1}
  Sockets = {s1}
  Users = {buyer, other}
  Owner = buyer
  Initial = Initial
  None = None
  BUFFER_LIMIT = 1
  MaxFaults = 2
SYMMETRY Symmetric
INVARIANTS TypesOK LogIsNewestEvents StreamsFollowLog OpenStreamsAreCurrent RoomIsTheOwners RoomHearsEachOnce
CHECK_DEADLOCK FALSE
