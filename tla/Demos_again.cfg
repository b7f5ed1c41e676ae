SPECIFICATION Spec
CONSTANTS
  None = None
  Orders = {o1, o2}
  MaxPrograms = 2
INVARIANTS CountsNeverChange
CHECK_DEADLOCK FALSE
