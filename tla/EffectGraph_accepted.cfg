SPECIFICATION GraphSpec
CHECK_DEADLOCK FALSE
CONSTANTS
  Buffers = {1, 2}
  Cells = {1, 2}
  Scalars = {}
  MaxAssignments = 3
  None = None
INVARIANTS AcceptedGraphExecutes
