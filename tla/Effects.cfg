SPECIFICATION Spec
SYMMETRY Symmetry
CHECK_DEADLOCK FALSE
CONSTANTS
  Buffers = {1, 2, 3}
  Cells = {1, 2}
  Scalars = {0, 1, 2, 3}
  MaxAssignments = 3
  Persistent = {1, 2}
  Initial <- MCInitial
  Inputs <- MCInputs
  Plans <- MCInterference
  Programs <- MCPrograms
  Cursors = {c1, c2}
  MaxVersion = 2
  BatchVersion = 4
  None = None
  Dirty <- MCDirty
INVARIANTS
  ExecuteIsInPlace
  AdmittedCursorSeesItsOwnWrites
  ReplayNeverTrapped
  NativeIsInterpreted
  BatchesAreSequential
PROPERTIES ImplementsStore
