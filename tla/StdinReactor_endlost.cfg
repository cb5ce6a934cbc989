SPECIFICATION Spec
CONSTANTS
  Cap = 2
  InitialBuf = 1
  ReadSizes = {1}
  MayFail = FALSE
  MaxBytes = 3
  MaxListeners = 1
  MaxBodies = 1
CHECK_DEADLOCK FALSE
INVARIANTS EndNotLost
