SPECIFICATION FairSpec
CONSTANTS
  Cap = 2
  InitialBuf = 1
  ReadSizes = {1}
  MayFail = TRUE
  MaxBytes = 3
  MaxListeners = 1
  MaxBodies = 1
CHECK_DEADLOCK FALSE
INVARIANTS TypeOK ByteStream EndComplete NestingBounded ExitDelivered
PROPERTIES ProgramEnds
