SPECIFICATION FairSpec
CONSTANTS
  InitialSlots = 1
  UnitsPerMs = 2
  SleepModulus = 2
  Delays = {0, 2}
  Periods = {1}
  MaxTimers = 3
  MaxJobs = 1
  Horizon = 4
CHECK_DEADLOCK FALSE
INVARIANTS TypeOK TimerHistory NothingDueBehindScan ExitClean
PROPERTIES ClearedStaysSilent EveryTimerFires ProgramEnds
