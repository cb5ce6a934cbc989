SPECIFICATION FairSpec
CONSTANTS
  f1 = f1
  f2 = f2
  e1 = e1
  e2 = e2
  Null = Null
  NoJob = NoJob
  Funs <- MCFuns
  Externs <- MCExterns
  Jobs <- MCJobs
  InitialCapacity = 1
  MayThrow = TRUE
  MaxEnqueues = 5
  MaxExports = 2
  MaxDepth = 3
INVARIANTS TypeOK LiveSlotsHoldJobs Conservation CapacityBound NoJobStranded
PROPERTIES ImplementsJobQueue QueuedJobsRun
