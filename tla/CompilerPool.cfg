SPECIFICATION FairSpec
CONSTANTS
  Size = 2
  MaxRetries = 1
  MaxJobs = 1
  MaxFailures = 2
  NoJob = NoJob
CHECK_DEADLOCK FALSE
INVARIANTS TypeOK OnePlace NoOrphan
PROPERTIES EveryJobAnswered
