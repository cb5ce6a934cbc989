SPECIFICATION CFairSpec
CONSTANTS
  Plain = {v}
  Reasons = {e}
  Thenables = {t}
  SelfError = SelfError
  Nothing = Nothing
  Results = Results
  AggregateError = AggregateError
  MaxPromises = 3
  MaxPairs = 2
  Kinds = {"all", "allSettled", "any", "race"}
  MaxInputs = 2
  MaxCombinators = 1
CHECK_DEADLOCK FALSE
INVARIANTS TypeOK OneSettler FirstResolutionDecides UnhandledIsTracked CombinatorOutcome
PROPERTIES ReactionsInOrder ReactionsRun
