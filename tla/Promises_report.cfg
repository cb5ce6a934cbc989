SPECIFICATION Spec
CONSTANTS
  Plain = {v}
  Reasons = {e}
  Thenables = {t}
  SelfError = SelfError
  Nothing = Nothing
  MaxPromises = 3
  MaxPairs = 2
CHECK_DEADLOCK FALSE
INVARIANTS FailsForUnhandledOnly
