SPECIFICATION Spec
CONSTANTS
  a1 = a1
  a2 = a2
  p1 = p1
  p2 = p2
  Procs <- MCProcs
  Agents = {a1, a2}
  Nobody = Nobody
  Kinds = {"claim", "complete", "allocate"}
  Keys = {2}
  MaxAttempts = 2
  StrayGap = 2
  KnownIds = {1, 6}
  LegacyHolder <- MCLegacyHolder
  LegacyMayFail = FALSE
SYMMETRY Invocations
CHECK_DEADLOCK FALSE
INVARIANTS TypeOK NoSteal ReleasesWhatItRead FreshNumbers GivesUpForAReason
