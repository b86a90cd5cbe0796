SPECIFICATION FairSpec
CONSTANTS
  p1 = p1
  p2 = p2
  None = None
  Procs = {p1, p2}
  Bundle <- Mixed
  SearchOnly = FALSE
  MaxEdits = 1
  LateEffects = TRUE
  MaxRuns = 3
CHECK_DEADLOCK FALSE
INVARIANT AtMostOnce
INVARIANT ResultsFound
PROPERTY ProgressKept
PROPERTY RunsEnd
