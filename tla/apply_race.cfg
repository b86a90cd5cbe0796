SPECIFICATION Spec
CONSTANTS
  a1 = a1
  a2 = a2
  s1 = s1
  s2 = s2
  s3 = s3
  Appliers = {p1, p2}
  Restorers = {p2}
  Auths = {a1}
  Slots = {s1, s2}
  Plan <- OnePlan
  ExpiresAt <- OneExpiry
  MaxClock = 1
  MaxEdits = 1
  LateEffects = TRUE
  CitingErrors = TRUE
  Crashes = TRUE
CHECK_DEADLOCK FALSE
INVARIANT SingleUse
INVARIANT StopBound
INVARIANT DeclaredOnly
INVARIANT RestoredStays
