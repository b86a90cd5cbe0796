SPECIFICATION Spec
CONSTANTS
  a1 = a1
  a2 = a2
  s1 = s1
  s2 = s2
  s3 = s3
  Appliers = {p1}
  Restorers = {r1, r2}
  Auths = {a1}
  Slots = {s1, s2}
  Plan <- OnePlan
  ExpiresAt <- OneExpiry
  MaxClock = 0
  MaxEdits = 0
  LateEffects = FALSE
  CitingErrors = FALSE
  Crashes = FALSE
CHECK_DEADLOCK FALSE
INVARIANT RestoredStays
