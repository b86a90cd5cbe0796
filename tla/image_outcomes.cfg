SPECIFICATION ImageSpec
CONSTANTS
  r1 = r1
  r2 = r2
  f1 = f1
  f2 = f2
  Replacing = {r1, r2}
  Deleting = {r3}
  Files = {f0, f1, f2}
  First = f0
  Output <- Outputs
  Source <- Sources
  OldSource = f0
  MaxItems = 4
  MaxEdits = 1
INVARIANT FailedLeavesOne
CHECK_DEADLOCK FALSE
