SPECIFICATION Spec
CONSTANTS
  r1 = r1
  r2 = r2
  f1 = f1
  f2 = f2
  SnapItems = 3
  SnapComments = 3
  PageLimit = 2
  MaxPages = 3
  SnapEdits = 3
  Captures = {"k1", "k2", "k3"}
  Forced = {"k1", "k2"}
  Lifetime = 2
  Early = 1
  LastSecond = 2
  Fresh = {"f1", "f2"}
  Resumed = {"q1", "q2"}
  Operations = 2
  Inodes = 3
  Sessions = {"s1", "s2", "s3"}
  MaxTokens = 4
  Commands = {"x1", "x2"}
  Manifests = {"m1", "m2", "m3"}
  Recipes = {"c1"}
  Material <- SomeMaterial
  Look <- SomeLook
  Registered <- FirstRegistry
  MaxRecords = 3
  MaxPackages = 1
  FundusEdits = 1
  Replacing = {r1, r2}
  Deleting = {r3}
  Files = {f0, f1, f2}
  First = f0
  Output <- Outputs
  Source <- Sources
  OldSource = f0
  MaxItems = 4
  MaxEdits = 1
  MaxDocs = 4
  MaxQueue = 2
  MaxMail = 2
  HistoryMax = 2
  RetryRejects = FALSE
  Pointers = {"p1", "p2", "p3"}
  Nodes = {"n1"}
  Spots = {0, 1}
  MidGesture = FALSE
INVARIANT SnapshotExact
INVARIANT EvidenceChained
INVARIANT DeliveredOnce
INVARIANT LoginKept
INVARIANT PackagedReviewed
INVARIANT ImagesKept
INVARIANT EditorUsable
INVARIANT ViewerSettled
CHECK_DEADLOCK FALSE
