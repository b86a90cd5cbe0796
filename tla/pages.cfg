SPECIFICATION PagesSpec
CONSTANTS
  a1 = a1
  a2 = a2
  s1 = s1
  s2 = s2
  None = None
  q1 = q1
  q2 = q2
  r1 = r1
  r2 = r2
  r3 = r3
  r4 = r4
  Marker = Marker
  Damaged = Damaged
  NoLink = NoLink
  Publishers = {q1, q2}
  Previews = {r1, r2, r3, r4}
  Version <- Versions4
  Expected <- Expected4
  Published <- Published4
  CrashAt <- ButUnlink
  RaiseAt = {"note", "return"}
  MaxCommands = 4
  Appliers = {p1}
  Restorers = {p1}
  Auths = {a1, a2}
  Slots = {s1, s2}
  Plan <- Decisions
  ExpiresAt <- Expiries
  MaxClock = 1
  MaxEdits = 1
  LateEffects = FALSE
  CitingErrors = FALSE
  Crashes = TRUE
  MaxDepth = 3
  MaxScan = 6
  MaxText = 5
  LabelChars = {"l", "W", " ", "B", "E"}
  MaxLabel = 4
  NodeBoxes <- Boxes
  CanvasLines = 3
  CanvasBytes = 9
  Labelled = {1, 3, 4}
  MinFragment = 2
CHECK_DEADLOCK FALSE
INVARIANT SelectionDecided
INVARIANT OneTransaction
INVARIANT PhaseTruthful
INVARIANT OffersServed
INVARIANT LinkReadable
INVARIANT ScopesKept
INVARIANT LabelsKept
PROPERTY DecisionImmutable
PROPERTY PhaseAdvances
PROPERTY ImplementsStableLink
