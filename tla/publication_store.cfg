SPECIFICATION StoresSpec
CONSTANTS
  p1 = p1
  p2 = p2
  r1 = r1
  r2 = r2
  r3 = r3
  r4 = r4
  NoLink = NoLink
  Marker = Marker
  Damaged = Damaged
  Publishers = {p1, p2}
  Previews = {r1, r2, r3, r4}
  Version <- Versions4
  Expected <- Expected4
  Published <- Published4
  CrashAt <- Anywhere
  RaiseAt = {}
  MaxCommands = 4
  RootNames <- Folders
  FolderNames <- FolderFiles
  Contents <- FileContents
  FirstContent <- TwoChunks
  TreeChanges = 2
  Artifacts <- TwoArtifacts
  Meddling = 2
  Aliases = {"a1", "a2"}
  Places = {"d1", "d2"}
  ItemTypes = {"frame", "doc"}
  KeepTests = 1
  MaxTests = 3
  Declarations <- SomeDeclarations
  Shots <- SomeShots
  Allowlists <- SomeAllowlists
  OperationLists <- SomeOperations
  ProofFiles <- SomeProofs
  Claims <- SomeClaims
  FullDigests = {"d1", "d2"}
  NoReceiptHeld = NoReceiptHeld
  Drafts <- SomeDrafts
  GatePackets <- OnePacket
  Validities = {1, 2}
  LastMoment = 2
CHECK_DEADLOCK FALSE
INVARIANT LinkBacked
INVARIANT ObjectsKept
INVARIANT ReceiptsShown
INVARIANT TreesReadTrue
INVARIANT PackageHonest
INVARIANT ReceiptBacked
INVARIANT KeptUsable
INVARIANT ReceiptsProven
INVARIANT OrdersBound
