SPECIFICATION MCSpec
CONSTANTS
  NULL = NULL
  PSize = 104
  Sizes = {36, 48}
  Chunks = {x1}
  MaxBlocks = 8
  MaxPieces = 7
  ResetWithCleanup = FALSE
  SizeOfQueue = 3
  SizeOfBlock = 2
  PubNum = 2
  MinNum = 1
  QueueDefault = 36
  Bits = 7
  Readers = {r1}
  QueueIds = {q1, q2}
  Requests <- ThreeRequests
  RegionSize = 90
  SizeOfHeader = 4
  MaxSegs = 2
  CrashAnywhere = FALSE
  Users = {u1, u2, u3}
  MaxSets = 2
  MaxCrashes = 1
  Vids = {1, 2}
  Macs = {1, 2}
  Mtus = {1, 2}
  RxFlags = {"promisc"}
  VlanFlags = {"loose", "gvrp"}
INVARIANTS InsideBlocks BookkeepingHeld RegionSound SemExclusion RealDeviceTold ReceiversSafe
PROPERTY ImplementsArena
CHECK_DEADLOCK FALSE
