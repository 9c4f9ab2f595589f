SPECIFICATION Spec
CONSTANTS
  b1 = b1
  b2 = b2
  p1 = p1
  p2 = p2
  p3 = p3
  Timeout = timeout
  Exiter = exiter
  NoBlk = NoBlk
  NoProc = NoProc
  Nobody = Nobody
  NameOf <- Names
  Blocks = {b1, b2}
  Layout <- TwoBlocks
  Writers = {w1, w2}
  Procs = {p1}
  BlkSize <- Size2
  Sizes = {1, 2}
  RcdMax = 1
  MaxReaders = 1
  FailPeriod = 1
  Joined <- OneJoined
  TimeoutOn = FALSE
  ReaderCrashes = FALSE
  MaxRestarts = 1
  MaxRecords = 4
  MaxFails = 1
INVARIANTS WriteExclusion ListsPartition NoOverrun
CHECK_DEADLOCK FALSE
