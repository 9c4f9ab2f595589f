SPECIFICATION FairSpec
CONSTANTS
  b1 = b1
  b2 = b2
  p1 = p1
  p2 = p2
  p3 = p3
  Timeout = timeout
  Exiter = exiter
  NoBlk = NoBlk
  NoProc = NoProc
  Nobody = Nobody
  NameOf <- Names
  Blocks = {b1, b2}
  Layout <- TwoBlocks
  Writers = {w1}
  Procs = {p1}
  BlkSize <- Size2
  Sizes = {1}
  RcdMax = 1
  MaxReaders = 1
  FailPeriod = 1
  Joined <- OneJoined
  TimeoutOn = TRUE
  ReaderCrashes = FALSE
  MaxRestarts = 0
  MaxRecords = 3
  MaxFails = 1
INVARIANTS WrittenBlockUsed UsedBlocksComplete ShutdownPublishesAll
PROPERTIES OldBlockPublished
CHECK_DEADLOCK FALSE
