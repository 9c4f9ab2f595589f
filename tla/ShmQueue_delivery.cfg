SPECIFICATION CalmSpec
CONSTANTS
  b1 = b1
  b2 = b2
  p1 = p1
  p2 = p2
  p3 = p3
  Timeout = timeout
  Exiter = exiter
  NoBlk = NoBlk
  NoProc = NoProc
  Nobody = Nobody
  NameOf <- Names
  Blocks = {b1, b2}
  Layout <- TwoBlocks
  Writers = {w1}
  Procs = {p1, p2}
  BlkSize <- SizeTail
  Sizes = {1}
  RcdMax = 1
  MaxReaders = 2
  FailPeriod = 1
  Joined <- OneJoined
  TimeoutOn = TRUE
  ReaderCrashes = FALSE
  MaxRestarts = 0
  MaxRecords = 3
  MaxFails = 1
INVARIANTS UnreadProtected ReadCountExact
PROPERTIES ImplementsStream WriteReturns
CHECK_DEADLOCK FALSE
