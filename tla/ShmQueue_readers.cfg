SPECIFICATION Spec
CONSTANTS
  b1 = b1
  b2 = b2
  p1 = p1
  p2 = p2
  p3 = p3
  Timeout = timeout
  Exiter = exiter
  NoBlk = NoBlk
  NoProc = NoProc
  Nobody = Nobody
  NameOf <- Names
  Blocks = {b1}
  Layout <- OneBlock
  Writers = {w1}
  Procs = {p1, p2, p3}
  BlkSize <- Size1
  Sizes = {1}
  RcdMax = 1
  MaxReaders = 2
  FailPeriod = 1
  Joined <- OneJoined
  TimeoutOn = FALSE
  ReaderCrashes = TRUE
  MaxRestarts = 0
  MaxRecords = 2
  MaxFails = 2
INVARIANTS TypeOK ReadersCompact
CHECK_DEADLOCK FALSE
