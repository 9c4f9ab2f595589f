SPECIFICATION KSpec
CONSTANTS
  K = 5
  Nets <- AllNets
  WriterNets <- FiveLeaves
  ReaderNets <- TwoLeaves
  Addresses = {3,9}
  MaxUpdates = 1
  Fails = {0,4}
  Devices = {"eth0", "eth1"}
  Toses = {0, 1}
  Contents <- ThreeContents
  MaxInfos = 2
  Chooses = TRUE
  W = 5
  Loopbacks = {}
  Assignable <- Lan
  MaxIfas = 4
  UserRoutes <- OneUserRoute
  Promotions = {TRUE, FALSE}
  ByteBits = 3
  Room = 30
  Values <- SixValues
  MaxFields = 2
  MaxRecords = 2
INVARIANTS TrieExact ReaderSafe RouteInfosSound FrontendExact ReadBack
CHECK_DEADLOCK FALSE
