SPECIFICATION MCSpec
CONSTANTS
  Streams <- FourStreams
  FixedLen = 2
  MaxSeg = 4
  MaxRepeats = 1
  Desegments = {TRUE, FALSE}
  ResendsTails = FALSE
  None = None
  SeqBits = 4
  Isns <- IsnOf
  MaxSend <- SendOf
  Lens = {2, 3}
  Scales <- NoneOrOne
  Windows = {0, 3}
  MaxMissed = 1
  MaxDrops = 1
  MaxAcks = 3
  MaxProbes = 1
  ProbeAccepted = FALSE
  MeetsZero = FALSE
  Scripts <- FiveScripts
  Sizes = {1, 2, 5, 8}
  MaxFrames = 5
  Raw <- TwoUnits
  MaxItems = 4
  Leaves <- FourLeaves
  Keys <- ThreeKeys
  Alike <- TwoAlike
  MaxSteps = 5
  Configs <- TwoConfigs
  Budgets = {2, 20}
  Pieces <- SomePieces
  Numbers <- TwoNumbers
  Strings <- ThreeTexts
  MaxPieces = 5
  MaxSaid = 5
  MaxOpen = 3
  DefaultStack = 2
  DefaultBuffer = 4
  Modules = {"core", "idle", "x", "y"}
  Preloaded <- TwoBuiltIn
  Prelinked <- OnlyCore
  PerServer = {"core", "x"}
  PerDir = {"core", "x", "y"}
  MergesServer = {"x"}
  MergesDir = {"core", "y"}
  DYNAMIC_MODULE_LIMIT = 2
  MaxReserved = 1
  MaxVirts = 1
  MaxLevels = 2
  MaxDirectives = 2
  Restarts = 1
  Content <- Directories
  Patterns <- ManyNames
  Included <- ThreeNames
  AP_MAX_INCLUDE_DIR_DEPTH = 2
  Commands <- FewCommands
  MaxLines = 5
  MaxStack = 4
  Words = {"on", "x"}
  MaxWords = 4
  AP_MAX_ARGC = 3
  Htaccess <- AccessFiles
  AccessNames <- TwoNames
  Overrides = {1, 2}
  MaxRequests = 3
  MapKeys <- FiveKeys
  Entries <- SixEntries
  MaxUsed = 6
  DeleteAbsent = FALSE
  dummy = dummy
  Order = 7
  Insertions <- SevenKeys
  TableKeys <- TableStrings
  Vals = {1}
  TableNames = {"base", "overlay"}
  MaxElts <- EltsOf
  MaxVal = 2
  EmptyBase = FALSE
INVARIANTS PdusExact LossReported HttpExact CJsonExact JsonExact ModulesSound ConfigsMerged ConfigExact ContainersExact
PROPERTY UnackedExact
CHECK_DEADLOCK FALSE
