SPECIFICATION MCSpec
CONSTANTS
  K = 5
  Nets <- DeepLeaves
  WriterNets <- DeepLeaves
  ReaderNets <- DeepLeaves
  Addresses = {18}
  MaxUpdates = 1
  Fails = {0,4}
INVARIANT LookupNeverMisses
CHECK_DEADLOCK FALSE
