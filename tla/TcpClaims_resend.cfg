SPECIFICATION Spec
CONSTANTS
  Streams <- TwoStreams
  FixedLen = 2
  MaxSeg = 4
  MaxRepeats = 1
  Desegments = {TRUE}
  ResendsTails = TRUE
  NULL = NULL
PROPERTY NotAddedAgain
CHECK_DEADLOCK FALSE
