SPECIFICATION MCFairSpec
CONSTANTS
  Fds = {f1, f2}
  MaxElems = 3
  Pollers = {p1}
  Nalloc = 1
  NoFd = NoFd
  Paths = {d1, d2}
  a = a
  ab = ab
  Files = {a, ab}
  Begins <- aBeginsAb
  BufEvents = 2
  MaxRegs = 3
  MaxEvents = 3
  Nothing = Nothing
INVARIANTS PollsetSound RecordOutlivesThread
PROPERTIES ReadyReported EventsDrained DestroyEnds
CHECK_DEADLOCK FALSE
