------------------------------ MODULE MCEvents ------------------------------
(* One descriptor set, one file system monitor, one timer or the end of a  *)
(* context: they share nothing, so a run checks one of them, chosen at the *)
(* start.                                                                  *)
EXTENDS Pollset

CONSTANTS
  Paths, Files, Begins, BufEvents, MaxRegs, MaxEvents, Nothing,
  a, ab

VARIABLES
  unit,
  objs, fpc, found, regs, watched, queue, events, pre, calling, raised,
  owner, ds, tidSet, thread, cancel, beating,
  stat, stop, main, loop, region, pool

F == INSTANCE FsMonitor WITH upc <- fpc, batch <- events
T == INSTANCE Timer
X == INSTANCE ThreadExit

fVars == <<objs, fpc, found, regs, watched, queue, events, pre, calling, raised>>
tVars == <<owner, ds, tidSet, thread, cancel, beating>>
xVars == <<stat, stop, main, loop, region, pool>>
mcvars == <<unit, vars, fVars, tVars, xVars>>

aBeginsAb == {<<a, a>>, <<ab, ab>>, <<a, ab>>}

MCInit ==
  /\ unit \in {"pollset", "monitor", "timer", "exit"}
  /\ Init /\ F!Init /\ T!Init /\ X!Init

OnlyPollset == unit = "pollset" /\ UNCHANGED <<unit, fVars, tVars, xVars>>
OnlyMonitor == unit = "monitor" /\ UNCHANGED <<unit, vars, tVars, xVars>>
OnlyTimer   == unit = "timer" /\ UNCHANGED <<unit, vars, fVars, xVars>>
OnlyExit    == unit = "exit" /\ UNCHANGED <<unit, vars, fVars, tVars>>

MCNext ==
  \/ OnlyPollset /\ Next
  \/ OnlyMonitor /\ F!Next
  \/ OnlyTimer /\ T!Next
  \/ OnlyExit /\ X!Next

MCFairSpec ==
  /\ MCInit /\ [][MCNext]_mcvars
  /\ \A p \in Pollers : WF_mcvars(OnlyPollset /\ Poll(p))
  /\ WF_mcvars(OnlyMonitor /\ F!Thread)
  /\ WF_mcvars(OnlyExit /\ X!Thread)
  /\ WF_mcvars(OnlyExit /\ main # "run" /\ X!Main)

EventsDrained        == F!EventsDrained
RecordOutlivesThread == T!RecordOutlivesThread
DestroyEnds          == X!DestroyEnds
ThreadGoneFirst      == X!ThreadGoneFirst
=============================================================================
