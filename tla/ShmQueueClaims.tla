--------------------------- MODULE ShmQueueClaims ---------------------------
(***************************************************************************)
(* What comments and assertions of ce_ipc_shm.c say of the queue, and the  *)
(* code does not keep.                                                     *)
(***************************************************************************)
EXTENDS ShmQueue

\* Line 418: "avoid being published at the same time".  No block is in the hands of
\* two publishers.
NotPublishedTwice ==
  \A s, t \in Threads \ Procs :
    pc[s] \in Publishing /\ pc[t] \in Publishing /\ blk[s] = blk[t] => s = t

\* Lines 1932 and 1983: the assertion that a record begins with its start
\* mark.  A reader that has taken a broadcast block does not fail it.
StartMarkFound == \A p \in Procs : pc[p] = "aborted" => infoMark = p

\* Line 1524, "get a data block": what ipc_queue_dbk_get hands to the writer is a
\* data block, never the queue header.
GetsBlock == ~wild

\* Line 165: read_count is how many readers have still to read the block.  One that
\* says some have, has a registered reader that is dead or still at it.
ReadCountHasReader ==
  \A b \in ToSet(dbkList) :
    readCount[b] > 0 /\ (\A t \in Threads \ Procs : pc[t] \in Publishing => blk[t] # b)
    => \E p \in Procs :
         \/ WithPid(p) # {} /\ Gone(p)
         \/ b \in ToRead(p)
         \/ pc[p] \in {"dec", "recheck", "setread"} /\ blk[p] = b

\* Line 1839, "clear the registration": the search for readers that "not exist" takes
\* a reader out of the table only when its process is gone.
OnlyDeadUnregistered ==
  [][\A p \in Procs : WithPid(p) # {} /\ ~Gone(p) => WithPid(p)' # {}]_vars

\* Line 1221: for a queue that exists "set the atomic variables": a writer process
\* that is started again finds dbk_write_mark free.
RestartFreesLock == [][restarts' # restarts => writeMark' = Nobody]_vars
=============================================================================
