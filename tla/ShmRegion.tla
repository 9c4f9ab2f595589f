----------------------------- MODULE ShmRegion -----------------------------
(***************************************************************************)
(* The shared memory region of ce_shm.c and the part of ce_ipc_shm.c that  *)
(* creates it, creates queues in it and finds them: one creating process,  *)
(* which may crash and start again, and reading processes that attach and  *)
(* detach.  The System V segments are external: a segment removed while    *)
(* processes are attached lives without its key until the last detaches.   *)
(***************************************************************************)
EXTENDS QueueGeometry, Integers, Sequences

CONSTANTS
  Readers,       \* reading processes
  QueueIds,      \* queue ids
  Requests,      \* pairs of queue size and record size asked for
  RegionSize,    \* shm_size
  SizeOfHeader,  \* sizeof(ce_ipc_shm_header_t)
  MaxSegs,       \* segments ever created (a bound of the model)
  CrashAnywhere  \* crashes strike between any two stores; otherwise the
                 \* header and the count of queues are written without one

None == 0
NoQueue == [id |-> "none", off |-> 0, len |-> 0, rcd |-> 0, ready |-> FALSE]

VARIABLES
  segs,     \* segments created so far; they are 1..segs
  keyed,    \* the segment under the key, or None
  head,     \* shm_size, shm_queue_num and shm_free_pos of each segment
  queues,   \* the list that starts at shm_queue_header, newest first
  pc,       \* the creating process
  seen,     \* the segment id del_existed_shm has, the segment created
  new,      \* the queue being created, or NoQueue
  att,      \* the segment each process is attached to, or None
  late,     \* history: readers that attached to a segment already given up
  found     \* the queue a reader looked up, or NoQueue

regionVars == <<segs, keyed, head, queues, pc, seen, new, att, late, found>>

Main  == "main"
Procs == Readers \cup {Main}

\* The length of a queue is a number: ce_align only clears bits of one.
RegionAssumption ==
  /\ RegionSize \in Nat /\ SizeOfHeader \in Nat \ {0} /\ SizeOfHeader <= RegionSize
  /\ MaxSegs \in Nat /\ CrashAnywhere \in BOOLEAN
  /\ Main \notin Readers
  /\ \A q \in Requests : q[2] \in Nat /\ QueueLen(q[1], q[2]) \in Nat

Attached(s) == {p \in Procs : att[p] = s}

Init ==
  /\ segs = 0 /\ keyed = None
  /\ head = [s \in 1..MaxSegs |-> [size |-> 0, num |-> 0, free |-> 0]]
  /\ queues = [s \in 1..MaxSegs |-> <<>>]
  /\ pc = "down" /\ seen = None /\ new = NoQueue
  /\ att = [p \in Procs |-> None]
  /\ late = {}
  /\ found = [r \in Readers |-> NoQueue]

memory == <<head, queues>>
kernel == <<segs, keyed>>
others == <<late, found>>

-----------------------------------------------------------------------------
(* ipc_shm_create, ce_shm_alloc, ce_shm_get. *)

\* del_existed_shm: shmget.
DelGet ==
  /\ pc = "down"
  /\ seen' = keyed
  /\ pc' = IF keyed = None THEN "excl" ELSE "stat"
  /\ UNCHANGED <<kernel, memory, new, att, others>>

\* Mutant: the number of attached processes is not looked at.
StatIgnored ==
  /\ pc = "stat"
  /\ pc' = "rmid"
  /\ UNCHANGED <<kernel, memory, seen, new, att, others>>

\* IPC_STAT: a segment somebody is attached to is kept.
Stat ==
  /\ pc = "stat"
  /\ pc' = IF Attached(seen) = {} THEN "rmid" ELSE "get"
  /\ UNCHANGED <<kernel, memory, seen, new, att, others>>

\* IPC_RMID.
Rmid ==
  /\ pc = "rmid"
  /\ keyed' = None
  /\ pc' = "excl"
  /\ UNCHANGED <<segs, memory, seen, new, att, others>>

\* shmget with IPC_EXCL.
Excl ==
  /\ pc = "excl" /\ segs < MaxSegs
  /\ segs' = segs + 1
  /\ keyed' = segs' /\ seen' = segs'
  /\ pc' = "attach"
  /\ UNCHANGED <<memory, new, att, others>>

Attach ==
  /\ pc = "attach"
  /\ att' = [att EXCEPT ![Main] = seen]
  /\ pc' = "header"
  /\ UNCHANGED <<kernel, memory, seen, new, others>>

\* ipc_shm_header_init: the stores up to shm_free_pos, then that.
Header ==
  /\ pc = "header"
  /\ head' = [head EXCEPT ![att[Main]] = [@ EXCEPT !.size = RegionSize, !.num = 0]]
  /\ queues' = [queues EXCEPT ![att[Main]] = <<>>]
  /\ pc' = "freepos"
  /\ UNCHANGED <<kernel, seen, new, att, others>>

FreePos ==
  /\ pc = "freepos"
  /\ head' = [head EXCEPT ![att[Main]].free = SizeOfHeader]
  /\ pc' = "serve"
  /\ UNCHANGED <<kernel, queues, seen, new, att, others>>

\* ce_shm_get after a refused ce_shm_alloc.  No segment under the key: the
\* assertion on the address ends the process.
Get ==
  /\ pc = "get"
  /\ att' = [att EXCEPT ![Main] = keyed]
  /\ pc' = IF keyed = None THEN "down" ELSE "serve"
  /\ UNCHANGED <<kernel, memory, seen, new, others>>

-----------------------------------------------------------------------------
(* ipc_shm_queue_create. *)

My    == att[Main]
\* ipc_shm_queue_get: an empty count hides whatever the list holds.
Queue(s, id) == {i \in DOMAIN queues[s] : head[s].num > 0 /\ queues[s][i].id = id}

Fail == pc' = "down" /\ att' = [att EXCEPT ![Main] = None]

\* Mutant: the room left is not looked at.
CreateQueueUnchecked(id, size, rcd) ==
  /\ pc = "serve"
  /\ Queue(My, id) = {}
  /\ LET len == QueueLen(size, rcd) IN
       /\ Asserted(len, rcd)
       /\ new' = [id |-> id, off |-> head[My].free, len |-> len, rcd |-> rcd, ready |-> FALSE]
       /\ head' = [head EXCEPT ![My].free = @ + len]
       /\ pc' = "init"
  /\ UNCHANGED <<kernel, queues, seen, att, others>>

\* Up to ipc_shm_alloc.  A queue that exists is left as it is; one that does
\* not fit is refused; a failed assertion ends the process.
CreateQueue(id, size, rcd) ==
  /\ pc = "serve"
  /\ Queue(My, id) = {}
  /\ LET len == QueueLen(size, rcd) IN
       /\ head[My].size - head[My].free >= len
       /\ IF Asserted(len, rcd)
            THEN /\ new' = [id |-> id, off |-> head[My].free, len |-> len, rcd |-> rcd, ready |-> FALSE]
                 /\ head' = [head EXCEPT ![My].free = @ + len]
                 /\ pc' = "init" /\ UNCHANGED att
            ELSE Fail /\ UNCHANGED <<new, head>>
  /\ UNCHANGED <<kernel, queues, seen, others>>

\* ipc_shm_queue_init: the header of the queue and its blocks.
InitQueue ==
  /\ pc = "init"
  /\ new' = [new EXCEPT !.ready = TRUE]
  /\ pc' = "link"
  /\ UNCHANGED <<kernel, memory, seen, att, others>>

\* ipc_shm_queue_add: shm_queue_header, then shm_queue_num.
LinkQueue ==
  /\ pc = "link"
  /\ queues' = [queues EXCEPT ![My] = <<new>> \o @]
  /\ pc' = "count"
  /\ UNCHANGED <<kernel, head, seen, new, att, others>>

CountQueue ==
  /\ pc = "count"
  /\ head' = [head EXCEPT ![My].num = @ + 1]
  /\ new' = NoQueue
  /\ pc' = "serve"
  /\ UNCHANGED <<kernel, queues, seen, att, others>>

\* destory_ipc_context detaches; a crash does, wherever it strikes.
Leave ==
  /\ pc # "down"
  /\ pc \in {"header", "freepos", "count"} => CrashAnywhere
  /\ pc' = "down" /\ seen' = None /\ new' = NoQueue
  /\ att' = [att EXCEPT ![Main] = None]
  /\ UNCHANGED <<kernel, memory, others>>

-----------------------------------------------------------------------------
(* A reading process: ipc_shm_open, ipc_shm_open2, ipc_shm_queue_get, ipc_shm_close2. *)

\* ce_shm_get.  A segment the creator has decided to remove is still attached.
Open(r) ==
  /\ att[r] = None /\ keyed # None
  /\ att' = [att EXCEPT ![r] = keyed]
  /\ late' = IF pc = "rmid" /\ seen = keyed THEN late \cup {r} ELSE late
  /\ UNCHANGED <<kernel, memory, pc, seen, new, found>>

Find(r, id) ==
  /\ att[r] # None
  /\ \E i \in Queue(att[r], id) :
       /\ \A j \in Queue(att[r], id) : i <= j
       /\ found' = [found EXCEPT ![r] = queues[att[r]][i]]
  /\ UNCHANGED <<kernel, memory, pc, seen, new, att, late>>

Close(r) ==
  /\ att[r] # None
  /\ att' = [att EXCEPT ![r] = None]
  /\ late' = late \ {r}
  /\ found' = [found EXCEPT ![r] = NoQueue]
  /\ UNCHANGED <<kernel, memory, pc, seen, new>>

Next ==
  \/ DelGet \/ Stat \/ Rmid \/ Excl \/ Attach \/ Header \/ FreePos \/ Get
  \/ \E id \in QueueIds, q \in Requests : CreateQueue(id, q[1], q[2])
  \/ InitQueue \/ LinkQueue \/ CountQueue \/ Leave
  \/ \E r \in Readers : Open(r) \/ Close(r) \/ \E id \in QueueIds : Find(r, id)

Spec == Init /\ [][Next]_regionVars

-----------------------------------------------------------------------------
(* A restarted creator serves the region its readers are attached to: it   *)
(* removes a surviving segment only when nobody uses it.  A reader that    *)
(* attaches between the check and the removal is the exception.            *)
SameRegion ==
  pc \in {"serve", "init", "link", "count"} =>
    \A r \in Readers \ late : att[r] \in {None, My}

(* Queues of a region lie inside it, behind its header, and apart, over    *)
(* creations that were cut short and repeated; no id is there twice, and a *)
(* reader, however early it attaches, gets hold of an initialised one.     *)
QueuesApart ==
  /\ \A s \in 1..segs : \A i, j \in DOMAIN queues[s] :
       LET a == queues[s][i]  b == queues[s][j] IN
       /\ SizeOfHeader <= a.off /\ a.off + a.len <= RegionSize
       /\ i < j => a.id # b.id /\ b.off + b.len <= a.off
  /\ \A r \in Readers : found[r] # NoQueue => found[r].ready

(* The blocks of every queue cover its payload without gap or overlap, and *)
(* each but the last has room for PubNum records of the largest size.      *)
Shapes == UNION {{<<queues[s][i].len, queues[s][i].rcd>> : i \in DOMAIN queues[s]} : s \in 1..segs}
BlocksTile ==
  \A shape \in Shapes :
    LET len == shape[1]   rcd == shape[2]
        b == Blocks(len, rcd)   n == BlkNum(len, rcd)   size == BlkSize(len, rcd)
    IN
    /\ b[1].off = SizeOfQueue
    /\ \A k \in 1..n - 1 : b[k].size = size /\ b[k+1].off = b[k].off + size
    /\ SizeOfBlock + PubNum * rcd <= size
    /\ b[n].size > 0 /\ b[n].off + b[n].size = len

(* The assertion of calculate_queue_args: it holds for every size that     *)
(* ipc_shm_queue_create accepts and finds room for.                        *)
SizesAccepted ==
  [][ \A id \in QueueIds, q \in Requests :
        (pc = "serve" /\ Queue(My, id) = {}
          /\ head[My].size - head[My].free >= QueueLen(q[1], q[2]))
        => Asserted(QueueLen(q[1], q[2]), q[2]) ]_regionVars

(* Whoever uses the region uses the one that is served, and finds its      *)
(* queues apart and laid out.                                              *)
RegionSound == SameRegion /\ QueuesApart /\ BlocksTile
=============================================================================
