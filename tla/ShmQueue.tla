------------------------------ MODULE ShmQueue ------------------------------
(***************************************************************************)
(* One record queue of the shared-memory IPC of ce_util (ce_ipc_shm.c).    *)
(*                                                                         *)
(* A writer process fills data blocks with records.  A block is taken from *)
(* the free list, linked on the list of used blocks and remembered in      *)
(* cur_w_dbk.  It is published -- its offset is broadcast on a ZeroMQ PUB  *)
(* socket -- by a writer that finds it full, by the timeout thread when it *)
(* is old, or by the shutdown.  Every registered reader process reads the  *)
(* records and strikes itself out of the block; a block nobody still has   *)
(* to read is collected for reuse.  The queue header and the blocks live   *)
(* in shared memory, guarded by three spin locks and nothing else.         *)
(*                                                                         *)
(* One action stands for the accesses between two points at which another  *)
(* thread or process can see or change something that matters.             *)
(*                                                                         *)
(* An operator named for a mistake (FullOffByOne, LockUntested, ...) is a  *)
(* plausible wrong version of the definition that follows it.  Nothing     *)
(* uses it: it is kept to show that some property would notice.            *)
(***************************************************************************)
EXTENDS Integers, Sequences, FiniteSets, SequencesExt

CONSTANTS
  Blocks,        \* the data blocks of the queue
  Layout,        \* the same, in the order of their offsets
  Writers,       \* threads that call ipc_shm_record_write
  Procs,         \* reader processes, one per pid
  Timeout,       \* the thread of timeout_write_thread_fn
  Exiter,        \* the thread that calls destory_ipc_context
  NoBlk, NoProc, Nobody,
  NameOf,        \* the reader name a process registers under
  BlkSize,       \* dbk_size of each block, without its header
  Sizes,         \* t_size of the records written
  RcdMax,        \* rcd_max_size
  MaxReaders,    \* CE_QUEUE_MAX_READER_NUM
  FailPeriod,    \* failures between two searches for dead readers
  Joined,        \* sequence of the readers registered before the first write
  TimeoutOn,     \* the timeout thread is scheduled
  ReaderCrashes, \* reader processes may die
  MaxRestarts,   \* bound: restarts of the writer process
  MaxRecords,    \* bound: records written
  MaxFails       \* bound: writes that find no block

Threads  == Writers \cup Procs \cup {Timeout, Exiter}
Walkers  == Writers \cup Procs
Slots    == 1..MaxReaders
Cells    == UNION {0..(BlkSize[b] - 1) : b \in Blocks}
States   == {"WRITE", "READING", "READED", "FREE"}
Entries  == [id : Nat, len : Nat]
Blank    == [id |-> 0, len |-> 0]

ASSUME QueueAssumption ==
  /\ NoBlk \notin Blocks /\ NoProc \notin Procs /\ Nobody \notin Threads
  /\ Timeout # Exiter /\ {Timeout, Exiter} \cap (Writers \cup Procs) = {}
  /\ Writers \cap Procs = {} /\ IsFiniteSet(Procs)
  /\ Layout \in Seq(Blocks) /\ IsInjective(Layout) /\ ToSet(Layout) = Blocks
  /\ BlkSize \in [Blocks -> Nat \ {0}]
  /\ RcdMax \in Nat /\ MaxReaders \in Nat \ {0} /\ FailPeriod \in Nat \ {0}
  /\ Sizes \subseteq 1..(RcdMax + 1)
  /\ Joined \in Seq(Procs) /\ Len(Joined) <= MaxReaders
  /\ \A i, j \in DOMAIN Joined : NameOf[Joined[i]] = NameOf[Joined[j]] => i = j
  /\ MaxRestarts \in Nat /\ MaxRecords \in Nat /\ MaxFails \in Nat
  /\ {TimeoutOn, ReaderCrashes} \subseteq BOOLEAN

VARIABLES
  (* the queue header, ce_ipc_shm_queue_t *)
  curW,       \* cur_w_dbk: the block being written, NoBlk for offset 0
  dbkList,    \* the list that starts at dbk_header
  freeList,   \* the list that starts at free_dbk_header
  writeMark,  \* who holds dbk_write_mark
  infoMark,   \* who holds reader_info_mark
  refCount,   \* ref_count
  readers,    \* readers[]: pid per slot, NoProc when the slot is free
  failCnt,    \* get_blk_failed_cnt
  (* the data blocks, ce_ipc_data_block_t *)
  rcdNum,     \* rcd_num
  pos,        \* dbk_pos, counted from the end of the header
  state,      \* dbk_state
  readCount,  \* read_count
  slots,      \* reader_pid[]
  aged,       \* time() - first_write_time >= DBK_WRITE_TIME_OUT
  mem,        \* the records: start mark and size at an address, payload
  (* the threads *)
  pc,         \* where each thread is
  blk,        \* the block each thread works on
  cur,        \* cursor of a walk over a block list
  nxt,        \* next_offset saved by ipc_dbk_collect
  idx,        \* index into readers[]
  cnt,        \* reader_count, the copy of ref_count a walk works with
  size,       \* t_size of the record being written
  addr,       \* d_area.addr
  (* the reader processes *)
  connected,  \* who has a SUB socket
  inbox,      \* offsets received by ZeroMQ and not yet taken by zmq_recv
  rpos, rlen, rnum,  \* cur_addr, cur_size and cur_rcd_num of the iterator
  (* history and environment *)
  nextRcd,    \* number of the next record
  sent,       \* highest record number that was in a broadcast block
  due,        \* blocks that became the current one and were not broadcast since
  seen,       \* record numbers handed to read_handle, 0 for a torn one
  restarts,   \* restarts of the writer process so far
  fails,      \* writes that found no block so far
  wild        \* the process left the data structure: nothing defined follows

queueVars  == <<curW, dbkList, freeList, writeMark, infoMark, refCount, readers, failCnt>>
listVars   == <<curW, dbkList, freeList>>
blockVars  == <<rcdNum, pos, state, readCount, slots, aged, mem>>
localVars  == <<blk, cur, nxt, idx, cnt, size, addr>>
readerVars == <<connected, inbox, rpos, rlen, rnum, seen>>
envVars    == <<nextRcd, sent, due, restarts, fails, wild>>
vars == <<queueVars, blockVars, pc, localVars, readerVars, envVars>>

-----------------------------------------------------------------------------
(* Helpers                                                                 *)

\* ipc_queue_dbk_full
FullOffByOne(b, n) == pos[b] + n > BlkSize[b] + 1
Full(b, n) == pos[b] + n > BlkSize[b]

\* ipc_dbk_is_collectalbe
CollectableClosed(b) == state[b] # "WRITE"
Collectable(b) == readCount[b] = 0 \/ state[b] = "READED"

\* ipc_queue_dbk_first
First(l) == IF l = <<>> THEN NoBlk ELSE Head(l)

\* ipc_queue_dbk_next: the block dbk_next_offset of b leads to.  A block that
\* is being moved between the lists has dbk_next_offset 0.
After(l, b) ==
  {l[i + 1] : i \in {j \in 1..(Len(l) - 1) : l[j] = b}}
Succ(b) ==
  LET s == After(dbkList, b) \cup After(freeList, b)
  IN IF s = {} THEN NoBlk ELSE CHOOSE c \in s : TRUE

\* ipc_shm_queue_reader_find_by_name, ipc_shm_queue_reader_find: the slots
\* below ref_count that match; the code takes the first.
NamedNobody(p) == {}
Named(p)  == {i \in 1..refCount : readers[i] # NoProc /\ NameOf[readers[i]] = NameOf[p]}
WithPid(p) == {i \in 1..refCount : readers[i] = p}

\* ipc_shm_queue_reader_free
FreeSlots == {i \in (refCount + 1)..MaxReaders : readers[i] = NoProc}

\* ipc_queue_dbk_mov: the list without its k-th block.
UnlinkNotHead(l, k) == IF k = 1 THEN l ELSE RemoveAt(l, k)
Unlink(l, k) == RemoveAt(l, k)

Gone(p) == pc[p] \in {"dead", "aborted"}

Goto(t, l) == pc' = [pc EXCEPT ![t] = l]

\* Where a thread continues after it has published a block, or lost the race to.
Resume(t) == IF t \in Writers THEN "alloc" ELSE IF t = Timeout THEN "tsleep" ELSE "xdone"

-----------------------------------------------------------------------------
(* The queue after ipc_shm_queue_create and the registration of Joined.    *)
(* Shared memory is zero-filled, so first_write_time is 0: as old as can be. *)

Init ==
  /\ curW = NoBlk /\ dbkList = <<>>
  /\ freeList = Reverse(Layout)
  /\ writeMark = Nobody /\ infoMark = Nobody
  /\ refCount = Len(Joined)
  /\ readers = [i \in Slots |-> IF i <= Len(Joined) THEN Joined[i] ELSE NoProc]
  /\ failCnt = 0
  /\ rcdNum = [b \in Blocks |-> 0] /\ pos = [b \in Blocks |-> 0]
  /\ state = [b \in Blocks |-> "FREE"]
  /\ readCount = [b \in Blocks |-> 0]
  /\ slots = [b \in Blocks |-> [i \in Slots |-> NoProc]]
  /\ aged = [b \in Blocks |-> TRUE]
  /\ mem = [b \in Blocks |-> [c \in Cells |-> Blank]]
  /\ pc = [t \in Threads |->
             IF t \in Writers THEN "idle"
             ELSE IF t = Timeout THEN "tsleep"
             ELSE IF t = Exiter THEN "xoff"
             ELSE IF t \in ToSet(Joined) THEN "poll" ELSE "off"]
  /\ blk = [t \in Threads |-> NoBlk]
  /\ cur = [t \in Walkers |-> NoBlk] /\ nxt = [w \in Writers |-> NoBlk]
  /\ idx = [t \in Walkers |-> 1] /\ cnt = [t \in Walkers |-> 0]
  /\ size = [w \in Writers |-> 0] /\ addr = [w \in Writers |-> 0]
  /\ connected = ToSet(Joined)
  /\ inbox = [p \in Procs |-> <<>>]
  /\ rpos = [p \in Procs |-> 0] /\ rlen = [p \in Procs |-> 0]
  /\ rnum = [p \in Procs |-> 0]
  /\ nextRcd = 1 /\ sent = 0 /\ due = {}
  /\ seen = [p \in Procs |-> <<>>]
  /\ restarts = 0 /\ fails = 0 /\ wild = FALSE

-----------------------------------------------------------------------------
(* ipc_shm_record_write and ipc_queue_dbk_get.                             *)

\* A call with a record of t_size s.
Begin(w) ==
  /\ pc[w] = "idle" /\ pc[Exiter] = "xoff" /\ fails < MaxFails
  /\ nextRcd + Cardinality({v \in Writers : pc[v] # "idle"}) <= MaxRecords
  /\ \E s \in Sizes : size' = [size EXCEPT ![w] = s]
  /\ Goto(w, "lock")
  /\ UNCHANGED <<queueVars, blockVars, blk, cur, nxt, idx, cnt, addr, readerVars, envVars>>

LockUntested(w) ==
  /\ pc[w] = "lock"
  /\ writeMark' = w
  /\ Goto(w, "get")
  /\ UNCHANGED <<listVars, infoMark, refCount, readers, failCnt, blockVars,
                 localVars, readerVars, envVars>>

Lock(w) ==
  /\ pc[w] = "lock" /\ writeMark = Nobody
  /\ writeMark' = w
  /\ Goto(w, "get")
  /\ UNCHANGED <<listVars, infoMark, refCount, readers, failCnt, blockVars,
                 localVars, readerVars, envVars>>

\* The first read of cur_w_dbk.
ReadCur(w) ==
  /\ pc[w] = "get"
  /\ blk' = [blk EXCEPT ![w] = curW]
  /\ Goto(w, IF curW = NoBlk THEN "alloc" ELSE "reread")
  /\ UNCHANGED <<queueVars, blockVars, cur, nxt, idx, cnt, size, addr, readerVars, envVars>>

\* The address is computed from a second read.  When the timeout thread has
\* taken the block in between, offset 0 makes the queue header the block: its
\* dbk_pos is then dbk_header, its rcd_num is cur_w_dbk, and the record lands on
\* the header of the first block.
Reread(w) ==
  /\ pc[w] = "reread"
  /\ \/ /\ curW = NoBlk
        /\ wild' = TRUE
        /\ UNCHANGED <<blk, pc>>
     \/ /\ curW # NoBlk
        /\ blk' = [blk EXCEPT ![w] = curW]
        /\ Goto(w, IF Full(curW, size[w]) THEN "cas" ELSE "count")
        /\ UNCHANGED wild
  /\ UNCHANGED <<queueVars, blockVars, cur, nxt, idx, cnt, size, addr, readerVars,
                 nextRcd, sent, due, restarts, fails>>

Count(w) ==
  /\ pc[w] = "count"
  /\ rcdNum' = [rcdNum EXCEPT ![blk[w]] = @ + 1]
  /\ Goto(w, "area")
  /\ UNCHANGED <<queueVars, pos, state, readCount, slots, aged, mem, localVars,
                 readerVars, envVars>>

\* No free block: ipc_dbk_collect walks the used ones.  It looks at the first one
\* before it asks whether there is one.
Alloc(w) ==
  /\ pc[w] = "alloc"
  /\ \/ /\ freeList # <<>>
        /\ Goto(w, "pick")
        /\ UNCHANGED <<cur, wild>>
     \/ /\ freeList = <<>> /\ dbkList # <<>>
        /\ cur' = [cur EXCEPT ![w] = First(dbkList)]
        /\ Goto(w, "collect")
        /\ UNCHANGED wild
     \/ /\ freeList = <<>> /\ dbkList = <<>>
        /\ wild' = TRUE
        /\ UNCHANGED <<pc, cur>>
  /\ UNCHANGED <<queueVars, blockVars, blk, nxt, idx, cnt, size, addr, readerVars,
                 nextRcd, sent, due, restarts, fails>>

\* One turn of the loop of ipc_dbk_collect: a collectable block is unlinked
\* (ipc_queue_dbk_mov).
Collect(w) ==
  LET b == cur[w] IN
  /\ pc[w] = "collect"
  /\ nxt' = [nxt EXCEPT ![w] = Succ(b)]
  /\ \/ /\ Collectable(b)
        /\ \E k \in DOMAIN dbkList : dbkList[k] = b /\ dbkList' = Unlink(dbkList, k)
        /\ Goto(w, "reclaim")
        /\ UNCHANGED cur
     \/ /\ ~Collectable(b)
        /\ cur' = [cur EXCEPT ![w] = Succ(b)]
        /\ Goto(w, IF Succ(b) = NoBlk THEN "pick" ELSE "collect")
        /\ UNCHANGED dbkList
  /\ UNCHANGED <<curW, freeList, writeMark, infoMark, refCount, readers, failCnt,
                 blockVars, blk, idx, cnt, size, addr, readerVars, envVars>>

\* ipc_shm_queue_data_block_init.  The slots, first_write_time and the records keep
\* their old contents.
BlockInitKeepsNum(b) ==
  /\ pos' = [pos EXCEPT ![b] = 0]
  /\ state' = [state EXCEPT ![b] = "FREE"]
  /\ readCount' = [readCount EXCEPT ![b] = 0]
  /\ UNCHANGED rcdNum
BlockInit(b) ==
  /\ rcdNum' = [rcdNum EXCEPT ![b] = 0]
  /\ pos' = [pos EXCEPT ![b] = 0]
  /\ state' = [state EXCEPT ![b] = "FREE"]
  /\ readCount' = [readCount EXCEPT ![b] = 0]

\* ... then ipc_queue_dbk_add to the free list.
Reclaim(w) ==
  LET b == cur[w] IN
  /\ pc[w] = "reclaim"
  /\ BlockInit(b)
  /\ freeList' = Cons(b, freeList)
  /\ cur' = [cur EXCEPT ![w] = nxt[w]]
  /\ Goto(w, IF nxt[w] = NoBlk THEN "pick" ELSE "collect")
  /\ UNCHANGED <<curW, dbkList, writeMark, infoMark, refCount, readers, failCnt,
                 slots, aged, mem, blk, nxt, idx, cnt, size, addr, readerVars, envVars>>

\* The first free block with room is unlinked.
Fits(w) == {k \in DOMAIN freeList : ~Full(freeList[k], size[w])}
Pick(w) ==
  /\ pc[w] = "pick"
  /\ \/ /\ Fits(w) = {}
        /\ Goto(w, "fail")
        /\ UNCHANGED <<blk, freeList>>
     \/ \E k \in Fits(w) :
          /\ \A j \in Fits(w) : k <= j
          /\ blk' = [blk EXCEPT ![w] = freeList[k]]
          /\ freeList' = Unlink(freeList, k)
          /\ Goto(w, "link")
  /\ UNCHANGED <<curW, dbkList, writeMark, infoMark, refCount, readers, failCnt,
                 blockVars, cur, nxt, idx, cnt, size, addr, readerVars, envVars>>

LinkWrongList(w) ==
  /\ pc[w] = "link"
  /\ freeList' = Cons(blk[w], freeList)
  /\ Goto(w, "setcur")
  /\ UNCHANGED <<curW, dbkList, writeMark, infoMark, refCount, readers, failCnt,
                 blockVars, localVars, readerVars, envVars>>

Link(w) ==
  /\ pc[w] = "link"
  /\ dbkList' = Cons(blk[w], dbkList)
  /\ Goto(w, "setcur")
  /\ UNCHANGED <<curW, freeList, writeMark, infoMark, refCount, readers, failCnt,
                 blockVars, localVars, readerVars, envVars>>

\* From here on the timeout thread can take the block.
SetCur(w) ==
  /\ pc[w] = "setcur"
  /\ curW' = blk[w]
  /\ due' = due \cup {blk[w]}
  /\ Goto(w, "setwrite")
  /\ UNCHANGED <<dbkList, freeList, writeMark, infoMark, refCount, readers, failCnt,
                 blockVars, localVars, readerVars, nextRcd, sent, restarts, fails, wild>>

SetWrite(w) ==
  /\ pc[w] = "setwrite"
  /\ state' = [state EXCEPT ![blk[w]] = "WRITE"]
  /\ rcdNum' = [rcdNum EXCEPT ![blk[w]] = @ + 1]
  /\ Goto(w, "area")
  /\ UNCHANGED <<queueVars, pos, readCount, slots, aged, mem, localVars, readerVars, envVars>>

\* decision_write_area
Area(w) ==
  /\ pc[w] = "area"
  /\ addr' = [addr EXCEPT ![w] = pos[blk[w]]]
  /\ pos' = [pos EXCEPT ![blk[w]] = @ + size[w]]
  /\ Goto(w, "mark")
  /\ UNCHANGED <<queueVars, rcdNum, state, readCount, slots, aged, mem,
                 blk, cur, nxt, idx, cnt, size, readerVars, envVars>>

\* The start mark and the size, then the payload.
Mark(w) ==
  LET area == addr[w]..(addr[w] + size[w] - 1) IN
  /\ pc[w] = "mark"
  /\ mem' = [mem EXCEPT ![blk[w]] =
               [c \in Cells |-> IF c = addr[w] THEN [id |-> 0, len |-> size[w]]
                                ELSE IF c \in area THEN Blank ELSE @[c]]]
  /\ Goto(w, "body")
  /\ UNCHANGED <<queueVars, rcdNum, pos, state, readCount, slots, aged, localVars,
                 readerVars, envVars>>

Body(w) ==
  /\ pc[w] = "body"
  /\ mem' = [mem EXCEPT ![blk[w]][addr[w]] = [@ EXCEPT !.id = nextRcd]]
  /\ nextRcd' = nextRcd + 1
  /\ Goto(w, "stamp")
  /\ UNCHANGED <<queueVars, rcdNum, pos, state, readCount, slots, aged, localVars,
                 readerVars, sent, due, restarts, fails, wild>>

\* first_write_time, written by the first record only, and the unlock.
StampKeepsLock(w) ==
  /\ pc[w] = "stamp"
  /\ aged' = [aged EXCEPT ![blk[w]] = IF rcdNum[blk[w]] = 1 THEN FALSE ELSE @]
  /\ Goto(w, "idle")
  /\ UNCHANGED <<listVars, writeMark, infoMark, refCount, readers, failCnt, rcdNum, pos, state,
                 readCount, slots, mem, localVars, readerVars, envVars>>

Stamp(w) ==
  /\ pc[w] = "stamp"
  /\ aged' = [aged EXCEPT ![blk[w]] = IF rcdNum[blk[w]] = 1 THEN FALSE ELSE @]
  /\ writeMark' = Nobody
  /\ Goto(w, "idle")
  /\ UNCHANGED <<listVars, infoMark, refCount, readers, failCnt, rcdNum, pos, state,
                 readCount, slots, mem, localVars, readerVars, envVars>>

\* No block: the call fails, and every FailPeriod-th failure looks for dead readers.
Fail(w) ==
  /\ pc[w] = "fail"
  /\ writeMark' = Nobody
  /\ failCnt' = (failCnt + 1) % FailPeriod
  /\ fails' = fails + 1
  /\ idx' = [idx EXCEPT ![w] = 1]
  /\ Goto(w, IF failCnt' = 0 THEN "scan" ELSE "idle")
  /\ UNCHANGED <<listVars, infoMark, refCount, readers, blockVars, blk, cur, nxt, cnt,
                 size, addr, readerVars, nextRcd, sent, due, restarts, wild>>

-----------------------------------------------------------------------------
(* Dead readers: the scan after repeated failures, and                     *)
(* _ipc_clear_dbk_for_reader, which a registering reader runs as well.     *)

\* Start of a walk over the used blocks for readers[i].
StartWalk(t, i) ==
  /\ idx' = [idx EXCEPT ![t] = i]
  /\ cnt' = [cnt EXCEPT ![t] = refCount]
  /\ cur' = [cur EXCEPT ![t] = First(dbkList)]
  /\ Goto(t, "visit")

\* Where a walk continues when the list ends.
WalkedClean(t) == "clean"
Walked(t) == IF t \in Writers THEN "clean" ELSE "connect"

Scan(w) ==
  LET i == idx[w] IN
  /\ pc[w] = "scan"
  /\ \/ /\ i > MaxReaders \/ (i <= MaxReaders /\ readers[i] = NoProc)
        /\ Goto(w, "idle")
        /\ UNCHANGED <<idx, cnt, cur>>
     \/ /\ i <= MaxReaders /\ readers[i] # NoProc
        /\ Gone(readers[i]) => WithPid(readers[i]) = {}
        /\ idx' = [idx EXCEPT ![w] = i + 1]
        /\ UNCHANGED <<pc, cnt, cur>>
     \/ /\ i <= MaxReaders /\ readers[i] # NoProc /\ Gone(readers[i])
        /\ \E j \in WithPid(readers[i]) :
             (\A k \in WithPid(readers[i]) : j <= k) /\ StartWalk(w, j)
  /\ UNCHANGED <<queueVars, blockVars, blk, nxt, size, addr, readerVars, envVars>>

\* One block of the walk; no lock is held.
Visit(t) ==
  LET b    == cur[t]
      mine == {i \in 1..cnt[t] : slots[b][i] # NoProc /\ slots[b][i] = readers[idx[t]]}
  IN
  /\ pc[t] = "visit"
  /\ \/ /\ b = NoBlk
        /\ Goto(t, Walked(t))
        /\ UNCHANGED <<cur, slots, readCount>>
     \/ /\ b # NoBlk /\ mine = {}
        /\ cur' = [cur EXCEPT ![t] = Succ(b)]
        /\ UNCHANGED <<pc, slots, readCount>>
     \/ /\ b # NoBlk
        /\ \E i \in mine :
             /\ \A j \in mine : i <= j
             /\ slots' = [slots EXCEPT ![b][i] = NoProc]
        /\ readCount' = [readCount EXCEPT ![b] = @ - 1]
        /\ Goto(t, "visited")
        /\ UNCHANGED cur
  /\ UNCHANGED <<queueVars, rcdNum, pos, state, aged, mem, blk, nxt, idx, cnt, size, addr,
                 readerVars, envVars>>

\* read_count is read again, and the block marked read when that gave 0.
Visited(t) ==
  /\ pc[t] = "visited"
  /\ IF readCount[cur[t]] = 0
     THEN Goto(t, "visitset") /\ UNCHANGED cur
     ELSE Goto(t, "visit") /\ cur' = [cur EXCEPT ![t] = Succ(cur[t])]
  /\ UNCHANGED <<queueVars, blockVars, blk, nxt, idx, cnt, size, addr, readerVars, envVars>>

VisitSet(t) ==
  /\ pc[t] = "visitset"
  /\ state' = [state EXCEPT ![cur[t]] = "READED"]
  /\ cur' = [cur EXCEPT ![t] = Succ(cur[t])]
  /\ Goto(t, "visit")
  /\ UNCHANGED <<queueVars, rcdNum, pos, readCount, slots, aged, mem, blk, nxt, idx, cnt,
                 size, addr, readerVars, envVars>>

\* ipc_shm_queue_reader_info_clean under reader_info_mark: the reader found
\* before the walk is taken out and the ones behind it move up.
Clean(w) ==
  LET i == idx[w] IN
  /\ pc[w] = "clean" /\ infoMark = Nobody
  /\ \/ /\ refCount = 0
        /\ UNCHANGED <<refCount, readers, wild>>
     \/ /\ refCount > 0 /\ i <= refCount
        /\ refCount' = refCount - 1
        /\ readers' = [j \in Slots |-> IF j < i \/ j > refCount THEN readers[j]
                                       ELSE IF j = refCount THEN NoProc
                                       ELSE readers[j + 1]]
        /\ UNCHANGED wild
     \/ /\ refCount > 0 /\ i > refCount     \* memmove of a negative length
        /\ wild' = TRUE
        /\ UNCHANGED <<refCount, readers>>
  /\ idx' = [idx EXCEPT ![w] = i + 1]
  /\ Goto(w, "scan")
  /\ UNCHANGED <<listVars, writeMark, infoMark, failCnt, blockVars, blk, cur, nxt, cnt,
                 size, addr, readerVars, nextRcd, sent, due, restarts, fails>>

-----------------------------------------------------------------------------
(* Publishing.  ipc_publisher_dbk, check_and_pub_timeout_dbk and           *)
(* exit_pub_dbk hold the same statements.                                  *)

\* The compare-and-swap of cur_w_dbk decides who publishes.
Cas(t) ==
  /\ pc[t] = "cas"
  /\ \/ /\ curW = blk[t]
        /\ curW' = NoBlk
        /\ Goto(t, "pub")
     \/ /\ curW # blk[t]
        /\ Goto(t, Resume(t))
        /\ UNCHANGED curW
  /\ UNCHANGED <<dbkList, freeList, writeMark, infoMark, refCount, readers, failCnt,
                 blockVars, localVars, readerVars, envVars>>

\* DBK_READING and read_count, before reader_info_mark is taken.
PubOneShort(t) ==
  /\ pc[t] = "pub"
  /\ state' = [state EXCEPT ![blk[t]] = "READING"]
  /\ readCount' = [readCount EXCEPT ![blk[t]] = refCount - 1]
  /\ Goto(t, "copy")
  /\ UNCHANGED <<queueVars, rcdNum, pos, slots, aged, mem, localVars, readerVars, envVars>>

Pub(t) ==
  /\ pc[t] = "pub"
  /\ state' = [state EXCEPT ![blk[t]] = "READING"]
  /\ readCount' = [readCount EXCEPT ![blk[t]] = refCount]
  /\ Goto(t, "copy")
  /\ UNCHANGED <<queueVars, rcdNum, pos, slots, aged, mem, localVars, readerVars, envVars>>

\* Under reader_info_mark: the pids.  Slots from ref_count on are not touched.
Copy(t) ==
  /\ pc[t] = "copy" /\ infoMark = Nobody
  /\ slots' = [slots EXCEPT ![blk[t]] =
                 [i \in Slots |-> IF i <= refCount THEN readers[i] ELSE @[i]]]
  /\ Goto(t, "send")
  /\ UNCHANGED <<queueVars, rcdNum, pos, state, readCount, aged, mem, localVars,
                 readerVars, envVars>>

\* zmq_send on the PUB socket: every connected subscriber gets the offset.
SendDrops(t) ==
  /\ pc[t] = "send"
  /\ inbox' = [p \in Procs |-> IF p \in connected /\ ~Gone(p) /\ inbox[p] = <<>>
                               THEN Append(inbox[p], blk[t]) ELSE inbox[p]]
  /\ sent' = nextRcd - 1
  /\ due' = due \ {blk[t]}
  /\ Goto(t, Resume(t))
  /\ UNCHANGED <<queueVars, blockVars, localVars, connected, rpos, rlen, rnum, seen,
                 nextRcd, restarts, fails, wild>>

Send(t) ==
  /\ pc[t] = "send"
  /\ inbox' = [p \in Procs |-> IF p \in connected /\ ~Gone(p)
                               THEN Append(inbox[p], blk[t]) ELSE inbox[p]]
  /\ sent' = nextRcd - 1
  /\ due' = due \ {blk[t]}
  /\ Goto(t, Resume(t))
  /\ UNCHANGED <<queueVars, blockVars, localVars, connected, rpos, rlen, rnum, seen,
                 nextRcd, restarts, fails, wild>>

\* timeout_write_thread_fn wakes up: the exit request, or a look at cur_w_dbk.
Wake ==
  /\ pc[Timeout] = "tsleep"
  /\ \/ /\ pc[Exiter] = "xwait"
        /\ Goto(Timeout, "exited")
        /\ UNCHANGED blk
     \/ /\ pc[Exiter] = "xoff" /\ TimeoutOn /\ curW # NoBlk
        /\ blk' = [blk EXCEPT ![Timeout] = curW]
        /\ Goto(Timeout, "tcheck")
  /\ UNCHANGED <<queueVars, blockVars, cur, nxt, idx, cnt, size, addr, readerVars, envVars>>

\* A block too full for a record of rcd_max_size, or young, is left alone.
TimeoutCheckOffByOne ==
  /\ pc[Timeout] = "tcheck"
  /\ Goto(Timeout, IF ~Full(blk[Timeout], RcdMax + 1) /\ aged[blk[Timeout]] THEN "cas" ELSE "tsleep")
  /\ UNCHANGED <<queueVars, blockVars, localVars, readerVars, envVars>>

TimeoutCheck ==
  /\ pc[Timeout] = "tcheck"
  /\ Goto(Timeout, IF ~Full(blk[Timeout], RcdMax) /\ aged[blk[Timeout]] THEN "cas" ELSE "tsleep")
  /\ UNCHANGED <<queueVars, blockVars, localVars, readerVars, envVars>>

\* Five seconds go by.
Age(b) ==
  /\ ~aged[b] /\ TimeoutOn
  /\ aged' = [aged EXCEPT ![b] = TRUE]
  /\ UNCHANGED <<queueVars, rcdNum, pos, state, readCount, slots, mem, pc, localVars,
                 readerVars, envVars>>

\* destory_ipc_context: stop the timeout thread, then exit_pub_dbk.
Destroy ==
  /\ pc[Exiter] = "xoff" /\ \A w \in Writers : pc[w] = "idle"
  /\ Goto(Exiter, "xwait")
  /\ UNCHANGED <<queueVars, blockVars, localVars, readerVars, envVars>>

ExitReadSkipsFull ==
  /\ pc[Exiter] = "xwait" /\ pc[Timeout] = "exited"
  /\ blk' = [blk EXCEPT ![Exiter] = curW]
  /\ Goto(Exiter, IF curW = NoBlk \/ Full(curW, RcdMax) THEN "xdone" ELSE "cas")
  /\ UNCHANGED <<queueVars, blockVars, cur, nxt, idx, cnt, size, addr, readerVars, envVars>>

ExitRead ==
  /\ pc[Exiter] = "xwait" /\ pc[Timeout] = "exited"
  /\ blk' = [blk EXCEPT ![Exiter] = curW]
  /\ Goto(Exiter, IF curW = NoBlk THEN "xdone" ELSE "cas")
  /\ UNCHANGED <<queueVars, blockVars, cur, nxt, idx, cnt, size, addr, readerVars, envVars>>

-----------------------------------------------------------------------------
(* Reader processes.                                                       *)

\* ipc_shm_reader_register.  A name belongs to one program, started again only
\* when its last process is gone.
Register(p) ==
  /\ pc[p] = "off"
  /\ \A q \in Procs \ {p} : NameOf[q] = NameOf[p] => pc[q] = "off" \/ Gone(q)
  /\ \/ /\ refCount >= MaxReaders
        /\ Goto(p, "refused")
        /\ UNCHANGED <<idx, cnt, cur>>
     \/ /\ refCount < MaxReaders /\ Named(p) = {}
        /\ Goto(p, "connect")
        /\ UNCHANGED <<idx, cnt, cur>>
     \/ /\ refCount < MaxReaders
        /\ \E i \in Named(p) : (\A j \in Named(p) : i <= j) /\ StartWalk(p, i)
  /\ UNCHANGED <<queueVars, blockVars, blk, nxt, size, addr, readerVars, envVars>>

\* zmq_connect and ZMQ_SUBSCRIBE, before the reader is in readers[].
Connect(p) ==
  /\ pc[p] = "connect"
  /\ connected' = connected \cup {p}
  /\ Goto(p, "addlock")
  /\ UNCHANGED <<queueVars, blockVars, localVars, inbox, rpos, rlen, rnum, seen, envVars>>

\* ipc_shm_queue_reader_add: ref_count is raised before the slot has its pid;
\* assert(r_info) fails when no slot is left.
AddLock(p) ==
  /\ pc[p] = "addlock" /\ infoMark = Nobody
  /\ infoMark' = p
  /\ \/ /\ \E i \in Named(p) : (\A j \in Named(p) : i <= j) /\ idx' = [idx EXCEPT ![p] = i]
        /\ Goto(p, "add")
        /\ UNCHANGED refCount
     \/ /\ Named(p) = {}
        /\ \E i \in FreeSlots : (\A j \in FreeSlots : i <= j) /\ idx' = [idx EXCEPT ![p] = i]
        /\ refCount' = refCount + 1
        /\ Goto(p, "add")
     \/ /\ Named(p) = {} /\ FreeSlots = {}
        /\ Goto(p, "aborted")
        /\ UNCHANGED <<refCount, idx>>
  /\ UNCHANGED <<listVars, writeMark, readers, failCnt, blockVars, blk, cur, nxt, cnt,
                 size, addr, readerVars, envVars>>

Add(p) ==
  /\ pc[p] = "add"
  /\ readers' = [readers EXCEPT ![idx[p]] = p]
  /\ infoMark' = Nobody
  /\ Goto(p, "poll")
  /\ UNCHANGED <<listVars, writeMark, refCount, failCnt, blockVars, localVars,
                 readerVars, envVars>>

\* read_thread_fn takes an offset; ipc_dbk_iter_init wants a start mark at the
\* first record, else assert(0).
Recv(p) ==
  /\ pc[p] = "poll" /\ inbox[p] # <<>>
  /\ LET b == Head(inbox[p]) IN
       /\ blk' = [blk EXCEPT ![p] = b]
       /\ Goto(p, IF mem[b][0].len = 0 THEN "aborted" ELSE "read")
       /\ rlen' = [rlen EXCEPT ![p] = mem[b][0].len]
  /\ inbox' = [inbox EXCEPT ![p] = Tail(@)]
  /\ rpos' = [rpos EXCEPT ![p] = 0]
  /\ rnum' = [rnum EXCEPT ![p] = 0]
  /\ UNCHANGED <<queueVars, blockVars, cur, nxt, idx, cnt, size, addr, connected, seen, envVars>>

\* dbk_next looks ahead to the next record and returns the current one, which is
\* read and handled.  rcd_num - 1 is unsigned: 0 records look like very many.
Read(p) ==
  LET b    == blk[p]
      last == rcdNum[b] # 0 /\ rnum[p] >= rcdNum[b] - 1
      next == rpos[p] + rlen[p]
      mark == next \in Cells /\ mem[b][next].len # 0
  IN
  /\ pc[p] = "read"
  /\ \/ /\ last
        /\ Goto(p, "finish")
        /\ UNCHANGED <<rpos, rlen>>
     \/ /\ ~last /\ mark
        /\ rpos' = [rpos EXCEPT ![p] = next]
        /\ rlen' = [rlen EXCEPT ![p] = mem[b][next].len]
        /\ UNCHANGED pc
     \/ /\ ~last /\ ~mark
        /\ Goto(p, "aborted")
        /\ UNCHANGED <<rpos, rlen>>
  /\ rnum' = [rnum EXCEPT ![p] = @ + 1]
  /\ seen' = [seen EXCEPT ![p] = IF last \/ mark THEN Append(@, mem[b][rpos[p]].id) ELSE @]
  /\ UNCHANGED <<queueVars, blockVars, localVars, connected, inbox, envVars>>

\* The end of do_dkb_data_record_read: the reader strikes itself out ...
Finish(p) ==
  LET b    == blk[p]
      mine == {i \in 1..refCount : slots[b][i] = p}
  IN
  /\ pc[p] = "finish"
  /\ \/ /\ readCount[b] > 0
        /\ \E i \in mine :
             (\A j \in mine : i <= j) /\ slots' = [slots EXCEPT ![b][i] = NoProc]
        /\ Goto(p, "dec")
     \/ /\ readCount[b] <= 0 \/ mine = {}
        /\ Goto(p, "recheck")
        /\ UNCHANGED slots
  /\ UNCHANGED <<queueVars, rcdNum, pos, state, readCount, aged, mem, localVars,
                 readerVars, envVars>>

\* ... counts itself off ...
Dec(p) ==
  /\ pc[p] = "dec"
  /\ readCount' = [readCount EXCEPT ![blk[p]] = @ - 1]
  /\ Goto(p, "recheck")
  /\ UNCHANGED <<queueVars, rcdNum, pos, state, slots, aged, mem, localVars, readerVars, envVars>>

\* ... reads read_count again ...
RecheckUntested(p) ==
  /\ pc[p] = "recheck"
  /\ Goto(p, "setread")
  /\ UNCHANGED <<queueVars, blockVars, localVars, readerVars, envVars>>

Recheck(p) ==
  /\ pc[p] = "recheck"
  /\ Goto(p, IF readCount[blk[p]] = 0 THEN "setread" ELSE "poll")
  /\ UNCHANGED <<queueVars, blockVars, localVars, readerVars, envVars>>

\* ... and marks the block read when that gave 0.
SetRead(p) ==
  /\ pc[p] = "setread"
  /\ state' = [state EXCEPT ![blk[p]] = "READED"]
  /\ Goto(p, "poll")
  /\ UNCHANGED <<queueVars, rcdNum, pos, readCount, slots, aged, mem, localVars,
                 readerVars, envVars>>

-----------------------------------------------------------------------------
(* Crashes.                                                                *)

\* A reader process dies; a lock it holds stays locked.
ReaderCrash(p) ==
  /\ ReaderCrashes /\ pc[p] \notin {"off", "refused", "dead", "aborted"}
  /\ Goto(p, "dead")
  /\ UNCHANGED <<queueVars, blockVars, localVars, readerVars, envVars>>

\* The writer process dies and is started again.  ipc_shm_create attaches to the
\* region that is still there, and ipc_shm_queue_create finds the queue and only
\* runs ipc_shm_stat_init.
Restart ==
  /\ restarts < MaxRestarts /\ pc[Exiter] = "xoff"
  /\ restarts' = restarts + 1
  /\ failCnt' = 0
  /\ pc' = [t \in Threads |-> IF t \in Writers THEN "idle"
                              ELSE IF t = Timeout THEN "tsleep" ELSE pc[t]]
  /\ UNCHANGED <<listVars, writeMark, infoMark, refCount, readers, blockVars, localVars,
                 readerVars, nextRcd, sent, due, fails, wild>>

-----------------------------------------------------------------------------

WriterStep(w) ==
  \/ Begin(w) \/ Lock(w) \/ ReadCur(w) \/ Reread(w) \/ Count(w) \/ Alloc(w)
  \/ Collect(w) \/ Reclaim(w) \/ Pick(w) \/ Link(w) \/ SetCur(w) \/ SetWrite(w)
  \/ Area(w) \/ Mark(w) \/ Body(w) \/ Stamp(w) \/ Fail(w) \/ Scan(w) \/ Clean(w)

PubStep(t) == Cas(t) \/ Pub(t) \/ Copy(t) \/ Send(t)

WalkStep(t) == Visit(t) \/ Visited(t) \/ VisitSet(t)

ReaderStep(p) ==
  \/ Register(p) \/ Connect(p) \/ AddLock(p) \/ Add(p)
  \/ Recv(p) \/ Read(p) \/ Finish(p) \/ Dec(p) \/ Recheck(p) \/ SetRead(p)

TimeoutStep == Wake \/ TimeoutCheck

Next ==
  /\ ~wild
  /\ \/ \E w \in Writers : WriterStep(w)
     \/ \E t \in Threads \ Procs : PubStep(t)
     \/ \E t \in Walkers : WalkStep(t)
     \/ \E p \in Procs : ReaderStep(p) \/ ReaderCrash(p)
     \/ TimeoutStep \/ Destroy \/ ExitRead \/ Restart
     \/ \E b \in Blocks : Age(b)

Spec == Init /\ [][Next]_vars

\* Threads that have started a call finish it when they are scheduled: every step
\* of a writer inside ipc_shm_record_write, of a reader thread, of the timeout
\* thread and of a shutdown under way, and time passes.  Nobody is bound to start.
Bound(t) ==
  /\ ~wild
  /\ \/ t \in Writers /\ pc[t] # "idle" /\ (WriterStep(t) \/ PubStep(t) \/ WalkStep(t))
     \/ t \in Procs /\ pc[t] # "off" /\ (ReaderStep(t) \/ WalkStep(t))
     \/ t = Timeout /\ (TimeoutStep \/ PubStep(t))
     \/ t = Exiter /\ (ExitRead \/ PubStep(t))
Fairness ==
  /\ \A t \in Threads : WF_vars(Bound(t))
  /\ \A b \in Blocks : WF_vars(~wild /\ Age(b))

FairSpec == Spec /\ Fairness

-----------------------------------------------------------------------------
(* Properties.                                                             *)

WriterPc  == {"idle", "lock", "get", "reread", "count", "alloc", "collect", "reclaim",
              "pick", "link", "setcur", "setwrite", "area", "mark", "body", "stamp",
              "fail", "scan", "visit", "visited", "visitset", "clean", "cas", "pub", "copy", "send"}
TimeoutPc == {"tsleep", "tcheck", "cas", "pub", "copy", "send", "exited"}
ExiterPc  == {"xoff", "xwait", "cas", "pub", "copy", "send", "xdone"}
ProcPc    == {"off", "refused", "visit", "visited", "visitset", "connect", "addlock", "add", "poll",
              "read", "finish", "dec", "recheck", "setread", "dead", "aborted"}

PcOf(t) == IF t \in Writers THEN WriterPc
           ELSE IF t = Timeout THEN TimeoutPc
           ELSE IF t = Exiter THEN ExiterPc ELSE ProcPc

ListType ==
  /\ curW \in Blocks \cup {NoBlk}
  /\ dbkList \in Seq(Blocks) /\ freeList \in Seq(Blocks)
LockType == writeMark \in Writers \cup {Nobody} /\ infoMark \in Procs \cup {Nobody}
TableType ==
  /\ refCount \in 0..MaxReaders /\ readers \in [Slots -> Procs \cup {NoProc}]
  /\ failCnt \in Nat
BlockType ==
  /\ rcdNum \in [Blocks -> Nat] /\ pos \in [Blocks -> Nat]
  /\ state \in [Blocks -> States] /\ readCount \in [Blocks -> Int]
  /\ slots \in [Blocks -> [Slots -> Procs \cup {NoProc}]]
  /\ aged \in [Blocks -> BOOLEAN]
MemType == mem \in [Blocks -> [Cells -> Entries]]
PcType ==
  /\ pc \in [Threads -> WriterPc \cup TimeoutPc \cup ExiterPc \cup ProcPc]
  /\ \A t \in Threads : pc[t] \in PcOf(t)
LocalType ==
  /\ blk \in [Threads -> Blocks \cup {NoBlk}]
  /\ cur \in [Walkers -> Blocks \cup {NoBlk}] /\ nxt \in [Writers -> Blocks \cup {NoBlk}]
  /\ idx \in [Walkers -> 1..(MaxReaders + 1)] /\ cnt \in [Walkers -> 0..MaxReaders]
  /\ size \in [Writers -> Nat] /\ addr \in [Writers -> Nat]
ReaderType ==
  /\ connected \subseteq Procs /\ inbox \in [Procs -> Seq(Blocks)]
  /\ rpos \in [Procs -> Nat] /\ rlen \in [Procs -> Nat] /\ rnum \in [Procs -> Nat]
  /\ seen \in [Procs -> Seq(Nat)]
EnvType ==
  /\ nextRcd \in Nat \ {0} /\ sent \in Nat /\ due \subseteq Blocks
  /\ restarts \in Nat /\ fails \in Nat /\ wild \in BOOLEAN

\* Type invariant.
TypeOK == ListType /\ LockType /\ TableType /\ BlockType /\ MemType /\ PcType
          /\ LocalType /\ ReaderType /\ EnvType

\* Where a writer holds dbk_write_mark, has a block in hand, or has a block off
\* both lists.
Holding   == {"get", "reread", "count", "alloc", "collect", "reclaim", "pick", "link",
              "setcur", "setwrite", "area", "mark", "body", "stamp", "fail"}
Holds(w)  == pc[w] \in Holding \cup {"cas", "pub", "copy", "send"}
Filling   == {"setcur", "setwrite", "count", "area", "mark", "body", "stamp"}
InTransit == {cur[w] : w \in {v \in Writers : pc[v] = "reclaim"}}
        \cup {blk[w] : w \in {v \in Writers : pc[v] = "link"}}

\* dbk_write_mark (lines 1805-1876): two writers are never between the lock and
\* the unlock of ipc_shm_record_write.
WriteExclusion == \A v, w \in Writers : Holds(v) /\ Holds(w) => v = w

\* The two block lists (lines 1080-1089, 1346-1370): no block is on both, or twice
\* on one, and as long as the writer process did not die none is lost.
ListsPartition ==
  /\ IsInjective(dbkList) /\ IsInjective(freeList)
  /\ ToSet(dbkList) \cap ToSet(freeList) = {}
  /\ InTransit \cap (ToSet(dbkList) \cup ToSet(freeList)) = {}
  /\ restarts = 0 => ToSet(dbkList) \cup ToSet(freeList) \cup InTransit = Blocks

\* readers[] and ref_count (lines 1000-1051, 1287-1315): whenever reader_info_mark is
\* free the readers fill the table from its start, and no two have one name, however
\* registrations, deaths and clean-ups were interleaved.
ReadersCompact ==
  infoMark = Nobody =>
    /\ \A i \in Slots : readers[i] # NoProc <=> i <= refCount
    /\ \A i, j \in 1..refCount : NameOf[readers[i]] = NameOf[readers[j]] => i = j

\* cur_w_dbk (lines 1535-1574): the block records are appended to, and the one a
\* writer holds in its hand, are on the used list: they cannot be given out again.
WrittenBlockUsed ==
  /\ curW # NoBlk => curW \in ToSet(dbkList)
  /\ \A w \in Writers : pc[w] \in Filling => blk[w] \in ToSet(dbkList)

\* ipc_queue_dbk_full and decision_write_area (lines 386-390, 1582-1599): a record
\* never extends past its data block, and a free block starts empty.
NoOverrun ==
  /\ \A b \in Blocks : pos[b] <= BlkSize[b]
  /\ \A w \in Writers :
       pc[w] \in {"count", "link", "setcur", "setwrite", "area"} => ~Full(blk[w], size[w])
  /\ \A i \in DOMAIN freeList : pos[freeList[i]] = 0 /\ rcdNum[freeList[i]] = 0

\* A used block that no writer is in holds exactly rcd_num complete records, one
\* right behind the other from the header to dbk_pos: what dbk_next (lines
\* 1893-1950) relies on.  A writer killed inside a block leaves one that does not.
Starts(b) == {c \in 0..(pos[b] - 1) : mem[b][c].len > 0}
Complete(b) ==
  /\ Cardinality(Starts(b)) = rcdNum[b] /\ rcdNum[b] > 0
  /\ 0 \in Starts(b)
  /\ \A c \in Starts(b) :
       c + mem[b][c].len \in Starts(b) \cup {pos[b]} /\ mem[b][c].id > 0
  /\ \A c, d \in Starts(b) : d <= c \/ c + mem[b][c].len <= d
UsedBlocksComplete ==
  restarts = 0 =>
    \A i \in DOMAIN dbkList :
      (\A w \in Writers : ~(pc[w] \in Filling /\ blk[w] = dbkList[i])) => Complete(dbkList[i])

-----------------------------------------------------------------------------
(* Delivery.  What the readers that joined first can rely on, as long as   *)
(* the queue is calm: nothing of what the code has no answer to happened.  *)

Publishing == {"pub", "copy", "send"}

\* A call of ipc_shm_record_write overlaps a publication by the timeout thread, which
\* takes the block with the record that is being written, or one that has read_count 0
\* and is collected at once (lines 419-430, 1536, 1859).
Overlap == pc[Timeout] \in Publishing /\ \E w \in Writers : Holds(w)

\* A reader about to set DBK_READED was so slow that the block is published anew (line 2050).
LateMark == \E p \in Procs, t \in Threads \ Procs :
  pc[p] = "setread" /\ pc[t] \in {"copy", "send"} /\ blk[t] = blk[p]

\* A registration overlaps the writing of read_count and of the pids: between the two
\* ref_count grows (lines 1411, 1302).
LateJoin == (\E t \in Threads \ Procs : pc[t] = "copy") /\ (\E p \in Procs : pc[p] = "add")

\* Nobody died, and none of the three races was run into.
Calm == restarts = 0 /\ (\A p \in Procs : ~Gone(p)) /\ ~Overlap /\ ~LateMark /\ ~LateJoin

\* The behaviours that stay calm.  Neither a shutdown nor time is needed for delivery.
CalmNext == Next /\ Calm'
CalmFairness == \A t \in Threads \ {Exiter} : WF_vars(Bound(t) /\ Calm')
CalmSpec == Init /\ [][CalmNext]_vars /\ CalmFairness

Subscribers == ToSet(Joined)

\* What a reader still has to do with a block: its offset is in the inbox, or the
\* block is being read.
ToRead(p) == ToSet(inbox[p]) \cup (IF pc[p] \in {"read", "finish"} THEN {blk[p]} ELSE {})

\* read_count and reader_pid[] (lines 165-166, 1381-1426, 1999-2054): a block a
\* reader still has to read stays on the used list, closed to writers, with the
\* reader's pid in a slot below ref_count -- until that reader is through with it.
UnreadProtected ==
  \A p \in Subscribers : \A b \in ToRead(p) :
    /\ b \in ToSet(dbkList) /\ ~Collectable(b)
    /\ curW # b /\ \A w \in Writers : pc[w] \in Filling => blk[w] # b
    /\ \E i \in 1..refCount : slots[b][i] = p

\* read_count (line 165) is the number of readers that still have to read the
\* block: of those whose pid is in a slot, and of those just counting themselves off.
ReadCountExact ==
  \A b \in ToSet(dbkList) :
    curW # b /\ (\A t \in Threads : pc[t] \in Filling \cup {"pub", "copy"} => blk[t] # b)
    => readCount[b] = Cardinality({i \in Slots : slots[b][i] # NoProc})
                    + Cardinality({p \in Procs : pc[p] = "dec" /\ blk[p] = b})

\* The queue is a stream of records (see RecordStream) of the capacity of its blocks.
Stream == INSTANCE RecordStream WITH
  Readers   <- Subscribers,
  Capacity  <- Cardinality({c \in Blocks \X Cells : c[2] < BlkSize[c[1]]}),
  written   <- nextRcd - 1,
  published <- sent,
  got       <- [p \in Subscribers |-> seen[p]]

\* Refinement: each reader is handed every broadcast record once and in order.
ImplementsStream == Stream!Spec

-----------------------------------------------------------------------------
(* Liveness.                                                               *)

\* ipc_shm_record_write (lines 1787-1878) returns, with or without a block.
WriteReturns == \A w \in Writers : pc[w] # "idle" ~> (pc[w] = "idle" \/ wild)

\* check_and_pub_timeout_dbk (lines 395-468): a block that has room for a largest
\* record does not stay the current one for ever.
OldBlockPublished ==
  \A b \in Blocks :
    (curW = b /\ ~Full(b, RcdMax)) ~> (curW # b \/ Full(b, RcdMax) \/ wild)

\* exit_pub_dbk (lines 475-545, "publish the data block not yet written full when
\* the process exits"): after the shutdown no block is open, and each that ever was open
\* was broadcast after that, whoever took it -- unless the writer process was killed.
ShutdownPublishesAll ==
  pc[Exiter] = "xdone" => curW = NoBlk /\ (restarts = 0 => due = {})

=============================================================================
