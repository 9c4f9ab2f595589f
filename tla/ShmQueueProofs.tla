--------------------------- MODULE ShmQueueProofs ---------------------------
(***************************************************************************)
(* Theorems about ShmQueue, for every number of blocks, threads, readers   *)
(* and records, with the timeout thread, crashes and restarts: the types,  *)
(* and the safety invariants: the write lock, the two block lists, the     *)
(* room in a block, the table of readers, what is in a used block, and     *)
(* what a shutdown leaves behind.                                          *)
(***************************************************************************)
EXTENDS ShmQueue, SequenceTheorems, FiniteSetTheorems, TLAPS

-----------------------------------------------------------------------------
(* Which actions change which group of variables: one lemma per group.     *)

\* Who changes cur_w_dbk and the two block lists.
LEMMA ListFrame ==
  ASSUME Next
  PROVE  \/ UNCHANGED listVars
         \/ \E w \in Writers : Collect(w) \/ Reclaim(w) \/ Pick(w) \/ Link(w) \/
            SetCur(w)
         \/ \E t \in Threads \ Procs : Cas(t)
<1>1. ASSUME NEW w \in Writers,
             Begin(w) \/ Lock(w) \/ ReadCur(w) \/ Reread(w) \/ Count(w) \/ Alloc(w) \/
             SetWrite(w) \/ Area(w) \/ Mark(w) \/ Body(w) \/ Stamp(w) \/ Fail(w) \/
             Scan(w) \/ Clean(w)
      PROVE  UNCHANGED listVars
  BY <1>1 DEF Begin, Lock, ReadCur, Reread, Count, Alloc, SetWrite, Area, Mark, Body,
    Stamp, Fail, Scan, Clean, queueVars, listVars, blockVars, localVars, readerVars,
    envVars
<1>2. ASSUME NEW t \in Threads \ Procs,
             Pub(t) \/ Copy(t) \/ Send(t)
      PROVE  UNCHANGED listVars
  BY <1>2 DEF Pub, Copy, Send, queueVars, listVars, blockVars, localVars, readerVars,
    envVars
<1>3. ASSUME NEW t \in Walkers,
             Visit(t) \/ Visited(t) \/ VisitSet(t)
      PROVE  UNCHANGED listVars
  BY <1>3 DEF Visit, Visited, VisitSet, queueVars, listVars, blockVars, localVars,
    readerVars, envVars
<1>4. ASSUME NEW p \in Procs,
             Register(p) \/ Connect(p) \/ AddLock(p) \/ Add(p) \/ Recv(p) \/ Read(p) \/
             Finish(p) \/ Dec(p) \/ Recheck(p) \/ SetRead(p) \/ ReaderCrash(p)
      PROVE  UNCHANGED listVars
  BY <1>4 DEF Register, Connect, AddLock, Add, Recv, Read, Finish, Dec, Recheck,
    SetRead, ReaderCrash, queueVars, listVars, blockVars, localVars, readerVars, envVars
<1>5. ASSUME Wake \/ TimeoutCheck \/ Destroy \/ ExitRead \/ Restart
      PROVE  UNCHANGED listVars
  BY <1>5 DEF Wake, TimeoutCheck, Destroy, ExitRead, Restart, queueVars,
    listVars, blockVars, localVars, readerVars, envVars
<1>6. ASSUME NEW b \in Blocks, Age(b)
      PROVE  UNCHANGED listVars
  BY <1>6 DEF Age, queueVars, listVars, blockVars, localVars, readerVars, envVars
<1>7. QED
  BY <1>1, <1>2, <1>3, <1>4, <1>5, <1>6 DEF Next, WriterStep, PubStep, WalkStep,
    ReaderStep, TimeoutStep

\* Who changes the two spin locks.
LEMMA LockFrame ==
  ASSUME Next
  PROVE  \/ UNCHANGED <<writeMark, infoMark>>
         \/ \E w \in Writers : Lock(w) \/ Stamp(w) \/ Fail(w)
         \/ \E p \in Procs : AddLock(p) \/ Add(p)
<1>1. ASSUME NEW w \in Writers,
             Begin(w) \/ ReadCur(w) \/ Reread(w) \/ Count(w) \/ Alloc(w) \/
             Collect(w) \/ Reclaim(w) \/ Pick(w) \/ Link(w) \/ SetCur(w) \/
             SetWrite(w) \/ Area(w) \/ Mark(w) \/ Body(w) \/ Scan(w) \/ Clean(w)
      PROVE  UNCHANGED <<writeMark, infoMark>>
  BY <1>1 DEF Begin, ReadCur, Reread, Count, Alloc, Collect, Reclaim, Pick, Link,
    SetCur, SetWrite, Area, Mark, Body, Scan, Clean, queueVars, listVars, blockVars,
    localVars, readerVars, envVars
<1>2. ASSUME NEW t \in Threads \ Procs,
             Cas(t) \/ Pub(t) \/ Copy(t) \/ Send(t)
      PROVE  UNCHANGED <<writeMark, infoMark>>
  BY <1>2 DEF Cas, Pub, Copy, Send, queueVars, listVars, blockVars, localVars,
    readerVars, envVars
<1>3. ASSUME NEW t \in Walkers,
             Visit(t) \/ Visited(t) \/ VisitSet(t)
      PROVE  UNCHANGED <<writeMark, infoMark>>
  BY <1>3 DEF Visit, Visited, VisitSet, queueVars, listVars, blockVars, localVars,
    readerVars, envVars
<1>4. ASSUME NEW p \in Procs,
             Register(p) \/ Connect(p) \/ Recv(p) \/ Read(p) \/ Finish(p) \/ Dec(p) \/
             Recheck(p) \/ SetRead(p) \/ ReaderCrash(p)
      PROVE  UNCHANGED <<writeMark, infoMark>>
  BY <1>4 DEF Register, Connect, Recv, Read, Finish, Dec, Recheck, SetRead,
    ReaderCrash, queueVars, listVars, blockVars, localVars, readerVars, envVars
<1>5. ASSUME Wake \/ TimeoutCheck \/ Destroy \/ ExitRead \/ Restart
      PROVE  UNCHANGED <<writeMark, infoMark>>
  BY <1>5 DEF Wake, TimeoutCheck, Destroy, ExitRead, Restart, queueVars,
    listVars, blockVars, localVars, readerVars, envVars
<1>6. ASSUME NEW b \in Blocks, Age(b)
      PROVE  UNCHANGED <<writeMark, infoMark>>
  BY <1>6 DEF Age, queueVars, listVars, blockVars, localVars, readerVars, envVars
<1>7. QED
  BY <1>1, <1>2, <1>3, <1>4, <1>5, <1>6 DEF Next, WriterStep, PubStep, WalkStep,
    ReaderStep, TimeoutStep

\* Who changes the table of readers, ref_count and get_blk_failed_cnt.
LEMMA TableFrame ==
  ASSUME Next
  PROVE  \/ UNCHANGED <<refCount, readers, failCnt>>
         \/ \E w \in Writers : Fail(w) \/ Clean(w)
         \/ \E p \in Procs : AddLock(p) \/ Add(p)
         \/ Restart
<1>1. ASSUME NEW w \in Writers,
             Begin(w) \/ Lock(w) \/ ReadCur(w) \/ Reread(w) \/ Count(w) \/ Alloc(w) \/
             Collect(w) \/ Reclaim(w) \/ Pick(w) \/ Link(w) \/ SetCur(w) \/
             SetWrite(w) \/ Area(w) \/ Mark(w) \/ Body(w) \/ Stamp(w) \/ Scan(w)
      PROVE  UNCHANGED <<refCount, readers, failCnt>>
  BY <1>1 DEF Begin, Lock, ReadCur, Reread, Count, Alloc, Collect, Reclaim, Pick, Link,
    SetCur, SetWrite, Area, Mark, Body, Stamp, Scan, queueVars, listVars, blockVars,
    localVars, readerVars, envVars
<1>2. ASSUME NEW t \in Threads \ Procs,
             Cas(t) \/ Pub(t) \/ Copy(t) \/ Send(t)
      PROVE  UNCHANGED <<refCount, readers, failCnt>>
  BY <1>2 DEF Cas, Pub, Copy, Send, queueVars, listVars, blockVars, localVars,
    readerVars, envVars
<1>3. ASSUME NEW t \in Walkers,
             Visit(t) \/ Visited(t) \/ VisitSet(t)
      PROVE  UNCHANGED <<refCount, readers, failCnt>>
  BY <1>3 DEF Visit, Visited, VisitSet, queueVars, listVars, blockVars, localVars,
    readerVars, envVars
<1>4. ASSUME NEW p \in Procs,
             Register(p) \/ Connect(p) \/ Recv(p) \/ Read(p) \/ Finish(p) \/ Dec(p) \/
             Recheck(p) \/ SetRead(p) \/ ReaderCrash(p)
      PROVE  UNCHANGED <<refCount, readers, failCnt>>
  BY <1>4 DEF Register, Connect, Recv, Read, Finish, Dec, Recheck, SetRead,
    ReaderCrash, queueVars, listVars, blockVars, localVars, readerVars, envVars
<1>5. ASSUME Wake \/ TimeoutCheck \/ Destroy \/ ExitRead
      PROVE  UNCHANGED <<refCount, readers, failCnt>>
  BY <1>5 DEF Wake, TimeoutCheck, Destroy, ExitRead, queueVars, listVars,
    blockVars, localVars, readerVars, envVars
<1>6. ASSUME NEW b \in Blocks, Age(b)
      PROVE  UNCHANGED <<refCount, readers, failCnt>>
  BY <1>6 DEF Age, queueVars, listVars, blockVars, localVars, readerVars, envVars
<1>7. QED
  BY <1>1, <1>2, <1>3, <1>4, <1>5, <1>6 DEF Next, WriterStep, PubStep, WalkStep,
    ReaderStep, TimeoutStep

\* Who changes the header of a data block.
LEMMA BlockFrame ==
  ASSUME Next
  PROVE  \/ UNCHANGED <<rcdNum, pos, state, readCount, slots, aged>>
         \/ \E w \in Writers : Count(w) \/ Reclaim(w) \/ SetWrite(w) \/ Area(w) \/
            Stamp(w)
         \/ \E t \in Threads \ Procs : Pub(t) \/ Copy(t)
         \/ \E t \in Walkers : Visit(t) \/ VisitSet(t)
         \/ \E p \in Procs : Finish(p) \/ Dec(p) \/ SetRead(p)
         \/ \E b \in Blocks : Age(b)
<1>1. ASSUME NEW w \in Writers,
             Begin(w) \/ Lock(w) \/ ReadCur(w) \/ Reread(w) \/ Alloc(w) \/
             Collect(w) \/ Pick(w) \/ Link(w) \/ SetCur(w) \/ Mark(w) \/ Body(w) \/
             Fail(w) \/ Scan(w) \/ Clean(w)
      PROVE  UNCHANGED <<rcdNum, pos, state, readCount, slots, aged>>
  BY <1>1 DEF Begin, Lock, ReadCur, Reread, Alloc, Collect, Pick, Link, SetCur, Mark,
    Body, Fail, Scan, Clean, queueVars, listVars, blockVars, localVars, readerVars,
    envVars
<1>2. ASSUME NEW t \in Threads \ Procs,
             Cas(t) \/ Send(t)
      PROVE  UNCHANGED <<rcdNum, pos, state, readCount, slots, aged>>
  BY <1>2 DEF Cas, Send, queueVars, listVars, blockVars, localVars, readerVars, envVars
<1>3. ASSUME NEW t \in Walkers,
             Visited(t)
      PROVE  UNCHANGED <<rcdNum, pos, state, readCount, slots, aged>>
  BY <1>3 DEF Visited, queueVars, listVars, blockVars, localVars, readerVars, envVars
<1>4. ASSUME NEW p \in Procs,
             Register(p) \/ Connect(p) \/ AddLock(p) \/ Add(p) \/ Recv(p) \/ Read(p) \/
             Recheck(p) \/ ReaderCrash(p)
      PROVE  UNCHANGED <<rcdNum, pos, state, readCount, slots, aged>>
  BY <1>4 DEF Register, Connect, AddLock, Add, Recv, Read, Recheck, ReaderCrash,
    queueVars, listVars, blockVars, localVars, readerVars, envVars
<1>5. ASSUME Wake \/ TimeoutCheck \/ Destroy \/ ExitRead \/ Restart
      PROVE  UNCHANGED <<rcdNum, pos, state, readCount, slots, aged>>
  BY <1>5 DEF Wake, TimeoutCheck, Destroy, ExitRead, Restart, queueVars,
    listVars, blockVars, localVars, readerVars, envVars
<1>6. QED
  BY <1>1, <1>2, <1>3, <1>4, <1>5 DEF Next, WriterStep, PubStep, WalkStep,
    ReaderStep, TimeoutStep

\* Who changes the records in a data block.
LEMMA MemFrame ==
  ASSUME Next
  PROVE  \/ UNCHANGED mem
         \/ \E w \in Writers : Mark(w) \/ Body(w)
<1>1. ASSUME NEW w \in Writers,
             Begin(w) \/ Lock(w) \/ ReadCur(w) \/ Reread(w) \/ Count(w) \/ Alloc(w) \/
             Collect(w) \/ Reclaim(w) \/ Pick(w) \/ Link(w) \/ SetCur(w) \/
             SetWrite(w) \/ Area(w) \/ Stamp(w) \/ Fail(w) \/ Scan(w) \/ Clean(w)
      PROVE  UNCHANGED mem
  BY <1>1 DEF Begin, Lock, ReadCur, Reread, Count, Alloc, Collect, Reclaim, Pick, Link,
    SetCur, SetWrite, Area, Stamp, Fail, Scan, Clean, queueVars, listVars, blockVars,
    localVars, readerVars, envVars
<1>2. ASSUME NEW t \in Threads \ Procs,
             Cas(t) \/ Pub(t) \/ Copy(t) \/ Send(t)
      PROVE  UNCHANGED mem
  BY <1>2 DEF Cas, Pub, Copy, Send, queueVars, listVars, blockVars, localVars,
    readerVars, envVars
<1>3. ASSUME NEW t \in Walkers,
             Visit(t) \/ Visited(t) \/ VisitSet(t)
      PROVE  UNCHANGED mem
  BY <1>3 DEF Visit, Visited, VisitSet, queueVars, listVars, blockVars, localVars,
    readerVars, envVars
<1>4. ASSUME NEW p \in Procs,
             Register(p) \/ Connect(p) \/ AddLock(p) \/ Add(p) \/ Recv(p) \/ Read(p) \/
             Finish(p) \/ Dec(p) \/ Recheck(p) \/ SetRead(p) \/ ReaderCrash(p)
      PROVE  UNCHANGED mem
  BY <1>4 DEF Register, Connect, AddLock, Add, Recv, Read, Finish, Dec, Recheck,
    SetRead, ReaderCrash, queueVars, listVars, blockVars, localVars, readerVars, envVars
<1>5. ASSUME Wake \/ TimeoutCheck \/ Destroy \/ ExitRead \/ Restart
      PROVE  UNCHANGED mem
  BY <1>5 DEF Wake, TimeoutCheck, Destroy, ExitRead, Restart, queueVars,
    listVars, blockVars, localVars, readerVars, envVars
<1>6. ASSUME NEW b \in Blocks, Age(b)
      PROVE  UNCHANGED mem
  BY <1>6 DEF Age, queueVars, listVars, blockVars, localVars, readerVars, envVars
<1>7. QED
  BY <1>1, <1>2, <1>3, <1>4, <1>5, <1>6 DEF Next, WriterStep, PubStep, WalkStep,
    ReaderStep, TimeoutStep

\* Who changes the locals of the threads.
LEMMA LocalFrame ==
  ASSUME Next
  PROVE  \/ UNCHANGED localVars
         \/ \E w \in Writers : Begin(w) \/ ReadCur(w) \/ Reread(w) \/ Alloc(w) \/
            Collect(w) \/ Reclaim(w) \/ Pick(w) \/ Area(w) \/ Fail(w) \/ Scan(w) \/
            Clean(w)
         \/ \E t \in Walkers : Visit(t) \/ Visited(t) \/ VisitSet(t)
         \/ \E p \in Procs : Register(p) \/ AddLock(p) \/ Recv(p)
         \/ Wake \/ ExitRead
<1>1. ASSUME NEW w \in Writers,
             Lock(w) \/ Count(w) \/ Link(w) \/ SetCur(w) \/ SetWrite(w) \/ Mark(w) \/
             Body(w) \/ Stamp(w)
      PROVE  UNCHANGED localVars
  BY <1>1 DEF Lock, Count, Link, SetCur, SetWrite, Mark, Body, Stamp, queueVars,
    listVars, blockVars, localVars, readerVars, envVars
<1>2. ASSUME NEW t \in Threads \ Procs,
             Cas(t) \/ Pub(t) \/ Copy(t) \/ Send(t)
      PROVE  UNCHANGED localVars
  BY <1>2 DEF Cas, Pub, Copy, Send, queueVars, listVars, blockVars, localVars,
    readerVars, envVars
<1>3. ASSUME NEW p \in Procs,
             Connect(p) \/ Add(p) \/ Read(p) \/ Finish(p) \/ Dec(p) \/ Recheck(p) \/
             SetRead(p) \/ ReaderCrash(p)
      PROVE  UNCHANGED localVars
  BY <1>3 DEF Connect, Add, Read, Finish, Dec, Recheck, SetRead, ReaderCrash,
    queueVars, listVars, blockVars, localVars, readerVars, envVars
<1>4. ASSUME TimeoutCheck \/ Destroy \/ Restart
      PROVE  UNCHANGED localVars
  BY <1>4 DEF TimeoutCheck, Destroy, Restart, queueVars, listVars, blockVars,
    localVars, readerVars, envVars
<1>5. ASSUME NEW b \in Blocks, Age(b)
      PROVE  UNCHANGED localVars
  BY <1>5 DEF Age, queueVars, listVars, blockVars, localVars, readerVars, envVars
<1>6. QED
  BY <1>1, <1>2, <1>3, <1>4, <1>5 DEF Next, WriterStep, PubStep, WalkStep,
    ReaderStep, TimeoutStep

\* Who changes the subscriptions, the iterators and the records handed out.
LEMMA ReaderFrame ==
  ASSUME Next
  PROVE  \/ UNCHANGED readerVars
         \/ \E t \in Threads \ Procs : Send(t)
         \/ \E p \in Procs : Connect(p) \/ Recv(p) \/ Read(p)
<1>1. ASSUME NEW w \in Writers,
             Begin(w) \/ Lock(w) \/ ReadCur(w) \/ Reread(w) \/ Count(w) \/ Alloc(w) \/
             Collect(w) \/ Reclaim(w) \/ Pick(w) \/ Link(w) \/ SetCur(w) \/
             SetWrite(w) \/ Area(w) \/ Mark(w) \/ Body(w) \/ Stamp(w) \/ Fail(w) \/
             Scan(w) \/ Clean(w)
      PROVE  UNCHANGED readerVars
  BY <1>1 DEF Begin, Lock, ReadCur, Reread, Count, Alloc, Collect, Reclaim, Pick, Link,
    SetCur, SetWrite, Area, Mark, Body, Stamp, Fail, Scan, Clean, queueVars, listVars,
    blockVars, localVars, readerVars, envVars
<1>2. ASSUME NEW t \in Threads \ Procs,
             Cas(t) \/ Pub(t) \/ Copy(t)
      PROVE  UNCHANGED readerVars
  BY <1>2 DEF Cas, Pub, Copy, queueVars, listVars, blockVars, localVars, readerVars,
    envVars
<1>3. ASSUME NEW t \in Walkers,
             Visit(t) \/ Visited(t) \/ VisitSet(t)
      PROVE  UNCHANGED readerVars
  BY <1>3 DEF Visit, Visited, VisitSet, queueVars, listVars, blockVars, localVars,
    readerVars, envVars
<1>4. ASSUME NEW p \in Procs,
             Register(p) \/ AddLock(p) \/ Add(p) \/ Finish(p) \/ Dec(p) \/
             Recheck(p) \/ SetRead(p) \/ ReaderCrash(p)
      PROVE  UNCHANGED readerVars
  BY <1>4 DEF Register, AddLock, Add, Finish, Dec, Recheck, SetRead, ReaderCrash,
    queueVars, listVars, blockVars, localVars, readerVars, envVars
<1>5. ASSUME Wake \/ TimeoutCheck \/ Destroy \/ ExitRead \/ Restart
      PROVE  UNCHANGED readerVars
  BY <1>5 DEF Wake, TimeoutCheck, Destroy, ExitRead, Restart, queueVars,
    listVars, blockVars, localVars, readerVars, envVars
<1>6. ASSUME NEW b \in Blocks, Age(b)
      PROVE  UNCHANGED readerVars
  BY <1>6 DEF Age, queueVars, listVars, blockVars, localVars, readerVars, envVars
<1>7. QED
  BY <1>1, <1>2, <1>3, <1>4, <1>5, <1>6 DEF Next, WriterStep, PubStep, WalkStep,
    ReaderStep, TimeoutStep

\* Who changes the history, the counters of the bounds and wild.
LEMMA EnvFrame ==
  ASSUME Next
  PROVE  \/ UNCHANGED envVars
         \/ \E w \in Writers : Reread(w) \/ Alloc(w) \/ SetCur(w) \/ Body(w) \/ Fail(w) \/
            Clean(w)
         \/ \E t \in Threads \ Procs : Send(t)
         \/ Restart
<1>1. ASSUME NEW w \in Writers,
             Begin(w) \/ Lock(w) \/ ReadCur(w) \/ Count(w) \/ Collect(w) \/
             Reclaim(w) \/ Pick(w) \/ Link(w) \/ SetWrite(w) \/ Area(w) \/
             Mark(w) \/ Stamp(w) \/ Scan(w)
      PROVE  UNCHANGED envVars
  BY <1>1 DEF Begin, Lock, ReadCur, Count, Collect, Reclaim, Pick, Link,
    SetWrite, Area, Mark, Stamp, Scan, queueVars, listVars, blockVars, localVars,
    readerVars, envVars
<1>2. ASSUME NEW t \in Threads \ Procs,
             Cas(t) \/ Pub(t) \/ Copy(t)
      PROVE  UNCHANGED envVars
  BY <1>2 DEF Cas, Pub, Copy, queueVars, listVars, blockVars, localVars, readerVars,
    envVars
<1>3. ASSUME NEW t \in Walkers,
             Visit(t) \/ Visited(t) \/ VisitSet(t)
      PROVE  UNCHANGED envVars
  BY <1>3 DEF Visit, Visited, VisitSet, queueVars, listVars, blockVars, localVars,
    readerVars, envVars
<1>4. ASSUME NEW p \in Procs,
             Register(p) \/ Connect(p) \/ AddLock(p) \/ Add(p) \/ Recv(p) \/ Read(p) \/
             Finish(p) \/ Dec(p) \/ Recheck(p) \/ SetRead(p) \/ ReaderCrash(p)
      PROVE  UNCHANGED envVars
  BY <1>4 DEF Register, Connect, AddLock, Add, Recv, Read, Finish, Dec, Recheck,
    SetRead, ReaderCrash, queueVars, listVars, blockVars, localVars, readerVars, envVars
<1>5. ASSUME Wake \/ TimeoutCheck \/ Destroy \/ ExitRead
      PROVE  UNCHANGED envVars
  BY <1>5 DEF Wake, TimeoutCheck, Destroy, ExitRead, queueVars, listVars,
    blockVars, localVars, readerVars, envVars
<1>6. ASSUME NEW b \in Blocks, Age(b)
      PROVE  UNCHANGED envVars
  BY <1>6 DEF Age, queueVars, listVars, blockVars, localVars, readerVars, envVars
<1>7. QED
  BY <1>1, <1>2, <1>3, <1>4, <1>5, <1>6 DEF Next, WriterStep, PubStep, WalkStep,
    ReaderStep, TimeoutStep

-----------------------------------------------------------------------------
(* Sequences without repetitions: what the two block lists rest on.        *)

\* A new first element (ipc_queue_dbk_add).
LEMMA ConsList ==
  ASSUME NEW S, NEW s \in Seq(S), NEW e \in S
  PROVE  /\ Cons(e, s) \in Seq(S)
         /\ ToSet(Cons(e, s)) = ToSet(s) \cup {e}
         /\ IsInjective(s) /\ e \notin ToSet(s) => IsInjective(Cons(e, s))
<1> DEFINE c == Cons(e, s)
<1>1. c \in Seq(S) /\ Len(c) = Len(s) + 1 /\ c[1] = e /\ \A i \in 1..Len(s) : c[i + 1] = s[i]
  <2>1. <<e>> \in Seq(S) /\ Len(<<e>>) = 1 /\ <<e>>[1] = e
    OBVIOUS
  <2>2. QED
    BY <2>1, ConcatProperties, LenProperties DEF Cons
<1>2. DOMAIN c = 1..(Len(s) + 1) /\ DOMAIN s = 1..Len(s) /\ Len(s) \in Nat
  BY <1>1, LenProperties
<1>3. \A i \in DOMAIN c : i = 1 \/ (i - 1 \in DOMAIN s /\ c[i] = s[i - 1])
  BY <1>1, <1>2
<1> HIDE DEF c
<1>4. ToSet(c) = ToSet(s) \cup {e}
  <2>1. ToSet(c) \subseteq ToSet(s) \cup {e}
    BY <1>1, <1>2, <1>3 DEF ToSet
  <2>2. ToSet(s) \subseteq ToSet(c) /\ e \in ToSet(c)
    <3>1. \A i \in DOMAIN s : i + 1 \in DOMAIN c /\ c[i + 1] = s[i]
      BY <1>1, <1>2
    <3>2. QED
      BY <1>1, <1>2, <3>1 DEF ToSet
  <2>3. QED
    BY <2>1, <2>2
<1>5. ASSUME IsInjective(s), e \notin ToSet(s)
      PROVE  IsInjective(c)
  BY <1>1, <1>2, <1>3, <1>5 DEF IsInjective, ToSet
<1>6. QED
  BY <1>1, <1>4, <1>5 DEF c

\* An element taken out (ipc_queue_dbk_mov).
LEMMA UnlinkList ==
  ASSUME NEW S, NEW s \in Seq(S), NEW k \in 1..Len(s)
  PROVE  /\ Unlink(s, k) \in Seq(S)
         /\ IsInjective(s) => /\ IsInjective(Unlink(s, k))
                              /\ ToSet(Unlink(s, k)) = ToSet(s) \ {s[k]}
<1> DEFINE u == Unlink(s, k)
<1>1. Len(s) \in Nat /\ DOMAIN s = 1..Len(s) /\ \A i \in 1..Len(s) : s[i] \in S
  BY LenProperties, ElementOfSeq
<1>2. /\ u \in Seq(S) /\ Len(u) = Len(s) - 1
      /\ \A i \in 1..(Len(s) - 1) : u[i] = IF i < k THEN s[i] ELSE s[i + 1]
  <2> DEFINE a == SubSeq(s, 1, k - 1)
             z == SubSeq(s, k + 1, Len(s))
  <2>1. a \in Seq(S) /\ Len(a) = k - 1 /\ \A i \in 1..(k - 1) : a[i] = s[i]
    <3>1. 1 \in Int /\ k - 1 \in Int /\ \A i \in 1..(k - 1) : s[i] \in S
      BY <1>1
    <3>2. /\ a \in Seq(S) /\ Len(a) = IF 1 <= k - 1 THEN (k - 1) - 1 + 1 ELSE 0
          /\ \A i \in 1..((k - 1) - 1 + 1) : a[i] = s[1 + i - 1]
      BY <3>1, SubSeqProperties
    <3>3. QED
      BY <1>1, <3>2
  <2>2. z \in Seq(S) /\ Len(z) = Len(s) - k /\ \A i \in 1..(Len(s) - k) : z[i] = s[k + i]
    <3>1. k + 1 \in Int /\ Len(s) \in Int /\ \A i \in (k + 1)..Len(s) : s[i] \in S
      <4>1. \A i \in (k + 1)..Len(s) : i \in 1..Len(s)
        BY <1>1
      <4>2. QED
        BY <1>1, <4>1
    <3>2. /\ z \in Seq(S) /\ Len(z) = IF k + 1 <= Len(s) THEN Len(s) - (k + 1) + 1 ELSE 0
          /\ \A i \in 1..(Len(s) - (k + 1) + 1) : z[i] = s[(k + 1) + i - 1]
      BY <3>1, SubSeqProperties
    <3> HIDE DEF z
    <3>3. ASSUME NEW i \in 1..(Len(s) - k)
          PROVE  z[i] = s[k + i]
      <4>1. i \in 1..(Len(s) - (k + 1) + 1) /\ (k + 1) + i - 1 = k + i
        BY <1>1
      <4>2. QED
        BY <3>2, <4>1
    <3>4. Len(z) = Len(s) - k
      <4>1. Len(s) \in Nat /\ k \in 1..Len(s)
        BY <1>1
      <4>2. Len(z) = IF k + 1 <= Len(s) THEN Len(s) - (k + 1) + 1 ELSE 0
        BY <3>2
      <4>3. QED
        BY <4>1, <4>2
    <3>5. QED
      BY <3>2, <3>3, <3>4
  <2>3. u = a \o z
    BY DEF Unlink, RemoveAt
  <2> HIDE DEF a, z
  <2>4. QED
    <3>1. /\ a \o z \in Seq(S) /\ Len(a \o z) = Len(a) + Len(z)
          /\ \A i \in 1..(Len(a) + Len(z)) :
               (a \o z)[i] = IF i <= Len(a) THEN a[i] ELSE z[i - Len(a)]
      BY <2>1, <2>2, ConcatProperties
    <3>2. Len(a) + Len(z) = Len(s) - 1
      BY <1>1, <2>1, <2>2
    <3>3. ASSUME NEW i \in 1..(Len(s) - 1)
          PROVE  u[i] = IF i < k THEN s[i] ELSE s[i + 1]
      <4>1. CASE i < k
        BY <1>1, <2>1, <2>2, <2>3, <3>1, <4>1
      <4>2. CASE i >= k
        <5>1. i - Len(a) \in 1..(Len(s) - k) /\ k + (i - Len(a)) = i + 1 /\ ~(i <= Len(a))
          BY <1>1, <2>1, <4>2
        <5>2. QED
          BY <1>1, <2>2, <2>3, <3>1, <3>2, <4>2, <5>1
      <4>3. QED
        BY <1>1, <4>1, <4>2
    <3>4. QED
      BY <2>3, <3>1, <3>2, <3>3
<1>3. DOMAIN u = 1..(Len(s) - 1)
  BY <1>2, LenProperties
<1> HIDE DEF u
<1>4. ASSUME IsInjective(s)
      PROVE  IsInjective(u) /\ ToSet(u) = ToSet(s) \ {s[k]}
  <2>1. IsInjective(u)
    BY <1>1, <1>2, <1>3, <1>4 DEF IsInjective
  <2>2. ToSet(u) \subseteq ToSet(s) \ {s[k]}
    BY <1>1, <1>2, <1>3, <1>4 DEF IsInjective, ToSet
  <2>3. ASSUME NEW j \in DOMAIN s, s[j] # s[k]
        PROVE  s[j] \in ToSet(u)
    <3>1. CASE j < k
      BY <1>1, <1>2, <1>3, <3>1 DEF ToSet
    <3>2. CASE j > k
      <4>1. j - 1 \in DOMAIN u /\ u[j - 1] = s[j]
        BY <1>1, <1>2, <1>3, <3>2
      <4>2. QED
        BY <4>1 DEF ToSet
    <3>3. QED
      BY <1>1, <2>3, <3>1, <3>2
  <2>4. QED
    BY <2>1, <2>2, <2>3 DEF ToSet
<1>5. QED
  BY <1>2, <1>4 DEF u

\* The blocks in the order of their creation.
LEMMA ReverseList ==
  ASSUME NEW S, NEW s \in Seq(S)
  PROVE  /\ Reverse(s) \in Seq(S)
         /\ ToSet(Reverse(s)) = ToSet(s)
         /\ IsInjective(s) => IsInjective(Reverse(s))
<1> DEFINE r == Reverse(s)
<1>1. Len(s) \in Nat /\ DOMAIN s = 1..Len(s) /\ \A i \in 1..Len(s) : s[i] \in S
  BY LenProperties, ElementOfSeq
<1>2. r = [i \in 1..Len(s) |-> s[(Len(s) - i) + 1]]
  BY DEF Reverse
<1>3. \A i \in 1..Len(s) : (Len(s) - i) + 1 \in 1..Len(s)
  BY <1>1
<1> HIDE DEF r
<1>4. r \in Seq(S) /\ DOMAIN r = 1..Len(s)
  <2>1. r \in [1..Len(s) -> S]
    BY <1>1, <1>2, <1>3
  <2>2. QED
    BY <1>1, <2>1, SeqDef
<1>5. ToSet(r) = ToSet(s)
  <2>1. \A i \in 1..Len(s) : s[i] = r[(Len(s) - i) + 1]
    BY <1>1, <1>2, <1>3
  <2>2. QED
    BY <1>1, <1>2, <1>3, <1>4, <2>1 DEF ToSet
<1>6. IsInjective(s) => IsInjective(r)
  BY <1>1, <1>2, <1>3 DEF IsInjective
<1>7. QED
  BY <1>4, <1>5, <1>6 DEF r

-----------------------------------------------------------------------------
(* Types.                                                                  *)

\* What the type invariant needs to be inductive: a thread that is about to use its
\* block has one, and so on.
Working == {"reread", "tcheck", "link", "cas", "pub", "copy", "send", "read"} \cup Filling
HandOf(t) ==
  /\ pc[t] \in Working => blk[t] \in Blocks
  /\ t \in Writers /\ pc[t] = "reclaim" => cur[t] \in Blocks
  /\ t \in Writers /\ pc[t] \in {"visit", "visited", "visitset", "clean"} => idx[t] \in Slots
  /\ t \in Procs /\ pc[t] = "read" => rpos[t] \in Cells
InHand == \A t \in Threads : HandOf(t)

\* The block a list leads to is a block (ipc_queue_dbk_first, ipc_queue_dbk_next).
LEMMA ListNeighbours ==
  ASSUME ListType, NEW b
  PROVE  Succ(b) \in Blocks \cup {NoBlk} /\ First(dbkList) \in Blocks \cup {NoBlk}
<1>1. \A l \in Seq(Blocks) : After(l, b) \subseteq Blocks
  <2> SUFFICES ASSUME NEW l \in Seq(Blocks), NEW i \in 1..(Len(l) - 1)
               PROVE  l[i + 1] \in Blocks
    BY DEF After
  <2>1. i + 1 \in 1..Len(l)
    BY LenProperties
  <2>2. QED
    BY <2>1, ElementOfSeq
<1>2. Succ(b) \in Blocks \cup {NoBlk}
  BY <1>1 DEF Succ, ListType
<1>3. First(dbkList) \in Blocks \cup {NoBlk}
  BY HeadTailProperties DEF First, ListType
<1>4. QED
  BY <1>2, <1>3

\* An assignment to one place of a function.
LEMMA Put ==
  ASSUME NEW S, NEW V, NEW f \in [S -> V], NEW x, NEW v, x \in S => v \in V
  PROVE  [f EXCEPT ![x] = v] \in [S -> V]
OBVIOUS

\* The lists stay sequences of blocks, and cur_w_dbk the offset of a block or 0.
LEMMA ListTypeStep ==
  ASSUME TypeOK, InHand, Next
  PROVE  ListType'
<1> USE DEF TypeOK, ListType
<1>1. CASE UNCHANGED listVars
  BY <1>1 DEF listVars
<1>2. ASSUME NEW w \in Writers, Collect(w)
      PROVE  ListType'
  <2>1. CASE dbkList' = dbkList
    BY <1>2, <2>1 DEF Collect
  <2>2. CASE dbkList' # dbkList
    <3>1. PICK k \in DOMAIN dbkList : dbkList' = Unlink(dbkList, k)
      BY <1>2, <2>2 DEF Collect
    <3>2. k \in 1..Len(dbkList)
      BY <3>1, LenProperties
    <3>3. QED
      BY <1>2, <3>1, <3>2, UnlinkList DEF Collect
  <2>3. QED
    BY <2>1, <2>2
<1>3. ASSUME NEW w \in Writers, Reclaim(w)
      PROVE  ListType'
  <2>1. cur[w] \in Blocks
    BY <1>3 DEF Reclaim, InHand, HandOf, Threads
  <2>2. QED
    BY <1>3, <2>1, ConsList DEF Reclaim
<1>4. ASSUME NEW w \in Writers, Pick(w)
      PROVE  ListType'
  <2>1. CASE freeList' = freeList
    BY <1>4, <2>1 DEF Pick
  <2>2. CASE freeList' # freeList
    <3>1. PICK k \in DOMAIN freeList : freeList' = Unlink(freeList, k)
      BY <1>4, <2>2 DEF Pick, Fits
    <3>2. k \in 1..Len(freeList)
      BY <3>1, LenProperties
    <3>3. QED
      BY <1>4, <3>1, <3>2, UnlinkList DEF Pick
  <2>3. QED
    BY <2>1, <2>2
<1>5. ASSUME NEW w \in Writers, Link(w)
      PROVE  ListType'
  <2>1. blk[w] \in Blocks
    BY <1>5 DEF Link, InHand, HandOf, Working, Threads
  <2>2. QED
    BY <1>5, <2>1, ConsList DEF Link
<1>6. ASSUME NEW w \in Writers, SetCur(w)
      PROVE  ListType'
  BY <1>6 DEF SetCur, InHand, HandOf, Working, Filling, Threads
<1>7. ASSUME NEW t \in Threads \ Procs, Cas(t)
      PROVE  ListType'
  BY <1>7 DEF Cas
<1>8. QED
  BY <1>1, <1>2, <1>3, <1>4, <1>5, <1>6, <1>7, ListFrame

\* A lock is free or held by a thread that takes it.
LEMMA LockTypeStep ==
  ASSUME TypeOK, Next
  PROVE  LockType'
<1> USE DEF TypeOK, LockType
<1>1. CASE UNCHANGED <<writeMark, infoMark>>
  BY <1>1
<1>2. ASSUME NEW w \in Writers, Lock(w) \/ Stamp(w) \/ Fail(w)
      PROVE  LockType'
  BY <1>2 DEF Lock, Stamp, Fail
<1>3. ASSUME NEW p \in Procs, AddLock(p) \/ Add(p)
      PROVE  LockType'
  BY <1>3 DEF AddLock, Add
<1>4. QED
  BY <1>1, <1>2, <1>3, LockFrame

\* ref_count stays within readers[], whatever is added and cleaned out.
LEMMA TableTypeStep ==
  ASSUME TypeOK, Next
  PROVE  TableType'
<1> USE QueueAssumption DEF TypeOK, TableType, Slots
<1>1. CASE UNCHANGED <<refCount, readers, failCnt>>
  BY <1>1
<1>2. ASSUME NEW w \in Writers, Fail(w)
      PROVE  TableType'
  BY <1>2 DEF Fail
<1>3. ASSUME NEW w \in Writers, Clean(w)
      PROVE  TableType'
  <2>1. CASE UNCHANGED <<refCount, readers>>
    BY <1>3, <2>1 DEF Clean
  <2>2. CASE refCount > 0 /\ refCount' = refCount - 1
             /\ readers' = [j \in Slots |-> IF j < idx[w] \/ j > refCount THEN readers[j]
                                            ELSE IF j = refCount THEN NoProc
                                            ELSE readers[j + 1]]
    <3>1. \A j \in Slots : ~(j < idx[w] \/ j > refCount) /\ j # refCount => j + 1 \in Slots
      OBVIOUS
    <3>2. readers' \in [Slots -> Procs \cup {NoProc}]
      BY <2>2, <3>1
    <3>3. QED
      BY <1>3, <2>2, <3>2 DEF Clean
  <2>3. QED
    BY <1>3, <2>1, <2>2 DEF Clean
<1>4. ASSUME NEW p \in Procs, AddLock(p) \/ Add(p)
      PROVE  TableType'
  <2>1. refCount' \in 0..MaxReaders
    <3>1. CASE refCount' = refCount + 1
      <4>1. PICK i \in FreeSlots : TRUE
        BY <1>4, <3>1 DEF AddLock, Add
      <4>2. QED
        BY <3>1, <4>1 DEF FreeSlots
    <3>2. CASE refCount' = refCount
      BY <3>2
    <3>3. QED
      BY <1>4, <3>1, <3>2 DEF AddLock, Add
  <2>2. readers' \in [Slots -> Procs \cup {NoProc}]
    BY <1>4 DEF AddLock, Add
  <2>3. failCnt' \in Nat
    BY <1>4 DEF AddLock, Add
  <2>4. QED
    BY <2>1, <2>2, <2>3
<1>5. CASE Restart
  BY <1>5 DEF Restart
<1>6. QED
  BY <1>1, <1>2, <1>3, <1>4, <1>5, TableFrame

\* The headers of the blocks keep their types; a block that is counted up or emptied is one.
LEMMA BlockTypeStep ==
  ASSUME TypeOK, InHand, Next
  PROVE  BlockType'
<1> USE QueueAssumption DEF TypeOK, BlockType
<1>1. CASE UNCHANGED <<rcdNum, pos, state, readCount, slots, aged>>
  BY <1>1
<1>2. ASSUME NEW w \in Writers, Count(w) \/ SetWrite(w)
      PROVE  BlockType'
  <2>1. rcdNum' = [rcdNum EXCEPT ![blk[w]] = @ + 1]
    BY <1>2 DEF Count, SetWrite
  <2>2. rcdNum' \in [Blocks -> Nat]
    <3>1. rcdNum \in [Blocks -> Nat] /\ (blk[w] \in Blocks => rcdNum[blk[w]] + 1 \in Nat)
      OBVIOUS
    <3>2. QED
      BY ONLY <2>1, <3>1, Put
  <2>3. state' \in [Blocks -> States]
    BY <1>2 DEF Count, SetWrite, States
  <2>4. UNCHANGED <<pos, readCount, slots, aged>>
    BY <1>2 DEF Count, SetWrite
  <2>5. QED
    BY <2>2, <2>3, <2>4
<1>3. ASSUME NEW w \in Writers, Reclaim(w)
      PROVE  BlockType'
  <2>1. rcdNum' \in [Blocks -> Nat] /\ pos' \in [Blocks -> Nat]
    BY <1>3 DEF Reclaim, BlockInit
  <2>2. state' \in [Blocks -> States]
    BY <1>3 DEF Reclaim, BlockInit, States
  <2>3. readCount' \in [Blocks -> Int]
    <3>1. readCount' = [readCount EXCEPT ![cur[w]] = 0] /\ readCount \in [Blocks -> Int]
      BY <1>3 DEF Reclaim, BlockInit
    <3>2. QED
      BY ONLY <3>1, Put
  <2>4. UNCHANGED <<slots, aged>>
    BY <1>3 DEF Reclaim
  <2>5. QED
    BY <2>1, <2>2, <2>3, <2>4
<1>4. ASSUME NEW w \in Writers, Area(w)
      PROVE  BlockType'
  <2>1. pos' = [pos EXCEPT ![blk[w]] = @ + size[w]] /\ size[w] \in Nat
    BY <1>4 DEF Area, LocalType
  <2>2. pos' \in [Blocks -> Nat]
    <3>1. pos \in [Blocks -> Nat] /\ (blk[w] \in Blocks => pos[blk[w]] + size[w] \in Nat)
      BY <2>1
    <3>2. QED
      BY ONLY <2>1, <3>1, Put
  <2>3. UNCHANGED <<rcdNum, state, readCount, slots, aged>>
    BY <1>4 DEF Area
  <2>4. QED
    BY <2>2, <2>3
<1>5. ASSUME NEW w \in Writers, Stamp(w)
      PROVE  BlockType'
  BY <1>5 DEF Stamp
<1>6. ASSUME NEW t \in Threads \ Procs, Pub(t)
      PROVE  BlockType'
  <2>1. state' \in [Blocks -> States]
    BY <1>6 DEF Pub, States
  <2>2. readCount' \in [Blocks -> Int]
    <3>1. /\ readCount' = [readCount EXCEPT ![blk[t]] = refCount] /\ refCount \in Int
          /\ readCount \in [Blocks -> Int]
      BY <1>6 DEF Pub, TableType
    <3>2. QED
      BY ONLY <3>1, Put
  <2>3. UNCHANGED <<rcdNum, pos, slots, aged>>
    BY <1>6 DEF Pub
  <2>4. QED
    BY <2>1, <2>2, <2>3
<1>7. ASSUME NEW t \in Threads \ Procs, Copy(t)
      PROVE  BlockType'
  BY <1>7 DEF Copy, TableType, Slots
<1>8. ASSUME NEW t \in Walkers, Visit(t)
      PROVE  BlockType'
  <2>1. state' \in [Blocks -> States]
    BY <1>8 DEF Visit, States
  <2>2. readCount' \in [Blocks -> Int]
    BY <1>8 DEF Visit
  <2>3. slots' \in [Blocks -> [Slots -> Procs \cup {NoProc}]]
    <3>1. CASE slots' = slots
      BY <3>1
    <3>2. CASE slots' # slots
      <4>1. PICK i : slots' = [slots EXCEPT ![cur[t]][i] = NoProc]
        BY <1>8, <3>2 DEF Visit
      <4>2. cur[t] \in Blocks => [slots[cur[t]] EXCEPT ![i] = NoProc] \in [Slots -> Procs \cup {NoProc}]
        OBVIOUS
      <4>3. slots' = [slots EXCEPT ![cur[t]] = [slots[cur[t]] EXCEPT ![i] = NoProc]]
        BY <4>1
      <4>4. slots \in [Blocks -> [Slots -> Procs \cup {NoProc}]]
        OBVIOUS
      <4>5. QED
        BY ONLY <4>2, <4>3, <4>4, Put
    <3>3. QED
      BY <3>1, <3>2
  <2>4. UNCHANGED <<rcdNum, pos, aged>>
    BY <1>8 DEF Visit
  <2>5. QED
    BY <2>1, <2>2, <2>3, <2>4
<1>9. ASSUME NEW t \in Walkers, VisitSet(t)
      PROVE  BlockType'
  BY <1>9 DEF VisitSet, States
<1>10. ASSUME NEW p \in Procs, Finish(p)
       PROVE  BlockType'
  <2>1. slots' \in [Blocks -> [Slots -> Procs \cup {NoProc}]]
    <3>1. CASE slots' = slots
      BY <3>1
    <3>2. CASE slots' # slots
      <4>1. PICK i : slots' = [slots EXCEPT ![blk[p]][i] = NoProc]
        BY <1>10, <3>2 DEF Finish
      <4>2. blk[p] \in Blocks => [slots[blk[p]] EXCEPT ![i] = NoProc] \in [Slots -> Procs \cup {NoProc}]
        OBVIOUS
      <4>3. slots' = [slots EXCEPT ![blk[p]] = [slots[blk[p]] EXCEPT ![i] = NoProc]]
        BY <4>1
      <4>4. slots \in [Blocks -> [Slots -> Procs \cup {NoProc}]]
        OBVIOUS
      <4>5. QED
        BY ONLY <4>2, <4>3, <4>4, Put
    <3>3. QED
      BY <3>1, <3>2
  <2>2. UNCHANGED <<rcdNum, pos, state, readCount, aged>>
    BY <1>10 DEF Finish
  <2>3. QED
    BY <2>1, <2>2
<1>11. ASSUME NEW p \in Procs, Dec(p) \/ SetRead(p)
       PROVE  BlockType'
  <2>1. state' \in [Blocks -> States]
    <3>1. state \in [Blocks -> States] /\ "READED" \in States
      BY DEF States
    <3>2. state' = state \/ state' = [state EXCEPT ![blk[p]] = "READED"]
      BY <1>11 DEF Dec, SetRead
    <3>3. QED
      BY ONLY <3>1, <3>2, Put
  <2>2. readCount' \in [Blocks -> Int]
    BY <1>11 DEF Dec, SetRead
  <2>3. UNCHANGED <<rcdNum, pos, slots, aged>>
    BY <1>11 DEF Dec, SetRead
  <2>4. QED
    BY <2>1, <2>2, <2>3
<1>12. ASSUME NEW b \in Blocks, Age(b)
       PROVE  BlockType'
  BY <1>12 DEF Age
<1>13. QED
  BY <1>1, <1>2, <1>3, <1>4, <1>5, <1>6, <1>7, <1>8, <1>9, <1>10, <1>11, <1>12, BlockFrame

\* What is written are records.
LEMMA MemTypeStep ==
  ASSUME TypeOK, Next
  PROVE  MemType'
<1> USE DEF TypeOK, MemType
<1>1. CASE UNCHANGED mem
  BY <1>1
<1>2. ASSUME NEW w \in Writers, Mark(w)
      PROVE  MemType'
  <2> DEFINE m == [c \in Cells |-> IF c = addr[w] THEN [id |-> 0, len |-> size[w]]
                                  ELSE IF c \in addr[w]..(addr[w] + size[w] - 1) THEN Blank
                                  ELSE mem[blk[w]][c]]
  <2>1. mem' = [mem EXCEPT ![blk[w]] = m]
    BY <1>2 DEF Mark
  <2>2. blk[w] \in Blocks => m \in [Cells -> Entries]
    BY DEF LocalType, Entries, Blank
  <2> HIDE DEF m
  <2>3. mem \in [Blocks -> [Cells -> Entries]]
    OBVIOUS
  <2>4. QED
    BY <2>1, <2>2, <2>3, Put
<1>3. ASSUME NEW w \in Writers, Body(w)
      PROVE  MemType'
  <2> DEFINE e == [mem[blk[w]][addr[w]] EXCEPT !.id = nextRcd]
             m == [mem[blk[w]] EXCEPT ![addr[w]] = e]
  <2>1. mem' = [mem EXCEPT ![blk[w]] = m]
    BY <1>3 DEF Body
  <2>2. ASSUME blk[w] \in Blocks
        PROVE  m \in [Cells -> Entries]
    <3>1. mem[blk[w]] \in [Cells -> Entries]
      BY <2>2
    <3>2. addr[w] \in Cells => e \in Entries
      BY <3>1 DEF Entries, EnvType
    <3> HIDE DEF e
    <3>3. QED
      BY <3>1, <3>2, Put
  <2> HIDE DEF m
  <2>3. mem \in [Blocks -> [Cells -> Entries]]
    OBVIOUS
  <2>4. QED
    BY <2>1, <2>2, <2>3, Put
<1>4. QED
  BY <1>1, <1>2, <1>3, MemFrame

\* A thread that goes to one of its control points.
LEMMA GotoType ==
  ASSUME PcType, NEW t \in Threads, NEW l \in PcOf(t), Goto(t, l)
  PROVE  PcType'
<1>1. pc' = [pc EXCEPT ![t] = l]
  BY DEF Goto
<1>2. l \in WriterPc \cup TimeoutPc \cup ExiterPc \cup ProcPc
  BY DEF PcOf
<1>3. pc' \in [Threads -> WriterPc \cup TimeoutPc \cup ExiterPc \cup ProcPc]
  BY <1>1, <1>2, Put DEF PcType
<1>4. \A u \in Threads : pc'[u] \in PcOf(u)
  BY <1>1 DEF PcType
<1>5. QED
  BY <1>3, <1>4 DEF PcType, PcOf

\* Every thread stays among its own control points.
LEMMA PcTypeStep ==
  ASSUME PcType, Next
  PROVE  PcType'
<1>1. ASSUME NEW w \in Writers, WriterStep(w)
      PROVE  PcType'
  <2> USE DEF WriterPc
  <2>1. CASE UNCHANGED pc
    BY <2>1 DEF PcType, PcOf
  <2>2. CASE \E l \in WriterPc : Goto(w, l)
    BY <2>2, GotoType DEF PcOf, Threads
  <2>3. CASE Begin(w) \/ Lock(w) \/ ReadCur(w) \/ Reread(w) \/ Count(w) \/ Alloc(w)
    BY <2>1, <2>2, <2>3 DEF Begin, Lock, ReadCur, Reread, Count, Alloc
  <2>4. CASE Collect(w) \/ Reclaim(w) \/ Pick(w) \/ Link(w) \/ SetCur(w) \/ SetWrite(w)
    BY <2>1, <2>2, <2>4 DEF Collect, Reclaim, Pick, Link, SetCur, SetWrite
  <2>5. CASE Area(w) \/ Mark(w) \/ Body(w) \/ Stamp(w) \/ Fail(w) \/ Scan(w) \/ Clean(w)
    BY <2>1, <2>2, <2>5 DEF Area, Mark, Body, Stamp, Fail, Scan, Clean, StartWalk
  <2>6. QED
    BY <1>1, <2>3, <2>4, <2>5 DEF WriterStep
<1>2. ASSUME NEW t \in Threads \ Procs, PubStep(t)
      PROVE  PcType'
  <2>1. {"pub", "copy", "send", Resume(t)} \subseteq PcOf(t)
    BY QueueAssumption DEF PcOf, Resume, WriterPc, TimeoutPc, ExiterPc, Threads
  <2>2. \E l \in PcOf(t) : Goto(t, l)
    BY <1>2, <2>1 DEF PubStep, Cas, Pub, Copy, Send
  <2>3. QED
    BY <2>2, GotoType
<1>3. ASSUME NEW t \in Walkers, WalkStep(t)
      PROVE  PcType'
  <2>1. {"visit", "visited", "visitset", Walked(t)} \subseteq PcOf(t) /\ t \in Threads
    BY QueueAssumption DEF PcOf, Walked, WriterPc, ProcPc, Walkers, Threads
  <2>2. UNCHANGED pc \/ \E l \in PcOf(t) : Goto(t, l)
    BY <1>3, <2>1 DEF WalkStep, Visit, Visited, VisitSet
  <2>3. QED
    BY <2>1, <2>2, GotoType DEF PcType, PcOf
<1>4. ASSUME NEW p \in Procs, ReaderStep(p) \/ ReaderCrash(p)
      PROVE  PcType'
  <2>1. PcOf(p) = ProcPc /\ p \in Threads
    BY QueueAssumption DEF PcOf, Threads
  <2>2. CASE UNCHANGED pc
    BY <2>2 DEF PcType, PcOf
  <2>3. CASE \E l \in ProcPc : Goto(p, l)
    BY <2>1, <2>3, GotoType
  <2> USE DEF ProcPc
  <2>4. CASE Register(p) \/ Connect(p) \/ AddLock(p) \/ Add(p)
    BY <2>2, <2>3, <2>4 DEF Register, Connect, AddLock, Add, StartWalk
  <2>5. CASE Recv(p) \/ Read(p) \/ Finish(p) \/ Dec(p) \/ Recheck(p) \/ SetRead(p)
    BY <2>2, <2>3, <2>5 DEF Recv, Read, Finish, Dec, Recheck, SetRead
  <2>6. CASE ReaderCrash(p)
    BY <2>3, <2>6 DEF ReaderCrash
  <2>7. QED
    BY <1>4, <2>4, <2>5, <2>6 DEF ReaderStep
<1>5. CASE TimeoutStep
  <2>1. PcOf(Timeout) = TimeoutPc /\ Timeout \in Threads
    BY QueueAssumption DEF PcOf, Threads
  <2>2. \E l \in TimeoutPc : Goto(Timeout, l)
    BY <1>5 DEF TimeoutStep, Wake, TimeoutCheck, TimeoutPc
  <2>3. QED
    BY <2>1, <2>2, GotoType
<1>6. CASE Destroy \/ ExitRead
  <2>1. PcOf(Exiter) = ExiterPc /\ Exiter \in Threads
    BY QueueAssumption DEF PcOf, Threads
  <2>2. \E l \in ExiterPc : Goto(Exiter, l)
    BY <1>6 DEF Destroy, ExitRead, ExiterPc
  <2>3. QED
    BY <2>1, <2>2, GotoType
<1>7. CASE Restart
  BY <1>7, QueueAssumption DEF Restart, PcType, PcOf, WriterPc, TimeoutPc
<1>8. ASSUME NEW b \in Blocks, Age(b)
      PROVE  PcType'
  BY <1>8 DEF Age, PcType, PcOf
<1>9. QED
  BY <1>1, <1>2, <1>3, <1>4, <1>5, <1>6, <1>7, <1>8 DEF Next

\* The numbering of records and the counters of the bounds.
LEMMA EnvTypeStep ==
  ASSUME TypeOK, InHand, Next
  PROVE  EnvType'
<1> USE DEF TypeOK, EnvType
<1>1. CASE UNCHANGED envVars
  BY <1>1 DEF envVars
<1>2. ASSUME NEW w \in Writers,
             Reread(w) \/ Alloc(w) \/ SetCur(w) \/ Body(w) \/ Fail(w) \/ Clean(w)
      PROVE  EnvType'
  <2>1. CASE Reread(w) \/ Alloc(w)
    BY <2>1 DEF Reread, Alloc
  <2>2. CASE Body(w)
    BY <2>2 DEF Body
  <2>3. CASE Fail(w)
    BY <2>3 DEF Fail
  <2>4. CASE Clean(w)
    BY <2>4 DEF Clean
  <2>5. CASE SetCur(w)
    <3>1. blk[w] \in Blocks
      BY <2>5 DEF SetCur, InHand, HandOf, Working, Filling, Threads
    <3>2. QED
      BY <2>5, <3>1 DEF SetCur
  <2>6. QED
    BY <1>2, <2>1, <2>2, <2>3, <2>4, <2>5
<1>3. ASSUME NEW t \in Threads \ Procs, Send(t)
      PROVE  EnvType'
  BY <1>3 DEF Send
<1>4. CASE Restart
  BY <1>4 DEF Restart
<1>5. QED
  BY <1>1, <1>2, <1>3, <1>4, EnvFrame

\* Offsets in the inboxes are offsets of blocks; an iterator stays at natural addresses.
LEMMA ReaderTypeStep ==
  ASSUME TypeOK, InHand, Next
  PROVE  ReaderType'
<1> USE DEF TypeOK, ReaderType
<1>1. CASE UNCHANGED readerVars
  BY <1>1 DEF readerVars
<1>2. ASSUME NEW t \in Threads \ Procs, Send(t)
      PROVE  ReaderType'
  <2>1. blk[t] \in Blocks
    BY <1>2 DEF Send, InHand, HandOf, Working
  <2>2. \A p \in Procs : Append(inbox[p], blk[t]) \in Seq(Blocks)
    BY <2>1
  <2>3. inbox' \in [Procs -> Seq(Blocks)]
    BY <1>2, <2>2 DEF Send
  <2>4. UNCHANGED <<connected, rpos, rlen, rnum, seen>>
    BY <1>2 DEF Send
  <2>5. QED
    BY <2>3, <2>4
<1>3. ASSUME NEW p \in Procs, Connect(p)
      PROVE  ReaderType'
  BY <1>3 DEF Connect
<1>4. ASSUME NEW p \in Procs, Recv(p)
      PROVE  ReaderType'
  <2> DEFINE b == Head(inbox[p])
  <2>1. b \in Blocks /\ Tail(inbox[p]) \in Seq(Blocks)
    BY <1>4, HeadTailProperties DEF Recv
  <2>2. 0 \in Cells
    <3>1. BlkSize[b] \in Nat \ {0}
      BY <2>1, QueueAssumption
    <3>2. 0 \in 0..(BlkSize[b] - 1)
      BY <3>1
    <3>3. QED
      BY <2>1, <3>2 DEF Cells
  <2>3. mem[b][0].len \in Nat
    BY <2>1, <2>2 DEF MemType, Entries
  <2>4. rlen' = [rlen EXCEPT ![p] = mem[b][0].len] /\ inbox' = [inbox EXCEPT ![p] = Tail(inbox[p])]
    BY <1>4 DEF Recv
  <2>5. rlen' \in [Procs -> Nat] /\ inbox' \in [Procs -> Seq(Blocks)]
    BY <2>1, <2>3, <2>4, Put
  <2>6. rpos' \in [Procs -> Nat] /\ rnum' \in [Procs -> Nat] /\ UNCHANGED <<connected, seen>>
    BY <1>4 DEF Recv
  <2>7. QED
    BY <2>5, <2>6
<1>5. ASSUME NEW p \in Procs, Read(p)
      PROVE  ReaderType'
  <2> DEFINE next == rpos[p] + rlen[p]
  <2>1. blk[p] \in Blocks /\ rpos[p] \in Cells
    BY <1>5 DEF Read, InHand, HandOf, Working, Threads
  <2>2. \A c \in Cells : mem[blk[p]][c] \in Entries
    BY <2>1 DEF MemType
  <2>3. rpos' \in [Procs -> Nat] /\ rlen' \in [Procs -> Nat]
    <3>1. CASE UNCHANGED <<rpos, rlen>>
      BY <3>1
    <3>2. CASE next \in Cells /\ rpos' = [rpos EXCEPT ![p] = next]
               /\ rlen' = [rlen EXCEPT ![p] = mem[blk[p]][next].len]
      <4>1. next \in Nat /\ mem[blk[p]][next].len \in Nat
        BY <2>2, <3>2 DEF Entries
      <4>2. QED
        BY <3>2, <4>1, Put
    <3>3. QED
      BY <1>5, <3>1, <3>2 DEF Read
  <2>4. rnum' \in [Procs -> Nat]
    BY <1>5 DEF Read
  <2>5. seen' \in [Procs -> Seq(Nat)]
    <3>1. mem[blk[p]][rpos[p]].id \in Nat
      BY <2>1, <2>2 DEF Entries
    <3>2. Append(seen[p], mem[blk[p]][rpos[p]].id) \in Seq(Nat)
      BY <3>1
    <3>3. \E v \in Seq(Nat) : seen' = [seen EXCEPT ![p] = v]
      BY <1>5, <3>2 DEF Read
    <3>4. QED
      BY <3>3, Put
  <2>6. UNCHANGED <<connected, inbox>>
    BY <1>5 DEF Read
  <2>7. QED
    BY <2>3, <2>4, <2>5, <2>6
<1>6. QED
  BY <1>1, <1>2, <1>3, <1>4, <1>5, ReaderFrame

\* Locals: a slot index never passes the end of readers[] by more than one.
LEMMA LocalTypeStep ==
  ASSUME TypeOK, InHand, Next
  PROVE  LocalType'
<1> USE DEF TypeOK, LocalType
<1>1. CASE UNCHANGED localVars
  BY <1>1 DEF localVars
<1>2. ASSUME NEW w \in Writers, Begin(w)
      PROVE  LocalType'
  BY <1>2, QueueAssumption DEF Begin
<1>3. ASSUME NEW w \in Writers, ReadCur(w) \/ Reread(w)
      PROVE  LocalType'
  BY <1>3 DEF ReadCur, Reread, ListType
<1>4. ASSUME NEW w \in Writers, Alloc(w)
      PROVE  LocalType'
  BY <1>4, ListNeighbours DEF Alloc
<1>5. ASSUME NEW w \in Writers, Collect(w)
      PROVE  LocalType'
  <2>1. Succ(cur[w]) \in Blocks \cup {NoBlk}
    BY ListNeighbours
  <2>2. nxt' = [nxt EXCEPT ![w] = Succ(cur[w])] /\ UNCHANGED <<blk, idx, cnt, size, addr>>
    BY <1>5 DEF Collect
  <2>3. cur' = [cur EXCEPT ![w] = Succ(cur[w])] \/ UNCHANGED cur
    BY <1>5 DEF Collect
  <2>4. QED
    BY ONLY LocalType, <2>1, <2>2, <2>3, Put DEF LocalType
<1>6. ASSUME NEW w \in Writers, Reclaim(w)
      PROVE  LocalType'
  BY <1>6 DEF Reclaim
<1>7. ASSUME NEW w \in Writers, Pick(w)
      PROVE  LocalType'
  <2>1. \A k \in DOMAIN freeList : freeList[k] \in Blocks
    BY LenProperties, ElementOfSeq DEF ListType
  <2>2. UNCHANGED blk \/ \E b \in Blocks : blk' = [blk EXCEPT ![w] = b]
    BY <1>7, <2>1 DEF Pick, Fits
  <2>3. UNCHANGED <<cur, nxt, idx, cnt, size, addr>>
    BY <1>7 DEF Pick
  <2>4. QED
    BY ONLY LocalType, <2>2, <2>3, Put, SMTT(30) DEF LocalType
<1>8. ASSUME NEW w \in Writers, Area(w)
      PROVE  LocalType'
  <2>1. blk[w] \in Blocks
    BY <1>8 DEF Area, InHand, HandOf, Working, Filling, Threads
  <2>2. addr' = [addr EXCEPT ![w] = pos[blk[w]]] /\ pos[blk[w]] \in Nat
    BY <1>8, <2>1 DEF Area, BlockType
  <2>3. UNCHANGED <<blk, cur, nxt, idx, cnt, size>>
    BY <1>8 DEF Area
  <2>4. QED
    BY ONLY LocalType, <2>2, <2>3, Put DEF LocalType
<1>9. ASSUME NEW w \in Writers, Fail(w)
      PROVE  LocalType'
  <2>1. idx' = [idx EXCEPT ![w] = 1] /\ 1 \in 1..(MaxReaders + 1)
    BY <1>9, QueueAssumption DEF Fail
  <2>2. UNCHANGED <<blk, cur, nxt, cnt, size, addr>>
    BY <1>9 DEF Fail
  <2>3. QED
    BY ONLY LocalType, <2>1, <2>2, Put DEF LocalType
<1>10. ASSUME NEW t \in Walkers, NEW i \in 1..refCount, StartWalk(t, i), UNCHANGED <<blk, nxt, size, addr>>
       PROVE  LocalType'
  <2>1. /\ First(dbkList) \in Blocks \cup {NoBlk}
        /\ i \in 1..(MaxReaders + 1) /\ refCount \in 0..MaxReaders
    <3>1. First(dbkList) \in Blocks \cup {NoBlk}
      BY ListNeighbours
    <3>2. refCount \in 0..MaxReaders /\ MaxReaders \in Nat
      BY QueueAssumption DEF TableType
    <3>3. i \in 1..(MaxReaders + 1)
      BY ONLY <3>2, i \in 1..refCount
    <3>4. QED
      BY <3>1, <3>2, <3>3
  <2>2. /\ idx' = [idx EXCEPT ![t] = i] /\ cnt' = [cnt EXCEPT ![t] = refCount]
        /\ cur' = [cur EXCEPT ![t] = First(dbkList)]
    BY <1>10 DEF StartWalk
  <2>3. QED
    BY ONLY LocalType, <1>10, <2>1, <2>2, Put DEF LocalType
<1>11. ASSUME NEW w \in Writers, Scan(w)
       PROVE  LocalType'
  <2>1. CASE UNCHANGED <<idx, cnt, cur>>
    BY <1>11, <2>1 DEF Scan
  <2>2. CASE idx[w] <= MaxReaders /\ idx' = [idx EXCEPT ![w] = idx[w] + 1] /\ UNCHANGED <<cnt, cur>>
    BY <1>11, <2>2, QueueAssumption DEF Scan, Walkers
  <2>3. CASE \E j \in WithPid(readers[idx[w]]) : StartWalk(w, j)
    <3>1. UNCHANGED <<blk, nxt, size, addr>> /\ w \in Walkers
      BY <1>11 DEF Scan, Walkers
    <3>2. QED
      BY <1>10, <2>3, <3>1 DEF WithPid
  <2>4. QED
    BY <1>11, <2>1, <2>2, <2>3 DEF Scan
<1>12. ASSUME NEW w \in Writers, Clean(w)
       PROVE  LocalType'
  <2>1. idx[w] \in Slots
    BY <1>12 DEF Clean, InHand, HandOf, Threads
  <2>2. idx' = [idx EXCEPT ![w] = idx[w] + 1] /\ idx[w] + 1 \in 1..(MaxReaders + 1)
    BY <1>12, <2>1, QueueAssumption DEF Clean, Slots
  <2>3. UNCHANGED <<blk, cur, nxt, cnt, size, addr>>
    BY <1>12 DEF Clean
  <2>4. QED
    BY ONLY LocalType, <2>2, <2>3, Put DEF LocalType
<1>13. ASSUME NEW t \in Walkers, Visit(t) \/ Visited(t) \/ VisitSet(t)
       PROVE  LocalType'
  <2>1. Succ(cur[t]) \in Blocks \cup {NoBlk}
    BY ListNeighbours
  <2>2. cur' = [cur EXCEPT ![t] = Succ(cur[t])] \/ UNCHANGED cur
    BY <1>13 DEF Visit, Visited, VisitSet
  <2>3. UNCHANGED <<blk, nxt, idx, cnt, size, addr>>
    BY <1>13 DEF Visit, Visited, VisitSet
  <2>4. QED
    BY ONLY LocalType, <2>1, <2>2, <2>3, Put DEF LocalType
<1>14. ASSUME NEW p \in Procs, Register(p)
       PROVE  LocalType'
  <2>1. UNCHANGED <<blk, nxt, size, addr>> /\ p \in Walkers
    BY <1>14 DEF Register, Walkers
  <2>2. UNCHANGED <<idx, cnt, cur>> \/ \E i \in Named(p) : StartWalk(p, i)
    BY <1>14 DEF Register
  <2>3. QED
    BY <1>10, <2>1, <2>2 DEF Named
<1>15. ASSUME NEW p \in Procs, AddLock(p)
       PROVE  LocalType'
  <2>1. Named(p) \cup FreeSlots \subseteq 1..(MaxReaders + 1)
    BY QueueAssumption DEF Named, FreeSlots, TableType
  <2>2. UNCHANGED idx \/ \E i \in 1..(MaxReaders + 1) : idx' = [idx EXCEPT ![p] = i]
    BY <1>15, <2>1 DEF AddLock
  <2>3. UNCHANGED <<blk, cur, nxt, cnt, size, addr>>
    BY <1>15 DEF AddLock
  <2>4. QED
    BY ONLY LocalType, <2>2, <2>3, Put, ZenonT(60) DEF LocalType
<1>16. ASSUME NEW p \in Procs, Recv(p)
       PROVE  LocalType'
  <2>1. Head(inbox[p]) \in Blocks
    BY <1>16, HeadTailProperties DEF Recv, ReaderType
  <2>2. blk' = [blk EXCEPT ![p] = Head(inbox[p])] /\ UNCHANGED <<cur, nxt, idx, cnt, size, addr>>
    BY <1>16 DEF Recv
  <2>3. QED
    BY ONLY LocalType, <2>1, <2>2, Put DEF LocalType
<1>17. CASE Wake \/ ExitRead
  <2>1. UNCHANGED blk \/ \E t \in Threads : blk' = [blk EXCEPT ![t] = curW]
    BY <1>17 DEF Wake, ExitRead, Threads
  <2>2. UNCHANGED <<cur, nxt, idx, cnt, size, addr>> /\ curW \in Blocks \cup {NoBlk}
    BY <1>17 DEF Wake, ExitRead, ListType
  <2>3. CASE UNCHANGED blk
    BY <2>2, <2>3
  <2>4. CASE \E t \in Threads : blk' = [blk EXCEPT ![t] = curW]
    BY ONLY LocalType, <2>2, <2>4, Put DEF LocalType
  <2>5. QED
    BY <2>1, <2>3, <2>4
<1>18. QED
  BY <1>1, <1>2, <1>3, <1>4, <1>5, <1>6, <1>7, <1>8, <1>9, <1>11, <1>12, <1>13, <1>14,
     <1>15, <1>16, <1>17, LocalFrame

\* A step of thread t leaves the control point and the locals of thread u alone.
Same(u) ==
  /\ pc'[u] = pc[u] /\ blk'[u] = blk[u]
  /\ u \in Walkers => cur'[u] = cur[u] /\ idx'[u] = idx[u]
  /\ u \in Writers => nxt'[u] = nxt[u] /\ size'[u] = size[u] /\ addr'[u] = addr[u]
  /\ u \in Procs => rpos'[u] = rpos[u]

\* A writer leaves the other threads alone.
LEMMA WriterLocal ==
  ASSUME TypeOK, NEW w \in Writers, WriterStep(w), NEW u \in Threads \ {w}
  PROVE  Same(u)
<1> USE DEF TypeOK, PcType, LocalType, ReaderType, Same, Goto, localVars, readerVars
<1>1. CASE Begin(w) \/ Lock(w) \/ ReadCur(w) \/ Reread(w) \/ Count(w) \/ Alloc(w)
  BY <1>1 DEF Begin, Lock, ReadCur, Reread, Count, Alloc
<1>2. CASE Collect(w) \/ Reclaim(w) \/ Pick(w) \/ Link(w) \/ SetCur(w) \/ SetWrite(w)
  BY <1>2 DEF Collect, Reclaim, Pick, Link, SetCur, SetWrite
<1>3. CASE Area(w) \/ Mark(w) \/ Body(w) \/ Stamp(w) \/ Fail(w)
  BY <1>3 DEF Area, Mark, Body, Stamp, Fail
<1>4. CASE Scan(w) \/ Clean(w)
  BY <1>4 DEF Scan, Clean, StartWalk
<1>5. QED
  BY <1>1, <1>2, <1>3, <1>4 DEF WriterStep

\* So does whoever publishes.
LEMMA PubLocal ==
  ASSUME TypeOK, NEW t \in Threads \ Procs, PubStep(t), NEW u \in Threads \ {t}
  PROVE  Same(u)
BY DEF TypeOK, PcType, LocalType, ReaderType, Same, Goto, localVars, readerVars, PubStep,
  Cas, Pub, Copy, Send

\* So does whoever walks over the used blocks.
LEMMA WalkLocal ==
  ASSUME TypeOK, NEW t \in Walkers, WalkStep(t), NEW u \in Threads \ {t}
  PROVE  Same(u)
BY DEF TypeOK, PcType, LocalType, ReaderType, Same, Goto, localVars, readerVars, WalkStep,
  Visit, Visited, VisitSet

\* So does a reader process.
LEMMA ReaderLocal ==
  ASSUME TypeOK, NEW p \in Procs, ReaderStep(p) \/ ReaderCrash(p), NEW u \in Threads \ {p}
  PROVE  Same(u)
<1> USE DEF TypeOK, PcType, LocalType, ReaderType, Same, Goto, localVars, readerVars
<1>1. CASE Register(p) \/ Connect(p) \/ AddLock(p) \/ Add(p)
  BY <1>1 DEF Register, Connect, AddLock, Add, StartWalk
<1>2. CASE Recv(p) \/ Read(p)
  BY <1>2 DEF Recv, Read
<1>3. CASE Finish(p) \/ Dec(p) \/ Recheck(p) \/ SetRead(p) \/ ReaderCrash(p)
  BY <1>3 DEF Finish, Dec, Recheck, SetRead, ReaderCrash
<1>4. QED
  BY <1>1, <1>2, <1>3 DEF ReaderStep

\* So does the timeout thread.
LEMMA TimeoutLocal ==
  ASSUME TypeOK, TimeoutStep, NEW u \in Threads \ {Timeout}
  PROVE  Same(u)
BY DEF TypeOK, PcType, LocalType, ReaderType, Same, Goto, localVars, readerVars,
  TimeoutStep, Wake, TimeoutCheck

\* So does the shutdown.
LEMMA ExiterLocal ==
  ASSUME TypeOK, Destroy \/ ExitRead, NEW u \in Threads \ {Exiter}
  PROVE  Same(u)
BY DEF TypeOK, PcType, LocalType, ReaderType, Same, Goto, localVars, readerVars,
  Destroy, ExitRead

\* A thread that works on a block has one, and keeps it while it does.
LEMMA InHandStep ==
  ASSUME TypeOK, InHand, Next
  PROVE  InHand'
<1>1. \A u \in Threads : HandOf(u) /\ Same(u) => HandOf(u)'
  BY DEF HandOf, Same, Walkers, Working, Filling
<1>2. ASSUME NEW t \in Threads, \A u \in Threads \ {t} : Same(u), HandOf(t)'
      PROVE  InHand'
  BY <1>1, <1>2 DEF InHand
<1>3. ASSUME NEW w \in Writers, WriterStep(w)
      PROVE  InHand'
  <2> USE DEF TypeOK, PcType, LocalType, HandOf, Working, Filling, Goto
  <2>1. w \in Threads /\ w \notin Procs /\ HandOf(w)
    BY QueueAssumption DEF Threads, InHand
  <2>2. CASE pc'[w] \notin Working \cup {"reclaim", "visit", "visited", "visitset", "clean"}
    BY <1>2, <1>3, <2>1, <2>2, WriterLocal
  <2>3. CASE Begin(w) \/ Lock(w) \/ Alloc(w) \/ Reclaim(w) \/ Stamp(w) \/ Fail(w) \/ Clean(w)
    BY <2>1, <2>2, <2>3 DEF Begin, Lock, Alloc, Reclaim, Stamp, Fail, Clean
  <2>4. HandOf(w)' => InHand'
    BY <1>2, <1>3, <2>1, WriterLocal
  <2>5. CASE ReadCur(w) \/ Reread(w)
    BY <2>1, <2>4, <2>5 DEF ReadCur, Reread, ListType
  <2>6. CASE Count(w) \/ SetCur(w) \/ SetWrite(w) \/ Area(w) \/ Mark(w) \/ Body(w)
    BY <2>1, <2>4, <2>6 DEF Count, SetCur, SetWrite, Area, Mark, Body, localVars
  <2>7. CASE Collect(w)
    <3>1. CASE pc'[w] = "reclaim"
      <4>1. PICK k \in DOMAIN dbkList : dbkList[k] = cur[w]
        BY <2>1, <2>7, <3>1 DEF Collect
      <4>2. cur'[w] \in Blocks
        BY <2>1, <2>7, <3>1, <4>1, LenProperties, ElementOfSeq DEF Collect, ListType
      <4>3. QED
        BY <2>4, <3>1, <4>2
    <3>2. CASE pc'[w] # "reclaim"
      BY <2>1, <2>2, <2>7, <3>2 DEF Collect
    <3>3. QED
      BY <3>1, <3>2
  <2>8. CASE Pick(w)
    <3>1. \A k \in DOMAIN freeList : freeList[k] \in Blocks
      BY LenProperties, ElementOfSeq DEF ListType
    <3>2. pc'[w] = "fail" \/ (pc'[w] = "link" /\ blk'[w] \in Blocks)
      BY <2>1, <2>8, <3>1 DEF Pick, Fits
    <3>3. QED
      BY <2>1, <2>4, <3>2
  <2>9. CASE Link(w)
    BY <2>1, <2>4, <2>9 DEF Link, localVars
  <2>10. CASE Scan(w)
    <3>1. pc'[w] \in {"idle", "scan"} \/ (pc'[w] = "visit" /\ idx'[w] \in 1..refCount)
      BY <2>1, <2>10 DEF Scan, StartWalk, WithPid, Walkers
    <3>2. 1..refCount \subseteq Slots
      BY QueueAssumption DEF TableType, Slots
    <3>3. QED
      BY <2>1, <2>4, <3>1, <3>2
  <2>11. QED
    BY <1>3, <2>3, <2>5, <2>6, <2>7, <2>8, <2>9, <2>10 DEF WriterStep
<1>4. ASSUME NEW t \in Threads \ Procs, PubStep(t)
      PROVE  InHand'
  <2>1. HandOf(t) /\ UNCHANGED blk
    BY <1>4 DEF InHand, PubStep, Cas, Pub, Copy, Send, localVars
  <2>2. pc[t] \in Working
    BY <1>4 DEF PubStep, Cas, Pub, Copy, Send, Working
  <2>3. pc'[t] \notin {"reclaim", "visit", "visited", "visitset", "clean"}
    BY <1>4 DEF PubStep, Cas, Pub, Copy, Send, Goto, Resume, TypeOK, PcType
  <2>4. HandOf(t)'
    BY <2>1, <2>2, <2>3 DEF HandOf
  <2>5. QED
    BY <1>2, <1>4, <2>4, PubLocal
<1>5. ASSUME NEW t \in Walkers, WalkStep(t)
      PROVE  InHand'
  <2>1. HandOf(t) /\ UNCHANGED <<blk, idx>> /\ t \in Threads
    BY <1>5 DEF InHand, WalkStep, Visit, Visited, VisitSet, Walkers, Threads
  <2>2. pc[t] \in {"visit", "visited", "visitset"}
    BY <1>5 DEF WalkStep, Visit, Visited, VisitSet
  <2>3. pc'[t] \in {"visit", "visited", "visitset", "clean", "connect"}
    BY <1>5, <2>1, <2>2 DEF WalkStep, Visit, Visited, VisitSet, Goto, Walked, TypeOK, PcType
  <2>4. HandOf(t)'
    BY <2>1, <2>2, <2>3 DEF HandOf, Working, Filling
  <2>5. QED
    BY <1>2, <1>5, <2>1, <2>4, WalkLocal
<1>6. ASSUME NEW p \in Procs, ReaderStep(p) \/ ReaderCrash(p)
      PROVE  InHand'
  <2> USE DEF TypeOK, PcType, LocalType, ReaderType, HandOf, Goto
  <2>1. p \in Threads /\ p \notin Writers /\ HandOf(p)
    BY QueueAssumption DEF Threads, InHand
  <2>2. HandOf(p)' => InHand'
    BY <1>2, <1>6, <2>1, ReaderLocal
  <2>3. CASE pc'[p] \notin Working
    BY <2>1, <2>2, <2>3 DEF Working
  <2>4. CASE Register(p) \/ Connect(p) \/ AddLock(p) \/ Add(p)
    BY <2>1, <2>3, <2>4 DEF Register, Connect, AddLock, Add, StartWalk, Working, Filling
  <2>5. CASE Finish(p) \/ Dec(p) \/ Recheck(p) \/ SetRead(p) \/ ReaderCrash(p)
    BY <2>1, <2>3, <2>5 DEF Finish, Dec, Recheck, SetRead, ReaderCrash, Working, Filling
  <2>6. CASE Recv(p)
    <3>1. blk'[p] \in Blocks /\ rpos'[p] = 0
      BY <2>1, <2>6, HeadTailProperties DEF Recv
    <3>2. 0 \in Cells
      BY <3>1, QueueAssumption DEF Cells
    <3>3. QED
      BY <2>1, <2>2, <3>1, <3>2
  <2>7. CASE Read(p)
    <3>1. rpos'[p] = rpos[p] \/ rpos'[p] \in Cells
      BY <2>7 DEF Read
    <3>2. UNCHANGED blk /\ pc[p] = "read"
      BY <2>7 DEF Read, localVars
    <3>3. QED
      BY <2>1, <2>2, <3>1, <3>2 DEF Working
  <2>8. QED
    BY <1>6, <2>4, <2>5, <2>6, <2>7 DEF ReaderStep
<1>7. CASE TimeoutStep
  <2>1. HandOf(Timeout) /\ Timeout \in Threads /\ Timeout \notin Writers \cup Procs
    BY QueueAssumption DEF InHand, Threads
  <2>2. HandOf(Timeout)'
    BY <1>7, <2>1 DEF TimeoutStep, Wake, TimeoutCheck, HandOf, Working, Filling,
      TypeOK, PcType, LocalType, ListType, Goto, localVars
  <2>3. QED
    BY <1>2, <1>7, <2>1, <2>2, TimeoutLocal
<1>8. CASE Destroy \/ ExitRead
  <2>1. HandOf(Exiter) /\ Exiter \in Threads /\ Exiter \notin Writers \cup Procs
    BY QueueAssumption DEF InHand, Threads
  <2>2. HandOf(Exiter)'
    BY <1>8, <2>1 DEF Destroy, ExitRead, HandOf, Working, Filling,
      TypeOK, PcType, LocalType, ListType, Goto, localVars
  <2>3. QED
    BY <1>2, <1>8, <2>1, <2>2, ExiterLocal
<1>9. CASE Restart
  <2>1. UNCHANGED <<localVars, readerVars>>
    BY <1>9 DEF Restart
  <2>2. \A t \in Threads : pc'[t] \in {pc[t], "idle", "tsleep"}
    BY <1>9 DEF Restart
  <2>3. QED
    BY <2>1, <2>2 DEF InHand, HandOf, Working, Filling, localVars, readerVars
<1>10. ASSUME NEW b \in Blocks, Age(b)
       PROVE  InHand'
  BY <1>10 DEF Age, InHand, HandOf, localVars, readerVars
<1>11. QED
  BY <1>3, <1>4, <1>5, <1>6, <1>7, <1>8, <1>9, <1>10 DEF Next

\* The queue after ipc_shm_queue_create has the types.
LEMMA TypeInit == Init => TypeOK /\ InHand
<1> SUFFICES ASSUME Init PROVE TypeOK /\ InHand
  OBVIOUS
<1> USE QueueAssumption DEF Init
<1>1. ListType
  BY ReverseList, EmptySeq DEF ListType
<1>2. LockType
  BY DEF LockType
<1>3. TableType
  <2>1. Len(Joined) \in Nat /\ \A i \in 1..Len(Joined) : Joined[i] \in Procs
    BY LenProperties, ElementOfSeq
  <2>2. QED
    BY <2>1 DEF TableType, Slots
<1>4. BlockType /\ MemType
  BY DEF BlockType, MemType, States, Slots, Entries, Blank
<1>5. PcType
  BY DEF PcType, PcOf, WriterPc, TimeoutPc, ExiterPc, ProcPc, Threads
<1>6. LocalType
  BY DEF LocalType, Walkers
<1>7. ReaderType
  <2>1. ToSet(Joined) \subseteq Procs
    BY LenProperties, ElementOfSeq DEF ToSet
  <2>2. QED
    BY <2>1, EmptySeq DEF ReaderType
<1>8. EnvType
  <2>1. wild \in BOOLEAN
    BY Zenon
  <2>2. nextRcd \in Nat \ {0} /\ sent \in Nat /\ due = {} /\ restarts \in Nat /\ fails \in Nat
    OBVIOUS
  <2>3. QED
    BY ONLY <2>1, <2>2 DEF EnvType
<1>9. InHand
  BY DEF InHand, HandOf, Working, Filling, Threads
<1>10. QED
  BY <1>1, <1>2, <1>3, <1>4, <1>5, <1>6, <1>7, <1>8, <1>9 DEF TypeOK

\* Every step keeps them.
LEMMA TypeStep ==
  ASSUME TypeOK, InHand, [Next]_vars
  PROVE  TypeOK' /\ InHand'
<1>1. CASE Next
  BY <1>1, ListTypeStep, LockTypeStep, TableTypeStep, BlockTypeStep, MemTypeStep, PcTypeStep,
     LocalTypeStep, ReaderTypeStep, EnvTypeStep, InHandStep DEF TypeOK
<1>2. CASE UNCHANGED vars
  BY <1>2 DEF vars, queueVars, blockVars, localVars, readerVars, envVars, TypeOK, ListType,
    LockType, TableType, BlockType, MemType, PcType, PcOf, LocalType, ReaderType, EnvType,
    InHand, HandOf
<1>3. QED
  BY <1>1, <1>2

\* Every variable keeps its type (ce_ipc_shm.c, lines 115-174): the reader table stays within
\* CE_QUEUE_MAX_READER_NUM entries, and a thread that uses a block has one.
THEOREM TypeCorrect == Spec => [](TypeOK /\ InHand)
<1>1. Init => TypeOK /\ InHand
  BY TypeInit
<1>2. TypeOK /\ InHand /\ [Next]_vars => (TypeOK /\ InHand)'
  BY TypeStep
<1>3. QED
  BY <1>1, <1>2, PTL DEF Spec

-----------------------------------------------------------------------------
(* Who moves. *)

\* What happens inside ipc_shm_record_write, and what the other threads do.
WriterMoves(w) == WriterStep(w) \/ PubStep(w) \/ WalkStep(w)
OtherMoves ==
  \/ \E t \in {Timeout, Exiter} : PubStep(t)
  \/ \E p \in Procs : WalkStep(p) \/ ReaderStep(p) \/ ReaderCrash(p)
  \/ TimeoutStep \/ Destroy \/ ExitRead
  \/ \E b \in Blocks : Age(b)

\* A step belongs to one writer and leaves the locals of every other one alone, or it
\* belongs to none, or it is the restart of the writer process.
LEMMA WhoMoves ==
  ASSUME TypeOK, Next
  PROVE  \/ \E w \in Writers : WriterMoves(w) /\ \A u \in Threads \ {w} : Same(u)
         \/ OtherMoves /\ \A v \in Writers : Same(v)
         \/ Restart
<1>1. ASSUME NEW w \in Writers, WriterMoves(w), NEW u \in Threads \ {w}
      PROVE  Same(u)
  <2>1. w \in Threads \ Procs /\ w \in Walkers
    BY QueueAssumption DEF Threads, Walkers
  <2>2. QED
    BY <1>1, <2>1, WriterLocal, PubLocal, WalkLocal DEF WriterMoves
<1>2. ASSUME OtherMoves, NEW v \in Writers
      PROVE  Same(v)
  <2>1. v \in Threads /\ v \notin Procs /\ v \notin {Timeout, Exiter}
    BY QueueAssumption DEF Threads
  <2>2. ASSUME NEW t \in {Timeout, Exiter}, PubStep(t)
        PROVE  Same(v)
    <3>1. t \in Threads \ Procs
      BY QueueAssumption DEF Threads
    <3>2. QED
      BY <2>1, <2>2, <3>1, PubLocal
  <2>3. ASSUME NEW p \in Procs, WalkStep(p) \/ ReaderStep(p) \/ ReaderCrash(p)
        PROVE  Same(v)
    BY <2>1, <2>3, WalkLocal, ReaderLocal DEF Walkers
  <2>4. ASSUME NEW b \in Blocks, Age(b)
        PROVE  Same(v)
    BY <2>1, <2>4 DEF Age, Same, localVars, readerVars
  <2>5. QED
    BY <1>2, <2>1, <2>2, <2>3, <2>4, TimeoutLocal, ExiterLocal DEF OtherMoves
<1>3. Next => (\E w \in Writers : WriterMoves(w)) \/ OtherMoves \/ Restart
  BY DEF Next, WriterMoves, OtherMoves, Walkers, Threads
<1>4. QED
  BY <1>1, <1>2, <1>3

-----------------------------------------------------------------------------
(* dbk_write_mark                                                          *)

\* The inductive form of WriteExclusion: who is inside the critical section is the one
\* who set dbk_write_mark.
LockHeld == \A w \in Writers : Holds(w) => writeMark = w

\* A writer's own step: it leaves the critical section only with the lock released, and
\* changes the lock only from free or from its own.
LEMMA OwnLock ==
  ASSUME TypeOK, NEW w \in Writers, WriterMoves(w), Holds(w) => writeMark = w
  PROVE  /\ Holds(w)' => writeMark' = w
         /\ writeMark' # writeMark => writeMark \in {Nobody, w}
<1> USE DEF Holds, Holding, TypeOK, PcType, Goto, queueVars, listVars
<1>1. w \in Threads /\ w \notin Procs
  BY QueueAssumption DEF Threads
<1>2. CASE Begin(w) \/ Lock(w) \/ ReadCur(w) \/ Reread(w) \/ Count(w) \/ Alloc(w)
  BY <1>1, <1>2 DEF Begin, Lock, ReadCur, Reread, Count, Alloc
<1>3. CASE Collect(w) \/ Reclaim(w) \/ Pick(w) \/ Link(w) \/ SetCur(w) \/ SetWrite(w)
  BY <1>1, <1>3 DEF Collect, Reclaim, Pick, Link, SetCur, SetWrite
<1>4. CASE Area(w) \/ Mark(w) \/ Body(w) \/ Stamp(w) \/ Fail(w)
  BY <1>1, <1>4 DEF Area, Mark, Body, Stamp, Fail
<1>5. CASE Scan(w) \/ Clean(w)
  BY <1>1, <1>5 DEF Scan, Clean, StartWalk
<1>6. CASE PubStep(w)
  BY <1>1, <1>6 DEF PubStep, Cas, Pub, Copy, Send, Resume
<1>7. CASE WalkStep(w)
  BY <1>1, <1>7 DEF WalkStep, Visit, Visited, VisitSet, Walked
<1>8. QED
  BY <1>2, <1>3, <1>4, <1>5, <1>6, <1>7 DEF WriterMoves, WriterStep

\* The threads that are no writers never touch dbk_write_mark.
LEMMA OthersLock ==
  ASSUME TypeOK, OtherMoves
  PROVE  UNCHANGED writeMark
<1> USE DEF queueVars, listVars
<1>1. ASSUME NEW t, PubStep(t)
      PROVE  UNCHANGED writeMark
  BY <1>1 DEF PubStep, Cas, Pub, Copy, Send
<1>2. ASSUME NEW p, WalkStep(p) \/ ReaderCrash(p)
      PROVE  UNCHANGED writeMark
  BY <1>2 DEF WalkStep, Visit, Visited, VisitSet, ReaderCrash
<1>3. ASSUME NEW p, ReaderStep(p)
      PROVE  UNCHANGED writeMark
  BY <1>3 DEF ReaderStep, Register, Connect, AddLock, Add, Recv, Read, Finish, Dec, Recheck,
    SetRead
<1>4. CASE TimeoutStep \/ Destroy \/ ExitRead
  BY <1>4 DEF TimeoutStep, Wake, TimeoutCheck, Destroy, ExitRead
<1>5. ASSUME NEW b, Age(b)
      PROVE  UNCHANGED writeMark
  BY <1>5 DEF Age
<1>6. QED
  BY <1>1, <1>2, <1>3, <1>4, <1>5 DEF OtherMoves

\* LockHeld is inductive.
LEMMA LockStep ==
  ASSUME TypeOK, LockHeld, Next
  PROVE  LockHeld'
<1> USE DEF LockHeld
<1>1. ASSUME NEW v \in Writers, Same(v)
      PROVE  Holds(v)' <=> Holds(v)
  BY <1>1 DEF Same, Holds, Holding
<1>2. ASSUME NEW w \in Writers, WriterMoves(w), \A u \in Threads \ {w} : Same(u)
      PROVE  LockHeld'
  <2>1. Holds(w)' => writeMark' = w
    BY <1>2, OwnLock
  <2>2. ASSUME NEW v \in Writers \ {w}, Holds(v)'
        PROVE  writeMark' = v
    <3>1. Holds(v) /\ v \in Threads
      BY <1>1, <1>2, <2>2 DEF Threads
    <3>2. writeMark = v /\ v # Nobody
      BY <3>1, QueueAssumption
    <3>3. QED
      BY <1>2, <2>2, <3>2, OwnLock
  <2>3. QED
    BY <2>1, <2>2
<1>3. CASE OtherMoves /\ \A v \in Writers : Same(v)
  BY <1>1, <1>3, OthersLock
<1>4. CASE Restart
  BY <1>4, QueueAssumption DEF Restart, Holds, Holding, Threads
<1>5. QED
  BY <1>2, <1>3, <1>4, WhoMoves

\* What every proof below starts from.
Base == TypeOK /\ InHand /\ LockHeld

\* Base is inductive.
LEMMA BaseInit == Init => Base
<1>1. ASSUME Init
      PROVE  LockHeld
  BY <1>1, QueueAssumption DEF Init, LockHeld, Holds, Holding, Threads
<1>2. QED
  BY <1>1, TypeInit DEF Base

\* Every step keeps Base.
LEMMA BaseStep == Base /\ [Next]_vars => Base'
<1> SUFFICES ASSUME Base, [Next]_vars PROVE Base'
  OBVIOUS
<1>1. TypeOK' /\ InHand'
  BY TypeStep DEF Base
<1>2. CASE Next
  BY <1>1, <1>2, LockStep DEF Base
<1>3. CASE UNCHANGED vars
  BY <1>1, <1>3 DEF Base, LockHeld, Holds, Holding, vars, queueVars
<1>4. QED
  BY <1>2, <1>3

\* dbk_write_mark (lines 1805-1876): two writers are never between the lock and the unlock of
\* ipc_shm_record_write, however many there are and however often their process restarts.
THEOREM LockExcludes == Spec => []WriteExclusion
<1>1. Base => WriteExclusion
  BY DEF Base, LockHeld, WriteExclusion
<1>2. QED
  BY <1>1, BaseInit, BaseStep, PTL DEF Spec

-----------------------------------------------------------------------------
(* The block lists                                                         *)

\* Whoever holds dbk_write_mark and has no current block, or has lost the one it had,
\* finds cur_w_dbk 0: only the holder sets it.
CurFree ==
  \A w \in Writers :
    /\ pc[w] \in {"alloc", "collect", "reclaim", "pick", "link", "setcur", "pub", "copy", "send"}
         => curW = NoBlk
    /\ pc[w] = "cas" => curW \in {blk[w], NoBlk}

\* The inductive form of ListsPartition and WrittenBlockUsed.
ListInv == ListsPartition /\ WrittenBlockUsed /\ CurFree

\* Where a writer is with respect to the lists: what InTransit, WrittenBlockUsed and CurFree
\* say of one writer.
Moved(w)  == (IF pc[w] = "reclaim" THEN {cur[w]} ELSE {}) \cup (IF pc[w] = "link" THEN {blk[w]} ELSE {})
Placed(w) ==
  /\ pc[w] \in Filling => blk[w] \in ToSet(dbkList)
  /\ pc[w] \in {"alloc", "collect", "reclaim", "pick", "link", "setcur", "pub", "copy", "send"}
       => curW = NoBlk
  /\ pc[w] = "cas" => curW \in {blk[w], NoBlk}

\* InTransit, WrittenBlockUsed and CurFree, writer by writer.
LEMMA ByWriter ==
  /\ InTransit = UNION {Moved(w) : w \in Writers}
  /\ WrittenBlockUsed /\ CurFree <=>
       /\ curW # NoBlk => curW \in ToSet(dbkList)
       /\ \A w \in Writers : Placed(w)
<1>1. InTransit = UNION {Moved(w) : w \in Writers}
  BY DEF InTransit, Moved
<1>2. QED
  BY <1>1 DEF WrittenBlockUsed, CurFree, Placed

\* Only the holder of dbk_write_mark has a block off the lists, or fills one.
LEMMA HolderOnly ==
  ASSUME LockHeld, NEW w \in Writers, Holds(w), NEW v \in Writers \ {w}
  PROVE  ~Holds(v) /\ Moved(v) = {} /\ Placed(v)
<1>1. ~Holds(v)
  BY DEF LockHeld
<1>2. QED
  BY <1>1 DEF Holds, Holding, Moved, Placed, Filling

\* Nobody but w is at a point that matters: the state of the lists is that of w.
LEMMA HolderTransit ==
  ASSUME LockHeld, NEW w \in Writers, Holds(w)
  PROVE  InTransit = Moved(w)
BY HolderOnly, ByWriter

\* The same after a step.
LEMMA HolderTransitNext ==
  ASSUME LockHeld', NEW w \in Writers, Holds(w)'
  PROVE  InTransit' = Moved(w)'
<1>1. \A v \in Writers \ {w} : Moved(v)' = {}
  BY DEF LockHeld, Moved, Holds, Holding
<1>2. InTransit' = UNION {Moved(v)' : v \in Writers}
  BY DEF InTransit, Moved
<1>3. QED
  BY <1>1, <1>2

\* The steps of a writer that leave the lists and cur_w_dbk alone.
LEMMA QuietStep ==
  ASSUME TypeOK, InHand, ListInv, NEW w \in Writers, WriterMoves(w),
         ~(Collect(w) \/ Reclaim(w) \/ Pick(w) \/ Link(w) \/ SetCur(w) \/ Cas(w))
  PROVE  UNCHANGED <<listVars, restarts>> /\ Moved(w)' = Moved(w) /\ Placed(w)'
<1> USE DEF Moved, Filling, TypeOK, PcType, LocalType, Goto, queueVars, listVars, localVars, envVars
<1>1. w \in Threads /\ Placed(w) /\ (curW # NoBlk => curW \in ToSet(dbkList))
  BY ByWriter DEF ListInv, Threads
<1>2. CASE Begin(w) \/ Lock(w) \/ ReadCur(w)
  BY <1>1, <1>2 DEF Begin, Lock, ReadCur, Placed
<1>3. CASE Reread(w) \/ Count(w) \/ Alloc(w) \/ SetWrite(w)
  BY <1>1, <1>3 DEF Reread, Count, Alloc, SetWrite, Placed
<1>4. CASE Area(w) \/ Mark(w) \/ Body(w) \/ Stamp(w) \/ Fail(w)
  BY <1>1, <1>4 DEF Area, Mark, Body, Stamp, Fail, Placed
<1>5. CASE Scan(w) \/ Clean(w)
  BY <1>1, <1>5 DEF Scan, Clean, StartWalk, Placed
<1>6. CASE Pub(w) \/ Copy(w) \/ Send(w)
  BY <1>1, <1>6 DEF Pub, Copy, Send, Resume, Placed
<1>7. CASE WalkStep(w)
  BY <1>1, <1>7 DEF WalkStep, Visit, Visited, VisitSet, Walked, Placed
<1>8. QED
  BY <1>2, <1>3, <1>4, <1>5, <1>6, <1>7 DEF WriterMoves, WriterStep, PubStep

\* The threads that are no writers only ever clear cur_w_dbk.
LEMMA OthersLists ==
  ASSUME TypeOK, OtherMoves
  PROVE  UNCHANGED <<dbkList, freeList, restarts>> /\ curW' \in {curW, NoBlk}
<1> USE DEF queueVars, listVars, envVars
<1> DEFINE Goal == UNCHANGED <<dbkList, freeList, restarts>> /\ curW' \in {curW, NoBlk}
<1>1. ASSUME NEW t, PubStep(t)
      PROVE  Goal
  BY <1>1 DEF PubStep, Cas, Pub, Copy, Send
<1>2. ASSUME NEW p, WalkStep(p) \/ ReaderCrash(p)
      PROVE  Goal
  BY <1>2 DEF WalkStep, Visit, Visited, VisitSet, ReaderCrash
<1>3. ASSUME NEW p, ReaderStep(p)
      PROVE  Goal
  BY <1>3 DEF ReaderStep, Register, Connect, AddLock, Add, Recv, Read, Finish, Dec, Recheck,
    SetRead
<1>4. CASE TimeoutStep \/ Destroy \/ ExitRead
  BY <1>4 DEF TimeoutStep, Wake, TimeoutCheck, Destroy, ExitRead
<1>5. ASSUME NEW b, Age(b)
      PROVE  Goal
  BY <1>5 DEF Age
<1>6. QED
  BY <1>1, <1>2, <1>3, <1>4, <1>5 DEF OtherMoves

\* ipc_dbk_collect takes a block off the used list.
LEMMA CollectLists ==
  ASSUME TypeOK, LockHeld, LockHeld', ListInv, NEW w \in Writers, Collect(w)
  PROVE  /\ ListsPartition' /\ Placed(w)'
         /\ curW' # NoBlk => curW' \in ToSet(dbkList')
<1> USE DEF Collect, Goto, TypeOK, PcType, LocalType, ListType, envVars
<1>1. w \in Threads /\ Holds(w) /\ Holds(w)' /\ curW = NoBlk /\ restarts' = restarts
  BY DEF Holds, Holding, Threads, ListInv, CurFree
<1>2. InTransit = {} /\ InTransit' = Moved(w)'
  <2>1. Moved(w) = {}
    BY DEF Moved
  <2>2. InTransit = Moved(w)
    BY <1>1, HolderTransit
  <2>3. QED
    BY <1>1, <2>1, <2>2, HolderTransitNext
<1>3. CASE dbkList' = dbkList /\ pc'[w] \in {"pick", "collect"}
  <2>1. Moved(w)' = {}
    BY <1>3 DEF Moved
  <2>2. QED
    BY <1>1, <1>2, <1>3, <2>1 DEF ListInv, ListsPartition, Placed, Filling
<1>4. ASSUME NEW k \in DOMAIN dbkList, dbkList[k] = cur[w], dbkList' = Unlink(dbkList, k),
             pc'[w] = "reclaim", cur' = cur
      PROVE  ListsPartition' /\ Placed(w)'
  <2>1. k \in 1..Len(dbkList)
    BY LenProperties
  <2>2. IsInjective(dbkList') /\ ToSet(dbkList') = ToSet(dbkList) \ {cur[w]}
    BY <1>4, <2>1, UnlinkList DEF ListInv, ListsPartition
  <2>3. cur[w] \in ToSet(dbkList) /\ Moved(w)' = {cur[w]}
    BY <1>4 DEF Moved, ToSet
  <2>4. freeList' = freeList
    OBVIOUS
  <2>5. ListsPartition'
    BY <1>1, <1>2, <2>2, <2>3, <2>4 DEF ListInv, ListsPartition
  <2>6. QED
    BY <1>1, <1>4, <2>5 DEF Placed, Filling
<1>5. Collect(w) => \/ dbkList' = dbkList /\ pc'[w] \in {"pick", "collect"}
                    \/ \E k \in DOMAIN dbkList : /\ dbkList[k] = cur[w] /\ dbkList' = Unlink(dbkList, k)
                                                 /\ pc'[w] = "reclaim" /\ cur' = cur
  BY <1>1
<1>6. QED
  BY <1>1, <1>3, <1>4, <1>5

\* ipc_dbk_collect puts it on the free list.
LEMMA ReclaimLists ==
  ASSUME TypeOK, InHand, LockHeld, LockHeld', ListInv, NEW w \in Writers, Reclaim(w)
  PROVE  /\ ListsPartition' /\ Placed(w)'
         /\ curW' # NoBlk => curW' \in ToSet(dbkList')
<1> USE DEF Reclaim, Goto, TypeOK, PcType, ListType, envVars
<1>1. w \in Threads /\ Holds(w) /\ Holds(w)' /\ curW = NoBlk /\ curW' = NoBlk /\ dbkList' = dbkList
      /\ restarts' = restarts /\ pc'[w] \in {"pick", "collect"}
  BY DEF Holds, Holding, Threads, ListInv, CurFree
<1>2. InTransit = {cur[w]} /\ InTransit' = {}
  <2>1. Moved(w) = {cur[w]} /\ Moved(w)' = {}
    BY <1>1 DEF Moved
  <2>2. QED
    BY <1>1, <2>1, HolderTransit, HolderTransitNext
<1>3. cur[w] \in Blocks
  BY <1>1 DEF InHand, HandOf
<1>4. cur[w] \notin ToSet(freeList) /\ IsInjective(freeList)
  BY <1>2 DEF ListInv, ListsPartition
<1>5. ToSet(freeList') = ToSet(freeList) \cup {cur[w]} /\ IsInjective(freeList')
  <2>1. freeList' = Cons(cur[w], freeList) /\ freeList \in Seq(Blocks)
    OBVIOUS
  <2>2. QED
    BY ONLY <1>3, <1>4, <2>1, ConsList
<1>6. ListsPartition'
  BY <1>1, <1>2, <1>5 DEF ListInv, ListsPartition
<1>7. QED
  BY <1>1, <1>6 DEF Placed, Filling

\* ipc_queue_dbk_get takes a free block.
LEMMA PickLists ==
  ASSUME TypeOK, LockHeld, LockHeld', ListInv, NEW w \in Writers, Pick(w)
  PROVE  /\ ListsPartition' /\ Placed(w)'
         /\ curW' # NoBlk => curW' \in ToSet(dbkList')
<1> USE DEF Pick, Goto, TypeOK, PcType, LocalType, ListType, envVars
<1>1. w \in Threads /\ Holds(w) /\ Holds(w)' /\ curW = NoBlk /\ curW' = NoBlk /\ dbkList' = dbkList
      /\ restarts' = restarts
  BY DEF Holds, Holding, Threads, ListInv, CurFree
<1>2. InTransit = {} /\ InTransit' = Moved(w)'
  <2>1. Moved(w) = {}
    BY DEF Moved
  <2>2. QED
    BY <1>1, <2>1, HolderTransit, HolderTransitNext
<1>3. CASE freeList' = freeList /\ pc'[w] = "fail"
  <2>1. Moved(w)' = {}
    BY <1>3 DEF Moved
  <2>2. QED
    BY <1>1, <1>2, <1>3, <2>1 DEF ListInv, ListsPartition, Placed, Filling
<1>4. ASSUME NEW k \in DOMAIN freeList, freeList' = Unlink(freeList, k), pc'[w] = "link",
             blk'[w] = freeList[k]
      PROVE  ListsPartition' /\ Placed(w)'
  <2>1. k \in 1..Len(freeList)
    BY LenProperties
  <2>2. IsInjective(freeList') /\ ToSet(freeList') = ToSet(freeList) \ {blk'[w]}
    BY <1>4, <2>1, UnlinkList DEF ListInv, ListsPartition
  <2>3. blk'[w] \in ToSet(freeList) /\ Moved(w)' = {blk'[w]}
    BY <1>4 DEF Moved, ToSet
  <2>4. ListsPartition'
    BY <1>1, <1>2, <2>2, <2>3 DEF ListInv, ListsPartition
  <2>5. QED
    BY <1>1, <1>4, <2>4 DEF Placed, Filling
<1>5. Pick(w) => \/ freeList' = freeList /\ pc'[w] = "fail"
                 \/ \E k \in DOMAIN freeList : /\ freeList' = Unlink(freeList, k) /\ pc'[w] = "link"
                                               /\ blk'[w] = freeList[k]
  BY <1>1 DEF Fits
<1>6. QED
  BY <1>1, <1>3, <1>4, <1>5

\* ... and puts it on the used list.
LEMMA LinkLists ==
  ASSUME TypeOK, InHand, LockHeld, LockHeld', ListInv, NEW w \in Writers, Link(w)
  PROVE  /\ ListsPartition' /\ Placed(w)'
         /\ curW' # NoBlk => curW' \in ToSet(dbkList')
<1> USE DEF Link, Goto, TypeOK, PcType, ListType, localVars, envVars
<1>1. w \in Threads /\ Holds(w) /\ Holds(w)' /\ curW = NoBlk /\ curW' = NoBlk /\ freeList' = freeList
      /\ restarts' = restarts /\ pc'[w] = "setcur" /\ blk' = blk
  BY DEF Holds, Holding, Threads, ListInv, CurFree
<1>2. InTransit = {blk[w]} /\ InTransit' = {}
  <2>1. Moved(w) = {blk[w]} /\ Moved(w)' = {}
    BY <1>1 DEF Moved
  <2>2. QED
    BY <1>1, <2>1, HolderTransit, HolderTransitNext
<1>3. blk[w] \in Blocks
  BY <1>1 DEF InHand, HandOf, Working
<1>4. blk[w] \notin ToSet(dbkList) /\ IsInjective(dbkList)
  BY <1>2 DEF ListInv, ListsPartition
<1>5. ToSet(dbkList') = ToSet(dbkList) \cup {blk[w]} /\ IsInjective(dbkList')
  <2>1. dbkList' = Cons(blk[w], dbkList) /\ dbkList \in Seq(Blocks)
    OBVIOUS
  <2>2. QED
    BY ONLY <1>3, <1>4, <2>1, ConsList
<1>6. ListsPartition'
  BY <1>1, <1>2, <1>5 DEF ListInv, ListsPartition
<1>7. QED
  BY <1>1, <1>5, <1>6 DEF Placed, Filling

\* The two assignments of a writer to cur_w_dbk.
LEMMA CurLists ==
  ASSUME TypeOK, ListInv, NEW w \in Writers, SetCur(w) \/ Cas(w)
  PROVE  /\ UNCHANGED <<dbkList, freeList, restarts>> /\ Moved(w)' = Moved(w) /\ Placed(w)'
         /\ curW' # NoBlk => curW' \in ToSet(dbkList')
<1> USE DEF Goto, TypeOK, PcType, LocalType, localVars, envVars, Moved, Filling
<1>1. w \in Threads /\ Placed(w) /\ (curW # NoBlk => curW \in ToSet(dbkList))
  BY ByWriter DEF ListInv, Threads
<1>2. CASE SetCur(w)
  BY <1>1, <1>2 DEF SetCur, Placed
<1>3. CASE Cas(w)
  BY <1>1, <1>3 DEF Cas, Resume, Placed
<1>4. QED
  BY <1>2, <1>3

\* ListInv is inductive.
LEMMA ListStep ==
  ASSUME Base, Base', ListInv, Next
  PROVE  ListInv'
<1> USE DEF Base
<1>1. \A v \in Writers : Placed(v)
  BY ByWriter DEF ListInv
<1>2. InTransit' = UNION {Moved(v)' : v \in Writers} /\ InTransit = UNION {Moved(v) : v \in Writers}
  BY DEF InTransit, Moved
<1>3. ASSUME ListsPartition', \A v \in Writers : Placed(v)', curW' # NoBlk => curW' \in ToSet(dbkList')
      PROVE  ListInv'
  BY <1>3 DEF ListInv, WrittenBlockUsed, CurFree, Placed
<1>4. ASSUME UNCHANGED <<dbkList, freeList, restarts>>, \A v \in Writers : Moved(v)' = Moved(v)
      PROVE  ListsPartition'
  <2>1. InTransit' = InTransit
    BY <1>2, <1>4
  <2>2. QED
    BY <1>4, <2>1 DEF ListInv, ListsPartition
<1>5. ASSUME NEW v \in Writers, Same(v)
      PROVE  /\ Moved(v)' = Moved(v)
             /\ Holds(v)' <=> Holds(v)
             /\ UNCHANGED dbkList /\ curW' \in {curW, NoBlk} => Placed(v)'
  BY <1>1, <1>5 DEF Same, Moved, Placed, Filling, Walkers, Holds, Holding
<1>6. ASSUME NEW w \in Writers, WriterMoves(w), \A u \in Threads \ {w} : Same(u)
      PROVE  ListInv'
  <2>1. \A v \in Writers \ {w} : Same(v)
    BY <1>6 DEF Threads
  <2>2. CASE ~(Collect(w) \/ Reclaim(w) \/ Pick(w) \/ Link(w) \/ SetCur(w) \/ Cas(w))
    <3>1. UNCHANGED <<listVars, restarts>> /\ Moved(w)' = Moved(w) /\ Placed(w)'
      BY <1>6, <2>2, QuietStep
    <3>2. UNCHANGED <<dbkList, freeList, restarts, curW>>
      BY <3>1 DEF listVars
    <3>3. \A v \in Writers : Moved(v)' = Moved(v) /\ Placed(v)'
      BY <1>5, <2>1, <3>1, <3>2
    <3>4. QED
      BY <1>3, <1>4, <3>2, <3>3 DEF ListInv, WrittenBlockUsed
  <2>3. ASSUME Holds(w), ListsPartition', Placed(w)', curW' # NoBlk => curW' \in ToSet(dbkList')
        PROVE  ListInv'
    <3>1. ASSUME NEW v \in Writers \ {w}
          PROVE  Placed(v)'
      <4>1. ~Holds(v)'
        BY <1>5, <2>1, <2>3, HolderOnly
      <4>2. QED
        BY <4>1 DEF Placed, Holds, Holding, Filling
    <3>2. QED
      BY <1>3, <2>3, <3>1
  <2>4. CASE SetCur(w) \/ Cas(w)
    <3>1. /\ UNCHANGED <<dbkList, freeList, restarts>> /\ Moved(w)' = Moved(w) /\ Placed(w)'
          /\ curW' # NoBlk => curW' \in ToSet(dbkList')
      BY <2>4, CurLists
    <3>2. ListsPartition'
      BY <1>4, <1>5, <2>1, <3>1
    <3>3. Holds(w)
      BY <2>4 DEF SetCur, Cas, Holds, Holding
    <3>4. QED
      BY <2>3, <3>1, <3>2, <3>3
  <2>5. CASE Collect(w) \/ Reclaim(w) \/ Pick(w) \/ Link(w)
    <3>1. Holds(w)
      BY <2>5 DEF Collect, Reclaim, Pick, Link, Holds, Holding
    <3>2. QED
      BY <2>3, <2>5, <3>1, CollectLists, ReclaimLists, PickLists, LinkLists
  <2>6. QED
    BY <2>2, <2>4, <2>5
<1>7. CASE OtherMoves /\ \A v \in Writers : Same(v)
  <2>1. UNCHANGED <<dbkList, freeList, restarts>> /\ curW' \in {curW, NoBlk}
    BY <1>7, OthersLists
  <2>2. \A v \in Writers : Moved(v)' = Moved(v) /\ Placed(v)'
    BY <1>5, <1>7, <2>1
  <2>3. QED
    BY <1>3, <1>4, <2>1, <2>2 DEF ListInv, WrittenBlockUsed
<1>8. CASE Restart
  <2>1. UNCHANGED <<dbkList, freeList, curW>> /\ restarts' # 0
    BY <1>8 DEF Restart, listVars, TypeOK, EnvType
  <2>2. \A v \in Writers : pc'[v] = "idle"
    BY <1>8 DEF Restart, Threads
  <2>3. \A v \in Writers : Moved(v)' = {} /\ Placed(v)'
    BY <2>2 DEF Moved, Placed, Filling
  <2>4. InTransit' = {}
    BY <1>2, <2>3
  <2>5. ListsPartition'
    BY <2>1, <2>4 DEF ListInv, ListsPartition
  <2>6. QED
    BY <1>3, <2>1, <2>3, <2>5 DEF ListInv, WrittenBlockUsed
<1>9. QED
  BY <1>6, <1>7, <1>8, WhoMoves

\* All blocks start on the free list, whatever their order.
LEMMA ListInit == Init => ListInv
<1> SUFFICES ASSUME Init PROVE ListInv
  OBVIOUS
<1>1. IsInjective(freeList) /\ ToSet(freeList) = Blocks
  BY QueueAssumption, ReverseList DEF Init
<1>2. dbkList = <<>> /\ ToSet(dbkList) = {} /\ IsInjective(dbkList)
  BY DEF Init, ToSet, IsInjective
<1>3. InTransit = {} /\ \A w \in Writers : pc[w] = "idle"
  BY DEF Init, InTransit, Threads
<1>4. curW = NoBlk
  BY DEF Init
<1>5. QED
  BY <1>1, <1>2, <1>3, <1>4 DEF ListInv, ListsPartition, WrittenBlockUsed, CurFree, Filling

\* The invariant the theorems below follow from.
LEMMA ListInvariant == Spec => [](Base /\ ListInv)
<1>1. Init => Base /\ ListInv
  BY BaseInit, ListInit
<1>2. Base /\ ListInv /\ [Next]_vars => (Base /\ ListInv)'
  <2> SUFFICES ASSUME Base, ListInv, [Next]_vars PROVE Base' /\ ListInv'
    OBVIOUS
  <2>1. Base'
    BY BaseStep
  <2>2. CASE Next
    BY <2>1, <2>2, ListStep
  <2>3. CASE UNCHANGED vars
    <3>1. UNCHANGED <<curW, dbkList, freeList, restarts, pc, blk, cur>>
      BY <2>3 DEF vars, queueVars, localVars, envVars
    <3>2. InTransit' = InTransit
      BY <3>1 DEF InTransit
    <3>3. ListsPartition'
      BY <3>1, <3>2 DEF ListInv, ListsPartition
    <3>4. WrittenBlockUsed' /\ CurFree'
      BY <3>1 DEF ListInv, WrittenBlockUsed, CurFree
    <3>5. QED
      BY <2>1, <3>3, <3>4 DEF ListInv
  <2>4. QED
    BY <2>1, <2>2, <2>3
<1>3. QED
  BY <1>1, <1>2, PTL DEF Spec

\* The two block lists (lines 1080-1089, 1346-1370): no block is on both lists or twice on
\* one, whatever the timeout thread, readers and a restarted writer do, and while the writer
\* process lives every block is on a list or in the hand of the writer that moves it.
THEOREM ListsPartitioned == Spec => []ListsPartition
<1>1. Base /\ ListInv => ListsPartition
  BY DEF ListInv
<1>2. QED
  BY <1>1, ListInvariant, PTL

\* cur_w_dbk (lines 1535-1574): a block that is written to is on the used list, so that
\* ipc_queue_dbk_get cannot give it out a second time.
THEOREM WrittenStaysUsed == Spec => []WrittenBlockUsed
<1>1. Base /\ ListInv => WrittenBlockUsed
  BY DEF ListInv
<1>2. QED
  BY <1>1, ListInvariant, PTL

-----------------------------------------------------------------------------
(* No record leaves its data block.                                        *)

\* Between the test of ipc_queue_dbk_full and decision_write_area.
Tested    == {"count", "link", "setcur", "setwrite", "area"}
Fitting(w) == pc[w] \in Tested => ~Full(blk[w], size[w])
FreeEmpty  == \A i \in DOMAIN freeList : pos[freeList[i]] = 0 /\ rcdNum[freeList[i]] = 0
Inside     == \A b \in Blocks : pos[b] <= BlkSize[b]

\* NoOverrun is inductive as it stands, given the lock and the lists; its three parts.
LEMMA RoomParts == NoOverrun <=> Inside /\ (\A w \in Writers : Fitting(w)) /\ FreeEmpty
BY DEF NoOverrun, Inside, Fitting, FreeEmpty, Tested

\* What the current block of a writer is: a block, and not a free one.
LEMMA FilledNotFree ==
  ASSUME Base, ListInv, NEW w \in Writers, pc[w] \in Filling
  PROVE  blk[w] \in Blocks /\ \A i \in DOMAIN freeList : freeList[i] # blk[w]
<1>1. w \in Threads
  BY DEF Threads
<1>2. blk[w] \in Blocks
  BY <1>1 DEF Base, InHand, HandOf, Working, Filling
<1>3. blk[w] \in ToSet(dbkList) /\ blk[w] \notin ToSet(freeList)
  BY DEF ListInv, ListsPartition, WrittenBlockUsed
<1>4. QED
  BY <1>2, <1>3 DEF ToSet

\* A writer's own step leaves it with a block that has room, whenever it left the test.
LEMMA OwnFitting ==
  ASSUME TypeOK, NEW w \in Writers, WriterMoves(w), Fitting(w)
  PROVE  Fitting(w)'
<1> USE DEF Fitting, Tested, Full, Goto, TypeOK, PcType, LocalType
<1>1. w \in Threads
  BY DEF Threads
<1>2. CASE pc'[w] \notin Tested
  BY <1>2
<1>3. CASE Begin(w) \/ Lock(w) \/ ReadCur(w) \/ Alloc(w) \/ Collect(w) \/ Reclaim(w)
  BY <1>1, <1>2, <1>3 DEF Begin, Lock, ReadCur, Alloc, Collect, Reclaim
<1>4. CASE Area(w) \/ Mark(w) \/ Body(w) \/ Stamp(w) \/ Fail(w) \/ Scan(w) \/ Clean(w)
  BY <1>1, <1>2, <1>4 DEF Area, Mark, Body, Stamp, Fail, Scan, Clean, StartWalk
<1>5. CASE PubStep(w) \/ WalkStep(w)
  BY <1>1, <1>2, <1>5 DEF PubStep, Cas, Pub, Copy, Send, Resume, WalkStep, Visit, Visited,
    VisitSet, Walked
<1>6. CASE Reread(w)
  BY <1>1, <1>6 DEF Reread, blockVars
<1>7. CASE Pick(w)
  BY <1>1, <1>7 DEF Pick, Fits, blockVars
<1>8. CASE Count(w) \/ Link(w) \/ SetCur(w) \/ SetWrite(w)
  BY <1>1, <1>8 DEF Count, Link, SetCur, SetWrite, blockVars, localVars
<1>9. QED
  BY <1>3, <1>4, <1>5, <1>6, <1>7, <1>8 DEF WriterMoves, WriterStep

\* The steps that change how full a block is, or what is free.
Filled(w) == Count(w) \/ SetWrite(w) \/ Area(w) \/ Reclaim(w) \/ Pick(w)

\* All other steps leave both alone.
LEMMA RoomFrame ==
  ASSUME Next, ~(\E w \in Writers : Filled(w))
  PROVE  UNCHANGED <<pos, rcdNum, freeList>>
<1>1. UNCHANGED <<pos, rcdNum>>
  BY BlockFrame DEF Filled, SetRead, Pub, Copy, Visit, VisitSet, Dec, Finish, Stamp, Age, blockVars
<1>2. UNCHANGED freeList
  BY ListFrame DEF Filled, listVars, Collect, Link, SetCur, Cas
<1>3. QED
  BY <1>1, <1>2

\* Count and SetWrite: one more record in a block that is not free.
LEMMA CountRoom ==
  ASSUME Base, ListInv, NoOverrun, NEW w \in Writers, Count(w) \/ SetWrite(w)
  PROVE  Inside' /\ FreeEmpty'
<1>1. pc[w] \in Filling
  BY DEF Count, SetWrite, Filling
<1>2. UNCHANGED <<pos, freeList>> /\ rcdNum' = [rcdNum EXCEPT ![blk[w]] = @ + 1]
  BY DEF Count, SetWrite, queueVars
<1>3. Inside'
  BY <1>2, RoomParts DEF Inside
<1>4. \A i \in DOMAIN freeList : freeList[i] \in Blocks
  BY LenProperties, ElementOfSeq DEF Base, TypeOK, ListType
<1>5. FreeEmpty'
  BY <1>1, <1>2, <1>4, FilledNotFree, RoomParts DEF FreeEmpty, Base, TypeOK, BlockType
<1>6. QED
  BY <1>3, <1>5

\* decision_write_area: dbk_pos advances by the size that was tested.
LEMMA AreaRoom ==
  ASSUME Base, ListInv, NoOverrun, NEW w \in Writers, Area(w)
  PROVE  Inside' /\ FreeEmpty'
<1>1. pc[w] \in Filling /\ pc[w] \in Tested
  BY DEF Area, Filling, Tested
<1>2. UNCHANGED <<rcdNum, freeList>> /\ pos' = [pos EXCEPT ![blk[w]] = @ + size[w]]
  BY DEF Area, queueVars
<1>3. blk[w] \in Blocks /\ size[w] \in Nat /\ pos \in [Blocks -> Nat]
  BY <1>1, FilledNotFree DEF Base, TypeOK, BlockType, LocalType
<1>4. pos[blk[w]] + size[w] <= BlkSize[blk[w]]
  BY <1>1, <1>3, QueueAssumption, RoomParts DEF Fitting, Full
<1>5. Inside'
  BY <1>2, <1>3, <1>4, RoomParts DEF Inside
<1>6. \A i \in DOMAIN freeList : freeList[i] \in Blocks
  BY LenProperties, ElementOfSeq DEF Base, TypeOK, ListType
<1>7. FreeEmpty'
  BY <1>1, <1>2, <1>3, <1>6, FilledNotFree, RoomParts DEF FreeEmpty
<1>8. QED
  BY <1>5, <1>7

\* ipc_shm_queue_data_block_init empties the block that becomes free.
LEMMA ReclaimRoom ==
  ASSUME Base, NoOverrun, NEW w \in Writers, Reclaim(w)
  PROVE  Inside' /\ FreeEmpty'
<1> DEFINE b == cur[w]
<1>1. b \in Blocks /\ freeList' = Cons(b, freeList)
  BY DEF Reclaim, Base, InHand, HandOf, Threads
<1>2. pos' = [pos EXCEPT ![b] = 0] /\ rcdNum' = [rcdNum EXCEPT ![b] = 0]
  BY DEF Reclaim, BlockInit
<1>3. freeList \in Seq(Blocks) /\ pos \in [Blocks -> Nat] /\ rcdNum \in [Blocks -> Nat]
  BY DEF Base, TypeOK, ListType, BlockType
<1> HIDE DEF b
<1>4. Inside'
  <2>1. BlkSize[b] \in Nat
    BY <1>1, QueueAssumption
  <2>2. QED
    BY <1>2, <1>3, <2>1, RoomParts DEF Inside
<1>5. ToSet(freeList') = ToSet(freeList) \cup {b}
  BY <1>1, <1>3, ConsList
<1>6. \A c \in ToSet(freeList) : pos[c] = 0 /\ rcdNum[c] = 0
  BY RoomParts DEF FreeEmpty, ToSet
<1>7. \A c \in ToSet(freeList) : c \in Blocks
  BY <1>3, LenProperties, ElementOfSeq DEF ToSet
<1>8. \A c \in ToSet(freeList') : pos'[c] = 0 /\ rcdNum'[c] = 0
  BY <1>1, <1>2, <1>3, <1>5, <1>6, <1>7
<1>9. FreeEmpty'
  BY <1>8 DEF FreeEmpty, ToSet
<1>10. QED
  BY <1>4, <1>9

\* Pick only shortens the free list.
LEMMA PickRoom ==
  ASSUME Base, ListInv, NoOverrun, NEW w \in Writers, Pick(w)
  PROVE  Inside' /\ FreeEmpty'
<1>1. UNCHANGED <<pos, rcdNum>>
  BY DEF Pick, blockVars
<1>2. Inside'
  BY <1>1, RoomParts DEF Inside
<1>3. CASE freeList' = freeList
  BY <1>1, <1>2, <1>3, RoomParts DEF FreeEmpty
<1>4. ASSUME NEW k \in DOMAIN freeList, freeList' = Unlink(freeList, k)
      PROVE  FreeEmpty'
  <2>1. k \in 1..Len(freeList) /\ freeList \in Seq(Blocks)
    BY LenProperties DEF Base, TypeOK, ListType
  <2>2. ToSet(freeList') \subseteq ToSet(freeList)
    BY <1>4, <2>1, UnlinkList DEF ListInv, ListsPartition
  <2>3. \A c \in ToSet(freeList) : pos[c] = 0 /\ rcdNum[c] = 0
    BY RoomParts DEF FreeEmpty, ToSet
  <2>4. QED
    BY <1>1, <2>2, <2>3 DEF FreeEmpty, ToSet
<1>5. QED
  BY <1>2, <1>3, <1>4 DEF Pick, Fits

\* NoOverrun is inductive.
LEMMA RoomStep ==
  ASSUME Base, ListInv, NoOverrun, Next
  PROVE  NoOverrun'
<1>1. Inside' /\ FreeEmpty'
  <2>1. CASE \E w \in Writers : Filled(w)
    BY <2>1, CountRoom, AreaRoom, ReclaimRoom, PickRoom DEF Filled
  <2>2. CASE ~(\E w \in Writers : Filled(w))
    <3>1. UNCHANGED <<pos, rcdNum, freeList>>
      BY <2>2, RoomFrame
    <3>2. QED
      BY <3>1, RoomParts DEF Inside, FreeEmpty
  <2>3. QED
    BY <2>1, <2>2
<1>2. \A v \in Writers : Fitting(v)'
  <2>1. ASSUME NEW v \in Writers, Same(v), UNCHANGED pos
        PROVE  Fitting(v)'
    BY <2>1, RoomParts DEF Same, Fitting, Full
  <2>2. ASSUME NEW w \in Writers, WriterMoves(w), \A u \in Threads \ {w} : Same(u),
               NEW v \in Writers
        PROVE  Fitting(v)'
    <3>1. CASE v = w
      BY <2>2, <3>1, OwnFitting, RoomParts DEF Base
    <3>2. CASE v # w /\ UNCHANGED pos
      BY <2>1, <2>2, <3>2 DEF Threads
    <3>3. CASE v # w /\ Holds(w)
      <4>1. ~Holds(v)
        BY <3>3, HolderOnly DEF Base
      <4>2. pc'[v] \notin Tested
        BY <2>2, <3>3, <4>1 DEF Same, Threads, Holds, Holding, Tested
      <4>3. QED
        BY <4>2 DEF Fitting
    <3>4. UNCHANGED pos \/ Holds(w)
      <4>1. ASSUME NEW u \in Writers, Filled(u)
            PROVE  u = w \/ UNCHANGED pos
        <5>1. pc'[u] # pc[u] 
          BY <4>1 DEF Filled, Count, SetWrite, Area, Reclaim, Pick, Goto, Base, TypeOK, PcType, Threads
        <5>2. QED
          BY <2>2, <5>1 DEF Same, Threads
      <4>2. Filled(w) => Holds(w)
        BY DEF Filled, Count, SetWrite, Area, Reclaim, Pick, Holds, Holding
      <4>3. QED
        BY <4>1, <4>2, RoomFrame
    <3>5. QED
      BY <3>1, <3>2, <3>3, <3>4
  <2>3. CASE OtherMoves /\ \A v \in Writers : Same(v)
    <3>1. ~(\E w \in Writers : Filled(w))
      BY <2>3 DEF Filled, Count, SetWrite, Area, Reclaim, Pick, Goto, Base, TypeOK, PcType, Threads,
        Same
    <3>2. QED
      BY <2>1, <2>3, <3>1, RoomFrame
  <2>4. CASE Restart
    BY <2>4 DEF Restart, Fitting, Tested, Threads
  <2>5. QED
    BY <2>2, <2>3, <2>4, WhoMoves DEF Base
<1>3. QED
  BY <1>1, <1>2 DEF NoOverrun, Inside, Fitting, FreeEmpty, Tested

\* The blocks start empty.
LEMMA RoomInit == Init => NoOverrun
<1> SUFFICES ASSUME Init PROVE NoOverrun
  OBVIOUS
<1>1. Inside
  BY QueueAssumption DEF Init, Inside
<1>2. \A w \in Writers : Fitting(w)
  BY DEF Init, Fitting, Tested, Threads
<1>3. FreeEmpty
  <2>1. \A i \in DOMAIN freeList : freeList[i] \in Blocks
    BY TypeInit, LenProperties, ElementOfSeq DEF TypeOK, ListType
  <2>2. QED
    BY <2>1 DEF Init, FreeEmpty
<1>4. QED
  BY <1>1, <1>2, <1>3, RoomParts

\* ipc_queue_dbk_full and decision_write_area (lines 386-390, 1582-1599): a record never
\* extends past its data block, for every size of blocks and of records.
THEOREM NothingOverrun == Spec => []NoOverrun
<1>1. Init => NoOverrun
  BY RoomInit
<1>2. Base /\ ListInv /\ NoOverrun /\ [Next]_vars => NoOverrun'
  <2>1. CASE Next
    BY <2>1, RoomStep
  <2>2. CASE UNCHANGED vars
    BY <2>2 DEF vars, queueVars, blockVars, localVars, NoOverrun, Full
  <2>3. QED
    BY <2>1, <2>2
<1>3. QED
  BY <1>1, <1>2, ListInvariant, PTL DEF Spec

-----------------------------------------------------------------------------
(* The table of readers.                                                   *)

\* The table without the slots of S, which are being written.
Compact(S) ==
  /\ \A i \in Slots \ S : readers[i] # NoProc <=> i <= refCount
  /\ \A i, j \in (1..refCount) \ S : NameOf[readers[i]] = NameOf[readers[j]] => i = j

\* The inductive form of ReadersCompact: reader_info_mark is free, or its holder is about
\* to fill its slot, under a name no other slot has, or its holder died.
Free     == infoMark = Nobody /\ Compact({})
Filing   ==
  /\ infoMark \in Procs /\ pc[infoMark] = "add" /\ idx[infoMark] \in 1..refCount
  /\ Compact({idx[infoMark]})
  /\ \A i \in (1..refCount) \ {idx[infoMark]} : NameOf[readers[i]] # NameOf[infoMark]
Orphaned == infoMark \in Procs /\ Gone(infoMark)
TableInv ==
  /\ Free \/ Filing \/ Orphaned
  /\ \A p \in Procs : pc[p] = "add" => infoMark = p

\* A slot below ref_count is a slot.
LEMMA SlotBound == TableType => 1..refCount \subseteq Slots
BY QueueAssumption DEF TableType, Slots

\* ipc_shm_queue_reader_info_clean moves the entries behind the removed one up by one.
LEMMA CleanTable ==
  ASSUME TypeOK, Free, NEW w \in Writers, Clean(w)
  PROVE  Free'
<1> USE DEF TypeOK, TableType
<1>1. CASE UNCHANGED <<refCount, readers>>
  BY <1>1 DEF Clean, Free, Compact
<1>2. CASE /\ refCount > 0 /\ idx[w] <= refCount
           /\ refCount' = refCount - 1
           /\ readers' = [j \in Slots |-> IF j < idx[w] \/ j > refCount THEN readers[j]
                                          ELSE IF j = refCount THEN NoProc
                                          ELSE readers[j + 1]]
  <2> DEFINE k == idx[w]
  <2>1. k \in 1..refCount /\ refCount \in 1..MaxReaders /\ MaxReaders \in Nat
    BY <1>2, QueueAssumption DEF LocalType, Walkers
  <2> HIDE DEF k
  <2>2. \A j \in Slots : readers'[j] = IF j < k \/ j > refCount THEN readers[j]
                                        ELSE IF j = refCount THEN NoProc ELSE readers[j + 1]
    BY <1>2 DEF k
  <2>3. \A j \in Slots : readers[j] # NoProc <=> j <= refCount
    BY DEF Free, Compact
  <2>4. \A j \in Slots : readers'[j] # NoProc <=> j <= refCount'
    BY <1>2, <2>1, <2>2, <2>3 DEF Slots
  <2>5. ASSUME NEW i \in 1..refCount', NEW j \in 1..refCount',
               NameOf[readers'[i]] = NameOf[readers'[j]]
        PROVE  i = j
    <3> DEFINE g(x) == IF x < k THEN x ELSE x + 1
    <3>1. \A x \in 1..refCount' : g(x) \in 1..refCount /\ readers'[x] = readers[g(x)]
      BY <1>2, <2>1, <2>2 DEF Slots
    <3>2. g(i) = g(j)
      BY <2>5, <3>1 DEF Free, Compact
    <3>3. QED
      BY <1>2, <2>1, <3>2
  <2>6. QED
    BY <2>4, <2>5 DEF Clean, Free, Compact
<1>3. QED
  BY <1>1, <1>2 DEF Clean

\* The first half of ipc_shm_queue_reader_add.
LEMMA AddLockTable ==
  ASSUME TypeOK, Free, NEW p \in Procs, AddLock(p)
  PROVE  (Filing \/ Orphaned)' /\ infoMark' = p
<1> USE DEF TypeOK, TableType
<1>1. infoMark' = p /\ UNCHANGED readers /\ p \in Threads /\ p \in Walkers
  BY DEF AddLock, Threads, Walkers
<1>2. pc'[p] = "add" \/ pc'[p] = "aborted"
  BY <1>1 DEF AddLock, Goto, PcType
<1>3. CASE pc'[p] = "aborted"
  BY <1>1, <1>3 DEF Orphaned, Gone
<1>4. ASSUME NEW i \in Named(p), idx' = [idx EXCEPT ![p] = i], UNCHANGED refCount, pc'[p] = "add"
      PROVE  Filing'
  <2>1. idx'[p] = i /\ i \in 1..refCount /\ NameOf[readers[i]] = NameOf[p]
    BY <1>1, <1>4 DEF Named, LocalType
  <2>2. \A j \in 1..refCount : NameOf[readers[j]] = NameOf[p] => j = i
    BY <2>1 DEF Free, Compact
  <2>3. QED
    BY <1>1, <1>4, <2>1, <2>2 DEF Filing, Free, Compact
<1>5. ASSUME NEW i \in FreeSlots, \A j \in FreeSlots : i <= j, Named(p) = {},
             idx' = [idx EXCEPT ![p] = i], refCount' = refCount + 1, pc'[p] = "add"
      PROVE  Filing'
  <2>1. i \in (refCount + 1)..MaxReaders /\ refCount \in Nat /\ MaxReaders \in Nat
    BY <1>5, QueueAssumption DEF FreeSlots
  <2>2. refCount + 1 \in FreeSlots
    BY <2>1, QueueAssumption DEF FreeSlots, Free, Compact, Slots
  <2>3. i = refCount'
    BY <1>5, <2>1, <2>2
  <2>4. idx'[p] = refCount'
    BY <1>1, <1>5, <2>3 DEF LocalType
  <2>5. /\ \A j \in Slots \ {refCount'} : readers'[j] # NoProc <=> j <= refCount'
        /\ \A j, k \in (1..refCount') \ {refCount'} :
             NameOf[readers'[j]] = NameOf[readers'[k]] => j = k
    BY <1>1, <1>5, <2>1 DEF Free, Compact, Slots
  <2>6. \A j \in 1..refCount : NameOf[readers[j]] # NameOf[p]
    BY <1>5, <2>1 DEF Named, Free, Compact, Slots
  <2>7. QED
    <3>1. infoMark' \in Procs /\ pc'[infoMark'] = "add" /\ idx'[infoMark'] = refCount'
      BY <1>1, <1>5, <2>4
    <3>2. refCount' \in 1..refCount' /\ (1..refCount') \ {refCount'} = 1..refCount
      BY <1>5, <2>1
    <3>3. \A j \in (1..refCount') \ {refCount'} : NameOf[readers'[j]] # NameOf[infoMark']
      BY <1>1, <2>6, <3>2
    <3>4. QED
      BY <2>5, <3>1, <3>2, <3>3 DEF Filing, Compact
<1>6. \A l : Goto(p, l) => pc'[p] = l
  BY <1>1 DEF Goto, PcType
<1>7. QED
  BY <1>1, <1>3, <1>4, <1>5, <1>6 DEF AddLock

\* The second half.
LEMMA AddTable ==
  ASSUME TypeOK, TableInv, NEW p \in Procs, Add(p)
  PROVE  Free'
<1> USE DEF TypeOK, TableType
<1>1. infoMark = p /\ pc[p] = "add" /\ p # Nobody
  BY QueueAssumption DEF Add, TableInv, Threads
<1>2. Filing
  BY <1>1 DEF TableInv, Free, Orphaned, Gone
<1>3. infoMark' = Nobody /\ refCount' = refCount /\ readers' = [readers EXCEPT ![idx[p]] = p]
  BY DEF Add
<1>4. idx[p] \in 1..refCount /\ idx[p] \in Slots
  BY <1>1, <1>2, SlotBound DEF Filing
<1>5. \A i \in Slots : readers'[i] = IF i = idx[p] THEN p ELSE readers[i]
  BY <1>3, <1>4
<1>6. p # NoProc
  BY QueueAssumption
<1>7. Compact({})'
  BY <1>1, <1>2, <1>3, <1>4, <1>5, <1>6, SlotBound DEF Filing, Compact
<1>8. QED
  BY <1>3, <1>7 DEF Free

\* Apart from AddLock and Add, a reader process stays where the table matters, or dies there.
Stays(q) ==
  /\ pc'[q] = "add" => pc[q] = "add"
  /\ pc[q] = "add" => (pc'[q] = "add" /\ idx'[q] = idx[q]) \/ Gone(q)'
  /\ Gone(q) => Gone(q)'

\* A reader process changes its part in the table by AddLock and Add only.
LEMMA ReaderStays ==
  ASSUME TypeOK, Next, NEW q \in Procs, ~AddLock(q), ~Add(q)
  PROVE  Stays(q)
<1>1. q \in Threads /\ q \in Walkers /\ q \notin Writers /\ q \notin {Timeout, Exiter}
  BY QueueAssumption DEF Threads, Walkers
<1>2. CASE Same(q)
  BY <1>1, <1>2 DEF Same, Stays, Gone
<1>3. ASSUME NEW w \in Writers, WriterStep(w)
      PROVE  Same(q)
  BY <1>1, <1>3, WriterLocal
<1>4. ASSUME NEW t \in Threads \ Procs, PubStep(t)
      PROVE  Same(q)
  BY <1>1, <1>4, PubLocal
<1>5. CASE TimeoutStep \/ Destroy \/ ExitRead
  BY <1>1, <1>2, <1>5, TimeoutLocal, ExiterLocal
<1>6. CASE Restart \/ \E b \in Blocks : Age(b)
  BY <1>1, <1>6 DEF Restart, Age, Stays, Gone, localVars
<1>7. ASSUME NEW t \in Walkers, WalkStep(t)
      PROVE  Stays(q)
  <2>1. CASE t # q
    BY <1>1, <1>2, <1>7, <2>1, WalkLocal
  <2>2. CASE t = q
    BY <1>1, <1>7, <2>2 DEF WalkStep, Visit, Visited, VisitSet, Walked, Goto, Stays, Gone, TypeOK, PcType
  <2>3. QED
    BY <2>1, <2>2
<1>8. ASSUME NEW p \in Procs, ReaderStep(p) \/ ReaderCrash(p)
      PROVE  Stays(q)
  <2> USE DEF Goto, Stays, Gone, TypeOK, PcType
  <2>1. CASE p # q
    BY <1>1, <1>2, <1>8, <2>1, ReaderLocal
  <2>2. CASE Register(q) \/ Connect(q) \/ ReaderCrash(q)
    BY <1>1, <2>2 DEF Register, Connect, ReaderCrash, StartWalk
  <2>3. CASE Recv(q) \/ Read(q) \/ Finish(q)
    BY <1>1, <2>3 DEF Recv, Read, Finish
  <2>4. CASE Dec(q) \/ Recheck(q) \/ SetRead(q)
    BY <1>1, <2>4 DEF Dec, Recheck, SetRead
  <2>5. QED
    BY <1>8, <2>1, <2>2, <2>3, <2>4 DEF ReaderStep
<1>9. QED
  BY <1>2, <1>3, <1>4, <1>5, <1>6, <1>7, <1>8 DEF Next

\* TableInv is inductive.
LEMMA TableStep ==
  ASSUME TypeOK, TableInv, Next
  PROVE  TableInv'
<1> USE DEF TypeOK
<1>1. ASSUME NEW p \in Procs, AddLock(p)
      PROVE  TableInv'
  <2>1. infoMark = Nobody /\ Nobody \notin Procs
    BY <1>1, QueueAssumption DEF AddLock, Threads
  <2>2. Free
    BY <2>1 DEF TableInv, Filing, Orphaned
  <2>3. \A q \in Procs : pc'[q] = "add" => q = p
    <3>1. ASSUME NEW q \in Procs \ {p}
          PROVE  pc'[q] = pc[q]
      BY <1>1, ReaderLocal DEF ReaderStep, Same, Threads
    <3>2. QED
      BY <2>1, <3>1 DEF TableInv
  <2>4. QED
    BY <1>1, <2>2, <2>3, AddLockTable DEF TableInv
<1>2. ASSUME NEW p \in Procs, Add(p)
      PROVE  TableInv'
  <2>1. pc[p] = "add" /\ infoMark = p /\ pc'[p] # "add"
    BY <1>2 DEF Add, TableInv, Goto, PcType, Threads
  <2>2. ASSUME NEW q \in Procs
        PROVE  pc'[q] # "add"
    <3>1. CASE q # p
      <4>1. pc'[q] = pc[q]
        BY <1>2, <3>1, ReaderLocal DEF ReaderStep, Same, Threads
      <4>2. QED
        BY <2>1, <3>1, <4>1 DEF TableInv
    <3>2. QED
      BY <2>1, <3>1
  <2>3. QED
    BY <1>2, <2>2, AddTable DEF TableInv
<1>3. CASE ~(\E p \in Procs : AddLock(p) \/ Add(p))
  <2>1. \A q \in Procs : Stays(q)
    BY <1>3, ReaderStays
  <2>2. UNCHANGED infoMark
    BY <1>3, LockFrame DEF Lock, Stamp, Fail
  <2>3. \A q \in Procs : pc'[q] = "add" => infoMark' = q
    BY <2>1, <2>2 DEF Stays, TableInv
  <2>4. CASE UNCHANGED <<refCount, readers>>
    <3>1. Free => Free'
      BY <2>2, <2>4 DEF Free, Compact
    <3>2. Orphaned => Orphaned'
      BY <2>1, <2>2 DEF Orphaned, Stays
    <3>3. Filing => (Filing \/ Orphaned)'
      BY <2>1, <2>2, <2>4 DEF Filing, Orphaned, Stays, Compact
    <3>4. QED
      BY <2>3, <3>1, <3>2, <3>3 DEF TableInv
  <2>5. ASSUME NEW w \in Writers, Clean(w)
        PROVE  TableInv'
    <3>1. infoMark = Nobody /\ Nobody \notin Procs
      BY <2>5, QueueAssumption DEF Clean, Threads
    <3>2. Free
      BY <3>1 DEF TableInv, Filing, Orphaned
    <3>3. QED
      BY <2>3, <2>5, <3>2, CleanTable DEF TableInv
  <2>6. QED
    BY <1>3, <2>4, <2>5, TableFrame DEF Fail, Restart
<1>4. QED
  BY <1>1, <1>2, <1>3

\* The readers registered at the start fill the table from its start.
LEMMA TableInit == Init => TableInv
<1> SUFFICES ASSUME Init PROVE TableInv
  OBVIOUS
<1>1. Joined \in Seq(Procs) /\ DOMAIN Joined = 1..Len(Joined) /\ Len(Joined) \in Nat
  BY QueueAssumption, LenProperties
<1>2. \A i \in 1..Len(Joined) : Joined[i] \in Procs
  BY <1>1, ElementOfSeq
<1>3. Free
  <2>1. refCount = Len(Joined) /\ infoMark = Nobody /\ Len(Joined) <= MaxReaders /\ MaxReaders \in Nat
    BY QueueAssumption DEF Init
  <2>2. \A i \in Slots : readers[i] = IF i <= Len(Joined) THEN Joined[i] ELSE NoProc
    BY DEF Init
  <2>3. \A i \in 1..Len(Joined) : i \in Slots /\ Joined[i] # NoProc
    BY <1>1, <1>2, <2>1, QueueAssumption DEF Slots
  <2>4. \A i \in Slots : readers[i] # NoProc <=> i <= refCount
    BY <1>1, <2>1, <2>2, <2>3 DEF Slots
  <2>5. \A i, j \in 1..refCount : NameOf[readers[i]] = NameOf[readers[j]] => i = j
    <3>1. \A i, j \in 1..Len(Joined) : NameOf[Joined[i]] = NameOf[Joined[j]] => i = j
      BY <1>1, QueueAssumption
    <3>2. \A i \in 1..refCount : i \in 1..Len(Joined) /\ readers[i] = Joined[i]
      BY <1>1, <2>1, <2>2, <2>3
    <3>3. QED
      BY ONLY <3>1, <3>2
  <2>6. QED
    BY <2>1, <2>4, <2>5 DEF Free, Compact
<1>4. \A p \in Procs : pc[p] # "add"
  BY DEF Init, Threads
<1>5. QED
  BY <1>3, <1>4 DEF TableInv

\* readers[] and ref_count (lines 1000-1051, 1287-1315): whenever reader_info_mark is free the
\* readers fill the table from its start and no two have one name, for every number of
\* reader processes, registering, dying and being cleaned out in any order.
THEOREM TableCompact == Spec => []ReadersCompact
<1>1. Init => TableInv
  BY TableInit
<1>2. TypeOK /\ TableInv /\ [Next]_vars => TableInv'
  <2>1. CASE Next
    BY <2>1, TableStep
  <2>2. CASE UNCHANGED vars
    BY <2>2 DEF vars, queueVars, localVars, TableInv, Free, Filing, Orphaned, Gone, Compact
  <2>3. QED
    BY <2>1, <2>2
<1>3. TypeOK /\ TableInv => ReadersCompact
  BY QueueAssumption DEF TableInv, Free, Filing, Orphaned, Compact, ReadersCompact, Threads
<1>4. QED
  BY <1>1, <1>2, <1>3, TypeCorrect, PTL DEF Spec

-----------------------------------------------------------------------------
(* The records in the memory m of a block, up to address e.                *)

StartsIn(m, e) == {c \in 0..(e - 1) : m[c].len > 0}

\* n records, one right behind the other, from the header to e.
ChainIn(m, n, e) ==
  /\ Cardinality(StartsIn(m, e)) = n
  /\ n = 0 => e = 0
  /\ n > 0 => 0 \in StartsIn(m, e)
  /\ \A c \in StartsIn(m, e) : c + m[c].len \in StartsIn(m, e) \cup {e} /\ m[c].id > 0
  /\ \A c, d \in StartsIn(m, e) : d <= c \/ c + m[c].len <= d

\* Complete says that the block is such a chain up to dbk_pos.
LEMMA CompleteChain ==
  ASSUME NEW b \in Blocks
  PROVE  ChainIn(mem[b], rcdNum[b], pos[b]) /\ rcdNum[b] > 0 <=> Complete(b) /\ rcdNum[b] # 0
BY DEF ChainIn, StartsIn, Complete, Starts

\* An empty block is a chain of no records.
LEMMA EmptyChain ==
  ASSUME NEW m
  PROVE  ChainIn(m, 0, 0)
<1>1. StartsIn(m, 0) = {}
  BY DEF StartsIn
<1>2. QED
  BY <1>1, FS_EmptySet DEF ChainIn

\* There are only so many.
LEMMA FiniteStarts ==
  ASSUME NEW m, NEW e \in Nat
  PROVE  IsFiniteSet(StartsIn(m, e)) /\ Cardinality(StartsIn(m, e)) \in Nat
<1>1. IsFiniteSet(0..(e - 1))
  BY FS_Interval
<1>2. StartsIn(m, e) \subseteq 0..(e - 1)
  BY DEF StartsIn
<1>3. QED
  BY <1>1, <1>2, FS_Subset, FS_CardinalityType

\* A record written behind the last one.
LEMMA ChainGrows ==
  ASSUME NEW m, NEW u, NEW n \in Nat, NEW e \in Nat, NEW s \in Nat \ {0}, ChainIn(m, n, e),
         \A c \in 0..(e - 1) : u[c] = m[c],
         u[e].len = s, u[e].id > 0,
         \A c \in (e + 1)..(e + s - 1) : u[c].len = 0
  PROVE  ChainIn(u, n + 1, e + s)
<1>1. StartsIn(u, e + s) = StartsIn(m, e) \cup {e}
  BY DEF StartsIn
<1>2. e \notin StartsIn(m, e)
  BY DEF StartsIn
<1>3. IsFiniteSet(StartsIn(m, e))
  BY FiniteStarts
<1>4. Cardinality(StartsIn(u, e + s)) = n + 1
  BY <1>1, <1>2, <1>3, FS_AddElement DEF ChainIn
<1>5. 0 \in StartsIn(u, e + s)
  BY <1>1 DEF ChainIn
<1>6. ASSUME NEW c \in StartsIn(u, e + s)
      PROVE  c + u[c].len \in StartsIn(u, e + s) \cup {e + s} /\ u[c].id > 0
  <2>1. CASE c = e
    BY <2>1
  <2>2. CASE c \in StartsIn(m, e)
    <3>1. u[c] = m[c]
      BY <2>2 DEF StartsIn
    <3>2. QED
      BY <1>1, <2>2, <3>1 DEF ChainIn
  <2>3. QED
    BY <1>1, <1>6, <2>1, <2>2
<1>7. ASSUME NEW c \in StartsIn(u, e + s), NEW d \in StartsIn(u, e + s)
      PROVE  d <= c \/ c + u[c].len <= d
  <2>1. CASE c = e
    BY <1>1, <2>1 DEF StartsIn
  <2>2. CASE c \in StartsIn(m, e) /\ d \in StartsIn(m, e)
    <3>1. u[c] = m[c]
      BY <2>2 DEF StartsIn
    <3>2. QED
      BY <2>2, <3>1 DEF ChainIn
  <2>3. CASE c \in StartsIn(m, e) /\ d = e
    <3>1. u[c] = m[c] /\ c + m[c].len \in StartsIn(m, e) \cup {e}
      BY <2>3 DEF StartsIn, ChainIn
    <3>2. QED
      BY <2>3, <3>1 DEF StartsIn
  <2>4. QED
    BY <1>1, <1>7, <2>1, <2>2, <2>3
<1>8. QED
  BY <1>4, <1>5, <1>6, <1>7 DEF ChainIn

-----------------------------------------------------------------------------
(* How far a writer is with the record it adds to a block.                 *)

Writing(w) ==
  LET b == blk[w]  m == mem[blk[w]] IN
  /\ pc[w] # "idle" => size[w] \in Nat \ {0}
  /\ pc[w] \in {"link", "setcur", "setwrite"} => rcdNum[b] = 0 /\ pos[b] = 0
  /\ pc[w] = "count" => ChainIn(m, rcdNum[b], pos[b]) /\ rcdNum[b] > 0
  /\ pc[w] = "area" => ChainIn(m, rcdNum[b] - 1, pos[b]) /\ rcdNum[b] > 0
  /\ pc[w] \in {"mark", "body"} =>
       pos[b] = addr[w] + size[w] /\ ChainIn(m, rcdNum[b] - 1, addr[w]) /\ rcdNum[b] > 0
  /\ pc[w] = "body" =>
       m[addr[w]].len = size[w] /\ \A c \in (addr[w] + 1)..(pos[b] - 1) : m[c].len = 0
  /\ pc[w] = "stamp" => ChainIn(m, rcdNum[b], pos[b]) /\ rcdNum[b] > 0

\* The blocks some writer adds a record to, and those that are done.
Busy    == {blk[w] : w \in {v \in Writers : pc[v] \in Filling}}
Done(b) == ChainIn(mem[b], rcdNum[b], pos[b]) /\ rcdNum[b] > 0

\* The inductive form of UsedBlocksComplete.
RecordInv ==
  restarts = 0 =>
    /\ \A b \in ToSet(dbkList) \ Busy : Done(b)
    /\ \A w \in Writers : Writing(w)

\* RecordInv says it of the lists.
LEMMA RecordInvImplies == TypeOK /\ RecordInv => UsedBlocksComplete
<1> SUFFICES ASSUME TypeOK, RecordInv, restarts = 0, NEW i \in DOMAIN dbkList,
                    \A w \in Writers : ~(pc[w] \in Filling /\ blk[w] = dbkList[i])
             PROVE  Complete(dbkList[i])
  BY DEF UsedBlocksComplete
<1>1. dbkList[i] \in ToSet(dbkList) \ Busy
  BY DEF ToSet, Busy
<1>2. dbkList[i] \in Blocks
  BY ElementOfSeq, LenProperties DEF TypeOK, ListType
<1>3. QED
  BY <1>1, <1>2, CompleteChain DEF RecordInv, Done

\* Memory that is the same up to e holds the same records.
LEMMA ChainSame ==
  ASSUME NEW m, NEW u, NEW n, NEW e \in Nat, ChainIn(m, n, e), \A c \in 0..(e - 1) : u[c] = m[c]
  PROVE  ChainIn(u, n, e)
<1>1. StartsIn(u, e) = StartsIn(m, e) /\ \A c \in StartsIn(m, e) : u[c] = m[c]
  BY DEF StartsIn
<1>2. QED
  BY <1>1 DEF ChainIn

\* A step of a writer writes to the block it fills, or empties the one it reclaims.
Untouched(b) == mem'[b] = mem[b] /\ rcdNum'[b] = rcdNum[b] /\ pos'[b] = pos[b]
LEMMA WriterTouches ==
  ASSUME TypeOK, NEW w \in Writers, WriterMoves(w), NEW b \in Blocks,
         pc[w] \in Filling => b # blk[w],
         pc[w] = "reclaim" => b # cur[w]
  PROVE  Untouched(b)
<1> USE DEF Untouched, Filling, TypeOK, BlockType, MemType, blockVars
<1>1. CASE Begin(w) \/ Lock(w) \/ ReadCur(w) \/ Reread(w) \/ Alloc(w) \/ Collect(w) \/ Pick(w)
  BY <1>1 DEF Begin, Lock, ReadCur, Reread, Alloc, Collect, Pick
<1>2. CASE Link(w) \/ SetCur(w) \/ Fail(w) \/ Scan(w) \/ Clean(w) \/ Stamp(w)
  BY <1>2 DEF Link, SetCur, Fail, Scan, Clean, Stamp
<1>3. CASE Count(w) \/ SetWrite(w) \/ Area(w)
  BY <1>3 DEF Count, SetWrite, Area
<1>4. CASE Mark(w)
  BY <1>4 DEF Mark
<1>5. CASE Body(w)
  BY <1>5 DEF Body
<1>6. CASE Reclaim(w)
  BY <1>6 DEF Reclaim, BlockInit
<1>7. CASE PubStep(w) \/ WalkStep(w)
  BY <1>7 DEF PubStep, Cas, Pub, Copy, Send, WalkStep, Visit, Visited, VisitSet
<1>8. QED
  BY <1>1, <1>2, <1>3, <1>4, <1>5, <1>6, <1>7 DEF WriterMoves, WriterStep

\* The other threads write nothing.
LEMMA OthersTouch ==
  ASSUME TypeOK, OtherMoves
  PROVE  UNCHANGED <<mem, rcdNum, pos>>
<1> USE DEF blockVars
<1> DEFINE Goal == UNCHANGED <<mem, rcdNum, pos>>
<1>1. ASSUME NEW t, PubStep(t)
      PROVE  Goal
  BY <1>1 DEF PubStep, Cas, Pub, Copy, Send
<1>2. ASSUME NEW p, WalkStep(p) \/ ReaderCrash(p)
      PROVE  Goal
  BY <1>2 DEF WalkStep, Visit, Visited, VisitSet, ReaderCrash
<1>3. ASSUME NEW p, ReaderStep(p)
      PROVE  Goal
  BY <1>3 DEF ReaderStep, Register, Connect, AddLock, Add, Recv, Read, Finish, Dec, Recheck,
    SetRead
<1>4. CASE TimeoutStep \/ Destroy \/ ExitRead
  BY <1>4 DEF TimeoutStep, Wake, TimeoutCheck, Destroy, ExitRead
<1>5. ASSUME NEW b, Age(b)
      PROVE  Goal
  BY <1>5 DEF Age
<1>6. QED
  BY <1>1, <1>2, <1>3, <1>4, <1>5 DEF OtherMoves

\* The size of a record is that of a call: nobody writes a record of no size.
LEMMA SizeStep ==
  ASSUME TypeOK, NEW w \in Writers, WriterMoves(w),
         pc[w] # "idle" => size[w] \in Nat \ {0}
  PROVE  pc'[w] # "idle" => size'[w] \in Nat \ {0}
<1> USE DEF TypeOK, LocalType, PcType, Goto, localVars
<1>1. CASE Begin(w)
  BY <1>1, QueueAssumption DEF Begin
<1>2. CASE Lock(w) \/ ReadCur(w) \/ Reread(w) \/ Alloc(w) \/ Collect(w) \/ Pick(w) \/ Reclaim(w)
  BY <1>2 DEF Lock, ReadCur, Reread, Alloc, Collect, Pick, Reclaim
<1>3. CASE Link(w) \/ SetCur(w) \/ Fail(w) \/ Scan(w) \/ Clean(w) \/ Stamp(w)
  BY <1>3 DEF Link, SetCur, Fail, Scan, StartWalk, Clean, Stamp, Threads
<1>4. CASE Count(w) \/ SetWrite(w) \/ Area(w) \/ Mark(w) \/ Body(w)
  BY <1>4 DEF Count, SetWrite, Area, Mark, Body
<1>5. CASE PubStep(w) \/ WalkStep(w)
  BY <1>5 DEF PubStep, Cas, Pub, Copy, Send, WalkStep, Visit, Visited, VisitSet
<1>6. QED
  BY <1>1, <1>2, <1>3, <1>4, <1>5 DEF WriterMoves, WriterStep

\* Up to where a block is written lies inside the shared memory of the block.
LEMMA InCells ==
  ASSUME NEW b \in Blocks, NEW e \in Nat, e <= BlkSize[b]
  PROVE  0..(e - 1) \subseteq Cells
BY QueueAssumption DEF Cells

\* What a writer has to do with its block in each of the steps of ipc_shm_record_write.
LEMMA RereadWriting ==
  ASSUME Base, ListInv, RecordInv, restarts = 0, NEW w \in Writers, Reread(w)
  PROVE  Writing(w)'
<1> USE DEF Writing
<1>1. pc'[w] # "idle" => size'[w] \in Nat \ {0}
  BY SizeStep DEF WriterMoves, WriterStep, Base, RecordInv
<1>2. UNCHANGED <<mem, rcdNum, pos>>
  BY DEF Reread, blockVars
<1>3. w \in Threads /\ pc \in [Threads -> WriterPc \cup TimeoutPc \cup ExiterPc \cup ProcPc]
      /\ blk \in [Threads -> Blocks \cup {NoBlk}]
  BY DEF Threads, Base, TypeOK, PcType, LocalType
<1>4. CASE pc'[w] = "count" /\ curW # NoBlk /\ blk'[w] = curW
  <2>1. Busy = {}
    BY HolderOnly DEF Reread, Busy, Filling, Holds, Holding, Base
  <2>2. Done(curW)
    BY <1>4, <2>1 DEF RecordInv, ListInv, WrittenBlockUsed
  <2>3. QED
    BY <1>1, <1>2, <1>4, <2>2 DEF Done
<1>5. CASE pc'[w] \in {"cas", "reread"}
  BY <1>1, <1>5
<1>6. QED
  BY <1>3, <1>4, <1>5 DEF Reread, Goto

\* A free block is empty.
LEMMA PickWriting ==
  ASSUME Base, NoOverrun, RecordInv, restarts = 0, NEW w \in Writers, Pick(w)
  PROVE  Writing(w)'
<1> USE DEF Writing
<1>1. pc'[w] # "idle" => size'[w] \in Nat \ {0}
  BY SizeStep DEF WriterMoves, WriterStep, Base, RecordInv
<1>2. UNCHANGED <<mem, rcdNum, pos>>
  BY DEF Pick, blockVars
<1>3. w \in Threads /\ pc \in [Threads -> WriterPc \cup TimeoutPc \cup ExiterPc \cup ProcPc]
      /\ blk \in [Threads -> Blocks \cup {NoBlk}]
  BY DEF Threads, Base, TypeOK, PcType, LocalType
<1>4. CASE pc'[w] = "fail"
  BY <1>1, <1>4
<1>5. ASSUME NEW k \in DOMAIN freeList, pc'[w] = "link", blk'[w] = freeList[k]
      PROVE  Writing(w)'
  <2>1. pos[freeList[k]] = 0 /\ rcdNum[freeList[k]] = 0
    BY DEF NoOverrun
  <2>2. QED
    BY <1>1, <1>2, <1>5, <2>1
<1>6. Pick(w) => \/ pc'[w] = "fail"
                 \/ \E k \in DOMAIN freeList : pc'[w] = "link" /\ blk'[w] = freeList[k]
  BY <1>3 DEF Pick, Goto, Fits
<1>7. QED
  BY <1>4, <1>5, <1>6

\* One more record is counted.
LEMMA CountWriting ==
  ASSUME Base, RecordInv, restarts = 0, NEW w \in Writers, Count(w) \/ SetWrite(w)
  PROVE  Writing(w)'
<1>1. pc'[w] # "idle" => size'[w] \in Nat \ {0}
  BY SizeStep DEF WriterMoves, WriterStep, Base, RecordInv, Writing
<1>2. w \in Threads /\ blk[w] \in Blocks
  BY DEF Threads, Base, InHand, HandOf, Working, Filling, Count, SetWrite
<1>3. UNCHANGED <<mem, pos>> /\ rcdNum'[blk[w]] = rcdNum[blk[w]] + 1 /\ blk' = blk /\ pc'[w] = "area"
  BY <1>2 DEF Count, SetWrite, Goto, localVars, Base, TypeOK, BlockType, PcType
<1>4. rcdNum[blk[w]] \in Nat
  BY <1>2 DEF Base, TypeOK, BlockType
<1>5. ChainIn(mem[blk[w]], rcdNum[blk[w]], pos[blk[w]])
  BY EmptyChain DEF RecordInv, Writing, Count, SetWrite
<1>6. QED
  BY <1>1, <1>3, <1>4, <1>5 DEF Writing

\* decision_write_area gives the record the cells behind the last one.
LEMMA AreaWriting ==
  ASSUME Base, RecordInv, restarts = 0, NEW w \in Writers, Area(w)
  PROVE  Writing(w)'
<1>1. pc'[w] # "idle" => size'[w] \in Nat \ {0}
  BY SizeStep DEF WriterMoves, WriterStep, Base, RecordInv, Writing
<1>2. w \in Threads /\ blk[w] \in Blocks
  BY DEF Threads, Base, InHand, HandOf, Working, Filling, Area
<1>3. /\ UNCHANGED <<mem, rcdNum, size>> /\ blk' = blk /\ pc'[w] = "mark"
      /\ addr'[w] = pos[blk[w]] /\ pos'[blk[w]] = pos[blk[w]] + size[w]
  BY <1>2 DEF Area, Goto, Base, TypeOK, BlockType, PcType, LocalType
<1>4. ChainIn(mem[blk[w]], rcdNum[blk[w]] - 1, pos[blk[w]]) /\ rcdNum[blk[w]] > 0
  BY DEF RecordInv, Writing, Area
<1>5. QED
  BY <1>1, <1>3, <1>4 DEF Writing

\* The start mark and the size; the cells of the record before it stay as they are.
LEMMA MarkWriting ==
  ASSUME Base, NoOverrun, RecordInv, restarts = 0, NEW w \in Writers, Mark(w)
  PROVE  Writing(w)'
<1> DEFINE b == blk[w]
           a == addr[w]
           s == size[w]
           m == mem[b]
           u == mem'[b]
<1>1. pc'[w] # "idle" => size'[w] \in Nat \ {0}
  BY SizeStep DEF WriterMoves, WriterStep, Base, RecordInv, Writing
<1>2. w \in Threads /\ b \in Blocks
  BY DEF Threads, Base, InHand, HandOf, Working, Filling, Mark
<1>3. UNCHANGED <<rcdNum, pos, size, addr, blk>> /\ pc'[w] = "body"
  BY <1>2 DEF Mark, Goto, Base, TypeOK, PcType, localVars
<1>4. /\ pos[b] = a + s /\ ChainIn(m, rcdNum[b] - 1, a) /\ rcdNum[b] > 0
      /\ s \in Nat \ {0} /\ a \in Nat
  BY DEF RecordInv, Writing, Mark, Base, TypeOK, LocalType
<1>5. 0..(a + s - 1) \subseteq Cells
  BY <1>2, <1>4, InCells DEF NoOverrun
<1>6. u = [c \in Cells |-> IF c = a THEN [id |-> 0, len |-> s]
                           ELSE IF c \in a..(a + s - 1) THEN Blank ELSE m[c]]
  BY <1>2 DEF Mark, Base, TypeOK, MemType
<1> HIDE DEF b, a, s, m, u
<1>7. u[a].len = s
  BY <1>4, <1>5, <1>6
<1>8. \A c \in (a + 1)..(a + s - 1) : u[c].len = 0
  BY <1>4, <1>5, <1>6 DEF Blank
<1>9. \A c \in 0..(a - 1) : u[c] = m[c]
  BY <1>4, <1>5, <1>6
<1>10. ChainIn(u, rcdNum[b] - 1, a)
  BY <1>4, <1>9, ChainSame
<1>11. QED
  BY <1>1, <1>3, <1>4, <1>7, <1>8, <1>10 DEF Writing, b, a, s, u

\* The payload: the block holds one record more.
LEMMA BodyWriting ==
  ASSUME Base, NoOverrun, RecordInv, restarts = 0, NEW w \in Writers, Body(w)
  PROVE  Writing(w)'
<1> DEFINE b == blk[w]
           a == addr[w]
           s == size[w]
           m == mem[b]
           u == mem'[b]
<1>1. pc'[w] # "idle" => size'[w] \in Nat \ {0}
  BY SizeStep DEF WriterMoves, WriterStep, Base, RecordInv, Writing
<1>2. w \in Threads /\ b \in Blocks
  BY DEF Threads, Base, InHand, HandOf, Working, Filling, Body
<1>3. UNCHANGED <<rcdNum, pos, blk>> /\ pc'[w] = "stamp"
  BY <1>2 DEF Body, Goto, Base, TypeOK, PcType, localVars
<1>4. /\ pos[b] = a + s /\ ChainIn(m, rcdNum[b] - 1, a) /\ rcdNum[b] > 0
      /\ m[a].len = s /\ \A c \in (a + 1)..(a + s - 1) : m[c].len = 0
      /\ s \in Nat \ {0} /\ a \in Nat
  BY DEF RecordInv, Writing, Body, Base, TypeOK, LocalType
<1>5. 0..(a + s - 1) \subseteq Cells
  BY <1>2, <1>4, InCells DEF NoOverrun
<1>6. u = [m EXCEPT ![a] = [m[a] EXCEPT !.id = nextRcd]] /\ m \in [Cells -> Entries]
  BY <1>2 DEF Body, Base, TypeOK, MemType
<1>7. nextRcd > 0 /\ nextRcd \in Nat /\ rcdNum[b] \in Nat
  BY <1>2 DEF Base, TypeOK, EnvType, BlockType
<1> HIDE DEF b, a, s, m, u
<1>8. a \in Cells
  BY <1>4, <1>5
<1>9. u[a].len = s /\ u[a].id > 0
  BY <1>4, <1>6, <1>7, <1>8 DEF Entries
<1>10. \A c \in 0..(a - 1) : u[c] = m[c]
  BY <1>4, <1>5, <1>6
<1>11. \A c \in (a + 1)..(a + s - 1) : u[c].len = 0
  BY <1>4, <1>5, <1>6
<1>12. rcdNum[b] - 1 \in Nat /\ (rcdNum[b] - 1) + 1 = rcdNum[b]
  BY <1>4, <1>7
<1>13. ChainIn(u, rcdNum[b], pos[b])
  BY <1>4, <1>9, <1>10, <1>11, <1>12, ChainGrows
<1>14. QED
  BY <1>1, <1>3, <1>4, <1>13 DEF Writing, b, u

\* A writer's own step.
LEMMA OwnWriting ==
  ASSUME Base, ListInv, NoOverrun, RecordInv, restarts = 0, NEW w \in Writers, WriterMoves(w)
  PROVE  Writing(w)'
<1>1. pc'[w] # "idle" => size'[w] \in Nat \ {0}
  BY SizeStep DEF Base, RecordInv, Writing
<1>2. w \in Threads /\ pc \in [Threads -> WriterPc \cup TimeoutPc \cup ExiterPc \cup ProcPc]
  BY DEF Threads, Base, TypeOK, PcType
<1> DEFINE Apart == pc'[w] \notin {"link", "setcur", "setwrite", "count", "area", "mark", "body", "stamp"}
<1>3. CASE Begin(w) \/ Lock(w) \/ ReadCur(w) \/ Alloc(w) \/ Collect(w) \/ Reclaim(w)
  <2>1. Apart
    BY <1>2, <1>3 DEF Begin, Lock, ReadCur, Alloc, Collect, Reclaim, Goto
  <2>2. QED
    BY <1>1, <2>1 DEF Writing
<1>4. CASE Stamp(w) \/ Fail(w) \/ Scan(w) \/ Clean(w)
  <2>1. Apart
    BY <1>2, <1>4 DEF Stamp, Fail, Scan, Clean, StartWalk, Goto
  <2>2. QED
    BY <1>1, <2>1 DEF Writing
<1>5. CASE PubStep(w) \/ WalkStep(w)
  <2>1. Apart
    BY <1>2, <1>5 DEF PubStep, Cas, Pub, Copy, Send, Resume, WalkStep, Visit, Visited, VisitSet,
      Walked, Goto
  <2>2. QED
    BY <1>1, <2>1 DEF Writing
<1>6. CASE Link(w) \/ SetCur(w)
  <2>1. UNCHANGED <<mem, rcdNum, pos, blk>> /\ pc[w] \in {"link", "setcur"}
        /\ pc'[w] \in {"setcur", "setwrite"}
    BY <1>2, <1>6 DEF Link, SetCur, Goto, blockVars, localVars
  <2>2. QED
    BY <1>1, <2>1 DEF Writing, RecordInv
<1>7. QED
  BY <1>3, <1>4, <1>5, <1>6, RereadWriting, PickWriting, CountWriting, AreaWriting, MarkWriting,
    BodyWriting DEF WriterMoves, WriterStep

\* The used list gets a block only from Link.
LEMMA UsedFrom ==
  ASSUME Base, ListInv, NEW w \in Writers, WriterMoves(w)
  PROVE  \/ ToSet(dbkList') \subseteq ToSet(dbkList)
         \/ Link(w) /\ ToSet(dbkList') = ToSet(dbkList) \cup {blk[w]}
<1>1. CASE Collect(w)
  <2>1. ASSUME NEW k \in DOMAIN dbkList, dbkList' = Unlink(dbkList, k)
        PROVE  ToSet(dbkList') \subseteq ToSet(dbkList)
    <3>1. k \in 1..Len(dbkList) /\ dbkList \in Seq(Blocks)
      BY LenProperties DEF Base, TypeOK, ListType
    <3>2. QED
      BY <2>1, <3>1, UnlinkList DEF ListInv, ListsPartition
  <2>2. QED
    BY <1>1, <2>1 DEF Collect
<1>2. CASE Link(w)
  <2>1. dbkList' = Cons(blk[w], dbkList) /\ dbkList \in Seq(Blocks)
    BY <1>2 DEF Link, Base, TypeOK, ListType
  <2>2. blk[w] \in Blocks
    BY <1>2 DEF Link, Base, InHand, HandOf, Working, Threads
  <2>3. QED
    BY <1>2, <2>1, <2>2, ConsList
<1>3. CASE ~(Collect(w) \/ Link(w))
  <2>1. CASE Reclaim(w) \/ Pick(w) \/ SetCur(w) \/ Cas(w)
    BY <2>1 DEF Reclaim, Pick, SetCur, Cas
  <2>2. CASE ~(Reclaim(w) \/ Pick(w) \/ SetCur(w) \/ Cas(w))
    BY <1>3, <2>2, QuietStep DEF Base, listVars
  <2>3. QED
    BY <2>1, <2>2
<1>4. QED
  BY <1>1, <1>2, <1>3

\* Only Stamp ends the work of a writer on its block.
LEMMA LeavesFilling ==
  ASSUME TypeOK, NEW w \in Writers, WriterMoves(w), pc[w] \in Filling,
         ~(pc'[w] \in Filling /\ blk'[w] = blk[w])
  PROVE  Stamp(w)
<1> USE DEF Filling, TypeOK, PcType, LocalType, Goto, localVars
<1>1. w \in Threads
  BY DEF Threads
<1>2. CASE Begin(w) \/ Lock(w) \/ ReadCur(w) \/ Reread(w) \/ Alloc(w) \/ Collect(w) \/ Pick(w)
           \/ Reclaim(w)
  BY <1>2 DEF Begin, Lock, ReadCur, Reread, Alloc, Collect, Pick, Reclaim
<1>3. CASE Link(w) \/ Fail(w) \/ Scan(w) \/ Clean(w)
  BY <1>3 DEF Link, Fail, Scan, Clean
<1>4. CASE SetCur(w) \/ Count(w) \/ SetWrite(w) \/ Area(w) \/ Mark(w) \/ Body(w)
  BY <1>1, <1>4 DEF SetCur, Count, SetWrite, Area, Mark, Body
<1>5. CASE PubStep(w) \/ WalkStep(w)
  BY <1>5 DEF PubStep, Cas, Pub, Copy, Send, WalkStep, Visit, Visited, VisitSet
<1>6. QED
  BY <1>2, <1>3, <1>4, <1>5 DEF WriterMoves, WriterStep

\* After a step of a writer every used block nobody is in is done.
LEMMA UsedDone ==
  ASSUME Base, ListInv, RecordInv, restarts = 0,
         NEW w \in Writers, WriterMoves(w), \A u \in Threads \ {w} : Same(u),
         NEW b \in ToSet(dbkList') \ Busy', b \in Blocks
  PROVE  Done(b)'
<1>1. CASE b \in ToSet(dbkList) /\ b \notin Busy
  <2>1. pc[w] \in Filling => b # blk[w]
    BY <1>1 DEF Busy
  <2>2. pc[w] = "reclaim" => b # cur[w]
    BY <1>1 DEF ListInv, ListsPartition, InTransit
  <2>3. Untouched(b)
    BY <2>1, <2>2, WriterTouches DEF Base
  <2>4. QED
    BY <1>1, <2>3 DEF RecordInv, Done, Untouched
<1>2. CASE b \in Busy
  <2>1. PICK v \in Writers : pc[v] \in Filling /\ blk[v] = b
    BY <1>2 DEF Busy
  <2>2. v = w
    BY <2>1 DEF Same, Busy, Threads
  <2>3. ~(pc'[w] \in Filling /\ blk'[w] = blk[w])
    BY <2>1, <2>2 DEF Busy
  <2>4. Stamp(w)
    BY <2>1, <2>2, <2>3, LeavesFilling DEF Base
  <2>5. QED
    BY <2>1, <2>2, <2>4 DEF Stamp, RecordInv, Writing, Done
<1>3. CASE b \notin ToSet(dbkList)
  <2>1. Link(w) /\ b = blk[w]
    BY <1>3, UsedFrom
  <2>2. pc'[w] = "setcur" /\ blk'[w] = b
    BY <2>1 DEF Link, Goto, localVars, Base, TypeOK, PcType, Threads
  <2>3. QED
    BY <2>2 DEF Busy, Filling
<1>4. QED
  BY <1>1, <1>2, <1>3

\* The other writers are not inside a block while one of them writes.
LEMMA OthersWriting ==
  ASSUME Base, RecordInv, restarts = 0, NEW w \in Writers, WriterMoves(w),
         NEW v \in Writers \ {w}, Same(v)
  PROVE  Writing(v)'
<1>1. /\ pc'[v] = pc[v] /\ blk'[v] = blk[v] /\ size'[v] = size[v] /\ addr'[v] = addr[v]
      /\ Writing(v)
  BY DEF Same, RecordInv
<1>2. CASE Holds(v)
  <2>1. pc[w] \notin Filling /\ pc[w] # "reclaim"
    BY <1>2, HolderOnly DEF Base, Holds, Holding, Filling
  <2>2. blk[v] \in Blocks => Untouched(blk[v])
    BY <2>1, WriterTouches DEF Base
  <2>3. pc[v] \in {"link", "setcur", "setwrite", "count", "area", "mark", "body", "stamp"}
          => blk[v] \in Blocks
    BY DEF Base, InHand, HandOf, Working, Filling, Threads
  <2>4. QED
    BY <1>1, <2>2, <2>3 DEF Writing, Untouched
<1>3. CASE ~Holds(v)
  BY <1>1, <1>3 DEF Writing, Holds, Holding
<1>4. QED
  BY <1>2, <1>3

\* RecordInv is inductive.
LEMMA RecordStep ==
  ASSUME Base, Base', ListInv, NoOverrun, RecordInv, Next
  PROVE  RecordInv'
<1>1. ASSUME NEW w \in Writers, WriterMoves(w), \A u \in Threads \ {w} : Same(u), restarts' = 0
      PROVE  RecordInv'
  <2>1. restarts = 0
    <3>1. CASE Collect(w) \/ Reclaim(w) \/ Pick(w) \/ Link(w) \/ SetCur(w) \/ Cas(w)
      BY <1>1, <3>1 DEF Collect, Reclaim, Pick, Link, SetCur, Cas, envVars
    <3>2. QED
      BY <1>1, <3>1, QuietStep DEF Base
  <2>2. ToSet(dbkList') \subseteq Blocks
    BY ElementOfSeq, LenProperties DEF Base, TypeOK, ListType, ToSet
  <2>3. \A b \in ToSet(dbkList') \ Busy' : Done(b)'
    BY <1>1, <2>1, <2>2, UsedDone
  <2>4. \A v \in Writers \ {w} : Writing(v)'
    BY <1>1, <2>1, OthersWriting DEF Threads
  <2>5. Writing(w)'
    BY <1>1, <2>1, OwnWriting
  <2>6. QED
    BY <2>3, <2>4, <2>5 DEF RecordInv
<1>2. CASE OtherMoves /\ \A v \in Writers : Same(v)
  <2>1. UNCHANGED <<mem, rcdNum, pos, dbkList, restarts>>
    BY <1>2, OthersTouch, OthersLists DEF Base
  <2>2. Busy' = Busy
    BY <1>2 DEF Busy, Same
  <2>3. \A v \in Writers : Writing(v) => Writing(v)'
    BY <1>2, <2>1 DEF Writing, Same
  <2>4. QED
    BY <2>1, <2>2, <2>3 DEF RecordInv, Done
<1>3. CASE Restart
  BY <1>3 DEF Restart, RecordInv, Base, TypeOK, EnvType
<1>4. QED
  BY <1>1, <1>2, <1>3, WhoMoves DEF Base, RecordInv

\* No block is used at the start.
LEMMA RecordInit == Init => RecordInv
<1> SUFFICES ASSUME Init PROVE RecordInv
  OBVIOUS
<1>1. ToSet(dbkList) = {}
  BY DEF Init, ToSet
<1>2. \A w \in Writers : pc[w] = "idle"
  BY DEF Init, Threads
<1>3. QED
  BY <1>1, <1>2 DEF RecordInv, Writing

\* What the theorems below rest on.
LEMMA RecordInvariant == Spec => [](Base /\ ListInv /\ NoOverrun /\ RecordInv)
<1>1. Base /\ ListInv /\ NoOverrun /\ RecordInv /\ [Next]_vars /\ Base' => RecordInv'
  <2>1. CASE Next
    BY <2>1, RecordStep
  <2>2. CASE UNCHANGED vars
    BY <2>2 DEF vars, queueVars, blockVars, localVars, envVars, RecordInv, Busy, Done, Writing
  <2>3. QED
    BY <2>1, <2>2
<1>2. QED
  BY <1>1, RecordInit, ListInvariant, NothingOverrun, PTL DEF Spec

\* dbk_next (lines 1893-1950) relies on it: while the writer process lives, every used block
\* nobody writes to holds exactly rcd_num complete records, one right behind the other, for
\* every number and size of blocks and records and whatever the other threads do.
THEOREM UsedStayComplete == Spec => []UsedBlocksComplete
<1>1. Base /\ ListInv /\ NoOverrun /\ RecordInv => UsedBlocksComplete
  BY RecordInvImplies DEF Base
<1>2. QED
  BY <1>1, RecordInvariant, PTL

-----------------------------------------------------------------------------
(* The shutdown.                                                           *)

\* How far it is: nobody writes any more, then the timeout thread is gone, and the block that
\* was current is the one exit_pub_dbk works on.
Leaving ==
  /\ pc[Timeout] = "exited" => pc[Exiter] # "xoff"
  /\ pc[Exiter] # "xoff" => \A w \in Writers : pc[w] = "idle"
  /\ pc[Exiter] \notin {"xoff", "xwait"} => pc[Timeout] = "exited"
  /\ pc[Exiter] = "cas" => curW = blk[Exiter]
  /\ pc[Exiter] \in Publishing \cup {"xdone"} => curW = NoBlk

\* A block that was opened and not broadcast since is still open, or somebody publishes it.
DueHeld ==
  restarts = 0 =>
    \A b \in due : b = curW \/ \E t \in Threads \ Procs : pc[t] \in Publishing /\ blk[t] = b

\* The inductive form of ShutdownPublishesAll.
ShutdownInv == Leaving /\ DueHeld

\* ShutdownInv says it of the end of the shutdown.
LEMMA ShutdownInvImplies == TypeOK /\ ShutdownInv => ShutdownPublishesAll
<1> SUFFICES ASSUME TypeOK, ShutdownInv, pc[Exiter] = "xdone"
             PROVE  curW = NoBlk /\ (restarts = 0 => due = {})
  BY DEF ShutdownPublishesAll
<1>1. curW = NoBlk /\ pc[Timeout] = "exited" /\ \A w \in Writers : pc[w] = "idle"
  BY DEF ShutdownInv, Leaving, Publishing
<1>2. \A t \in Threads \ Procs : pc[t] \notin Publishing
  BY <1>1 DEF Threads, Publishing
<1>3. \A b \in due : b \in Blocks
  BY DEF TypeOK, EnvType
<1>4. QED
  BY <1>1, <1>2, <1>3, QueueAssumption DEF ShutdownInv, DueHeld

\* A thread on its way to publish a block goes on with it, and broadcasts it at the end.
LEMMA DueKept ==
  ASSUME Base, ListInv, Next, DueHeld
  PROVE  DueHeld'
<1> USE DEF Base, TypeOK, PcType, LocalType, EnvType, Goto
<1>1. \A t \in Threads \ Procs :
        pc[t] \in Publishing => \/ pc'[t] \in Publishing /\ blk'[t] = blk[t]
                                \/ Send(t) \/ Restart
  <2> SUFFICES ASSUME NEW t \in Threads \ Procs, pc[t] \in Publishing, ~Restart
               PROVE  (pc'[t] \in Publishing /\ blk'[t] = blk[t]) \/ Send(t)
    OBVIOUS
  <2>1. CASE Same(t)
    BY <2>1 DEF Same
  <2>2. CASE PubStep(t)
    BY <2>2 DEF PubStep, Cas, Pub, Copy, Send, Publishing, localVars
  <2>3. ASSUME NEW w \in Writers, WriterMoves(w), \A u \in Threads \ {w} : Same(u)
        PROVE  Same(t) \/ PubStep(t)
    BY <2>3 DEF WriterMoves, WriterStep, Begin, Lock, ReadCur, Reread, Count, Alloc, Collect,
      Reclaim, Pick, Link, SetCur, SetWrite, Area, Mark, Body, Stamp, Fail, Scan, Clean, WalkStep,
      Visit, Visited, VisitSet, Publishing
  <2>4. ASSUME NEW u \in {Timeout, Exiter}, PubStep(u)
        PROVE  Same(t) \/ PubStep(t)
    <3>1. u \in Threads \ Procs
      BY QueueAssumption DEF Threads
    <3>2. QED
      BY <2>4, <3>1, PubLocal
  <2>5. ASSUME NEW p \in Procs, WalkStep(p) \/ ReaderStep(p) \/ ReaderCrash(p)
        PROVE  Same(t)
    BY <2>5, WalkLocal, ReaderLocal DEF Walkers
  <2>6. CASE TimeoutStep
    BY <2>6, TimeoutLocal DEF TimeoutStep, Wake, TimeoutCheck, Publishing, Same
  <2>7. CASE Destroy \/ ExitRead
    BY <2>7, ExiterLocal DEF Destroy, ExitRead, Publishing, Same
  <2>8. ASSUME NEW b \in Blocks, Age(b)
        PROVE  Same(t)
    BY <2>8 DEF Age, Same, localVars, readerVars
  <2>9. QED
    BY <2>1, <2>2, <2>3, <2>4, <2>5, <2>6, <2>7, <2>8, WhoMoves DEF OtherMoves
<1>2. SUFFICES ASSUME restarts' = 0, NEW b \in due'
               PROVE  b = curW' \/ \E t \in Threads \ Procs : pc'[t] \in Publishing /\ blk'[t] = b
  BY DEF DueHeld
<1>3. restarts = 0 /\ ~Restart
  <2>1. CASE Restart
    <3>1. restarts' = restarts + 1 /\ restarts \in Nat
      BY <2>1 DEF Restart
    <3>2. QED
      BY <1>2, <3>1
  <2>2. CASE ~Restart
    <3>1. restarts' = restarts
      BY <2>2, EnvFrame DEF Reread, Alloc, SetCur, Body, Fail, Clean, Send, envVars
    <3>2. QED
      BY <1>2, <2>2, <3>1
  <2>3. QED
    BY <2>1, <2>2
<1>4. CASE \E w \in Writers : SetCur(w)
  <2>1. PICK w \in Writers : SetCur(w)
    BY <1>4
  <2>2. curW = NoBlk /\ curW' = blk[w] /\ due' = due \cup {blk[w]}
    BY <2>1 DEF SetCur, ListInv, CurFree
  <2>3. CASE b = blk[w]
    BY <2>2, <2>3
  <2>4. CASE b # blk[w]
    <3>1. b \in due /\ b # NoBlk
      BY <2>2, <2>4, QueueAssumption
    <3>2. PICK t \in Threads \ Procs : pc[t] \in Publishing /\ blk[t] = b
      BY <1>3, <2>2, <3>1 DEF DueHeld
    <3>3. ~Send(t)
      BY <2>1, <3>2 DEF SetCur, Send, Publishing, envVars, queueVars, listVars
    <3>4. QED
      BY <1>1, <1>3, <3>2, <3>3
  <2>5. QED
    BY <2>3, <2>4
<1>5. CASE ~\E w \in Writers : SetCur(w)
  <2>1. b \in due /\ \A t \in Threads \ Procs : Send(t) => b # blk[t]
    BY <1>3, <1>5, EnvFrame DEF Reread, Alloc, Body, Fail, Clean, Send, envVars
  <2>2. CASE b = curW
    <3>1. CASE curW' = curW
      BY <2>2, <3>1
    <3>2. CASE curW' # curW
      <4>1. PICK t \in Threads \ Procs : Cas(t)
        BY <1>5, <3>2, ListFrame DEF listVars, Collect, Reclaim, Pick, Link
      <4>2. pc'[t] = "pub" /\ blk'[t] = b
        BY <2>2, <3>2, <4>1 DEF Cas, localVars
      <4>3. QED
        BY <4>2 DEF Publishing
    <3>3. QED
      BY <3>1, <3>2
  <2>3. CASE b # curW
    <3>1. PICK t \in Threads \ Procs : pc[t] \in Publishing /\ blk[t] = b
      BY <1>3, <2>1, <2>3 DEF DueHeld
    <3>2. QED
      BY <1>1, <1>3, <2>1, <3>1
  <2>4. QED
    BY <2>2, <2>3
<1>6. QED
  BY <1>4, <1>5

\* The shutdown waits for the writers and for the timeout thread, and they for nobody.
LEMMA LeavingKept ==
  ASSUME Base, Next, Leaving
  PROVE  Leaving'
<1> USE DEF Base, TypeOK, PcType, LocalType, Goto, queueVars, listVars, localVars
<1>1. /\ Timeout \in Threads \ Procs /\ Exiter \in Threads \ Procs /\ Timeout # Exiter
      /\ Timeout \notin Writers /\ Exiter \notin Writers
  BY QueueAssumption DEF Threads
<1>2. ASSUME UNCHANGED curW, Same(Exiter), Same(Timeout),
             pc[Exiter] # "xoff" => \A w \in Writers : pc'[w] = "idle"
      PROVE  Leaving'
  BY <1>2 DEF Leaving, Same
<1>3. ASSUME NEW w \in Writers, WriterMoves(w), \A u \in Threads \ {w} : Same(u)
      PROVE  Leaving'
  <2>1. pc[Exiter] = "xoff"
    <3>1. CASE Begin(w)
      BY <3>1 DEF Begin
    <3>2. CASE ~Begin(w)
      <4>1. pc[w] # "idle"
        BY <1>3, <3>2 DEF WriterMoves, WriterStep, Lock, ReadCur, Reread, Count, Alloc, Collect,
          Reclaim, Pick, Link, SetCur, SetWrite, Area, Mark, Body, Stamp, Fail, Scan, Clean, PubStep,
          Cas, Pub, Copy, Send, WalkStep, Visit, Visited, VisitSet
      <4>2. QED
        BY <1>3, <4>1 DEF Leaving
    <3>3. QED
      BY <3>1, <3>2
  <2>2. QED
    BY <1>1, <1>3, <2>1 DEF Leaving, Same, Publishing
<1>4. ASSUME NEW p \in Procs, WalkStep(p) \/ ReaderStep(p) \/ ReaderCrash(p),
             \A v \in Writers : Same(v)
      PROVE  Leaving'
  <2>1. UNCHANGED curW
    BY <1>4 DEF WalkStep, Visit, Visited, VisitSet, ReaderStep, Register, Connect, AddLock, Add, Recv,
      Read, Finish, Dec, Recheck, SetRead, ReaderCrash
  <2>2. Same(Exiter) /\ Same(Timeout)
    BY <1>1, <1>4, WalkLocal, ReaderLocal DEF Walkers
  <2>3. QED
    BY <1>2, <1>4, <2>1, <2>2 DEF Leaving, Same
<1>5. ASSUME NEW b \in Blocks, Age(b)
      PROVE  Leaving'
  BY <1>5 DEF Age, Leaving
<1>6. CASE TimeoutStep \/ PubStep(Timeout)
  <2>1. Same(Exiter) /\ \A w \in Writers : Same(w)
    BY <1>1, <1>6, TimeoutLocal, PubLocal DEF Threads
  <2>2. pc[Timeout] # "exited" /\ pc[Exiter] \in {"xoff", "xwait"}
    BY <1>1, <1>6 DEF TimeoutStep, Wake, TimeoutCheck, PubStep, Cas, Pub, Copy, Send, Leaving
  <2>3. pc'[Timeout] = "exited" => pc[Exiter] = "xwait"
    BY <1>1, <1>6 DEF TimeoutStep, Wake, TimeoutCheck, PubStep, Cas, Pub, Copy, Send, Resume
  <2>4. QED
    BY <2>1, <2>2, <2>3 DEF Leaving, Same, Publishing
<1>7. CASE Destroy \/ ExitRead \/ PubStep(Exiter)
  <2>1. Same(Timeout) /\ \A w \in Writers : Same(w)
    BY <1>1, <1>7, ExiterLocal, PubLocal DEF Threads
  <2>2. \A w \in Writers : pc[w] = "idle"
    BY <1>1, <1>7 DEF Destroy, ExitRead, PubStep, Cas, Pub, Copy, Send, Leaving
  <2>3. QED
    BY <1>1, <1>7, <2>1, <2>2 DEF Destroy, ExitRead, PubStep, Cas, Pub, Copy, Send, Resume, Leaving,
      Same, Publishing
<1>8. CASE Restart
  BY <1>1, <1>8 DEF Restart, Leaving, Publishing
<1>9. QED
  BY <1>3, <1>4, <1>5, <1>6, <1>7, <1>8, WhoMoves DEF OtherMoves

\* The shutdown goes on as it should, in any behaviour.
LEMMA ShutdownInvariant == Spec => [](Base /\ ListInv /\ ShutdownInv)
<1>1. Init => ShutdownInv
  <2> SUFFICES ASSUME Init PROVE ShutdownInv
    OBVIOUS
  <2>1. pc[Timeout] = "tsleep" /\ pc[Exiter] = "xoff" /\ due = {}
    BY QueueAssumption DEF Init, Threads
  <2>2. QED
    BY <2>1 DEF ShutdownInv, Leaving, DueHeld, Publishing
<1>2. ShutdownInv /\ Base /\ ListInv /\ [Next]_vars => ShutdownInv'
  <2>1. CASE UNCHANGED vars
    BY <2>1 DEF vars, queueVars, localVars, envVars, ShutdownInv, Leaving, DueHeld
  <2>2. QED
    BY <2>1, LeavingKept, DueKept DEF ShutdownInv
<1>3. QED
  BY <1>1, <1>2, ListInvariant, PTL DEF Spec

\* exit_pub_dbk (lines 475-545, "publish the data block not yet written full when the process
\* exits"): after a shutdown no block is open, and every block that ever was open was broadcast
\* after that -- by a writer, the timeout thread or the shutdown itself, whichever won the race
\* for it -- unless the writer process was killed.
THEOREM ShutdownLeavesNothing == Spec => []ShutdownPublishesAll
<1>1. Base /\ ShutdownInv => ShutdownPublishesAll
  BY ShutdownInvImplies DEF Base
<1>2. QED
  BY <1>1, ShutdownInvariant, PTL
=============================================================================
