-------------------------- MODULE ShmQueueDelivery --------------------------
(***************************************************************************)
(* Delivery in ShmQueue as theorems: what a reader that joined first still *)
(* has to read stays as it is, read_count is exact, and every step is one  *)
(* of RecordStream or leaves the stream alone -- in every calm behaviour,  *)
(* with the timeout thread, readers that join late and a shutdown, for any *)
(* number of writers, readers, blocks and records.                         *)
(***************************************************************************)
EXTENDS ShmQueueProofs

\* Where a registered reader is, and where one is that is about to register.
Serving == {"poll", "read", "finish", "dec", "recheck", "setread"}
Joining == {"off", "refused", "connect", "addlock", "add"}
Walking == {"visit", "visited", "visitset", "clean"}

\* Nobody dies and so nobody is looked for.  The readers that joined first keep the first slots,
\* and no name is used twice.
Table ==
  /\ \A i \in 1..Len(Joined) : i <= refCount /\ readers[i] = Joined[i]
  /\ \A i \in Slots : readers[i] # NoProc => pc[readers[i]] \in Serving
  /\ \A p \in Subscribers : pc[p] \in Serving /\ p \in connected
  /\ \A p \in Procs : pc[p] \in Serving \cup Joining
  /\ \A p \in Procs : pc[p] = "add" => idx[p] \notin 1..Len(Joined)
  /\ \A p, q \in Procs : p # q /\ NameOf[p] = NameOf[q] => pc[p] = "off" \/ pc[q] = "off"
  /\ \A w \in Writers : pc[w] \notin Walking

\* How far the publication of block b is, and who is counting himself off.
Copying(b) == \E t \in Threads \ Procs : pc[t] = "copy" /\ blk[t] = b
Sending(b) == \E t \in Threads \ Procs : pc[t] = "send" /\ blk[t] = b
Ticked(b)  == {i \in Slots : slots[b][i] # NoProc}
Off(b)     == {p \in Procs : pc[p] = "dec" /\ blk[p] = b}
Untold(b)  == \A p \in Subscribers : b \notin ToRead(p)
Unread(b)  == Off(b) = {} /\ Ticked(b) = {} /\ Untold(b)

\* reader_pid[] of a block names the subscribers that still have to read it, each in its slot; the
\* slots behind theirs are those of late readers.
Owed(b, i)  == Sending(b) \/ b \in ToRead(Joined[i])
SlotsExact  ==
  \A b \in Blocks :
    /\ \A i \in 1..Len(Joined) : slots[b][i] = IF Owed(b, i) THEN Joined[i] ELSE NoProc
    /\ \A i \in Slots \ (1..Len(Joined)) :
         slots[b][i] # NoProc => i <= refCount /\ slots[b][i] \notin Subscribers

\* read_count counts them, and those just counting themselves off.
CountExact ==
  \A b \in Blocks :
    /\ Copying(b) => readCount[b] = refCount /\ Unread(b)
    /\ ~Copying(b) => readCount[b] = Cardinality(Ticked(b)) + Cardinality(Off(b))
    /\ state[b] = "READED" => readCount[b] = 0

\* A block no subscriber knows of: free, in the hand of a writer, current, or about to be published.
Unknown ==
  ToSet(freeList) \cup InTransit \cup ({curW} \ {NoBlk}) \cup Busy
  \cup {blk[t] : t \in {u \in Threads \ Procs : pc[u] = "pub"}}
NobodyReads == \A b \in Unknown : readCount[b] = 0

\* What is published is on the used list and was not published before.
Published ==
  \A t \in Threads \ Procs :
    pc[t] \in Publishing => blk[t] \in ToSet(dbkList) /\ Untold(blk[t])

\* A reader works on a block; one about to mark it read has nobody's reading to spoil.
InBlock(p) ==
  /\ pc[p] \in Serving \ {"poll"} => blk[p] \in Blocks
  /\ pc[p] = "setread" => readCount[blk[p]] = 0

\* No subscriber is told twice of a block.
Told(p) ==
  /\ IsInjective(inbox[p])
  /\ pc[p] \in {"read", "finish"} => blk[p] \notin ToSet(inbox[p])

\* A subscriber inside a block is at the start of one of its records.
Reading(p) ==
  pc[p] = "read" =>
    /\ rpos[p] \in StartsIn(mem[blk[p]], pos[blk[p]])
    /\ rlen[p] = mem[blk[p]][rpos[p]].len
    /\ rnum[p] = Cardinality(StartsIn(mem[blk[p]], rpos[p]))

\* The inductive form of UnreadProtected and ReadCountExact.
DeliveryInv ==
  /\ Table /\ SlotsExact /\ CountExact /\ NobodyReads /\ Published
  /\ \A p \in Procs : InBlock(p)
  /\ \A p \in Subscribers : Told(p) /\ Reading(p)

\* A writer keeps its current block until it gives it up: nobody takes it while he is inside.
Kept(w) == pc[w] \in {"reread", "cas"} \cup (Filling \ {"setcur"}) => curW = blk[w] /\ curW # NoBlk

\* Nothing is unsent when nobody writes or publishes.
AllSent ==
  /\ curW = NoBlk
  /\ \A w \in Writers : pc[w] \notin Filling
  /\ \A t \in Threads \ Procs : pc[t] \notin Publishing
  => sent = nextRcd - 1

\* While the timeout thread publishes no block is opened.
Closed == pc[Timeout] \in Publishing => curW = NoBlk

\* Who has the current block, and what is unsent.
CurrentInv == (\A w \in Writers : Kept(w)) /\ Closed /\ AllSent

\* All there is to know of a state, from here and from the modules below.
Known ==
  /\ Base /\ ListInv /\ NoOverrun /\ RecordInv /\ TableInv /\ Leaving
  /\ CurrentInv /\ Calm
Whole == Known /\ DeliveryInv

-----------------------------------------------------------------------------
(* What the invariant says of one state.                                   *)

\* The readers that joined first are few, and each has one slot.
LEMMA Readers ==
  /\ Len(Joined) \in Nat /\ 1..Len(Joined) \subseteq Slots
  /\ \A p \in Subscribers : \E i \in 1..Len(Joined) : Joined[i] = p
  /\ \A i \in 1..Len(Joined) : Joined[i] \in Subscribers
  /\ \A i, j \in 1..Len(Joined) : Joined[i] = Joined[j] => i = j
  /\ Subscribers \subseteq Procs
  /\ IsFiniteSet(Slots) /\ IsFiniteSet(Procs)
<1>1. Len(Joined) \in Nat /\ DOMAIN Joined = 1..Len(Joined)
  BY QueueAssumption, LenProperties
<1>2. 1..Len(Joined) \subseteq Slots
  BY <1>1, QueueAssumption DEF Slots
<1>3. /\ \A p \in Subscribers : \E i \in 1..Len(Joined) : Joined[i] = p
      /\ \A i \in 1..Len(Joined) : Joined[i] \in Subscribers
  BY <1>1 DEF Subscribers, ToSet
<1>4. Subscribers \subseteq Procs
  BY <1>1, <1>3, QueueAssumption, ElementOfSeq
<1>5. \A i, j \in 1..Len(Joined) : Joined[i] = Joined[j] => i = j
  BY <1>1, QueueAssumption
<1>6. IsFiniteSet(Slots) /\ IsFiniteSet(Procs)
  BY FS_Interval, QueueAssumption DEF Slots
<1>7. QED
  BY <1>1, <1>2, <1>3, <1>4, <1>5, <1>6

\* Who is neither a writer nor a reader.
LEMMA WhoElse ==
  /\ Threads \ Procs = Writers \cup {Timeout, Exiter}
  /\ Timeout \notin Writers \cup Procs /\ Exiter \notin Writers \cup Procs /\ Timeout # Exiter
  /\ \A p \in Procs : p \in Threads /\ p \in Walkers /\ p \notin Writers \cup {Timeout, Exiter}
  /\ Subscribers \subseteq Procs
BY QueueAssumption, Readers DEF Threads, Walkers

\* While the timeout thread or the shutdown publishes, no writer is inside a call that holds
\* dbk_write_mark.
LEMMA NoHolder ==
  ASSUME Leaving, Calm, NEW t \in {Timeout, Exiter}, pc[t] \in Publishing, NEW w \in Writers
  PROVE  ~Holds(w)
<1>1. CASE t = Timeout
  BY <1>1 DEF Calm, Overlap
<1>2. CASE t = Exiter
  <2>1. pc[w] = "idle"
    BY <1>2 DEF Leaving, Publishing
  <2>2. QED
    BY <2>1 DEF Holds, Holding
<1>3. QED
  BY <1>1, <1>2

\* At most one thread is between the compare-and-swap and the broadcast.
LEMMA OnePublisher ==
  ASSUME Base, Leaving, Calm, NEW s \in Threads \ Procs, NEW t \in Threads \ Procs,
         pc[s] \in Publishing, pc[t] \in Publishing
  PROVE  s = t
<1>1. \A w \in Writers : pc[w] \in Publishing => Holds(w)
  BY DEF Holds, Publishing
<1>2. CASE s \in Writers /\ t \in Writers
  BY <1>1, <1>2, HolderOnly DEF Base
<1>3. CASE s \notin Writers \/ t \notin Writers
  <2>1. s \notin Writers /\ t \notin Writers
    BY <1>1, <1>3, NoHolder, WhoElse
  <2>2. ~(pc[Timeout] \in Publishing /\ pc[Exiter] \in Publishing)
    BY DEF Leaving, Publishing
  <2>3. QED
    BY <2>1, <2>2, WhoElse
<1>4. QED
  BY <1>2, <1>3

\* Who is in a block is counted: a block with read_count 0 is one nobody is in.
LEMMA Counted ==
  ASSUME NEW b
  PROVE  /\ IsFiniteSet(Ticked(b)) /\ IsFiniteSet(Off(b))
         /\ Cardinality(Ticked(b)) \in Nat /\ Cardinality(Off(b)) \in Nat
         /\ Cardinality(Ticked(b)) = 0 => Ticked(b) = {}
         /\ Cardinality(Off(b)) = 0 => Off(b) = {}
<1>1. IsFiniteSet(Ticked(b))
  BY Readers, FS_Subset DEF Ticked
<1>2. IsFiniteSet(Off(b))
  BY Readers, FS_Subset DEF Off
<1>3. QED
  BY <1>1, <1>2, FS_CardinalityType, FS_EmptySet

\* What a subscriber still has to read names it, and is not at the disposal of a writer.
LEMMA StillToRead ==
  ASSUME Whole, NEW p \in Subscribers, NEW b \in ToRead(p)
  PROVE  /\ b \in Blocks /\ ~Copying(b) /\ readCount[b] > 0
         /\ b \notin Unknown /\ b \in ToSet(dbkList) /\ ~Collectable(b) /\ Done(b)
         /\ \E i \in 1..Len(Joined) : i \in 1..refCount /\ Joined[i] = p /\ slots[b][i] = p
<1> USE DEF Whole, DeliveryInv
<1>1. b \in Blocks /\ p \in Procs
  <2>1. CASE b \in ToSet(inbox[p])
    <3>1. inbox[p] \in Seq(Blocks)
      BY Readers DEF Known, Base, TypeOK, ReaderType
    <3>2. QED
      BY <2>1, <3>1, ElementOfSeq, LenProperties, Readers DEF ToSet
  <2>2. CASE b \notin ToSet(inbox[p])
    BY <2>2, Readers DEF ToRead, InBlock, Serving
  <2>3. QED
    BY <2>1, <2>2
<1>2. ~Copying(b)
  BY <1>1 DEF CountExact, Unread, Untold
<1>3. PICK i \in 1..Len(Joined) : Joined[i] = p
  BY Readers
<1>4. i \in Slots /\ slots[b][i] = p
  BY <1>1, <1>3, Readers DEF SlotsExact, Owed
<1>5. i \in 1..refCount
  BY <1>3 DEF Table
<1>6. readCount[b] > 0
  <2>1. i \in Ticked(b)
    BY <1>1, <1>4, QueueAssumption DEF Ticked
  <2>2. Cardinality(Ticked(b)) > 0
    BY <2>1, Counted
  <2>3. QED
    BY <1>1, <1>2, <2>2, Counted DEF CountExact
<1>7. b \notin Unknown
  BY <1>6 DEF NobodyReads
<1>8. b \in ToSet(dbkList)
  BY <1>1, <1>7 DEF Unknown, Known, Calm, ListInv, ListsPartition
<1>9. ~Collectable(b)
  BY <1>1, <1>6 DEF Collectable, CountExact
<1>10. Done(b)
  BY <1>7, <1>8 DEF Unknown, Known, Calm, RecordInv
<1>11. QED
  BY <1>1, <1>2, <1>3, <1>4, <1>5, <1>6, <1>7, <1>8, <1>9, <1>10

\* A block nobody was told of.
LEMMA NobodyIn ==
  ASSUME Whole, NEW b \in Blocks, ~Copying(b), readCount[b] = 0
  PROVE  Unread(b)
<1>1. Cardinality(Ticked(b)) = 0 /\ Cardinality(Off(b)) = 0
  BY Counted DEF Whole, DeliveryInv, CountExact
<1>2. Untold(b)
  BY StillToRead DEF Untold
<1>3. QED
  BY <1>1, <1>2, Counted DEF Unread

\* The invariant says what the two properties say.
LEMMA DeliveryImplies ==
  ASSUME Whole
  PROVE  UnreadProtected /\ ReadCountExact
<1>1. UnreadProtected
  <2> SUFFICES ASSUME NEW p \in Subscribers, NEW b \in ToRead(p)
               PROVE  /\ b \in ToSet(dbkList) /\ ~Collectable(b)
                      /\ curW # b /\ \A w \in Writers : pc[w] \in Filling => blk[w] # b
                      /\ \E i \in 1..refCount : slots[b][i] = p
    BY DEF UnreadProtected
  <2>1. b \notin Unknown /\ b \in Blocks
    BY StillToRead
  <2>2. b # curW /\ b \notin Busy
    BY <2>1, QueueAssumption DEF Unknown
  <2>3. QED
    BY <2>2, StillToRead DEF Busy
<1>2. ReadCountExact
  <2> SUFFICES ASSUME NEW b \in ToSet(dbkList),
                      \A t \in Threads : pc[t] \in Filling \cup {"pub", "copy"} => blk[t] # b
               PROVE  readCount[b] = Cardinality(Ticked(b)) + Cardinality(Off(b))
    BY DEF ReadCountExact, Ticked, Off
  <2>1. b \in Blocks
    BY ElementOfSeq, LenProperties DEF Whole, Known, Base, TypeOK, ListType, ToSet
  <2>2. ~Copying(b)
    BY DEF Copying
  <2>3. QED
    BY <2>1, <2>2 DEF Whole, DeliveryInv, CountExact
<1>3. QED
  BY <1>1, <1>2

-----------------------------------------------------------------------------
(* The steps of a registered reader.                                       *)

\* What is left alone when a reader moves.
Serves(p) == Recv(p) \/ Read(p) \/ Finish(p) \/ Dec(p) \/ Recheck(p) \/ SetRead(p)
Elsewhere(p) ==
  /\ UNCHANGED <<refCount, infoMark, connected, readers, freeList, dbkList, curW, cur, idx>>
  /\ UNCHANGED <<mem, rcdNum, pos>>
  /\ \A u \in Threads \ {p} : pc'[u] = pc[u] /\ blk'[u] = blk[u]
  /\ \A q \in Procs \ {p} : /\ inbox'[q] = inbox[q] /\ rpos'[q] = rpos[q]
                            /\ rlen'[q] = rlen[q] /\ rnum'[q] = rnum[q]

\* The steps of a registered reader leave that alone, and it stays one unless it aborts.
LEMMA ReaderElsewhere ==
  ASSUME TypeOK, NEW p \in Procs, Serves(p), Calm'
  PROVE  /\ Elsewhere(p) /\ p \in Threads /\ pc[p] \in Serving /\ pc'[p] \in Serving
         /\ Recv(p) => pc'[p] = "read"
         /\ Read(p) => pc'[p] \in {"read", "finish"}
<1> USE DEF TypeOK, PcType, LocalType, ReaderType, Goto, Elsewhere, queueVars, listVars, localVars,
        readerVars, blockVars, envVars, Serving
<1>1. ~Gone(p)' /\ p \in Threads
  BY WhoElse DEF Calm
<1> DEFINE Goal == Elsewhere(p) /\ pc[p] \in Serving /\ pc'[p] \in Serving
<1>2. CASE Recv(p)
  BY <1>1, <1>2 DEF Recv, Gone
<1>3. CASE Read(p)
  <2>1. pc[p] = "read" /\ pc'[p] \in {"read", "finish"}
    BY <1>1, <1>3 DEF Read, Gone
  <2>2. Elsewhere(p)
    BY <1>1, <1>3 DEF Read
  <2>3. QED
    BY <1>1, <2>1, <2>2 DEF Recv
<1>4. Finish(p) \/ Dec(p) => Goal
  BY <1>1 DEF Finish, Dec
<1>5. Recheck(p) \/ SetRead(p) => Goal
  BY <1>1 DEF Recheck, SetRead
<1>6. QED
  BY <1>1, <1>2, <1>3, <1>4, <1>5 DEF Serves

\* What follows for the parts of the invariant that are about other threads.
LEMMA ReaderAside ==
  ASSUME Whole, NEW p \in Procs, Elsewhere(p), pc[p] \in Serving, pc'[p] \in Serving
  PROVE  /\ \A b : Sending(b)' = Sending(b) /\ Copying(b)' = Copying(b)
         /\ Unknown' = Unknown
         /\ \A q \in Subscribers \ {p} : ToRead(q)' = ToRead(q) /\ Told(q)' /\ Reading(q)'
         /\ \A q \in Procs \ {p} : pc'[q] = pc[q] /\ blk'[q] = blk[q]
         /\ \A t \in Threads \ Procs : pc'[t] = pc[t] /\ blk'[t] = blk[t]
         /\ Table'
<1> USE DEF Elsewhere
<1>1. \A t \in Threads \ Procs : pc'[t] = pc[t] /\ blk'[t] = blk[t]
  OBVIOUS
<1>2. \A w \in Writers : pc'[w] = pc[w] /\ blk'[w] = blk[w] /\ cur'[w] = cur[w]
  BY <1>1, WhoElse
<1>3. \A b : Sending(b)' = Sending(b) /\ Copying(b)' = Copying(b)
  BY <1>1 DEF Sending, Copying
<1>4. Unknown' = Unknown
  <2>1. InTransit' = InTransit /\ Busy' = Busy
    BY <1>2 DEF InTransit, Busy
  <2>2. {blk[t] : t \in {u \in Threads \ Procs : pc[u] = "pub"}}'
        = {blk[t] : t \in {u \in Threads \ Procs : pc[u] = "pub"}}
    BY <1>1
  <2>3. QED
    BY <2>1, <2>2 DEF Unknown
<1>5. \A q \in Procs \ {p} : pc'[q] = pc[q] /\ blk'[q] = blk[q]
  BY WhoElse
<1>6. \A q \in Subscribers \ {p} : ToRead(q)' = ToRead(q) /\ Told(q)' /\ Reading(q)'
  BY <1>5, WhoElse DEF ToRead, Told, Reading, Whole, DeliveryInv
<1>7. Table'
  <2>1. Table
    BY DEF Whole, DeliveryInv
  <2>2. \A q \in Procs : pc'[q] = pc[q] \/ q = p
    BY <1>5
  <2>3. \A i \in Slots : readers[i] # NoProc => readers[i] \in Procs
    BY DEF Whole, Known, Base, TypeOK, TableType
  <2>4. pc[p] # "off" /\ pc'[p] # "off"
    BY DEF Serving
  <2>5. \A q, r \in Procs : q # r /\ NameOf[q] = NameOf[r] => pc'[q] = "off" \/ pc'[r] = "off"
    BY <2>1, <2>2, <2>4 DEF Table
  <2>6. \A q \in Procs : pc'[q] = "add" => idx'[q] \notin 1..Len(Joined)
    <3>1. pc'[p] # "add"
      BY DEF Serving
    <3>2. QED
      BY <2>1, <2>2, <3>1 DEF Table
  <2>7. QED
    BY <1>2, <2>1, <2>2, <2>3, <2>5, <2>6, WhoElse DEF Table
<1>8. QED
  BY <1>1, <1>3, <1>4, <1>5, <1>6, <1>7

\* Nothing else follows when it neither finishes a block nor marks one.
LEMMA ReaderQuiet ==
  ASSUME Whole, NEW p \in Procs, Elsewhere(p), pc[p] \in Serving, pc'[p] \in Serving,
         UNCHANGED <<slots, readCount, state>>, \A c : Off(c)' = Off(c), InBlock(p)',
         p \in Subscribers => ToRead(p)' = ToRead(p) /\ Told(p)' /\ Reading(p)'
  PROVE  DeliveryInv'
<1> USE DEF Whole, DeliveryInv
<1>1. \A q \in Subscribers : ToRead(q)' = ToRead(q) /\ Told(q)' /\ Reading(q)'
  BY ReaderAside
<1>2. Table' /\ NobodyReads'
  BY ReaderAside DEF NobodyReads
<1>3. SlotsExact'
  <2>1. \A i \in 1..Len(Joined) : Joined[i] \in Subscribers
    BY Readers
  <2>2. \A c \in Blocks, i \in 1..Len(Joined) : Owed(c, i)' = Owed(c, i)
    BY <1>1, <2>1, ReaderAside DEF Owed
  <2>3. QED
    BY <2>2 DEF SlotsExact, Elsewhere
<1>4. CountExact'
  BY <1>1, ReaderAside DEF CountExact, Unread, Untold, Ticked, Elsewhere
<1>5. Published'
  BY <1>1, ReaderAside DEF Published, Untold, Elsewhere
<1>6. \A q \in Procs : InBlock(q)'
  BY ReaderAside DEF InBlock
<1>7. QED
  BY <1>1, <1>2, <1>3, <1>4, <1>5, <1>6

\* The inbox without its first offset.
LEMMA InboxTail ==
  ASSUME NEW s \in Seq(Blocks), s # <<>>
  PROVE  /\ Len(s) \in Nat /\ Len(s) > 0 /\ Len(Tail(s)) = Len(s) - 1
         /\ \A i \in 1..Len(Tail(s)) : Tail(s)[i] = s[i + 1]
         /\ Head(s) = s[1] /\ Head(s) \in Blocks
         /\ ToSet(s) = ToSet(Tail(s)) \cup {Head(s)}
         /\ IsInjective(s) => Head(s) \notin ToSet(Tail(s)) /\ IsInjective(Tail(s))
<1>1. /\ Tail(s) \in Seq(Blocks) /\ Len(s) \in Nat /\ Len(s) > 0 /\ Len(Tail(s)) = Len(s) - 1
      /\ \A i \in 1..Len(Tail(s)) : Tail(s)[i] = s[i + 1]
      /\ Head(s) = s[1] /\ Head(s) \in Blocks
      /\ DOMAIN s = 1..Len(s) /\ DOMAIN Tail(s) = 1..Len(Tail(s))
  BY HeadTailProperties, LenProperties, ElementOfSeq
<1>2. ToSet(s) = {s[i] : i \in 1..Len(s)}
  BY <1>1 DEF ToSet
<1>3. ToSet(Tail(s)) = {s[i + 1] : i \in 1..(Len(s) - 1)}
  BY <1>1 DEF ToSet
<1>4. \A i \in 1..(Len(s) - 1) : i + 1 \in 1..Len(s) /\ i + 1 # 1
  BY <1>1
<1>5. \A i \in 1..Len(s) : i = 1 \/ (i - 1 \in 1..(Len(s) - 1) /\ (i - 1) + 1 = i)
  BY <1>1
<1>6. 1 \in 1..Len(s)
  BY <1>1
<1>7. ToSet(s) = ToSet(Tail(s)) \cup {Head(s)}
  <2>1. ASSUME NEW i \in 1..Len(s)
        PROVE  s[i] \in ToSet(Tail(s)) \cup {Head(s)}
    <3>1. CASE i = 1
      BY <1>1, <3>1
    <3>2. CASE i # 1
      <4>1. i - 1 \in 1..(Len(s) - 1) /\ (i - 1) + 1 = i
        BY <1>5, <3>2
      <4>2. s[(i - 1) + 1] \in ToSet(Tail(s))
        BY <1>3, <4>1
      <4>3. QED
        BY <4>1, <4>2
    <3>3. QED
      BY <3>1, <3>2
  <2>2. QED
    BY <1>1, <1>2, <1>3, <1>4, <1>6, <2>1
<1>8. ASSUME IsInjective(s)
      PROVE  Head(s) \notin ToSet(Tail(s)) /\ IsInjective(Tail(s))
  <2>1. \A i, j \in 1..Len(s) : s[i] = s[j] => i = j
    BY <1>1, <1>8 DEF IsInjective
  <2>2. Head(s) \notin ToSet(Tail(s))
    BY <1>1, <1>3, <1>4, <1>6, <2>1
  <2>3. ASSUME NEW i \in DOMAIN Tail(s), NEW j \in DOMAIN Tail(s), Tail(s)[i] = Tail(s)[j]
        PROVE  i = j
    <3>1. /\ i \in Nat /\ j \in Nat /\ i + 1 \in DOMAIN s /\ j + 1 \in DOMAIN s
          /\ Tail(s)[i] = s[i + 1] /\ Tail(s)[j] = s[j + 1]
      BY <1>1
    <3>2. i + 1 = j + 1
      BY <1>1, <2>1, <2>3, <3>1
    <3>3. QED
      BY <3>1, <3>2
  <2>4. QED
    BY <2>2, <2>3 DEF IsInjective
<1>9. QED
  BY <1>1, <1>7, <1>8

\* A reader takes an offset: for a subscriber the block holds a record.
LEMMA RecvDelivery ==
  ASSUME Whole, Calm', NEW p \in Procs, Recv(p)
  PROVE  /\ DeliveryInv'
         /\ p \in Subscribers =>
              /\ ToRead(p)' = ToRead(p) /\ inbox[p][1] \in ToRead(p)
              /\ pc'[p] = "read" /\ blk'[p] = inbox[p][1] /\ rnum'[p] = 0
              /\ Len(inbox[p]) > 0 /\ Len(inbox'[p]) = Len(inbox[p]) - 1
              /\ \A i \in 1..Len(inbox'[p]) : inbox'[p][i] = inbox[p][i + 1]
<1> DEFINE b == Head(inbox[p])
<1> USE DEF Whole, DeliveryInv
<1>1. Elsewhere(p) /\ p \in Threads /\ pc[p] \in Serving /\ pc'[p] = "read" /\ pc'[p] \in Serving
  BY ReaderElsewhere DEF Known, Base, Serves
<1>2. inbox[p] \in Seq(Blocks) /\ inbox[p] # <<>> /\ pc[p] = "poll"
  BY DEF Recv, Known, Base, TypeOK, ReaderType
<1>3. /\ blk'[p] = b /\ inbox'[p] = Tail(inbox[p])
      /\ rlen'[p] = mem[b][0].len /\ rpos'[p] = 0 /\ rnum'[p] = 0
  BY <1>1, <1>2 DEF Recv, Known, Base, TypeOK, LocalType, ReaderType
<1>4. UNCHANGED <<slots, readCount, state>>
  BY DEF Recv, blockVars
<1>5. \A c : Off(c)' = Off(c)
  BY <1>1, <1>2 DEF Off, Elsewhere, Threads
<1>6. InBlock(p)'
  BY <1>1, <1>2, <1>3, InboxTail DEF InBlock
<1>7. ASSUME p \in Subscribers
      PROVE  ToRead(p)' = ToRead(p) /\ Told(p)' /\ Reading(p)' /\ b \in ToRead(p)
  <2>1. IsInjective(inbox[p])
    BY <1>7 DEF Told
  <2>2. ToSet(inbox[p]) = ToSet(Tail(inbox[p])) \cup {b} /\ b \notin ToSet(Tail(inbox[p]))
        /\ IsInjective(Tail(inbox[p]))
    BY <1>2, <2>1, InboxTail
  <2>3. b \in ToRead(p) /\ Done(b)
    BY <1>7, <2>2, StillToRead DEF ToRead
  <2>4. 0 \in StartsIn(mem[b], pos[b])
    BY <2>3 DEF Done, ChainIn
  <2>5. ToRead(p)' = ToRead(p) /\ Told(p)'
    BY <1>1, <1>2, <1>3, <2>2 DEF ToRead, Told
  <2>6. Cardinality(StartsIn(mem[b], 0)) = 0
    <3>1. StartsIn(mem[b], 0) = {}
      BY DEF StartsIn
    <3>2. QED
      BY <3>1, FS_EmptySet
  <2>7. Reading(p)'
    BY <1>1, <1>3, <2>4, <2>6 DEF Reading, Elsewhere
  <2>8. QED
    BY <2>3, <2>5, <2>7
<1>8. DeliveryInv'
  BY <1>1, <1>4, <1>5, <1>6, <1>7, ReaderQuiet
<1>9. QED
  BY <1>1, <1>2, <1>3, <1>7, <1>8, InboxTail

\* A subscriber reads a record and goes to the next one, which is there unless it was the last.
LEMMA ReadNext ==
  ASSUME Whole, NEW p \in Subscribers, Read(p)
  PROVE  /\ ToRead(p)' = ToRead(p) /\ Told(p)' /\ Reading(p)'
         /\ pc'[p] \in {"read", "finish"} /\ rnum[p] < rcdNum[blk[p]]
         /\ pc'[p] = "finish" => rnum[p] + 1 = rcdNum[blk[p]]
         /\ rnum' = [rnum EXCEPT ![p] = @ + 1] /\ UNCHANGED <<blk, inbox>>
         /\ seen' = [seen EXCEPT ![p] = Append(@, mem[blk[p]][rpos[p]].id)]
<1> DEFINE b == blk[p]
           m == mem[b]
           e == pos[b]
           S == StartsIn(m, e)
           r == rpos[p]
           n == r + rlen[p]
<1> USE DEF Whole, DeliveryInv
<1>1. UNCHANGED <<mem, pos, blk, inbox>>
  BY DEF Read, blockVars, localVars
<1>2. p \in Procs /\ p \in Threads /\ pc[p] = "read" /\ b \in ToRead(p)
  BY WhoElse DEF Read, ToRead
<1>3. Done(b) /\ b \in Blocks
  BY <1>2, StillToRead
<1>4. r \in S /\ rlen[p] = m[r].len /\ rnum[p] = Cardinality(StartsIn(m, r))
  BY <1>2 DEF Reading
<1>5. /\ rcdNum[b] \in Nat /\ rcdNum[b] > 0 /\ Cardinality(S) = rcdNum[b] /\ e \in Nat
      /\ n \in S \cup {e} /\ r \in 0..(e - 1) /\ rlen[p] \in Nat \ {0}
      /\ \A d \in S : d <= r \/ n <= d
  <2>1. rcdNum[b] \in Nat /\ e \in Nat /\ rlen[p] \in Nat
    BY <1>2, <1>3 DEF Known, Base, TypeOK, BlockType, ReaderType
  <2>2. ChainIn(m, rcdNum[b], e) /\ rcdNum[b] > 0
    BY <1>3 DEF Done
  <2>3. r \in 0..(e - 1) /\ m[r].len > 0
    BY <1>4 DEF StartsIn
  <2>4. QED
    BY <1>4, <2>1, <2>2, <2>3 DEF ChainIn
<1>6. StartsIn(m, n) = StartsIn(m, r) \cup {r} /\ r \notin StartsIn(m, r)
  <2>1. StartsIn(m, r) = {c \in S : c < r} /\ StartsIn(m, n) = {c \in S : c < n}
    BY <1>5 DEF StartsIn
  <2>2. \A c \in S : c \in Nat
    BY <1>5 DEF StartsIn
  <2>3. \A c \in S : c < n <=> (c < r \/ c = r)
    BY <1>5, <2>2
  <2>4. QED
    BY <1>4, <1>5, <2>1, <2>2, <2>3
<1>7. IsFiniteSet(StartsIn(m, r)) /\ IsFiniteSet(S)
  BY <1>5, FiniteStarts
<1>8. Cardinality(StartsIn(m, n)) = rnum[p] + 1 /\ rnum[p] \in Nat
  BY <1>4, <1>6, <1>7, FS_AddElement, FS_CardinalityType
<1>9. StartsIn(m, n) \subseteq S
  BY <1>5 DEF StartsIn
<1>10. rnum[p] >= rcdNum[b] - 1 <=> n = e
  <2>1. CASE n = e
    BY <1>5, <1>8, <2>1
  <2>2. CASE n # e
    <3>1. n \in S /\ n \notin StartsIn(m, n)
      BY <1>5, <2>2 DEF StartsIn
    <3>2. Cardinality(StartsIn(m, n)) <= Cardinality(S) /\ Cardinality(S) # Cardinality(StartsIn(m, n))
      BY <1>7, <1>9, <3>1, FS_Subset
    <3>3. QED
      BY <1>5, <1>8, <2>2, <3>2
  <2>3. QED
    BY <2>1, <2>2
<1>11. n # e => n \in Cells /\ m[n].len # 0
  <2>1. e <= BlkSize[b]
    BY <1>3 DEF Known, NoOverrun
  <2>2. 0..(e - 1) \subseteq Cells
    BY <1>3, <1>5, <2>1, InCells
  <2>3. QED
    BY <1>5, <2>2 DEF StartsIn
<1>12. /\ pc'[p] = IF n = e THEN "finish" ELSE "read"
       /\ n # e => rpos'[p] = n /\ rlen'[p] = m[n].len
       /\ rnum'[p] = rnum[p] + 1
       /\ seen' = [seen EXCEPT ![p] = Append(@, m[r].id)]
  <2>1. rnum'[p] = rnum[p] + 1
    BY <1>2 DEF Read, Known, Base, TypeOK, ReaderType
  <2>2. CASE n = e
    <3>1. rcdNum[b] # 0 /\ rnum[p] >= rcdNum[b] - 1
      BY <1>5, <1>10, <2>2
    <3>2. pc'[p] = "finish" /\ seen' = [seen EXCEPT ![p] = Append(@, m[r].id)]
      BY <1>2, <3>1 DEF Read, Goto, Known, Base, TypeOK, PcType, ReaderType
    <3>3. QED
      BY <2>1, <2>2, <3>2
  <2>3. CASE n # e
    <3>1. ~(rcdNum[b] # 0 /\ rnum[p] >= rcdNum[b] - 1) /\ n \in Cells /\ m[n].len # 0
      BY <1>10, <1>11, <2>3
    <3>2. pc'[p] = "read" /\ seen' = [seen EXCEPT ![p] = Append(@, m[r].id)]
      BY <1>2, <3>1 DEF Read, Goto, Known, Base, TypeOK, PcType, ReaderType
    <3>3. rpos'[p] = n /\ rlen'[p] = m[n].len
      BY <1>2, <3>1 DEF Read, Known, Base, TypeOK, ReaderType
    <3>4. QED
      BY <2>1, <2>3, <3>2, <3>3
  <2>4. QED
    BY <2>2, <2>3
<1>13. Reading(p)'
  BY <1>1, <1>5, <1>8, <1>12 DEF Reading
<1>14. ToRead(p)' = ToRead(p) /\ Told(p)'
  BY <1>1, <1>2, <1>12 DEF ToRead, Told
<1>15. rnum[p] < rcdNum[b] /\ (n = e => rnum[p] + 1 = rcdNum[b])
  <2>1. Cardinality(StartsIn(m, n)) <= Cardinality(S)
    BY <1>7, <1>9, FS_Subset
  <2>2. QED
    BY <1>5, <1>8, <2>1
<1>16. rnum' = [rnum EXCEPT ![p] = @ + 1]
  BY DEF Read
<1>17. QED
  BY <1>1, <1>12, <1>13, <1>14, <1>15, <1>16

\* A reader reads a record.
LEMMA ReadDelivery ==
  ASSUME Whole, Calm', NEW p \in Procs, Read(p)
  PROVE  DeliveryInv'
<1>1. Elsewhere(p) /\ p \in Threads /\ pc[p] \in Serving /\ pc'[p] \in {"read", "finish"}
  BY ReaderElsewhere DEF Whole, Known, Base, Serves
<1>2. pc[p] = "read" /\ pc'[p] \in Serving /\ UNCHANGED <<blk, slots, readCount, state>>
  BY <1>1 DEF Read, Serving, blockVars, localVars
<1>3. \A c : Off(c)' = Off(c)
  BY <1>1, <1>2 DEF Off, Elsewhere, Threads
<1>4. InBlock(p)'
  BY <1>1, <1>2 DEF InBlock, Whole, DeliveryInv, Serving
<1>5. QED
  BY <1>1, <1>2, <1>3, <1>4, ReadNext, ReaderQuiet

\* A reader that is through with a block strikes itself out, a subscriber out of its own slot.
LEMMA FinishDelivery ==
  ASSUME Whole, Calm', NEW p \in Procs, Finish(p)
  PROVE  DeliveryInv' /\ (p \in Subscribers => pc'[p] = "dec")
<1> DEFINE b == blk[p]
           mine == {i \in 1..refCount : slots[b][i] = p}
<1> USE DEF Whole, DeliveryInv
<1>1. Elsewhere(p) /\ p \in Threads /\ pc[p] \in Serving /\ pc'[p] \in Serving
  BY ReaderElsewhere DEF Known, Base, Serves
<1>2. pc[p] = "finish" /\ b \in Blocks /\ UNCHANGED <<blk, inbox, readCount, state, rpos>>
  BY DEF Finish, InBlock, Serving, localVars, readerVars
<1>3. readCount[b] \in Int /\ NoProc \notin Procs /\ 1..refCount \subseteq Slots
  BY <1>2, QueueAssumption, SlotBound DEF Known, Base, TypeOK, BlockType
<1>4. ASSUME p \in Subscribers
      PROVE  b \in ToRead(p) /\ mine # {} /\ ~(readCount[b] <= 0)
  <2>1. b \in ToRead(p)
    BY <1>2 DEF ToRead
  <2>2. QED
    BY <1>3, <1>4, <2>1, StillToRead
<1>5. CASE ~(readCount[b] > 0 /\ mine # {})
  <2>1. p \notin Subscribers /\ pc'[p] = "recheck" /\ UNCHANGED slots
    BY <1>1, <1>3, <1>4, <1>5 DEF Finish, Goto, Known, Base, TypeOK, PcType
  <2>2. \A c : Off(c)' = Off(c)
    BY <1>1, <1>2, <2>1 DEF Off, Elsewhere, Threads
  <2>3. InBlock(p)'
    BY <1>2, <2>1 DEF InBlock
  <2>4. QED
    BY <1>1, <1>2, <2>1, <2>2, <2>3, ReaderQuiet
<1>6. CASE readCount[b] > 0 /\ mine # {}
  <2>1. PICK k \in mine : slots' = [slots EXCEPT ![b][k] = NoProc] /\ slots[b][k] = p
    BY <1>3, <1>6 DEF Finish
  <2>2. pc'[p] = "dec"
    BY <1>1, <1>3, <1>6 DEF Finish, Goto, Known, Base, TypeOK, PcType
  <2>3. k \in Slots /\ k \in 1..refCount /\ k \in Ticked(b)
    BY <1>3, <2>1 DEF Ticked
  <2>4. \A c \in Blocks, i \in Slots : slots'[c][i] = IF c = b /\ i = k THEN NoProc ELSE slots[c][i]
    BY <2>1, <2>3 DEF Known, Base, TypeOK, BlockType
  <2>5. ~Copying(b)
    BY <1>2, <2>3 DEF CountExact, Unread
  <2>6. /\ k <= Len(Joined) => Joined[k] = p /\ p \in Subscribers
        /\ k > Len(Joined) => p \notin Subscribers
    <3>1. k <= Len(Joined) => k \in 1..Len(Joined)
      BY Readers, <2>3
    <3>2. QED
      BY <1>2, <1>3, <2>1, <2>3, <3>1, Readers DEF SlotsExact, Slots
  <2>7. p \in Subscribers => b \notin ToSet(inbox[p]) /\ ToRead(p)' = ToRead(p) \ {b}
    BY <1>2, <2>2 DEF Told, ToRead
  <2>8. \A c : Off(c)' = IF c = b THEN Off(c) \cup {p} ELSE Off(c)
    BY <1>1, <1>2, <2>2 DEF Off, Elsewhere, Threads
  <2>9. p \notin Off(b)
    BY <1>2 DEF Off
  <2>10. p \in Subscribers => ~Sending(b)
    BY <1>2, <1>4 DEF Published, Publishing, Sending, Untold
  <2>11. SlotsExact'
    <3>1. ASSUME NEW c \in Blocks, NEW i \in 1..Len(Joined)
          PROVE  slots'[c][i] = IF Owed(c, i)' THEN Joined[i] ELSE NoProc
      <4>1. slots[c][i] = IF Owed(c, i) THEN Joined[i] ELSE NoProc
        BY DEF SlotsExact
      <4>2. i \in Slots /\ Joined[i] \in Subscribers
        BY Readers
      <4>3. CASE c = b /\ i = k
        BY <1>1, <2>4, <2>6, <2>7, <2>10, <4>2, <4>3, ReaderAside DEF Owed
      <4>4. CASE c # b \/ i # k
        <5>1. Joined[i] = p /\ c = b => i = k
          BY <2>1, <2>3, <2>6, Readers, <4>2
        <5>2. c \in ToRead(Joined[i])' <=> c \in ToRead(Joined[i])
          BY <1>1, <2>7, <4>2, <4>4, <5>1, ReaderAside
        <5>3. QED
          BY <1>1, <2>4, <4>1, <4>2, <4>4, <5>2, ReaderAside DEF Owed
      <4>5. QED
        BY <4>3, <4>4
    <3>2. ASSUME NEW c \in Blocks, NEW i \in Slots \ (1..Len(Joined)), slots'[c][i] # NoProc
          PROVE  i <= refCount' /\ slots'[c][i] \notin Subscribers
      BY <1>1, <2>4, <3>2 DEF SlotsExact, Elsewhere
    <3>3. QED
      BY <3>1, <3>2 DEF SlotsExact
  <2>12. CountExact'
    <3>1. \A c \in Blocks : Ticked(c)' = IF c = b THEN Ticked(c) \ {k} ELSE Ticked(c)
      BY <2>4 DEF Ticked
    <3>2. Cardinality(Ticked(b)') = Cardinality(Ticked(b)) - 1
      <4>1. IsFiniteSet(Ticked(b)) /\ Ticked(b)' = Ticked(b) \ {k}
        BY <1>2, <3>1, Counted
      <4>2. QED
        BY <2>3, <4>1, FS_RemoveElement
    <3>3. Cardinality(Off(b)') = Cardinality(Off(b)) + 1
      <4>1. IsFiniteSet(Off(b)) /\ Off(b)' = Off(b) \cup {p}
        BY <1>2, <2>8, Counted
      <4>2. QED
        BY <2>9, <4>1, FS_AddElement
    <3>4. ASSUME NEW c \in Blocks
          PROVE  /\ Copying(c)' => readCount'[c] = refCount' /\ Unread(c)'
                 /\ ~Copying(c)' => readCount'[c] = Cardinality(Ticked(c)') + Cardinality(Off(c)')
                 /\ state'[c] = "READED" => readCount'[c] = 0
      <4>1. Copying(c)' = Copying(c) /\ refCount' = refCount
        BY <1>1, ReaderAside DEF Elsewhere
      <4>2. CASE c = b
        <5>1. PICK x \in Nat, y \in Nat : x = Cardinality(Ticked(b)) /\ y = Cardinality(Off(b))
          BY Counted
        <5>2. PICK x1, y1 : x1 = Cardinality(Ticked(b)') /\ y1 = Cardinality(Off(b)')
          OBVIOUS
        <5>3. x1 = x - 1 /\ y1 = y + 1
          BY <3>2, <3>3, <5>1, <5>2
        <5>4. x + y = x1 + y1
          BY <5>1, <5>3
        <5>5. readCount[b] = x + y /\ (state[b] = "READED" => readCount[b] = 0)
          BY <1>2, <2>5, <5>1 DEF CountExact
        <5>6. QED
          BY <1>2, <2>5, <4>1, <4>2, <5>2, <5>4, <5>5
      <4>3. CASE c # b
        <5>1. Off(c)' = Off(c) /\ Ticked(c)' = Ticked(c)
          BY <2>8, <3>1, <4>3
        <5>2. Untold(c)' = Untold(c)
          <6>1. \A q \in Subscribers : c \in ToRead(q)' <=> c \in ToRead(q)
            BY <1>1, <2>7, <4>3, ReaderAside
          <6>2. QED
            BY <6>1 DEF Untold
        <5>3. QED
          BY <1>2, <4>1, <5>1, <5>2 DEF CountExact, Unread
      <4>4. QED
        BY <4>2, <4>3
    <3>5. QED
      BY <3>4 DEF CountExact
  <2>13. Table' /\ NobodyReads'
    BY <1>1, <1>2, ReaderAside DEF NobodyReads
  <2>14. Published'
    <3>1. \A q \in Subscribers : ToRead(q)' \subseteq ToRead(q)
      BY <1>1, <2>7, ReaderAside
    <3>2. QED
      BY <1>1, <3>1, ReaderAside DEF Published, Elsewhere, Untold
  <2>15. (Told(p)' /\ Reading(p)') \/ p \notin Subscribers
    BY <1>2, <2>2 DEF Told, Reading
  <2>16. \A q \in Procs : InBlock(q)'
    BY <1>1, <1>2, <2>2, ReaderAside DEF InBlock
  <2>17. QED
    BY <1>1, <2>2, <2>11, <2>12, <2>13, <2>14, <2>15, <2>16, ReaderAside
<1>7. QED
  BY <1>5, <1>6

\* ... and counts itself off.
LEMMA DecDelivery ==
  ASSUME Whole, Calm', NEW p \in Procs, Dec(p)
  PROVE  DeliveryInv'
<1> USE DEF Whole, DeliveryInv
<1>1. Elsewhere(p) /\ p \in Threads /\ pc[p] \in Serving /\ pc'[p] \in Serving
  BY ReaderElsewhere DEF Known, Base, Serves
<1>2. PICK b : b = blk[p]
  OBVIOUS
<1>3. pc[p] = "dec" /\ b \in Blocks /\ p \in Off(b) /\ ~Copying(b)
  <2>1. pc[p] = "dec"
    BY DEF Dec
  <2>2. b \in Blocks
    BY <1>2, <2>1 DEF InBlock, Serving
  <2>3. p \in Off(b)
    BY <1>2, <2>1 DEF Off
  <2>4. QED
    BY <2>1, <2>2, <2>3 DEF CountExact, Unread
<1>4. readCount[b] = Cardinality(Ticked(b)) + Cardinality(Off(b)) /\ Cardinality(Off(b)) > 0
      /\ readCount[b] \in Int
  <2>1. Cardinality(Off(b)) # 0
    BY <1>3, Counted
  <2>2. QED
    BY <1>3, <2>1, Counted DEF CountExact, Known, Base, TypeOK, BlockType
<1>5. /\ pc'[p] = "recheck" /\ UNCHANGED <<blk, inbox, slots, state>>
      /\ readCount' = [readCount EXCEPT ![b] = @ - 1]
  BY <1>1, <1>2, <1>3 DEF Dec, Goto, Known, Base, TypeOK, PcType, localVars, readerVars
<1>6. \A c : Off(c)' = IF c = b THEN Off(c) \ {p} ELSE Off(c)
  BY <1>1, <1>2, <1>3, <1>5 DEF Off, Elsewhere, Threads
<1>7. \A q \in Subscribers : ToRead(q)' = ToRead(q) /\ Told(q)' /\ Reading(q)'
  <2>1. ToRead(p)' = ToRead(p) /\ (Told(p) => Told(p)') /\ Reading(p)'
    BY <1>3, <1>5 DEF ToRead, Told, Reading
  <2>2. QED
    BY <1>1, <2>1, ReaderAside
<1>8. SlotsExact'
  <2>1. \A i \in 1..Len(Joined) : Joined[i] \in Subscribers
    BY Readers
  <2>2. \A c \in Blocks, i \in 1..Len(Joined) : Owed(c, i)' = Owed(c, i)
    BY <1>1, <1>7, <2>1, ReaderAside DEF Owed
  <2>3. QED
    BY <1>1, <1>5, <2>2 DEF SlotsExact, Elsewhere
<1>9. CountExact'
  <2>1. Cardinality(Off(b) \ {p}) = Cardinality(Off(b)) - 1
    BY <1>3, Counted, FS_RemoveElement
  <2>2. ASSUME NEW c \in Blocks
        PROVE  /\ Copying(c)' => readCount'[c] = refCount' /\ Unread(c)'
               /\ ~Copying(c)' => readCount'[c] = Cardinality(Ticked(c)') + Cardinality(Off(c)')
               /\ state'[c] = "READED" => readCount'[c] = 0
    <3>1. Copying(c)' = Copying(c) /\ Ticked(c)' = Ticked(c) /\ Untold(c)' = Untold(c)
          /\ refCount' = refCount
      BY <1>1, <1>5, <1>7, ReaderAside DEF Ticked, Untold, Elsewhere
    <3>2. CASE c = b
      <4>1. readCount'[c] = readCount[c] - 1 /\ readCount[c] > 0
        BY <1>3, <1>4, <1>5, <3>2, Counted DEF Known, Base, TypeOK, BlockType
      <4>2. state'[c] # "READED"
        BY <1>3, <1>5, <4>1 DEF CountExact
      <4>3. Cardinality(Off(c)') = Cardinality(Off(c)) - 1
        BY <1>6, <2>1, <3>2
      <4>4. QED
        BY <1>3, <1>4, <3>1, <3>2, <4>1, <4>2, <4>3, Counted
    <3>3. CASE c # b
      BY <1>5, <1>6, <3>1, <3>3 DEF CountExact, Unread, Known, Base, TypeOK, BlockType
    <3>4. QED
      BY <3>2, <3>3
  <2>3. QED
    BY <2>2 DEF CountExact
<1>10. NobodyReads'
  <2>1. b \notin Unknown
    BY <1>3, <1>4, Counted DEF NobodyReads
  <2>2. QED
    BY <1>1, <1>5, <2>1, ReaderAside DEF NobodyReads
<1>11. Table' /\ Published'
  BY <1>1, <1>5, <1>7, ReaderAside DEF Published, Untold, Elsewhere
<1>12. \A q \in Procs : InBlock(q)'
  <2>1. readCount[b] # 0
    BY <1>4, Counted
  <2>2. InBlock(p)'
    BY <1>2, <1>3, <1>5 DEF InBlock
  <2>3. ASSUME NEW q \in Procs \ {p}
        PROVE  InBlock(q)'
    <3>1. InBlock(q) /\ pc'[q] = pc[q] /\ blk'[q] = blk[q]
      BY <1>1, ReaderAside
    <3>2. readCount \in [Blocks -> Int]
      BY DEF Known, Base, TypeOK, BlockType
    <3>3. QED
      BY <1>5, <2>1, <3>1, <3>2 DEF InBlock, Serving
  <2>4. QED
    BY <2>2, <2>3
<1>13. QED
  BY <1>7, <1>8, <1>9, <1>10, <1>11, <1>12

\* ... reads read_count again ...
LEMMA RecheckDelivery ==
  ASSUME Whole, Calm', NEW p \in Procs, Recheck(p)
  PROVE  DeliveryInv'
<1>1. Elsewhere(p) /\ p \in Threads /\ pc[p] \in Serving /\ pc'[p] \in Serving
  BY ReaderElsewhere DEF Whole, Known, Base, Serves
<1>2. /\ pc[p] = "recheck" /\ pc'[p] = (IF readCount[blk[p]] = 0 THEN "setread" ELSE "poll")
      /\ UNCHANGED <<blk, inbox, slots, readCount, state>>
  BY <1>1 DEF Recheck, Goto, Whole, Known, Base, TypeOK, PcType, blockVars, localVars, readerVars
<1>3. \A c : Off(c)' = Off(c)
  BY <1>1, <1>2 DEF Off, Elsewhere, Threads
<1>4. InBlock(p)'
  BY <1>2 DEF InBlock, Whole, DeliveryInv, Serving
<1>5. ToRead(p)' = ToRead(p) /\ (Told(p) => Told(p)') /\ Reading(p)'
  BY <1>2 DEF ToRead, Told, Reading
<1>6. QED
  BY <1>1, <1>2, <1>3, <1>4, <1>5, ReaderQuiet DEF Whole, DeliveryInv

\* ... and marks the block read: nobody reads one with read_count 0.
LEMMA SetReadDelivery ==
  ASSUME Whole, Calm', NEW p \in Procs, SetRead(p)
  PROVE  DeliveryInv'
<1> USE DEF Whole, DeliveryInv
<1>1. Elsewhere(p) /\ p \in Threads /\ pc[p] \in Serving /\ pc'[p] \in Serving
  BY ReaderElsewhere DEF Known, Base, Serves
<1>2. /\ pc[p] = "setread" /\ pc'[p] = "poll" /\ UNCHANGED <<blk, inbox, slots, readCount>>
      /\ state' = [state EXCEPT ![blk[p]] = "READED"]
  BY <1>1 DEF SetRead, Goto, Known, Base, TypeOK, PcType, localVars, readerVars
<1>3. blk[p] \in Blocks /\ readCount[blk[p]] = 0
  BY <1>2 DEF InBlock, Serving
<1>4. \A c : Off(c)' = Off(c)
  BY <1>1, <1>2 DEF Off, Elsewhere, Threads
<1>5. \A q \in Subscribers : ToRead(q)' = ToRead(q) /\ Told(q)' /\ Reading(q)'
  <2>1. ToRead(p)' = ToRead(p) /\ (Told(p) => Told(p)') /\ Reading(p)'
    BY <1>2 DEF ToRead, Told, Reading
  <2>2. QED
    BY <1>1, <2>1, ReaderAside
<1>6. SlotsExact'
  <2>1. \A i \in 1..Len(Joined) : Joined[i] \in Subscribers
    BY Readers
  <2>2. \A c \in Blocks, i \in 1..Len(Joined) : Owed(c, i)' = Owed(c, i)
    BY <1>1, <1>5, <2>1, ReaderAside DEF Owed
  <2>3. QED
    BY <1>1, <1>2, <2>2 DEF SlotsExact, Elsewhere
<1>7. CountExact'
  <2>1. \A c \in Blocks : state'[c] = "READED" => readCount[c] = 0
    BY <1>2, <1>3 DEF CountExact, Known, Base, TypeOK, BlockType
  <2>2. \A c \in Blocks : /\ Copying(c)' = Copying(c) /\ Ticked(c)' = Ticked(c)
                          /\ Untold(c)' = Untold(c) /\ refCount' = refCount
    BY <1>1, <1>2, <1>5, ReaderAside DEF Ticked, Untold, Elsewhere
  <2>3. QED
    BY <1>2, <1>4, <2>1, <2>2 DEF CountExact, Unread
<1>8. Table' /\ NobodyReads' /\ Published'
  BY <1>1, <1>2, <1>5, ReaderAside DEF NobodyReads, Published, Untold, Elsewhere
<1>9. \A q \in Procs : InBlock(q)'
  BY <1>1, <1>2, ReaderAside DEF InBlock
<1>10. QED
  BY <1>5, <1>6, <1>7, <1>8, <1>9

-----------------------------------------------------------------------------
(* A reader that joins late.                                               *)

Joins(p) == Register(p) \/ Connect(p) \/ AddLock(p) \/ Add(p)

\* Its name is nobody else's: it finds no entry of its own in the table.
LEMMA NotNamed ==
  ASSUME TypeOK, Table, Calm, NEW p \in Procs, Register(p) \/ pc[p] = "addlock"
  PROVE  Named(p) = {}
<1> SUFFICES ASSUME NEW i \in Named(p)
             PROVE  FALSE
  OBVIOUS
<1> DEFINE r == readers[i]
<1>1. i \in Slots /\ r # NoProc /\ NameOf[r] = NameOf[p]
  BY SlotBound DEF Named, TypeOK
<1>2. r \in Procs /\ pc[r] \in Serving
  BY <1>1 DEF Table, TypeOK, TableType
<1>3. pc[p] \in {"off", "addlock"} /\ r # p
  BY <1>2 DEF Register, Serving
<1>4. CASE pc[p] = "addlock"
  BY <1>1, <1>2, <1>3, <1>4 DEF Table, Serving
<1>5. CASE Register(p)
  BY <1>1, <1>2, <1>3, <1>5 DEF Register, Calm, Serving
<1>6. QED
  BY <1>4, <1>5

\* What it changes, and what it leaves alone.
LEMMA JoinStep ==
  ASSUME Whole, Calm', NEW p \in Procs, Joins(p)
  PROVE  /\ p \in Threads /\ p \notin Subscribers
         /\ pc[p] \in Joining /\ pc'[p] \in Joining \cup {"poll"} /\ pc'[p] # "off"
         /\ \A u \in Threads \ {p} : pc'[u] = pc[u]
         /\ UNCHANGED <<curW, dbkList, freeList, blockVars, blk, cur, inbox, rpos, rlen, rnum>>
         /\ connected \subseteq connected'
         /\ pc'[p] = "poll" => pc[p] = "add" /\ readers' = [readers EXCEPT ![idx[p]] = p] /\ idx' = idx
         /\ pc'[p] # "poll" => readers' = readers
         /\ (refCount' = refCount \/ (refCount' = refCount + 1 /\ pc'[p] = "add"))
         /\ pc'[p] = "add" => idx'[p] \notin 1..Len(Joined)
         /\ \A u \in Procs \ {p} : idx'[u] = idx[u]
<1> USE DEF Joining
<1>1. p \in Threads /\ p \in Walkers /\ ~Gone(p)'
  BY WhoElse DEF Calm
<1>2. p \notin Subscribers
  <2>1. pc[p] \in {"off", "connect", "addlock", "add"}
    BY DEF Joins, Register, Connect, AddLock, Add
  <2>2. QED
    BY <2>1 DEF Whole, DeliveryInv, Table, Serving
<1>3. pc \in [Threads -> WriterPc \cup TimeoutPc \cup ExiterPc \cup ProcPc]
      /\ idx \in [Walkers -> 1..(MaxReaders + 1)]
  BY DEF Whole, Known, Base, TypeOK, PcType, LocalType
<1>4. \A q \in Procs : q \in Threads /\ q \in Walkers
  BY WhoElse
<1>5. Named(p) = {} \/ ~(Register(p) \/ AddLock(p))
  BY NotNamed DEF AddLock, Whole, Known, Base, DeliveryInv
<1>6. CASE Register(p)
  <2>1. pc[p] = "off" /\ Named(p) = {}
    BY <1>5, <1>6 DEF Register
  <2>2. pc'[p] \in {"refused", "connect"} /\ idx' = idx /\ cur' = cur
        /\ \A u \in Threads \ {p} : pc'[u] = pc[u]
    BY <1>1, <1>3, <1>6, <2>1 DEF Register, Goto
  <2>3. UNCHANGED <<queueVars, blockVars, blk, readerVars>>
    BY <1>6 DEF Register
  <2>4. QED
    BY <1>1, <1>2, <2>1, <2>2, <2>3 DEF queueVars, listVars, readerVars
<1>7. CASE Connect(p)
  <2>1. pc[p] = "connect" /\ pc'[p] = "addlock" /\ \A u \in Threads \ {p} : pc'[u] = pc[u]
    BY <1>1, <1>3, <1>7 DEF Connect, Goto
  <2>2. UNCHANGED <<queueVars, blockVars, localVars, inbox, rpos, rlen, rnum>>
        /\ connected' = connected \cup {p}
    BY <1>7 DEF Connect
  <2>3. QED
    BY <1>1, <1>2, <2>1, <2>2 DEF queueVars, listVars, localVars
<1>8. CASE AddLock(p)
  <2>1. pc[p] = "addlock" /\ Named(p) = {}
    BY <1>5, <1>8 DEF AddLock
  <2>2. /\ pc'[p] = "add" /\ refCount' = refCount + 1
        /\ \A u \in Threads \ {p} : pc'[u] = pc[u]
        /\ \E i \in FreeSlots : idx' = [idx EXCEPT ![p] = i]
    BY <1>1, <1>3, <1>8, <2>1 DEF AddLock, Goto, Gone
  <2>3. PICK i \in FreeSlots : idx' = [idx EXCEPT ![p] = i]
    BY <2>2
  <2>4. i \notin 1..Len(Joined)
    <3>1. \A j \in 1..Len(Joined) : j <= refCount
      BY DEF Whole, DeliveryInv, Table
    <3>2. i > refCount /\ refCount \in Nat
      BY DEF FreeSlots, Whole, Known, Base, TypeOK, TableType
    <3>3. QED
      BY <3>1, <3>2
  <2>5. idx'[p] \notin 1..Len(Joined) /\ \A u \in Procs \ {p} : idx'[u] = idx[u]
    BY <1>1, <1>3, <1>4, <2>3, <2>4
  <2>6. UNCHANGED <<listVars, readers, blockVars, blk, cur, readerVars>>
    BY <1>8 DEF AddLock
  <2>7. QED
    BY <1>1, <1>2, <2>1, <2>2, <2>5, <2>6 DEF listVars, readerVars
<1>9. CASE Add(p)
  <2>1. pc[p] = "add" /\ pc'[p] = "poll" /\ \A u \in Threads \ {p} : pc'[u] = pc[u]
    BY <1>1, <1>3, <1>9 DEF Add, Goto
  <2>2. UNCHANGED <<listVars, refCount, blockVars, localVars, readerVars>>
        /\ readers' = [readers EXCEPT ![idx[p]] = p]
    BY <1>9 DEF Add
  <2>3. QED
    BY <1>1, <1>2, <2>1, <2>2 DEF listVars, localVars, readerVars
<1>10. QED
  BY <1>6, <1>7, <1>8, <1>9 DEF Joins

\* The table grows behind the subscribers, and no publication is under way then.
LEMMA JoinDelivery ==
  ASSUME Whole, Calm', NEW p \in Procs, Joins(p)
  PROVE  DeliveryInv'
<1> USE DEF Whole, DeliveryInv
<1>1. /\ p \in Threads /\ p \notin Subscribers
      /\ pc[p] \in Joining /\ pc'[p] \in Joining \cup {"poll"} /\ pc'[p] # "off"
      /\ \A u \in Threads \ {p} : pc'[u] = pc[u]
      /\ UNCHANGED <<curW, dbkList, freeList, blockVars, blk, cur, inbox, rpos, rlen, rnum>>
  BY JoinStep
<1>2. UNCHANGED <<mem, rcdNum, pos, slots, readCount, state>>
  BY <1>1 DEF blockVars
<1>3. refCount \in Nat /\ (refCount' = refCount \/ (refCount' = refCount + 1 /\ pc'[p] = "add"))
  BY JoinStep DEF Known, Base, TypeOK, TableType
<1>4. \A q \in Subscribers : ToRead(q)' = ToRead(q) /\ Told(q)' /\ Reading(q)'
  BY <1>1, <1>2, WhoElse DEF ToRead, Told, Reading
<1>5. \A c : /\ (Sending(c)' <=> Sending(c)) /\ (Copying(c)' <=> Copying(c))
             /\ Off(c)' = Off(c) /\ Ticked(c)' = Ticked(c) /\ (Untold(c)' <=> Untold(c))
  <2>1. \A t \in Threads \ Procs : pc'[t] = pc[t]
    BY <1>1
  <2>2. pc[p] # "dec" /\ pc'[p] # "dec"
    BY <1>1 DEF Joining
  <2>3. \A q \in Procs : pc'[q] = "dec" <=> pc[q] = "dec"
    BY <1>1, <2>2, WhoElse
  <2>4. QED
    BY <1>1, <1>2, <1>4, <2>1, <2>3 DEF Sending, Copying, Off, Ticked, Untold
<1>6. Unknown' = Unknown
  <2>1. \A t \in Threads \ Procs : pc'[t] = pc[t]
    BY <1>1
  <2>2. InTransit' = InTransit /\ Busy' = Busy
    BY <1>1, <2>1, WhoElse DEF InTransit, Busy
  <2>3. {blk[t] : t \in {u \in Threads \ Procs : pc[u] = "pub"}}'
        = {blk[t] : t \in {u \in Threads \ Procs : pc[u] = "pub"}}
    BY <1>1, <2>1
  <2>4. QED
    BY <1>1, <2>2, <2>3 DEF Unknown
<1>7. SlotsExact'
  <2>1. \A i \in 1..Len(Joined) : Joined[i] \in Subscribers
    BY Readers
  <2>2. \A c \in Blocks, i \in 1..Len(Joined) : Owed(c, i)' <=> Owed(c, i)
    BY <1>4, <1>5, <2>1 DEF Owed
  <2>3. \A i \in Slots : i <= refCount => i <= refCount'
    BY <1>3 DEF Slots
  <2>4. QED
    BY <1>2, <2>2, <2>3 DEF SlotsExact
<1>8. CountExact'
  <2>1. \A c : Copying(c) => refCount' = refCount
    <3>1. CASE pc'[p] = "add"
      BY <1>5, <3>1 DEF Copying, Calm, LateJoin
    <3>2. CASE pc'[p] # "add"
      BY <1>3, <3>2
    <3>3. QED
      BY <3>1, <3>2
  <2>2. QED
    BY <1>2, <1>5, <2>1 DEF CountExact, Unread
<1>9. NobodyReads' /\ Published'
  BY <1>1, <1>2, <1>5, <1>6 DEF NobodyReads, Published
<1>10. \A q \in Procs : InBlock(q)'
  BY <1>1, <1>2, WhoElse DEF InBlock, Joining, Serving
<1>11. Table'
  <2>1. \A q \in Procs \ {p} : pc'[q] = pc[q] /\ idx'[q] = idx[q]
    BY <1>1, JoinStep, WhoElse
  <2>2. readers \in [Slots -> Procs \cup {NoProc}]
    BY DEF Known, Base, TypeOK, TableType
  <2>3. pc[p] # "off" \/ Register(p)
    BY DEF Joins, Connect, AddLock, Add
  <2>4. \A q, r \in Procs : q # r /\ NameOf[q] = NameOf[r] => pc'[q] = "off" \/ pc'[r] = "off"
    <3>1. \A q \in Procs : ~Gone(q)
      BY DEF Known, Calm
    <3>2. \A q \in Procs \ {p} : NameOf[q] = NameOf[p] => pc[q] = "off"
      BY <2>3, <3>1 DEF Register, Table
    <3>3. QED
      BY <2>1, <3>2 DEF Table
  <2>5. ASSUME NEW i \in 1..Len(Joined)
        PROVE  i <= refCount' /\ readers'[i] = Joined[i]
    <3>1. i <= refCount' /\ i \in Slots /\ readers[i] = Joined[i]
      BY <1>3, Readers DEF Table
    <3>2. pc'[p] = "poll" => i # idx[p]
      BY JoinStep DEF Table
    <3>3. QED
      BY <2>2, <3>1, <3>2, JoinStep
  <2>6. ASSUME NEW i \in Slots, readers'[i] # NoProc
        PROVE  pc'[readers'[i]] \in Serving
    <3>1. readers'[i] = readers[i] \/ (readers'[i] = p /\ pc'[p] = "poll")
      <4>1. CASE pc'[p] = "poll"
        <5>1. readers' = [readers EXCEPT ![idx[p]] = p]
          BY <4>1, JoinStep
        <5>2. QED
          BY <2>2, <4>1, <5>1
      <4>2. CASE pc'[p] # "poll"
        BY <4>2, JoinStep
      <4>3. QED
        BY <4>1, <4>2
    <3>2. readers'[i] = readers[i] => readers[i] # p /\ readers[i] \in Procs /\ pc[readers[i]] \in Serving
      BY <1>1, <2>2, <2>6 DEF Table, Joining, Serving
    <3>3. QED
      BY <2>1, <3>1, <3>2 DEF Serving
  <2>7. \A q \in Procs : pc'[q] \in Serving \cup Joining
    BY <1>1, <2>1 DEF Table, Serving
  <2>8. \A q \in Procs : pc'[q] = "add" => idx'[q] \notin 1..Len(Joined)
    BY <2>1, JoinStep DEF Table
  <2>9. \A w \in Writers : pc'[w] \notin Walking
    BY <1>1, WhoElse DEF Table, Threads
  <2>10. \A q \in Subscribers : pc'[q] \in Serving /\ q \in connected'
    BY <1>1, <2>1, JoinStep, WhoElse DEF Table
  <2>11. QED
    BY <2>4, <2>5, <2>6, <2>7, <2>8, <2>9, <2>10 DEF Table
<1>12. QED
  BY <1>4, <1>7, <1>8, <1>9, <1>10, <1>11

\* The readers do nothing else.
LEMMA ReaderDelivery ==
  ASSUME Whole, Calm', NEW p \in Procs, ReaderStep(p) \/ WalkStep(p) \/ ReaderCrash(p)
  PROVE  DeliveryInv'
<1>1. ~WalkStep(p)
  BY DEF WalkStep, Visit, Visited, VisitSet, Whole, DeliveryInv, Table, Serving, Joining
<1>2. ~ReaderCrash(p)
  BY WhoElse DEF ReaderCrash, Goto, Calm, Gone, Whole, Known, Base, TypeOK, PcType
<1>3. QED
  BY <1>1, <1>2, JoinDelivery, RecvDelivery, ReadDelivery, FinishDelivery, DecDelivery,
    RecheckDelivery, SetReadDelivery DEF ReaderStep, Joins
-----------------------------------------------------------------------------
(* Publication, by a writer, by the timeout thread or by the shutdown.      *)

\* What is left alone when somebody else moves.
ReadersAlone ==
  /\ UNCHANGED <<refCount, infoMark, connected, readers, rpos, rlen, rnum, restarts>>
  /\ \A p \in Procs : pc'[p] = pc[p] /\ blk'[p] = blk[p] /\ idx'[p] = idx[p]

\* A reader inside a block is not disturbed as long as the block is not.
LEMMA StillReading ==
  ASSUME Whole, ReadersAlone, NEW p \in Subscribers,
         \A b \in Blocks : b \in ToRead(p) => Untouched(b)
  PROVE  Reading(p)'
<1>1. pc[p] = "read" => blk[p] \in ToRead(p)
  BY DEF ToRead
<1>2. pc[p] = "read" => Untouched(blk[p])
  BY <1>1, StillToRead
<1>3. pc[p] = "read" => rpos[p] \in StartsIn(mem[blk[p]], pos[blk[p]])
  BY DEF Whole, DeliveryInv, Reading
<1>4. QED
  BY <1>2, WhoElse DEF ReadersAlone, Reading, Untouched, Whole, DeliveryInv

\* The table is about the readers, and about writers that look for dead ones.
LEMMA AloneTable ==
  ASSUME Whole, ReadersAlone, \A w \in Writers : pc'[w] \notin Walking
  PROVE  Table'
<1>1. Table
  BY DEF Whole, DeliveryInv
<1>2. /\ \A i \in 1..Len(Joined) : i <= refCount' /\ readers'[i] = Joined[i]
      /\ \A p \in Procs : pc'[p] = "add" => idx'[p] \notin 1..Len(Joined)
      /\ \A i \in Slots : readers'[i] # NoProc => pc'[readers'[i]] \in Serving
  <2>1. \A i \in Slots : readers[i] # NoProc => readers[i] \in Procs
    BY DEF Whole, Known, Base, TypeOK, TableType
  <2>2. QED
    BY <1>1, <2>1 DEF ReadersAlone, Table
<1>3. /\ \A p \in Subscribers : pc'[p] \in Serving /\ p \in connected'
      /\ \A p \in Procs : pc'[p] \in Serving \cup Joining
      /\ \A p, q \in Procs : p # q /\ NameOf[p] = NameOf[q] => pc'[p] = "off" \/ pc'[q] = "off"
  BY <1>1, WhoElse DEF ReadersAlone, Table
<1>4. QED
  BY <1>2, <1>3 DEF Table

\* The publisher of a block, and what a step of its publication leaves alone.
Publishes(t) == Pub(t) \/ Copy(t) \/ Send(t)
LEMMA PublishFrame ==
  ASSUME Whole, NEW t \in Threads \ Procs, Publishes(t)
  PROVE  /\ ReadersAlone
         /\ UNCHANGED <<freeList, dbkList, curW, mem, rcdNum, pos, blk, cur>>
         /\ \A u \in (Threads \ Procs) \ {t} : pc'[u] = pc[u] /\ pc[u] \notin Publishing
         /\ \A p \in Subscribers : Reading(p)'
         /\ blk[t] \in Blocks /\ t \in Threads
<1> USE DEF Whole, Known
<1>1. ReadersAlone
  BY WhoElse DEF Publishes, Pub, Copy, Send, Goto, ReadersAlone, queueVars, localVars, readerVars,
    envVars, Base, TypeOK, PcType
<1>2. UNCHANGED <<freeList, dbkList, curW, mem, rcdNum, pos, blk, cur>>
  BY DEF Publishes, Pub, Copy, Send, queueVars, listVars, localVars, blockVars
<1>3. pc[t] \in Publishing
  BY DEF Publishes, Pub, Copy, Send, Publishing
<1>4. \A u \in (Threads \ Procs) \ {t} : pc'[u] = pc[u] /\ pc[u] \notin Publishing
  <2>1. \A u \in (Threads \ Procs) \ {t} : pc[u] \notin Publishing
    BY <1>3, OnePublisher
  <2>2. \A u \in (Threads \ Procs) \ {t} : pc'[u] = pc[u]
    BY DEF Publishes, Pub, Copy, Send, Goto, Base, TypeOK, PcType
  <2>3. QED
    BY <2>1, <2>2
<1>5. \A p \in Subscribers : Reading(p)'
  BY <1>1, <1>2, StillReading DEF Untouched
<1>6. blk[t] \in Blocks /\ t \in Threads
  BY <1>3 DEF Base, InHand, HandOf, Working, Publishing
<1>7. QED
  BY <1>1, <1>2, <1>4, <1>5, <1>6

\* No block gets into the hands of a writer by it.
LEMMA PublishUnknown ==
  ASSUME Whole, NEW t \in Threads \ Procs, Publishes(t)
  PROVE  Unknown' \subseteq Unknown /\ Table'
<1>1. /\ UNCHANGED <<freeList, curW, blk, cur>> /\ ReadersAlone
      /\ \A u \in (Threads \ Procs) \ {t} : pc'[u] = pc[u]
  BY PublishFrame
<1>2. pc'[t] \in {"copy", "send", "alloc", "tsleep", "xdone"} /\ (t \in Writers => pc'[t] # "tsleep")
  BY WhoElse DEF Publishes, Pub, Copy, Send, Resume, Goto, Whole, Known, Base, TypeOK, PcType
<1>3. \A u \in Threads \ Procs : pc'[u] # pc[u] => pc'[u] \in {"copy", "send", "alloc", "tsleep", "xdone"}
  BY <1>1, <1>2
<1>4. InTransit' \subseteq InTransit
  <2>1. \A w \in Writers : pc'[w] \in {"reclaim", "link"} => pc[w] = pc'[w]
    BY <1>3, WhoElse
  <2>2. QED
    BY <1>1, <2>1 DEF InTransit
<1>5. Busy' \subseteq Busy
  <2>1. \A w \in Writers : pc'[w] \in Filling => pc[w] = pc'[w]
    BY <1>3, WhoElse DEF Filling
  <2>2. QED
    BY <1>1, <2>1 DEF Busy
<1>6. \A u \in Threads \ Procs : pc'[u] = "pub" => pc[u] = "pub"
  BY <1>3
<1>7. Unknown' \subseteq Unknown
  BY <1>1, <1>4, <1>5, <1>6 DEF Unknown
<1>8. \A w \in Writers : pc'[w] \notin Walking
  BY <1>3, WhoElse DEF Whole, DeliveryInv, Table, Walking
<1>9. QED
  BY <1>1, <1>7, <1>8, AloneTable

\* read_count is set for a block nobody was told of, and nobody is about to mark as read.
LEMMA PubDelivery ==
  ASSUME Whole, Calm', NEW t \in Threads \ Procs, Pub(t)
  PROVE  DeliveryInv'
<1> USE DEF Whole, DeliveryInv
<1>1. PICK b : b = blk[t]
  OBVIOUS
<1>2. /\ ReadersAlone /\ UNCHANGED <<freeList, dbkList, curW, blk, cur>>
      /\ \A u \in (Threads \ Procs) \ {t} : pc'[u] = pc[u] /\ pc[u] \notin Publishing
      /\ \A p \in Subscribers : Reading(p)'
      /\ b \in Blocks /\ t \in Threads
      /\ Unknown' \subseteq Unknown /\ Table'
  BY <1>1, PublishFrame, PublishUnknown DEF Publishes
<1>3. pc[t] = "pub" /\ pc'[t] = "copy" /\ UNCHANGED <<slots, inbox>>
      /\ readCount' = [readCount EXCEPT ![b] = refCount]
      /\ state' = [state EXCEPT ![b] = "READING"]
  BY <1>1, <1>2 DEF Pub, Goto, Known, Base, TypeOK, PcType, readerVars
<1>4. ~Copying(b) /\ b \in Unknown
  BY <1>1, <1>2, <1>3 DEF Copying, Unknown, Publishing
<1>5. Unread(b)
  BY <1>2, <1>4, NobodyIn DEF NobodyReads
<1>6. \A c : /\ Sending(c)' <=> Sending(c)
             /\ Copying(c)' <=> c = b
             /\ ~Copying(c)
  BY <1>1, <1>2, <1>3 DEF Sending, Copying, Publishing
<1>7. \A p \in Subscribers : ToRead(p)' = ToRead(p) /\ Told(p)'
  BY <1>2, <1>3, WhoElse DEF ReadersAlone, ToRead, Told
<1>8. \A c : Off(c)' = Off(c)
  BY <1>2 DEF ReadersAlone, Off
<1>9. SlotsExact'
  <2>1. \A i \in 1..Len(Joined) : Joined[i] \in Subscribers
    BY Readers
  <2>2. \A c \in Blocks, i \in 1..Len(Joined) : Owed(c, i)' = Owed(c, i)
    BY <1>6, <1>7, <2>1 DEF Owed
  <2>3. QED
    BY <1>2, <1>3, <2>2 DEF SlotsExact, ReadersAlone
<1>10. CountExact'
  <2> SUFFICES ASSUME NEW c \in Blocks
               PROVE  /\ Copying(c)' => readCount'[c] = refCount' /\ Unread(c)'
                      /\ ~Copying(c)' => readCount'[c] = Cardinality(Ticked(c)') + Cardinality(Off(c)')
                      /\ state'[c] = "READED" => readCount'[c] = 0
    BY DEF CountExact
  <2>1. Ticked(c)' = Ticked(c)
    BY <1>3 DEF Ticked
  <2>2. CASE c = b
    BY <1>2, <1>3, <1>5, <1>6, <1>7, <1>8, <2>1, <2>2 DEF Unread, Untold, ReadersAlone, Known, Base,
      TypeOK, BlockType
  <2>3. CASE c # b
    BY <1>2, <1>3, <1>6, <1>8, <2>1, <2>3 DEF CountExact, Known, Base, TypeOK, BlockType
  <2>4. QED
    BY <2>2, <2>3
<1>11. b \notin Unknown'
  <2>1. b \in ToSet(dbkList)
    BY <1>1, <1>3 DEF Published, Publishing
  <2>2. b \notin ToSet(freeList) \cup InTransit
    BY <2>1 DEF Known, ListInv, ListsPartition
  <2>3. curW = NoBlk /\ \A w \in Writers : pc[w] \notin Filling
    <3>1. CASE t \in Writers
      <4>1. Holds(t)
        BY <1>3 DEF Holds
      <4>2. \A w \in Writers : pc[w] \notin Filling
        BY <1>3, <3>1, <4>1, HolderOnly DEF Known, Base, Filling, Holds, Holding
      <4>3. QED
        BY <1>3, <3>1, <4>2 DEF Known, ListInv, CurFree
    <3>2. CASE t \notin Writers
      <4>1. t \in {Timeout, Exiter} /\ pc[t] \in Publishing
        BY <1>3, <3>2, WhoElse DEF Publishing
      <4>2. curW = NoBlk
        BY <4>1 DEF Known, Leaving, Closed, CurrentInv
      <4>3. \A w \in Writers : pc[w] \notin Filling
        BY <4>1, NoHolder DEF Known, Holds, Holding, Filling
      <4>4. QED
        BY <4>2, <4>3
    <3>3. QED
      BY <3>1, <3>2
  <2>4. Busy' = {}
    <3>1. \A w \in Writers : pc'[w] \notin Filling
      BY <1>2, <1>3, <2>3, WhoElse DEF Filling
    <3>2. QED
      BY <3>1 DEF Busy
  <2>5. InTransit' \subseteq InTransit
    <3>1. \A w \in Writers : pc'[w] \in {"reclaim", "link"} => pc[w] = pc'[w]
      BY <1>2, <1>3, WhoElse
    <3>2. QED
      BY <1>2, <3>1 DEF InTransit
  <2>6. \A u \in Threads \ Procs : pc'[u] # "pub"
    BY <1>2, <1>3 DEF Publishing
  <2>7. QED
    BY <1>2, <2>2, <2>3, <2>4, <2>5, <2>6 DEF Unknown
<1>12. NobodyReads'
  BY <1>2, <1>3, <1>11 DEF NobodyReads
<1>13. Published'
  BY <1>1, <1>2, <1>3, <1>7 DEF Published, Publishing, Untold
<1>14. \A p \in Procs : InBlock(p)'
  <2> SUFFICES ASSUME NEW p \in Procs
               PROVE  InBlock(p)'
    OBVIOUS
  <2>1. InBlock(p) /\ pc'[p] = pc[p] /\ blk'[p] = blk[p]
    BY <1>2 DEF ReadersAlone
  <2>2. pc[p] = "setread" => blk[p] # b
    <3>1. ~LateMark'
      BY DEF Calm
    <3>2. QED
      BY <1>1, <1>2, <1>3, <2>1, <3>1 DEF LateMark
  <2>3. readCount \in [Blocks -> Int]
    BY DEF Known, Base, TypeOK, BlockType
  <2>4. QED
    BY <1>3, <2>1, <2>2, <2>3 DEF InBlock, Serving
<1>15. QED
  BY <1>2, <1>7, <1>9, <1>10, <1>12, <1>13, <1>14

\* The pids of all readers are copied to the block: as many as read_count says.
LEMMA CopyDelivery ==
  ASSUME Whole, NEW t \in Threads \ Procs, Copy(t)
  PROVE  DeliveryInv'
<1> USE DEF Whole, DeliveryInv
<1>1. PICK b : b = blk[t]
  OBVIOUS
<1>2. /\ ReadersAlone /\ UNCHANGED <<freeList, dbkList, curW, blk, cur>>
      /\ \A u \in (Threads \ Procs) \ {t} : pc'[u] = pc[u] /\ pc[u] \notin Publishing
      /\ \A p \in Subscribers : Reading(p)'
      /\ b \in Blocks /\ t \in Threads
      /\ Unknown' \subseteq Unknown /\ Table'
  BY <1>1, PublishFrame, PublishUnknown DEF Publishes
<1>3. /\ pc[t] = "copy" /\ pc'[t] = "send" /\ UNCHANGED <<inbox, readCount, state>>
      /\ slots' = [slots EXCEPT ![b] = [i \in Slots |-> IF i <= refCount THEN readers[i] ELSE @[i]]]
  BY <1>1, <1>2 DEF Copy, Goto, Known, Base, TypeOK, PcType, readerVars
<1>4. \A c : /\ Copying(c) <=> c = b
             /\ ~Copying(c)'
             /\ Sending(c)' <=> c = b
             /\ ~Sending(c)
  BY <1>1, <1>2, <1>3 DEF Sending, Copying, Publishing
<1>5. \A p \in Subscribers : ToRead(p)' = ToRead(p) /\ Told(p)'
  BY <1>2, <1>3, WhoElse DEF ReadersAlone, ToRead, Told
<1>6. \A c : Off(c)' = Off(c)
  BY <1>2 DEF ReadersAlone, Off
<1>7. Compact({})
  <2>1. infoMark = Nobody /\ Nobody \notin Procs
    BY QueueAssumption DEF Copy, Threads
  <2>2. QED
    BY <2>1 DEF Known, TableInv, Filing, Orphaned, Free
<1>8. /\ refCount \in Nat /\ 1..refCount \subseteq Slots
      /\ \A i \in Slots : readers[i] \in Procs \cup {NoProc} /\ (readers[i] # NoProc <=> i <= refCount)
      /\ \A i, j \in 1..refCount : readers[i] = readers[j] => i = j
  BY <1>7, SlotBound, QueueAssumption DEF Compact, Known, Base, TypeOK, TableType
<1>9. \A i \in Slots : slots'[b][i] = IF i <= refCount THEN readers[i] ELSE slots[b][i]
  BY <1>2, <1>3 DEF Known, Base, TypeOK, BlockType
<1>10. \A c \in Blocks \ {b} : slots'[c] = slots[c]
  BY <1>3 DEF Known, Base, TypeOK, BlockType
<1>11. refCount' = refCount
  BY <1>2 DEF ReadersAlone
<1>12. \A i \in Slots : i > refCount => slots[b][i] = NoProc
  <2> SUFFICES ASSUME NEW i \in Slots, i > refCount
               PROVE  slots[b][i] = NoProc
    OBVIOUS
  <2>1. i \notin 1..Len(Joined)
    <3>1. \A j \in 1..Len(Joined) : j <= refCount
      BY DEF Table
    <3>2. Len(Joined) \in Nat
      BY Readers
    <3>3. QED
      BY <1>8, <3>1, <3>2 DEF Slots
  <2>2. i \in Nat
    BY QueueAssumption DEF Slots
  <2>3. QED
    BY <1>2, <1>8, <2>1, <2>2 DEF SlotsExact
<1>13. SlotsExact'
  <2>1. \A i \in 1..Len(Joined) : Joined[i] \in Subscribers
    BY Readers
  <2>2. ASSUME NEW c \in Blocks, NEW i \in 1..Len(Joined)
        PROVE  slots'[c][i] = IF Owed(c, i)' THEN Joined[i] ELSE NoProc
    <3>1. CASE c = b
      <4>1. i \in Slots /\ i <= refCount /\ readers[i] = Joined[i]
        BY Readers DEF Table
      <4>2. QED
        BY <1>4, <1>9, <3>1, <4>1 DEF Owed
    <3>2. CASE c # b
      <4>1. Owed(c, i)' <=> Owed(c, i)
        BY <1>4, <1>5, <2>1, <3>2 DEF Owed
      <4>2. QED
        BY <1>10, <3>2, <4>1 DEF SlotsExact
    <3>3. QED
      BY <3>1, <3>2
  <2>3. ASSUME NEW c \in Blocks, NEW i \in Slots \ (1..Len(Joined)), slots'[c][i] # NoProc
        PROVE  i <= refCount' /\ slots'[c][i] \notin Subscribers
    <3>1. CASE c = b
      <4>1. i \in Nat /\ i <= refCount /\ slots'[c][i] = readers[i]
        BY <1>8, <1>9, <1>12, <2>3, <3>1, QueueAssumption DEF Slots
      <4>2. ASSUME readers[i] \in Subscribers
            PROVE  FALSE
        <5>1. PICK j \in 1..Len(Joined) : Joined[j] = readers[i]
          BY <4>2, Readers
        <5>2. j <= refCount /\ readers[j] = readers[i] /\ j \in Nat /\ j >= 1 /\ i >= 1
          BY <5>1, Readers, QueueAssumption DEF Table, Slots
        <5>3. i \in 1..refCount /\ j \in 1..refCount
          BY <1>8, <4>1, <5>2
        <5>4. i = j
          BY <1>8, <5>2, <5>3
        <5>5. QED
          BY <2>3, <5>1, <5>4
      <4>3. QED
        BY <1>11, <4>1, <4>2
    <3>2. CASE c # b
      BY <1>10, <1>11, <2>3, <3>2 DEF SlotsExact
    <3>3. QED
      BY <3>1, <3>2
  <2>4. QED
    BY <2>2, <2>3 DEF SlotsExact
<1>14. CountExact'
  <2> SUFFICES ASSUME NEW c \in Blocks
               PROVE  /\ readCount'[c] = Cardinality(Ticked(c)') + Cardinality(Off(c)')
                      /\ state'[c] = "READED" => readCount'[c] = 0
    BY <1>4 DEF CountExact
  <2>1. CASE c = b
    <3>1. Ticked(c)' = 1..refCount
      <4>1. \A i \in Slots : i \in Nat /\ i >= 1 /\ (slots'[c][i] # NoProc <=> i <= refCount)
        <5> SUFFICES ASSUME NEW i \in Slots
                     PROVE  i \in Nat /\ i >= 1 /\ (slots'[c][i] # NoProc <=> i <= refCount)
          OBVIOUS
        <5>1. i \in Nat /\ i >= 1
          BY QueueAssumption DEF Slots
        <5>2. CASE i <= refCount
          BY <1>8, <1>9, <2>1, <5>1, <5>2
        <5>3. CASE ~(i <= refCount)
          BY <1>8, <1>9, <1>12, <2>1, <5>1, <5>3
        <5>4. QED
          BY <5>1, <5>2, <5>3
      <4>2. QED
        BY <1>8, <4>1 DEF Ticked
    <3>2. Cardinality(1..refCount) = refCount
      <4>1. Cardinality(1..refCount) = IF 1 > refCount THEN 0 ELSE refCount - 1 + 1
        BY <1>8, FS_Interval
      <4>2. QED
        BY <1>8, <4>1
    <3>3. Off(c)' = {} /\ readCount[c] = refCount
      BY <1>4, <1>6, <2>1 DEF CountExact, Unread
    <3>4. Cardinality(Off(c)') = 0
      BY <3>3, FS_EmptySet
    <3>5. QED
      BY <1>3, <1>8, <3>1, <3>2, <3>3, <3>4 DEF CountExact
  <2>2. CASE c # b
    <3>1. Ticked(c)' = Ticked(c)
      BY <1>10, <2>2 DEF Ticked
    <3>2. QED
      BY <1>3, <1>4, <1>6, <2>2, <3>1 DEF CountExact
  <2>3. QED
    BY <2>1, <2>2
<1>15. NobodyReads'
  BY <1>2, <1>3 DEF NobodyReads
<1>16. Published'
  BY <1>1, <1>2, <1>3, <1>5 DEF Published, Publishing, Untold
<1>17. \A p \in Procs : InBlock(p)'
  BY <1>2, <1>3 DEF InBlock, ReadersAlone
<1>18. QED
  BY <1>2, <1>5, <1>13, <1>14, <1>15, <1>16, <1>17

\* The broadcast: every subscriber is told.
LEMMA SendDelivery ==
  ASSUME Whole, NEW t \in Threads \ Procs, Send(t)
  PROVE  DeliveryInv'
<1> USE DEF Whole, DeliveryInv
<1>1. PICK b : b = blk[t]
  OBVIOUS
<1>2. /\ ReadersAlone /\ UNCHANGED <<freeList, dbkList, curW, blk, cur>>
      /\ \A u \in (Threads \ Procs) \ {t} : pc'[u] = pc[u] /\ pc[u] \notin Publishing
      /\ \A p \in Subscribers : Reading(p)'
      /\ b \in Blocks /\ t \in Threads
      /\ Unknown' \subseteq Unknown /\ Table'
  BY <1>1, PublishFrame, PublishUnknown DEF Publishes
<1>3. /\ pc[t] = "send" /\ pc'[t] \notin Publishing /\ UNCHANGED <<slots, readCount, state>>
      /\ \A p \in Subscribers : inbox'[p] = Append(inbox[p], b)
  <2>1. pc[t] = "send" /\ pc'[t] \notin Publishing /\ UNCHANGED <<slots, readCount, state>>
    BY <1>1, <1>2 DEF Send, Goto, Resume, Publishing, Known, Base, TypeOK, PcType, blockVars
  <2>2. \A p \in Subscribers : p \in Procs /\ p \in connected /\ ~Gone(p)
    BY WhoElse DEF Table, Known, Calm
  <2>3. QED
    BY <1>1, <2>1, <2>2 DEF Send
<1>4. \A c : /\ Copying(c)' = Copying(c) /\ ~Copying(c)
             /\ ~Sending(c)'
             /\ Sending(c) <=> c = b
  BY <1>1, <1>2, <1>3 DEF Sending, Copying, Publishing
<1>5. \A p \in Subscribers : b \notin ToRead(p)
  BY <1>1, <1>3 DEF Published, Publishing, Untold
<1>6. ASSUME NEW p \in Subscribers
      PROVE  ToRead(p)' = ToRead(p) \cup {b} /\ Told(p)'
  <2>1. inbox[p] \in Seq(Blocks) /\ b \notin ToSet(inbox[p]) /\ p \in Procs
    BY <1>5, WhoElse DEF ToRead, Known, Base, TypeOK, ReaderType
  <2>2. /\ Len(inbox[p]) \in Nat /\ Len(Append(inbox[p], b)) = Len(inbox[p]) + 1
        /\ \A i \in 1..Len(inbox[p]) : Append(inbox[p], b)[i] = inbox[p][i]
        /\ Append(inbox[p], b)[Len(inbox[p]) + 1] = b
        /\ DOMAIN inbox[p] = 1..Len(inbox[p])
        /\ DOMAIN Append(inbox[p], b) = 1..(Len(inbox[p]) + 1)
    BY <1>2, <2>1, AppendProperties, LenProperties
  <2>3. ToSet(Append(inbox[p], b)) = ToSet(inbox[p]) \cup {b}
    BY <2>2 DEF ToSet
  <2>4. IsInjective(Append(inbox[p], b))
    BY <2>1, <2>2 DEF IsInjective, ToSet, Told
  <2>5. ToRead(p)' = ToRead(p) \cup {b}
    BY <1>2, <1>3, <2>1, <2>3 DEF ReadersAlone, ToRead
  <2>6. pc[p] \in {"read", "finish"} => blk[p] # b
    BY <1>5 DEF ToRead
  <2>7. Told(p)'
    BY <1>2, <1>3, <2>1, <2>3, <2>4, <2>6 DEF ReadersAlone, Told
  <2>8. QED
    BY <2>5, <2>7
<1>7. \A c : Off(c)' = Off(c) /\ Ticked(c)' = Ticked(c)
  BY <1>2, <1>3 DEF ReadersAlone, Off, Ticked
<1>8. SlotsExact'
  <2>1. \A i \in 1..Len(Joined) : Joined[i] \in Subscribers
    BY Readers
  <2>2. \A c \in Blocks, i \in 1..Len(Joined) : Owed(c, i)' <=> Owed(c, i)
    BY <1>4, <1>6, <2>1 DEF Owed
  <2>3. refCount' = refCount
    BY <1>2 DEF ReadersAlone
  <2>4. QED
    BY <1>3, <2>2, <2>3 DEF SlotsExact
<1>9. CountExact'
  BY <1>3, <1>4, <1>7 DEF CountExact
<1>10. NobodyReads'
  BY <1>2, <1>3 DEF NobodyReads
<1>11. Published'
  BY <1>2, <1>3 DEF Published
<1>12. \A p \in Procs : InBlock(p)'
  BY <1>2, <1>3 DEF InBlock, ReadersAlone
<1>13. QED
  BY <1>2, <1>6, <1>8, <1>9, <1>10, <1>11, <1>12
-----------------------------------------------------------------------------
(* Everything else.                                                        *)

\* What a step needs to keep the invariant when it publishes nothing and is no reader's.
LEMMA QuietDelivery ==
  ASSUME Whole, ReadersAlone, UNCHANGED <<inbox, slots>>,
         \A w \in Writers : pc'[w] \notin Walking,
         \A t \in Threads \ Procs :
           pc'[t] \in {"copy", "send"} \/ pc[t] \in {"copy", "send"} => pc'[t] = pc[t] /\ blk'[t] = blk[t],
         \A c \in Blocks : readCount'[c] = readCount[c] /\ (state'[c] = "READED" => state[c] = "READED"),
         \A p \in Subscribers : \A b \in ToRead(p) : Untouched(b),
         \A c \in Unknown' : c \in Blocks /\ readCount[c] = 0,
         \A t \in Threads \ Procs :
           pc'[t] \in Publishing => blk'[t] \in ToSet(dbkList') /\ Untold(blk'[t])
  PROVE  DeliveryInv'
<1> USE DEF Whole, DeliveryInv
<1>1. \A c : (Sending(c)' <=> Sending(c)) /\ (Copying(c)' <=> Copying(c))
  BY DEF Sending, Copying
<1>2. \A p \in Subscribers : ToRead(p)' = ToRead(p) /\ Told(p)'
  BY WhoElse DEF ReadersAlone, ToRead, Told
<1>3. \A p \in Subscribers : Reading(p)'
  BY StillReading
<1>4. \A c : Off(c)' = Off(c) /\ Ticked(c)' = Ticked(c)
  BY DEF ReadersAlone, Off, Ticked
<1>5. SlotsExact'
  <2>1. \A i \in 1..Len(Joined) : Joined[i] \in Subscribers
    BY Readers
  <2>2. \A c \in Blocks, i \in 1..Len(Joined) : Owed(c, i)' <=> Owed(c, i)
    BY <1>1, <1>2, <2>1 DEF Owed
  <2>3. QED
    BY <2>2 DEF SlotsExact, ReadersAlone
<1>6. CountExact'
  BY <1>1, <1>2, <1>4 DEF CountExact, Unread, Untold, ReadersAlone
<1>7. NobodyReads' /\ Published'
  BY <1>2 DEF NobodyReads, Published, Untold
<1>8. Table'
  BY AloneTable
<1>9. \A p \in Procs : InBlock(p)'
  BY DEF ReadersAlone, InBlock, Serving
<1>10. QED
  BY <1>2, <1>3, <1>5, <1>6, <1>7, <1>8, <1>9

\* A writer that publishes nothing leaves the readers alone, and what they read.
LEMMA WriterQuiet ==
  ASSUME Whole, NEW w \in Writers, WriterMoves(w), ~Publishes(w), \A u \in Threads \ {w} : Same(u)
  PROVE  /\ ReadersAlone /\ UNCHANGED <<inbox, slots>>
         /\ pc'[w] \notin Walking \cup {"copy", "send"} /\ pc[w] \notin {"copy", "send"}
         /\ \A c \in Blocks : readCount'[c] = readCount[c] /\ (state'[c] = "READED" => state[c] = "READED")
<1> DEFINE Kind == /\ UNCHANGED <<refCount, infoMark, connected, readers, rpos, rlen, rnum, restarts>>
                   /\ UNCHANGED <<inbox, slots>>
                   /\ pc'[w] \notin Walking \cup {"copy", "send"} /\ pc[w] \notin {"copy", "send"}
                   /\ \A c \in Blocks : readCount'[c] = readCount[c]
                                        /\ (state'[c] = "READED" => state[c] = "READED")
<1> USE DEF Whole, Known, Base, TypeOK, PcType, BlockType, Goto, Walking, queueVars, listVars, blockVars,
        localVars, readerVars, envVars
<1>1. w \in Threads /\ pc[w] \notin Walking
  BY DEF DeliveryInv, Table, Threads
<1>2. Begin(w) \/ Lock(w) \/ ReadCur(w) \/ Reread(w) \/ Alloc(w) => Kind
  BY <1>1 DEF Begin, Lock, ReadCur, Reread, Alloc
<1>3. Count(w) \/ Collect(w) \/ Pick(w) \/ Link(w) \/ SetCur(w) => Kind
  BY <1>1 DEF Count, Collect, Pick, Link, SetCur
<1>4. Area(w) \/ Mark(w) \/ Body(w) \/ Stamp(w) \/ Fail(w) => Kind
  BY <1>1 DEF Area, Mark, Body, Stamp, Fail
<1>5. Cas(w) => Kind
  BY <1>1 DEF Cas, Resume
<1>6. ASSUME SetWrite(w)
      PROVE  Kind
  <2>1. blk[w] \in Blocks
    BY <1>1, <1>6 DEF SetWrite, InHand, HandOf, Working, Filling
  <2>2. QED
    BY <1>1, <1>6, <2>1 DEF SetWrite
<1>7. ASSUME Reclaim(w)
      PROVE  Kind
  <2>1. cur[w] \in Blocks
    BY <1>1, <1>7 DEF Reclaim, InHand, HandOf
  <2>2. cur[w] \in Unknown
    BY <1>7 DEF Reclaim, Unknown, InTransit
  <2>3. readCount[cur[w]] = 0
    BY <2>2 DEF DeliveryInv, NobodyReads
  <2>4. QED
    BY <1>1, <1>7, <2>1, <2>3 DEF Reclaim, BlockInit
<1>8. ASSUME Scan(w)
      PROVE  Kind
  <2>1. \A i \in Slots : readers[i] # NoProc => ~Gone(readers[i])
    BY DEF DeliveryInv, Table, Gone, Serving
  <2>2. idx[w] <= MaxReaders => idx[w] \in Slots
    BY QueueAssumption DEF LocalType, Slots, Walkers
  <2>3. QED
    BY <1>1, <1>8, <2>1, <2>2 DEF Scan
<1>9. ~(Clean(w) \/ WalkStep(w))
  BY <1>1 DEF Clean, WalkStep, Visit, Visited, VisitSet
<1>10. Kind
  BY <1>2, <1>3, <1>4, <1>5, <1>6, <1>7, <1>8, <1>9 DEF WriterMoves, WriterStep, PubStep, Publishes
<1>11. \A p \in Procs : pc'[p] = pc[p] /\ blk'[p] = blk[p] /\ idx'[p] = idx[p]
  BY WhoElse DEF Same
<1>12. QED
  BY <1>10, <1>11 DEF ReadersAlone

-----------------------------------------------------------------------------
(* The invariant is one.                                                   *)

\* The blocks no reader has anything to do with.
Fresh == {c \in Blocks : readCount[c] = 0}

\* What NobodyReads says of one writer.
Part(w) == Moved(w) \cup (IF pc[w] \in Filling \cup {"pub"} THEN {blk[w]} ELSE {})

\* Unknown, writer by writer.
UnknownSplit ==
  \A c \in Unknown : \/ c \in ToSet(freeList)
                     \/ c = curW /\ curW # NoBlk
                     \/ \E w \in Writers : c \in Part(w)
                     \/ \E t \in {Timeout, Exiter} : pc[t] = "pub" /\ c = blk[t]
LEMMA UnknownParts ==
  /\ UnknownSplit
  /\ \A w \in Writers : Part(w) \subseteq Unknown
  /\ \A t \in {Timeout, Exiter} : pc[t] = "pub" => blk[t] \in Unknown
  /\ ToSet(freeList) \cup ({curW} \ {NoBlk}) \subseteq Unknown
<1>1. InTransit = UNION {Moved(w) : w \in Writers}
  BY ByWriter
<1>2. UnknownSplit
  <2> SUFFICES ASSUME NEW c \in Unknown
               PROVE  \/ c \in ToSet(freeList)
                      \/ c = curW /\ curW # NoBlk
                      \/ \E w \in Writers : c \in Part(w)
                      \/ \E t \in {Timeout, Exiter} : pc[t] = "pub" /\ c = blk[t]
    BY DEF UnknownSplit
  <2>1. CASE c \in ToSet(freeList) \cup ({curW} \ {NoBlk})
    BY <2>1
  <2>2. CASE c \in InTransit \cup Busy
    BY <1>1, <2>2 DEF Busy, Part
  <2>3. CASE c \in {blk[t] : t \in {u \in Threads \ Procs : pc[u] = "pub"}}
    <3>1. PICK t \in Threads \ Procs : pc[t] = "pub" /\ c = blk[t]
      BY <2>3
    <3>2. t \in Writers => c \in Part(t)
      BY <3>1 DEF Part
    <3>3. QED
      BY <3>1, <3>2, WhoElse
  <2>4. QED
    BY <2>1, <2>2, <2>3 DEF Unknown
<1>3. \A w \in Writers : Part(w) \subseteq Unknown
  BY <1>1, WhoElse DEF Part, Unknown, Busy
<1>4. \A t \in {Timeout, Exiter} : pc[t] = "pub" => blk[t] \in Unknown
  BY WhoElse DEF Unknown
<1>5. QED
  BY <1>2, <1>3, <1>4 DEF Unknown

\* They are blocks.
LEMMA UnknownFresh ==
  ASSUME Whole
  PROVE  Unknown \subseteq Fresh
<1>1. ToSet(freeList) \subseteq Blocks /\ {curW} \ {NoBlk} \subseteq Blocks
  BY ElementOfSeq, LenProperties DEF Whole, Known, Base, TypeOK, ListType, ToSet
<1>2. InTransit \subseteq Blocks
  BY DEF InTransit, Whole, Known, Base, InHand, HandOf, Working, Threads
<1>3. Busy \subseteq Blocks
  BY DEF Busy, Whole, Known, Base, InHand, HandOf, Working, Threads
<1>4. {blk[t] : t \in {u \in Threads \ Procs : pc[u] = "pub"}} \subseteq Blocks
  BY DEF Whole, Known, Base, InHand, HandOf, Working
<1>5. QED
  BY <1>1, <1>2, <1>3, <1>4 DEF Unknown, Fresh, Whole, DeliveryInv, NobodyReads

\* A writer that publishes nothing takes only such blocks into its hands.
LEMMA WriterFresh ==
  ASSUME Whole, NEW w \in Writers, WriterMoves(w), ~Publishes(w)
  PROVE  ToSet(freeList') \cup ({curW'} \ {NoBlk}) \cup Part(w)' \subseteq Fresh
<1> USE DEF Whole, Known, Base, TypeOK, PcType, LocalType, ListType, Goto, Part, Moved, Filling, queueVars,
        listVars, localVars
<1>1. w \in Threads /\ pc[w] \notin Walking
  BY DEF DeliveryInv, Table, Threads
<1>2. ToSet(freeList) \cup ({curW} \ {NoBlk}) \cup Part(w) \subseteq Fresh
  BY UnknownFresh, UnknownParts
<1>3. CASE Begin(w) \/ Lock(w) \/ ReadCur(w) \/ Alloc(w) \/ Fail(w)
  BY <1>1, <1>2, <1>3 DEF Begin, Lock, ReadCur, Alloc, Fail
<1>4. CASE Scan(w)
  BY <1>1, <1>2, <1>4 DEF Scan, StartWalk
<1>5. CASE Count(w) \/ SetWrite(w) \/ Area(w) \/ Mark(w) \/ Body(w) \/ Stamp(w)
  BY <1>1, <1>2, <1>5 DEF Count, SetWrite, Area, Mark, Body, Stamp
<1>6. CASE Reread(w)
  BY <1>1, <1>2, <1>6 DEF Reread
<1>7. CASE Link(w) \/ SetCur(w)
  BY <1>1, <1>2, <1>7 DEF Link, SetCur
<1>8. CASE Cas(w)
  <2>1. blk[w] \in Blocks /\ blk[w] # NoBlk
    BY <1>1, <1>8, QueueAssumption DEF Cas, InHand, HandOf, Working
  <2>2. QED
    BY <1>1, <1>2, <1>8, <2>1 DEF Cas, Resume
<1>9. CASE Collect(w)
  <2>1. Collectable(cur[w]) /\ cur[w] \in ToSet(dbkList) => cur[w] \in Fresh
    <3>1. cur[w] \in ToSet(dbkList) => cur[w] \in Blocks
      BY ElementOfSeq, LenProperties DEF ToSet
    <3>2. QED
      BY <3>1 DEF Collectable, Fresh, DeliveryInv, CountExact
  <2>2. UNCHANGED <<freeList, curW>>
    BY <1>9 DEF Collect
  <2>3. pc'[w] = "reclaim" => Collectable(cur[w]) /\ cur[w] \in ToSet(dbkList) /\ cur' = cur
    BY <1>1, <1>9 DEF Collect, ToSet
  <2>4. pc'[w] \in {"reclaim", "pick", "collect"}
    BY <1>1, <1>9 DEF Collect
  <2>5. QED
    BY <1>2, <2>1, <2>2, <2>3, <2>4
<1>10. CASE Reclaim(w)
  <2>1. cur[w] \in Fresh
    BY <1>2, <1>10 DEF Reclaim
  <2>2. ToSet(Cons(cur[w], freeList)) = ToSet(freeList) \cup {cur[w]}
    <3>1. freeList \in Seq(Blocks) /\ cur[w] \in Blocks
      BY <2>1 DEF Fresh
    <3>2. \A e \in Blocks : ToSet(Cons(e, freeList)) = ToSet(freeList) \cup {e}
      BY ONLY <3>1, ConsList
    <3>3. QED
      BY <3>1, <3>2
  <2>3. QED
    BY <1>1, <1>2, <1>10, <2>1, <2>2 DEF Reclaim
<1>11. CASE Pick(w)
  <2>1. ASSUME NEW k \in DOMAIN freeList, freeList' = Unlink(freeList, k)
        PROVE  ToSet(freeList') \subseteq Fresh
    <3>1. k \in 1..Len(freeList)
      BY LenProperties
    <3>2. ToSet(freeList') \subseteq ToSet(freeList)
      BY <2>1, <3>1, UnlinkList DEF ListInv, ListsPartition
    <3>3. QED
      BY <1>2, <3>2
  <2>2. \A k \in DOMAIN freeList : freeList[k] \in Fresh
    BY <1>2 DEF ToSet
  <2>3. UNCHANGED curW
    BY <1>11 DEF Pick
  <2>4. CASE Fits(w) = {}
    BY <1>1, <1>2, <1>11, <2>4 DEF Pick
  <2>5. CASE Fits(w) # {}
    <3>1. PICK k \in DOMAIN freeList : blk' = [blk EXCEPT ![w] = freeList[k]]
                                      /\ freeList' = Unlink(freeList, k) /\ pc'[w] = "link"
      BY <1>1, <1>11, <2>5 DEF Pick, Fits
    <3>2. blk'[w] = freeList[k]
      BY <1>1, <3>1
    <3>3. QED
      BY <1>2, <2>1, <2>2, <2>3, <3>1, <3>2
  <2>6. QED
    BY <2>4, <2>5
<1>12. ~(Clean(w) \/ WalkStep(w))
  BY <1>1 DEF Clean, WalkStep, Visit, Visited, VisitSet, Walking
<1>13. QED
  BY <1>3, <1>4, <1>5, <1>6, <1>7, <1>8, <1>9, <1>10, <1>11, <1>12
  DEF WriterMoves, WriterStep, PubStep, Publishes

\* cur_w_dbk is a block that was never published.
LEMMA CurrentNew ==
  ASSUME Whole, curW # NoBlk
  PROVE  curW \in ToSet(dbkList) /\ Untold(curW)
<1>1. curW \in Unknown
  BY DEF Unknown
<1>2. QED
  BY <1>1, StillToRead DEF Whole, Known, ListInv, WrittenBlockUsed, Untold

\* What is being published stays on the used list while a writer moves.
LEMMA WriterPublished ==
  ASSUME Whole, NEW w \in Writers, WriterMoves(w), ~Publishes(w), \A u \in Threads \ {w} : Same(u),
         NEW t \in Threads \ Procs, pc'[t] \in Publishing
  PROVE  blk'[t] \in ToSet(dbkList') /\ Untold(blk'[t])
<1> USE DEF Whole, Known, Base, TypeOK, PcType, LocalType, Goto, Publishing
<1>1. CASE t = w
  <2>1. pc[w] \in {"cas", "pub", "copy", "send"}
    BY <1>1 DEF WriterMoves, WriterStep, Begin, Lock, ReadCur, Reread, Count, Alloc, Collect, Reclaim,
      Pick, Link, SetCur, SetWrite, Area, Mark, Body, Stamp, Fail, Scan, StartWalk, Clean, PubStep, Cas, Pub,
      Copy, Send, WalkStep, Visit, Visited, VisitSet, Walked
  <2>2. Cas(w)
    BY <2>1 DEF WriterMoves, WriterStep, Begin, Lock, ReadCur, Reread, Count, Alloc, Collect, Reclaim,
      Pick, Link, SetCur, SetWrite, Area, Mark, Body, Stamp, Fail, Scan, StartWalk, Clean, PubStep,
      WalkStep, Visit, Visited, VisitSet, Publishes, Pub, Copy, Send
  <2>3. /\ curW = blk[w] /\ blk' = blk /\ dbkList' = dbkList
        /\ blk[w] \in Blocks
    BY <1>1, <2>2 DEF Cas, Resume, localVars, InHand, HandOf, Working
  <2>4. QED
    BY <1>1, <2>3, CurrentNew, QueueAssumption
<1>2. CASE t # w
  <2>1. pc'[t] = pc[t] /\ blk'[t] = blk[t]
    BY <1>2 DEF Same
  <2>2. dbkList' = dbkList
    <3>1. CASE Collect(w) \/ Link(w)
      <4>1. Holds(w) /\ pc[w] # "idle"
        BY <3>1 DEF Collect, Link, Holds, Holding
      <4>2. t \notin Writers
        BY <1>2, <2>1, <4>1, HolderOnly DEF Holds
      <4>3. t \in {Timeout, Exiter}
        BY <4>2, WhoElse
      <4>4. QED
        BY <1>2, <2>1, <4>1, <4>3, NoHolder
    <3>2. CASE ~(Collect(w) \/ Link(w))
      <4>1. CASE Reclaim(w) \/ Pick(w) \/ SetCur(w) \/ Cas(w)
        BY <4>1 DEF Reclaim, Pick, SetCur, Cas
      <4>2. CASE ~(Reclaim(w) \/ Pick(w) \/ SetCur(w) \/ Cas(w))
        BY <3>2, <4>2, QuietStep DEF listVars
      <4>3. QED
        BY <4>1, <4>2
    <3>3. QED
      BY <3>1, <3>2
  <2>3. QED
    BY <2>1, <2>2 DEF DeliveryInv, Published
<1>3. QED
  BY <1>1, <1>2

\* A step of a writer.
LEMMA WriterDelivery ==
  ASSUME Whole, Calm', NEW w \in Writers, WriterMoves(w), \A u \in Threads \ {w} : Same(u)
  PROVE  DeliveryInv'
<1>1. CASE Publishes(w)
  BY <1>1, PubDelivery, CopyDelivery, SendDelivery, WhoElse DEF Publishes
<1>2. CASE ~Publishes(w)
  <2>1. /\ ReadersAlone /\ UNCHANGED <<inbox, slots>>
        /\ pc'[w] \notin Walking \cup {"copy", "send"} /\ pc[w] \notin {"copy", "send"}
        /\ \A c \in Blocks : readCount'[c] = readCount[c] /\ (state'[c] = "READED" => state[c] = "READED")
    BY <1>2, WriterQuiet
  <2>2. \A v \in Writers : pc'[v] \notin Walking
    BY <2>1 DEF Same, Threads, Whole, DeliveryInv, Table
  <2>3. \A t \in Threads \ Procs :
          pc'[t] \in {"copy", "send"} \/ pc[t] \in {"copy", "send"} => pc'[t] = pc[t] /\ blk'[t] = blk[t]
    BY <2>1 DEF Same
  <2>4. \A p \in Subscribers : \A b \in ToRead(p) : Untouched(b)
    <3> SUFFICES ASSUME NEW p \in Subscribers, NEW b \in ToRead(p)
                 PROVE  Untouched(b)
      OBVIOUS
    <3>1. b \in Blocks /\ b \notin Unknown
      BY StillToRead
    <3>2. pc[w] \in Filling => b # blk[w]
      BY <3>1 DEF Unknown, Busy
    <3>3. pc[w] = "reclaim" => b # cur[w]
      BY <3>1 DEF Unknown, InTransit
    <3>4. QED
      BY <3>1, <3>2, <3>3, WriterTouches DEF Whole, Known, Base
  <2>5. \A c \in Unknown' : c \in Blocks /\ readCount[c] = 0
    <3>1. ToSet(freeList') \cup ({curW'} \ {NoBlk}) \cup Part(w)' \subseteq Fresh
      BY <1>2, WriterFresh
    <3>2. \A v \in Writers \ {w} : Part(v)' = Part(v)
      BY DEF Part, Moved, Same, Threads, Walkers
    <3>3. \A t \in {Timeout, Exiter} : pc'[t] = pc[t] /\ blk'[t] = blk[t]
      BY WhoElse DEF Same
    <3>4. UnknownSplit'
      BY UnknownParts, PTL
    <3>5. \A v \in Writers : Part(v)' \subseteq Fresh
      BY <3>1, <3>2, UnknownFresh, UnknownParts
    <3>6. \A t \in {Timeout, Exiter} : pc'[t] = "pub" => blk'[t] \in Fresh
      BY <3>3, UnknownFresh, UnknownParts
    <3>7. Unknown' \subseteq Fresh
      BY <3>1, <3>4, <3>5, <3>6 DEF UnknownSplit
    <3>8. QED
      BY <3>7 DEF Fresh
  <2>6. QED
    BY <1>2, <2>1, <2>2, <2>3, <2>4, <2>5, WriterPublished, QuietDelivery
<1>3. QED
  BY <1>1, <1>2
\* A step of the timeout thread or of the shutdown that publishes nothing.
Leaves ==
  \/ \E t \in {Timeout, Exiter} : Cas(t)
  \/ TimeoutStep \/ Destroy \/ ExitRead
  \/ \E b \in Blocks : Age(b)

LEMMA LeaveDelivery ==
  ASSUME Whole, Leaves
  PROVE  DeliveryInv'
<1> USE DEF Whole, Known, Base, TypeOK, PcType, LocalType, Goto, queueVars, listVars, localVars, readerVars,
        blockVars, envVars
<1>1. /\ Timeout \in Threads /\ Exiter \in Threads /\ Timeout # Exiter
      /\ \A v \in Writers : v # Timeout /\ v # Exiter /\ v \in Threads
      /\ \A p \in Procs : p # Timeout /\ p # Exiter /\ p \in Threads
  BY WhoElse DEF Threads
<1>2. /\ UNCHANGED <<inbox, slots, readCount, state, mem, rcdNum, pos, freeList, dbkList, cur, idx>>
      /\ UNCHANGED <<refCount, infoMark, connected, readers, rpos, rlen, rnum, restarts>>
      /\ curW' \in {curW, NoBlk}
  BY DEF Leaves, Cas, TimeoutStep, Wake, TimeoutCheck, Destroy, ExitRead, Age
<1>3. \A u \in Threads \ {Timeout, Exiter} : pc'[u] = pc[u] /\ blk'[u] = blk[u]
  BY <1>1 DEF Leaves, Cas, TimeoutStep, Wake, TimeoutCheck, Destroy, ExitRead, Age
<1>4. \A v \in Writers : pc'[v] = pc[v] /\ blk'[v] = blk[v]
  BY <1>1, <1>3
<1>5. ReadersAlone
  BY <1>1, <1>2, <1>3 DEF ReadersAlone
<1>6. \A t \in {Timeout, Exiter} :
        \/ pc'[t] = pc[t] /\ blk'[t] = blk[t]
        \/ pc'[t] \notin Publishing /\ pc[t] \notin Publishing
        \/ Cas(t) /\ pc'[t] = "pub" /\ blk'[t] = curW /\ curW \in Blocks
  <2>1. ASSUME NEW t \in {Timeout, Exiter}, Cas(t)
        PROVE  /\ \A u \in Threads \ {t} : pc'[u] = pc[u] /\ blk'[u] = blk[u]
               /\ \/ pc'[t] \notin Publishing /\ pc[t] \notin Publishing
                  \/ pc'[t] = "pub" /\ blk'[t] = curW /\ curW \in Blocks
    <3>1. blk[t] \in Blocks
      BY <1>1, <2>1 DEF Cas, InHand, HandOf, Working
    <3>2. QED
      BY <1>1, <2>1, <3>1 DEF Cas, Resume, Publishing
  <2>2. CASE TimeoutStep \/ Destroy \/ ExitRead
    BY <1>1, <2>2 DEF TimeoutStep, Wake, TimeoutCheck, Destroy, ExitRead, Publishing
  <2>3. CASE \E b \in Blocks : Age(b)
    BY <2>3 DEF Age
  <2>4. QED
    BY <1>1, <2>1, <2>2, <2>3 DEF Leaves
<1>7. \A t \in Threads \ Procs :
        pc'[t] \in {"copy", "send"} \/ pc[t] \in {"copy", "send"} => pc'[t] = pc[t] /\ blk'[t] = blk[t]
  BY <1>4, <1>6, WhoElse DEF Publishing, Cas
<1>8. Unknown' \subseteq Unknown
  <2>1. InTransit' = InTransit /\ Busy' = Busy
    BY <1>2, <1>4 DEF InTransit, Busy
  <2>2. ASSUME NEW t \in Threads \ Procs, pc'[t] = "pub"
        PROVE  blk'[t] \in Unknown
    <3>1. CASE pc'[t] = pc[t] /\ blk'[t] = blk[t]
      BY <2>2, <3>1 DEF Unknown
    <3>2. CASE blk'[t] = curW /\ curW \in Blocks
      BY <3>2, QueueAssumption DEF Unknown
    <3>3. QED
      BY <1>4, <1>6, <2>2, <3>1, <3>2, WhoElse DEF Publishing
  <2>3. QED
    BY <1>2, <2>1, <2>2 DEF Unknown
<1>9. ASSUME NEW t \in Threads \ Procs, pc'[t] \in Publishing
      PROVE  blk'[t] \in ToSet(dbkList') /\ Untold(blk'[t])
  <2>1. CASE pc'[t] = pc[t] /\ blk'[t] = blk[t]
    BY <1>2, <1>9, <2>1 DEF DeliveryInv, Published
  <2>2. CASE blk'[t] = curW /\ curW \in Blocks
    BY <1>2, <2>2, CurrentNew, QueueAssumption
  <2>3. QED
    BY <1>4, <1>6, <1>9, <2>1, <2>2, WhoElse
<1>10. \A v \in Writers : pc'[v] \notin Walking
  BY <1>4 DEF DeliveryInv, Table
<1>11. \A c \in Unknown' : c \in Blocks /\ readCount[c] = 0
  BY <1>8, UnknownFresh DEF Fresh
<1>12. QED
  BY <1>2, <1>5, <1>7, <1>9, <1>10, <1>11, QuietDelivery DEF Untouched

\* The steps of all that are no writers.
LEMMA OthersDelivery ==
  ASSUME Whole, Calm', OtherMoves
  PROVE  DeliveryInv'
<1>1. ASSUME NEW t \in {Timeout, Exiter}, PubStep(t)
      PROVE  DeliveryInv'
  BY <1>1, LeaveDelivery, PubDelivery, CopyDelivery, SendDelivery, WhoElse DEF PubStep, Leaves
<1>2. ASSUME NEW p \in Procs, WalkStep(p) \/ ReaderStep(p) \/ ReaderCrash(p)
      PROVE  DeliveryInv'
  BY <1>2, ReaderDelivery
<1>3. CASE TimeoutStep \/ Destroy \/ ExitRead \/ \E b \in Blocks : Age(b)
  BY <1>3, LeaveDelivery DEF Leaves
<1>4. QED
  BY <1>1, <1>2, <1>3 DEF OtherMoves

-----------------------------------------------------------------------------
(* Who has the current block.                                              *)

\* A step of a writer: it publishes the block it gives up, and all it holds.
LEMMA OwnCurrent ==
  ASSUME Known, NEW w \in Writers, WriterMoves(w), \A u \in Threads \ {w} : Same(u)
  PROVE  CurrentInv'
<1> DEFINE Quiet == UNCHANGED <<curW, sent, nextRcd>> /\ pc[w] \notin Filling \cup Publishing
<1> USE DEF Known, Base, TypeOK, PcType, LocalType, EnvType, Goto, queueVars, listVars, localVars, envVars
<1>1. w \in Threads /\ {Timeout, Exiter} \subseteq Threads \ {w} /\ Kept(w)
  BY QueueAssumption DEF Threads, CurrentInv
<1> DEFINE Outcome == /\ Kept(w)' /\ (curW' # curW => Holds(w))
                      /\ Quiet \/ pc'[w] \in Filling \cup Publishing \/ curW' # NoBlk
                         \/ sent' = nextRcd' - 1
<1> USE DEF Kept, Filling, Publishing, Holds, Holding
<1>2. Outcome
  <2>1. CASE Begin(w) \/ Lock(w) \/ ReadCur(w) \/ Reread(w) \/ Alloc(w)
    BY <1>1, <2>1 DEF Begin, Lock, ReadCur, Reread, Alloc
  <2>2. CASE Collect(w) \/ Reclaim(w) \/ Pick(w) \/ Link(w)
    BY <1>1, <2>2 DEF Collect, Reclaim, Pick, Link
  <2>3. CASE Count(w) \/ SetWrite(w) \/ Area(w) \/ Mark(w) \/ Body(w) \/ Stamp(w)
    BY <1>1, <2>3 DEF Count, SetWrite, Area, Mark, Body, Stamp
  <2>4. CASE SetCur(w)
    <3>1. blk[w] \in Blocks /\ blk[w] # NoBlk
      BY <1>1, <2>4, QueueAssumption DEF SetCur, InHand, HandOf, Working
    <3>2. QED
      BY <1>1, <2>4, <3>1 DEF SetCur
  <2>5. CASE Fail(w) \/ Scan(w) \/ Clean(w) \/ WalkStep(w)
    BY <1>1, <2>5 DEF Fail, Scan, Clean, StartWalk, WalkStep, Visit, Visited, VisitSet, Walked
  <2>6. CASE PubStep(w)
    BY <1>1, <2>6 DEF PubStep, Cas, Pub, Copy, Send, Resume
  <2>7. QED
    BY <2>1, <2>2, <2>3, <2>5, <2>6, <2>4 DEF WriterMoves, WriterStep
<1> HIDE DEF Outcome
<1>3. AllSent'
  <2>1. CASE sent' = nextRcd' - 1 \/ curW' # NoBlk \/ pc'[w] \in Filling \cup Publishing
    BY <2>1, WhoElse DEF AllSent
  <2>2. CASE Quiet
    BY <2>2 DEF AllSent, CurrentInv, Same, Threads
  <2>3. QED
    BY <1>2, <2>1, <2>2 DEF Outcome
<1>4. ASSUME NEW v \in Writers \ {w}
       PROVE  Kept(v)'
  <2>1. Same(v) /\ Kept(v)
    BY DEF Threads, CurrentInv
  <2>2. CASE Holds(v)
    <3>1. curW' = curW
      BY <1>2, <2>2, HolderOnly DEF Outcome
    <3>2. QED
      BY <2>1, <3>1 DEF Same
  <2>3. CASE ~Holds(v)
    BY <2>1, <2>3 DEF Same
  <2>4. QED
    BY <2>2, <2>3
<1>5. Closed'
  <2>1. pc'[Timeout] = pc[Timeout]
    BY <1>1 DEF Same
  <2>2. pc[Timeout] \in Publishing => ~Holds(w)
    BY NoHolder
  <2>3. QED
    BY <1>2, <2>1, <2>2 DEF Outcome, Closed, CurrentInv
<1>6. QED
  BY <1>2, <1>3, <1>4, <1>5 DEF CurrentInv, Outcome

\* A step of the other threads: the timeout thread and the shutdown take the block from nobody.
LEMMA OthersCurrent ==
  ASSUME Known, Calm', OtherMoves, \A v \in Writers : Same(v)
  PROVE  CurrentInv'
<1> USE DEF Known, Base, TypeOK, PcType, LocalType, EnvType, Goto, queueVars, listVars, localVars, envVars
<1>1. /\ Timeout \in Threads \ Procs /\ Exiter \in Threads \ Procs /\ Timeout # Exiter
      /\ Timeout \notin Writers /\ Exiter \notin Writers
      /\ \A p \in Procs : p \in Threads
  BY QueueAssumption DEF Threads
<1>2. ASSUME UNCHANGED <<curW, sent, nextRcd>>,
             \A t \in {Timeout, Exiter} : pc'[t] \in Publishing <=> pc[t] \in Publishing
      PROVE  CurrentInv'
  <2>1. \A w \in Writers : Kept(w)'
    BY <1>2 DEF CurrentInv, Kept, Same
  <2>2. AllSent'
    <3>1. \A t \in Threads \ Procs : pc'[t] \in Publishing <=> pc[t] \in Publishing
      BY <1>2, WhoElse DEF Same
    <3>2. \A w \in Writers : pc'[w] = pc[w]
      BY DEF Same
    <3>3. QED
      BY <1>2, <3>1, <3>2 DEF CurrentInv, AllSent
  <2>3. Closed'
    BY <1>2 DEF CurrentInv, Closed
  <2>4. QED
    BY <2>1, <2>2, <2>3 DEF CurrentInv
<1>3. ASSUME NEW p \in Procs, WalkStep(p) \/ ReaderStep(p) \/ ReaderCrash(p)
      PROVE  CurrentInv'
  <2>1. UNCHANGED <<curW, sent, nextRcd>>
    BY <1>3 DEF WalkStep, Visit, Visited, VisitSet, ReaderStep, Register, Connect, AddLock, Add, Recv,
      Read, Finish, Dec, Recheck, SetRead, ReaderCrash
  <2>2. Same(Exiter) /\ Same(Timeout)
    BY <1>1, <1>3, WalkLocal, ReaderLocal DEF Walkers
  <2>3. QED
    BY <1>2, <2>1, <2>2 DEF Same
<1>4. ASSUME NEW b \in Blocks, Age(b)
      PROVE  CurrentInv'
  BY <1>2, <1>4 DEF Age
<1>5. CASE TimeoutStep \/ Destroy \/ ExitRead
  <2>1. UNCHANGED <<curW, sent, nextRcd>>
    BY <1>5 DEF TimeoutStep, Wake, TimeoutCheck, Destroy, ExitRead
  <2>2. \A t \in {Timeout, Exiter} : pc'[t] \in Publishing <=> pc[t] \in Publishing
    BY <1>1, <1>5 DEF TimeoutStep, Wake, TimeoutCheck, Destroy, ExitRead, Publishing
  <2>3. QED
    BY <1>2, <2>1, <2>2
<1>6. ASSUME NEW t \in {Timeout, Exiter}, PubStep(t)
      PROVE  CurrentInv'
  <2>1. t \in Threads \ Procs /\ t \notin Writers
    BY <1>1
  <2>2. \A u \in Threads \ {t} : pc'[u] = pc[u]
    BY <1>6, <2>1, PubLocal DEF Same
  <2>3. CASE Cas(t) /\ curW # blk[t]
    <3>1. UNCHANGED <<curW, sent, nextRcd>> /\ pc[t] \notin Publishing /\ pc'[t] \notin Publishing
      BY <2>1, <2>3 DEF Cas, Resume, Publishing
    <3>2. QED
      BY <1>1, <1>2, <2>2, <3>1
  <2>4. CASE Cas(t) /\ curW = blk[t]
    <3>1. pc'[t] = "pub" /\ curW' = NoBlk
      BY <1>1, <2>1, <2>4 DEF Cas
    <3>2. \A w \in Writers : ~Holds(w)'
      <4>1. CASE t = Timeout
        BY <3>1, <4>1 DEF Calm, Overlap, Publishing
      <4>2. CASE t = Exiter
        <5>1. \A w \in Writers : pc[w] = "idle"
          BY <2>4, <4>2 DEF Cas, Leaving
        <5>2. QED
          BY <5>1 DEF Holds, Holding, Same
      <4>3. QED
        BY <4>1, <4>2
    <3>3. \A w \in Writers : Kept(w)'
      BY <3>2 DEF Kept, Holds, Holding, Filling
    <3>4. AllSent' /\ Closed'
      BY <2>1, <3>1 DEF AllSent, Closed, Publishing
    <3>5. QED
      BY <3>3, <3>4 DEF CurrentInv
  <2>5. CASE Pub(t) \/ Copy(t)
    <3>1. UNCHANGED <<curW, sent, nextRcd>> /\ pc[t] \in Publishing /\ pc'[t] \in Publishing
      BY <2>1, <2>5 DEF Pub, Copy, Publishing
    <3>2. QED
      BY <1>1, <1>2, <2>2, <3>1
  <2>6. CASE Send(t)
    <3>1. UNCHANGED <<curW, nextRcd>> /\ sent' = nextRcd - 1
      BY <2>6 DEF Send
    <3>2. \A w \in Writers : Kept(w)'
      BY <3>1 DEF CurrentInv, Kept, Same
    <3>3. pc'[Timeout] \in Publishing => pc[Timeout] \in Publishing
      BY <1>1, <2>1, <2>2, <2>6 DEF Send, Publishing
    <3>4. AllSent' /\ Closed'
      BY <3>1, <3>3 DEF AllSent, Closed, CurrentInv
    <3>5. QED
      BY <3>2, <3>4 DEF CurrentInv
  <2>7. QED
    BY <1>6, <2>3, <2>4, <2>5, <2>6 DEF PubStep
<1>7. QED
  BY <1>3, <1>4, <1>5, <1>6 DEF OtherMoves

-----------------------------------------------------------------------------
(* The invariant is one.                                                   *)

\* At the start nothing was written, and nobody but the subscribers is registered.
LEMMA DeliveryInit ==
  ASSUME Init, Base
  PROVE  DeliveryInv
<1>1. ASSUME NEW p \in Procs
      PROVE  /\ p \in Threads /\ inbox[p] = <<>> /\ ToRead(p) = {}
             /\ pc[p] = IF p \in Subscribers THEN "poll" ELSE "off"
  <2>1. p \in Threads /\ p \notin Writers \cup {Timeout, Exiter}
    BY WhoElse
  <2>2. pc[p] = (IF p \in Subscribers THEN "poll" ELSE "off") /\ inbox[p] = <<>>
    BY <2>1 DEF Init, Subscribers
  <2>3. ToSet(inbox[p]) = {}
    BY <2>2 DEF ToSet
  <2>4. QED
    BY <2>1, <2>2, <2>3 DEF ToRead
<1>2. \A t \in Threads \ Procs : pc[t] \in {"idle", "tsleep", "xoff"}
  BY WhoElse DEF Init
<1>3. Table
  <2>1. connected = Subscribers /\ refCount = Len(Joined)
    BY DEF Init, Subscribers
  <2>2. \A i \in Slots : readers[i] = IF i \in 1..Len(Joined) THEN Joined[i] ELSE NoProc
    <3>1. \A i \in Slots : i <= Len(Joined) <=> i \in 1..Len(Joined)
      BY Readers, QueueAssumption DEF Slots
    <3>2. QED
      BY <3>1 DEF Init
  <2>3. ASSUME NEW p \in Procs, NEW q \in Procs, p # q, NameOf[p] = NameOf[q]
        PROVE  pc[p] = "off" \/ pc[q] = "off"
    <3>1. SUFFICES ASSUME p \in Subscribers, q \in Subscribers
                   PROVE  FALSE
      BY <1>1
    <3>2. PICK i \in 1..Len(Joined), j \in 1..Len(Joined) : Joined[i] = p /\ Joined[j] = q
      BY <3>1, Readers
    <3>3. i \in DOMAIN Joined /\ j \in DOMAIN Joined
      BY QueueAssumption, LenProperties
    <3>4. QED
      BY <2>3, <3>2, <3>3, QueueAssumption
  <2>4. \A i \in 1..Len(Joined) : i <= refCount /\ readers[i] = Joined[i] /\ i \in Slots
    BY <2>1, <2>2, Readers
  <2>5. \A i \in Slots : readers[i] # NoProc => pc[readers[i]] = "poll"
    BY <1>1, <2>2, Readers
  <2>6. \A p \in Subscribers : pc[p] = "poll" /\ p \in connected
    BY <1>1, <2>1, WhoElse
  <2>7. \A p \in Procs : pc[p] \in {"poll", "off"}
    BY <1>1
  <2>8. \A w \in Writers : pc[w] \notin Walking
    BY <1>2, WhoElse DEF Walking
  <2>9. QED
    BY <2>3, <2>4, <2>5, <2>6, <2>7, <2>8 DEF Table, Serving, Joining
<1>4. \A b : ~Sending(b) /\ ~Copying(b) /\ Off(b) = {}
  BY <1>1, <1>2 DEF Sending, Copying, Off
<1>5. \A b \in Blocks : Ticked(b) = {} /\ readCount[b] = 0 /\ state[b] = "FREE"
  BY DEF Init, Ticked
<1>6. SlotsExact
  <2>1. \A i \in 1..Len(Joined) : Joined[i] \in Procs /\ i \in Slots
    BY Readers
  <2>2. \A b \in Blocks, i \in Slots : slots[b][i] = NoProc
    BY DEF Init
  <2>3. \A b \in Blocks, i \in 1..Len(Joined) : ~Owed(b, i)
    BY <1>1, <1>4, <2>1 DEF Owed
  <2>4. QED
    BY <2>1, <2>2, <2>3 DEF SlotsExact
<1>7. CountExact
  <2>1. Cardinality({}) = 0
    BY FS_EmptySet
  <2>2. \A b \in Blocks : Cardinality(Ticked(b)) = 0 /\ Cardinality(Off(b)) = 0
    BY <1>4, <1>5, <2>1
  <2>3. QED
    BY <1>4, <1>5, <2>2 DEF CountExact
<1>8. NobodyReads
  <2>1. ToSet(freeList) \subseteq Blocks /\ curW = NoBlk
    BY ElementOfSeq, LenProperties DEF Base, TypeOK, ListType, ToSet, Init
  <2>2. InTransit = {} /\ Busy = {} /\ {blk[t] : t \in {u \in Threads \ Procs : pc[u] = "pub"}} = {}
    BY <1>2, WhoElse DEF InTransit, Busy, Filling
  <2>3. QED
    BY <1>5, <2>1, <2>2 DEF NobodyReads, Unknown
<1>9. Published
  BY <1>2 DEF Published, Publishing
<1>10. \A p \in Procs : Told(p) /\ Reading(p) /\ InBlock(p)
  BY <1>1 DEF Told, Reading, IsInjective, InBlock, Serving
<1>11. QED
  BY <1>3, <1>6, <1>7, <1>8, <1>9, <1>10, WhoElse DEF DeliveryInv

\* ... and the queue is calm.
LEMMA CalmInit ==
  ASSUME Init
  PROVE  Calm /\ Leaving /\ CurrentInv
<1>1. \A w \in Writers : pc[w] = "idle"
  BY DEF Init, Threads
<1>2. pc[Timeout] = "tsleep" /\ pc[Exiter] = "xoff"
  BY QueueAssumption DEF Init, Threads
<1>3. \A p \in Procs : pc[p] \in {"poll", "off"}
  BY WhoElse DEF Init
<1>4. sent = 0 /\ nextRcd = 1 /\ restarts = 0
  BY DEF Init
<1>5. Calm
  BY <1>1, <1>2, <1>3, <1>4, WhoElse DEF Calm, Gone, Overlap, LateMark, LateJoin, Publishing
<1>6. Leaving /\ CurrentInv
  BY <1>1, <1>2, <1>4 DEF Leaving, CurrentInv, Kept, Closed, AllSent, Filling, Publishing
<1>7. QED
  BY <1>5, <1>6

\* What else holds in every behaviour.
Around == Base /\ ListInv /\ NoOverrun /\ RecordInv /\ TableInv /\ Leaving
LEMMA AroundInvariant == Spec => []Around
<1>1. Init => TableInv /\ Leaving
  BY TableInit, CalmInit
<1>2. TableInv /\ Leaving /\ Base /\ [Next]_vars => (TableInv /\ Leaving)'
  <2> SUFFICES ASSUME TableInv, Leaving, Base, [Next]_vars
               PROVE  (TableInv /\ Leaving)'
    OBVIOUS
  <2>1. CASE Next
    BY <2>1, TableStep, LeavingKept DEF Base
  <2>2. CASE UNCHANGED vars
    <3>1. UNCHANGED <<infoMark, readers, refCount, pc, idx, curW, blk>>
      BY <2>2 DEF vars, queueVars, localVars
    <3>2. QED
      BY <3>1 DEF TableInv, Free, Filing, Orphaned, Compact, Gone, Leaving
  <2>3. QED
    BY <2>1, <2>2
<1>3. QED
  BY <1>1, <1>2, RecordInvariant, PTL DEF Spec, Around

\* Whole is inductive along the calm steps, together with what holds in every behaviour.
LEMMA WholeStep ==
  ASSUME Whole, [CalmNext]_vars, Around'
  PROVE  Whole'
<1> USE DEF Whole
<1>1. CASE CalmNext
  <2> USE DEF Known
  <2>1. Next /\ Calm' /\ ~Restart
    <3>1. Next /\ Calm'
      BY <1>1 DEF CalmNext
    <3>2. restarts = 0 /\ restarts' = 0
      BY <3>1 DEF Calm
    <3>3. QED
      BY <3>1, <3>2 DEF Restart
  <2>2. CASE \E w \in Writers : WriterMoves(w) /\ \A u \in Threads \ {w} : Same(u)
    BY <2>1, <2>2, WriterDelivery, OwnCurrent DEF Around
  <2>3. CASE OtherMoves /\ \A v \in Writers : Same(v)
    BY <2>1, <2>3, OthersDelivery, OthersCurrent DEF Around
  <2>4. QED
    BY <2>1, <2>2, <2>3, WhoMoves DEF Base
<1>2. CASE UNCHANGED vars
  <2>1. UNCHANGED <<curW, dbkList, freeList, refCount, infoMark, readers, connected, readCount, slots, state>>
        /\ UNCHANGED <<pc, blk, cur, idx, inbox, rpos, rlen, rnum, mem, pos, sent, nextRcd, restarts>>
    BY <1>2 DEF vars, queueVars, listVars, blockVars, localVars, readerVars, envVars
  <2>2. CurrentInv' /\ Calm'
    BY <2>1 DEF Known, CurrentInv, Kept, Closed, AllSent, Calm, Gone, Overlap, Holds, LateMark, LateJoin
  <2>3. /\ \A b : /\ Sending(b)' = Sending(b) /\ Copying(b)' = Copying(b) /\ Off(b)' = Off(b)
                  /\ Ticked(b)' = Ticked(b) /\ Untold(b)' = Untold(b)
        /\ \A p \in Procs : InBlock(p)' = InBlock(p)
        /\ \A p : ToRead(p)' = ToRead(p) /\ Told(p)' = Told(p) /\ Reading(p)' = Reading(p)
        /\ Unknown' = Unknown
    BY <2>1 DEF Sending, Copying, Off, Ticked, Untold, InBlock, ToRead, Told, Reading, Unknown, InTransit,
      Busy
  <2>4. SlotsExact'
    BY <2>1, <2>3 DEF SlotsExact, Owed, DeliveryInv, ToRead
  <2>5. CountExact'
    BY <2>1, <2>3 DEF CountExact, Unread, DeliveryInv
  <2>6. Table' /\ NobodyReads' /\ Published'
    BY <2>1, <2>3 DEF Table, NobodyReads, Published, DeliveryInv
  <2>7. QED
    BY <2>2, <2>3, <2>4, <2>5, <2>6 DEF DeliveryInv, Around, Known
<1>3. QED
  BY <1>1, <1>2

LEMMA WholeInvariant == CalmSpec => []Whole /\ Spec
<1>1. Init /\ Around => Whole
  BY DeliveryInit, CalmInit DEF Whole, Known, Around
<1>2. Whole /\ [CalmNext]_vars /\ Around' => Whole'
  BY WholeStep
<1>3. [CalmNext]_vars => [Next]_vars
  BY DEF CalmNext
<1>4. CalmSpec => Init /\ [][CalmNext]_vars
  BY DEF CalmSpec
<1>5. CalmSpec => Spec
  BY <1>3, <1>4, PTL DEF Spec
<1>6. QED
  BY <1>1, <1>2, <1>4, <1>5, AroundInvariant, PTL

\* read_count and reader_pid[] (lines 165-166, 1381-1426, 1999-2054): for any number of writers,
\* readers and blocks, a block some subscriber still has to read is on the used list, is nobody's to
\* write or to collect, and names that reader, until that reader is through with it -- in every
\* calm behaviour, whoever publishes and whoever else joins.
THEOREM UnreadStays == CalmSpec => []UnreadProtected
<1>1. Whole => UnreadProtected
  BY DeliveryImplies
<1>2. QED
  BY <1>1, WholeInvariant, PTL

\* read_count (line 165) counts the readers whose pid is in a slot of the block and those that
\* are just counting themselves off, however publication and reading are interleaved -- in every
\* calm behaviour.
THEOREM ReadCountStays == CalmSpec => []ReadCountExact
<1>1. Whole => ReadCountExact
  BY DeliveryImplies
<1>2. QED
  BY <1>1, WholeInvariant, PTL

----------------------------------------------------------------------------
(***************************************************************************)
(* ShmQueue implements RecordStream: every step of the queue is a step of  *)
(* the stream or leaves it alone, for every number of writers, readers,    *)
(* blocks and records, in every calm behaviour, for the readers that       *)
(* joined first.                                                           *)
(***************************************************************************)

\* The records up to address e of a block are numbered one after the other.
NumberedIn(m, e) ==
  \A c \in StartsIn(m, e) : m[c].id = m[0].id + Cardinality(StartsIn(m, c))

\* The first number of a block, and the one after its last.
FirstOf(b) == mem[b][0].id
NextOf(b)  == mem[b][0].id + rcdNum[b]

\* Block b has all n records that were written and not yet broadcast.
Pending(b, n) == sent + n = nextRcd - 1 /\ (n > 0 => FirstOf(b) = sent + 1)

\* How far a writer is with the numbers.
Numbering(w) ==
  LET b == blk[w]  m == mem[blk[w]] IN
  /\ pc[w] \in {"link", "setcur", "setwrite"} => sent = nextRcd - 1
  /\ pc[w] \in {"count", "stamp"} => Pending(b, rcdNum[b]) /\ NumberedIn(m, pos[b])
  /\ pc[w] \in {"area", "mark", "body"} => Pending(b, rcdNum[b] - 1)
  /\ pc[w] = "area" => NumberedIn(m, pos[b])
  /\ pc[w] \in {"mark", "body"} => NumberedIn(m, addr[w])
  /\ pc[w] = "body" => m[addr[w]].id = 0

\* The numbers of the blocks nobody writes to: used, current, about to be broadcast.
NumbersDone ==
  /\ \A b \in ToSet(dbkList) \ Busy : NumberedIn(mem[b], pos[b])
  /\ curW # NoBlk /\ curW \notin Busy => Pending(curW, rcdNum[curW])
  /\ \A t \in Threads \ Procs : pc[t] \in Publishing => Pending(blk[t], rcdNum[blk[t]])

\* The blocks in the inbox of a reader go on where the one before ends, the first one where the
\* reader will be, and the last one ends with what was broadcast last.
Edge(p, i) ==
  IF i = 0 THEN IF pc[p] = "read" THEN NextOf(blk[p]) ELSE Len(seen[p]) + 1
  ELSE NextOf(inbox[p][i])
Consecutive(p) ==
  /\ \A i \in 1..Len(inbox[p]) : FirstOf(inbox[p][i]) = Edge(p, i - 1)
  /\ sent + 1 = Edge(p, Len(inbox[p]))
  /\ \A b \in ToRead(p) : NextOf(b) <= sent + 1
  /\ pc[p] = "read" => FirstOf(blk[p]) + rnum[p] = Len(seen[p]) + 1
  /\ pc[p] = "finish" => NextOf(blk[p]) = Len(seen[p]) + 1

\* What a reader was not yet handed is stored in a block that is kept for it.
KeptFor(p) ==
  ToRead(p) \cup ({curW} \ {NoBlk}) \cup Busy
  \cup {blk[t] : t \in {u \in Threads \ Procs : pc[u] \in Publishing}}
Stored(b, n) ==
  \E c \in StartsIn(mem[b], pos[b]) :
    /\ mem[b][c].id = n
    /\ \A w \in Writers : pc[w] \in {"mark", "body"} /\ blk[w] = b => c < addr[w]
AllStored(p) == \A n \in (Len(seen[p]) + 1)..(nextRcd - 1) : \E b \in KeptFor(p) : Stored(b, n)

\* The inductive form of the refinement.
StreamInv ==
  /\ sent < nextRcd /\ NumbersDone
  /\ \A w \in Writers : Numbering(w)
  /\ \A p \in Subscribers : Consecutive(p) /\ AllStored(p)

-----------------------------------------------------------------------------
(* Numbers.                                                                *)

\* They are numbers.
LEMMA NumberTypes ==
  ASSUME TypeOK
  PROVE  /\ sent \in Nat /\ nextRcd \in Nat
         /\ \A b \in Blocks : FirstOf(b) \in Nat /\ NextOf(b) \in Nat /\ rcdNum[b] \in Nat
         /\ \A p \in Subscribers : Len(seen[p]) \in Nat /\ rnum[p] \in Nat /\ Len(inbox[p]) \in Nat
<1>1. \A b \in Blocks : 0 \in Cells
  BY QueueAssumption DEF Cells
<1>2. \A b \in Blocks : FirstOf(b) \in Nat
  BY <1>1 DEF FirstOf, TypeOK, MemType, Entries
<1>3. \A b \in Blocks : rcdNum[b] \in Nat /\ NextOf(b) \in Nat
  BY <1>2 DEF FirstOf, NextOf, TypeOK, BlockType
<1>4. \A p \in Subscribers : Len(seen[p]) \in Nat /\ rnum[p] \in Nat /\ Len(inbox[p]) \in Nat
  BY LenProperties, WhoElse DEF TypeOK, ReaderType
<1>5. QED
  BY <1>2, <1>3, <1>4 DEF TypeOK, EnvType

\* Memory that is the same up to e holds the same numbers.
LEMMA NumberedSame ==
  ASSUME NEW m, NEW u, NEW e \in Nat, NumberedIn(m, e), \A c \in 0..(e - 1) : u[c] = m[c]
  PROVE  NumberedIn(u, e)
<1>1. StartsIn(u, e) = StartsIn(m, e)
  BY DEF StartsIn
<1>2. \A c \in StartsIn(m, e) : c \in 0..(e - 1) /\ u[c] = m[c] /\ u[0] = m[0]
  BY DEF StartsIn
<1>3. \A c \in StartsIn(m, e) : StartsIn(u, c) = StartsIn(m, c)
  BY DEF StartsIn
<1>4. QED
  BY <1>1, <1>2, <1>3 DEF NumberedIn

\* The numbers of a block lie between its first and the next after its last.
LEMMA NumberedOrder ==
  ASSUME NEW m, NEW n \in Nat, NEW e \in Nat, ChainIn(m, n, e), NumberedIn(m, e), m[0].id \in Nat,
         NEW c \in StartsIn(m, e)
  PROVE  m[0].id <= m[c].id /\ m[c].id < m[0].id + n
<1>1. c \in Nat /\ StartsIn(m, c) \subseteq StartsIn(m, e) /\ c \notin StartsIn(m, c)
  BY DEF StartsIn
<1>2. IsFiniteSet(StartsIn(m, e)) /\ IsFiniteSet(StartsIn(m, c))
  BY <1>1, FiniteStarts
<1>3. /\ Cardinality(StartsIn(m, c)) <= Cardinality(StartsIn(m, e))
      /\ Cardinality(StartsIn(m, c)) # Cardinality(StartsIn(m, e))
  BY <1>1, <1>2, FS_Subset
<1>4. Cardinality(StartsIn(m, c)) \in Nat
  BY <1>2, FS_CardinalityType
<1>5. QED
  BY <1>3, <1>4 DEF NumberedIn, ChainIn

-----------------------------------------------------------------------------
(* What stays as it is.                                                    *)

\* What is kept for a reader is used.
LEMMA KeptUsed ==
  ASSUME Whole, NEW p \in Subscribers, NEW b \in KeptFor(p)
  PROVE  b \in ToSet(dbkList) /\ b \in Blocks
<1>1. CASE b \in ToRead(p)
  BY <1>1, StillToRead
<1>2. CASE b \notin ToRead(p)
  <2>1. b \in ToSet(dbkList)
    BY <1>2 DEF KeptFor, Busy, Whole, Known, ListInv, WrittenBlockUsed, DeliveryInv, Published
  <2>2. QED
    BY <2>1, ElementOfSeq, LenProperties DEF Whole, Known, Base, TypeOK, ListType, ToSet
<1>3. QED
  BY <1>1, <1>2

\* A reader goes on as long as the blocks it has to read do.
LEMMA ConsecutiveStays ==
  ASSUME Whole, StreamInv, NEW p \in Subscribers, ReadersAlone, UNCHANGED <<inbox, sent, seen>>,
         \A b \in ToRead(p) : Untouched(b)
  PROVE  Consecutive(p)'
<1>1. inbox[p] \in Seq(Blocks) /\ DOMAIN inbox[p] = 1..Len(inbox[p]) /\ Len(inbox[p]) \in Nat
  BY LenProperties, WhoElse DEF Whole, Known, Base, TypeOK, ReaderType
<1>2. \A i \in 1..Len(inbox[p]) : inbox[p][i] \in ToRead(p)
  BY <1>1 DEF ToRead, ToSet
<1>3. pc[p] \in {"read", "finish"} => blk[p] \in ToRead(p)
  BY DEF ToRead
<1>4. pc'[p] = pc[p] /\ blk'[p] = blk[p] /\ rnum' = rnum
  BY WhoElse DEF ReadersAlone
<1>5. \A b \in ToRead(p) : FirstOf(b)' = FirstOf(b) /\ NextOf(b)' = NextOf(b)
  BY DEF Untouched, FirstOf, NextOf
<1>6. \A i \in 0..Len(inbox[p]) : Edge(p, i)' = Edge(p, i)
  <2>1. pc[p] = "read" => NextOf(blk[p])' = NextOf(blk[p])
    BY <1>3, <1>4, <1>5 DEF NextOf
  <2>2. \A i \in 1..Len(inbox[p]) : NextOf(inbox[p][i])' = NextOf(inbox[p][i])
    BY <1>2, <1>5 DEF NextOf
  <2>3. QED
    BY <1>4, <2>1, <2>2 DEF Edge
<1>7. \A i \in 1..Len(inbox[p]) : FirstOf(inbox[p][i])' = FirstOf(inbox[p][i])
  BY <1>2, <1>5 DEF FirstOf
<1>8. pc[p] \in {"read", "finish"} => FirstOf(blk[p])' = FirstOf(blk[p]) /\ NextOf(blk[p])' = NextOf(blk[p])
  BY <1>3, <1>4, <1>5 DEF FirstOf, NextOf
<1>9. ToRead(p)' = ToRead(p)
  BY <1>4 DEF ToRead
<1>10. Consecutive(p)
  BY DEF StreamInv
<1>11. Len(inbox[p]) \in 0..Len(inbox[p]) /\ \A i \in 1..Len(inbox[p]) : i - 1 \in 0..Len(inbox[p])
  BY <1>1
<1>12. QED
  BY <1>4, <1>5, <1>6, <1>7, <1>8, <1>9, <1>10, <1>11 DEF Consecutive

\* What is stored for a reader stays so when nothing is let go.
LEMMA StoredStays ==
  ASSUME StreamInv, NEW p \in Subscribers, UNCHANGED <<nextRcd, seen>>, KeptFor(p) \subseteq KeptFor(p)',
         \A b \in KeptFor(p) : \A n \in (Len(seen[p]) + 1)..(nextRcd - 1) : Stored(b, n) => Stored(b, n)'
  PROVE  AllStored(p)'
<1> SUFFICES ASSUME NEW n \in (Len(seen[p]) + 1)..(nextRcd - 1)
             PROVE  \E b \in KeptFor(p)' : Stored(b, n)'
  BY DEF AllStored
<1>1. PICK b \in KeptFor(p) : Stored(b, n)
  BY DEF StreamInv, AllStored
<1>2. QED
  BY <1>1

\* Where a thread has to do with the numbers.
Numbered == Filling \cup Publishing \cup {"link"}

\* A step in which no thread does that.
LEMMA StreamAside ==
  ASSUME Whole, StreamInv, ReadersAlone, UNCHANGED <<sent, nextRcd, seen, inbox, curW>>,
         \A b \in ToSet(dbkList) : Untouched(b), ToSet(dbkList') \subseteq ToSet(dbkList),
         \A t \in Threads \ Procs :
           \/ pc'[t] = pc[t] /\ blk'[t] = blk[t] /\ (t \in Writers => addr'[t] = addr[t])
           \/ pc[t] \notin Numbered /\ pc'[t] \notin Numbered
           \/ pc[t] \in Publishing /\ pc'[t] \in Publishing /\ blk'[t] = blk[t]
  PROVE  StreamInv'
<1> USE DEF Numbered, Publishing, Filling
<1>1. \A w \in Writers :
        \/ pc'[w] = pc[w] /\ blk'[w] = blk[w] /\ addr'[w] = addr[w]
        \/ pc[w] \notin Filling \cup {"link"} /\ pc'[w] \notin Filling \cup {"link"}
  BY WhoElse
<1>2. Busy' = Busy
  BY <1>1 DEF Busy
<1>3. {blk[t] : t \in {u \in Threads \ Procs : pc[u] \in Publishing}}'
      = {blk[t] : t \in {u \in Threads \ Procs : pc[u] \in Publishing}}
  OBVIOUS
<1>4. \A p \in Subscribers : ToRead(p)' = ToRead(p)
  BY WhoElse DEF ReadersAlone, ToRead
<1>5. \A p \in Subscribers : KeptFor(p)' = KeptFor(p)
  BY <1>2, <1>3, <1>4 DEF KeptFor
<1>6. \A b \in ToSet(dbkList) : \A n : (Pending(b, n) => Pending(b, n)') /\ FirstOf(b)' = FirstOf(b)
  BY DEF Untouched, Pending, FirstOf
<1>7. NumbersDone'
  <2>1. \A b \in ToSet(dbkList') \ Busy' : NumberedIn(mem[b], pos[b])'
    BY <1>2 DEF StreamInv, NumbersDone, Untouched
  <2>2. curW # NoBlk => curW \in ToSet(dbkList)
    BY DEF Whole, Known, ListInv, WrittenBlockUsed
  <2>3. curW' # NoBlk /\ curW' \notin Busy' => Pending(curW, rcdNum[curW])'
    BY <1>2, <2>2 DEF StreamInv, NumbersDone, Untouched, Pending, FirstOf
  <2>4. ASSUME NEW t \in Threads \ Procs, pc'[t] \in Publishing
        PROVE  Pending(blk[t], rcdNum[blk[t]])'
    <3>1. pc[t] \in Publishing /\ blk'[t] = blk[t]
      BY <2>4
    <3>2. blk[t] \in ToSet(dbkList)
      BY <3>1 DEF Whole, DeliveryInv, Published
    <3>3. QED
      BY <3>1, <3>2 DEF StreamInv, NumbersDone, Untouched, Pending, FirstOf
  <2>5. QED
    BY <2>1, <2>3, <2>4 DEF NumbersDone
<1>8. ASSUME NEW w \in Writers
      PROVE  Numbering(w)'
  <2>1. pc[w] \in Filling => blk[w] \in ToSet(dbkList)
    BY DEF Whole, Known, ListInv, WrittenBlockUsed
  <2>2. CASE pc'[w] \notin Filling \cup {"link"}
    BY <2>2 DEF Numbering
  <2>3. CASE pc'[w] = "link"
    BY <1>1, <2>3 DEF Numbering, StreamInv
  <2>4. CASE pc'[w] \in Filling
    <3>1. pc'[w] = pc[w] /\ blk'[w] = blk[w] /\ addr'[w] = addr[w] /\ Untouched(blk[w])
      BY <1>1, <2>1, <2>4
    <3>2. QED
      BY <3>1 DEF Numbering, StreamInv, Untouched, Pending, FirstOf
  <2>5. QED
    BY <2>2, <2>3, <2>4
<1>9. ASSUME NEW p \in Subscribers
      PROVE  Consecutive(p)' /\ AllStored(p)'
  <2>1. \A b \in KeptFor(p) : Untouched(b)
    BY KeptUsed
  <2>2. Consecutive(p)'
    BY <2>1, ConsecutiveStays DEF KeptFor
  <2>3. \A b \in KeptFor(p) : \A n : Stored(b, n) => Stored(b, n)'
    BY <1>1, <2>1 DEF Stored, Untouched
  <2>4. QED
    BY <1>5, <2>2, <2>3, StoredStays
<1>10. QED
  BY <1>7, <1>8, <1>9 DEF StreamInv

-----------------------------------------------------------------------------
(* The steps of a writer that fills a block.                               *)

Fills(w) ==
  \/ Reread(w) /\ pc'[w] = "count"
  \/ Pick(w) /\ pc'[w] = "link"
  \/ Count(w) \/ Link(w) \/ SetCur(w) \/ SetWrite(w)
  \/ Area(w) \/ Mark(w) \/ Body(w) \/ Stamp(w)

\* What a reader has to read is not the writers' to change.
LEMMA ToReadUntouched ==
  ASSUME Whole, NEW w \in Writers, WriterMoves(w), NEW p \in Subscribers, NEW b \in ToRead(p)
  PROVE  Untouched(b)
<1>1. b \in Blocks /\ b \notin Unknown
  BY StillToRead
<1>2. pc[w] \in Filling => b # blk[w]
  BY <1>1 DEF Unknown, Busy
<1>3. pc[w] = "reclaim" => b # cur[w]
  BY <1>1 DEF Unknown, InTransit
<1>4. QED
  BY <1>1, <1>2, <1>3, WriterTouches DEF Whole, Known, Base

\* The one writer that holds dbk_write_mark is the only thread that has to do with the numbers.
LEMMA FillsAlone ==
  ASSUME Whole, NEW w \in Writers, Fills(w), \A u \in Threads \ {w} : Same(u)
  PROVE  /\ WriterMoves(w) /\ ~Publishes(w) /\ w \in Threads /\ Holds(w)
         /\ ReadersAlone /\ UNCHANGED <<inbox, sent, seen>>
         /\ pc[w] \notin Publishing /\ pc'[w] \notin Publishing
         /\ \A t \in (Threads \ Procs) \ {w} : pc[t] \notin Numbered /\ pc'[t] \notin Numbered
         /\ Busy = (IF pc[w] \in Filling THEN {blk[w]} ELSE {})
         /\ Busy' = (IF pc'[w] \in Filling THEN {blk'[w]} ELSE {})
<1> USE DEF Whole, Known
<1>1. WriterMoves(w) /\ w \in Threads
  BY DEF Fills, WriterMoves, WriterStep, Threads
<1>2. Holds(w) /\ pc[w] \notin Publishing /\ pc[w] # "idle"
  BY DEF Fills, Reread, Pick, Count, Link, SetCur, SetWrite, Area, Mark, Body, Stamp, Holds, Holding,
    Publishing
<1>3. ~Publishes(w)
  BY <1>2 DEF Publishes, Pub, Copy, Send, Publishing
<1>4. ReadersAlone /\ UNCHANGED inbox
  BY <1>1, <1>3, WriterQuiet
<1>5. UNCHANGED <<sent, seen>>
  BY DEF Fills, Reread, Pick, Count, Link, SetCur, SetWrite, Area, Mark, Body, Stamp, readerVars, envVars
<1>6. pc'[w] \notin Publishing
  BY <1>1 DEF Fills, Reread, Pick, Count, Link, SetCur, SetWrite, Area, Mark, Body, Stamp, Goto,
    Publishing, Base, TypeOK, PcType
<1>7. \A t \in (Threads \ Procs) \ {w} : pc[t] \notin Numbered /\ pc'[t] = pc[t]
  <2> SUFFICES ASSUME NEW t \in (Threads \ Procs) \ {w}
               PROVE  pc[t] \notin Numbered
    BY DEF Same
  <2>1. CASE t \in Writers
    <3>1. ~Holds(t)
      BY <1>2, <2>1, HolderOnly DEF Base
    <3>2. QED
      BY <3>1 DEF Numbered, Filling, Publishing, Holds, Holding
  <2>2. CASE t \notin Writers
    <3>1. t \in {Timeout, Exiter}
      BY <2>2, WhoElse
    <3>2. pc[t] \notin Filling \cup {"link"}
      BY <3>1, QueueAssumption DEF Base, TypeOK, PcType, PcOf, TimeoutPc, ExiterPc, Threads, Filling
    <3>3. pc[t] \notin Publishing
      BY <1>2, <3>1, NoHolder
    <3>4. QED
      BY <3>2, <3>3 DEF Numbered
  <2>3. QED
    BY <2>1, <2>2
<1>8. \A v \in Writers \ {w} : pc[v] \notin Filling /\ pc'[v] \notin Filling
  BY <1>7, WhoElse DEF Numbered
<1>9. QED
  BY <1>1, <1>2, <1>3, <1>4, <1>5, <1>6, <1>7, <1>8 DEF Busy

\* Every used block nobody is in stays numbered.
LEMMA UsedNumbered ==
  ASSUME Whole, StreamInv, NEW w \in Writers, Fills(w), \A u \in Threads \ {w} : Same(u),
         NEW b \in ToSet(dbkList') \ Busy', b \in Blocks
  PROVE  NumberedIn(mem[b], pos[b])'
<1> USE DEF Whole, Known
<1>1. WriterMoves(w) /\ w \in Threads /\ pc[w] # "reclaim"
  BY FillsAlone DEF Fills, Reread, Pick, Count, Link, SetCur, SetWrite, Area, Mark, Body, Stamp
<1>2. CASE b \in ToSet(dbkList) /\ b \notin Busy
  <2>1. pc[w] \in Filling => b # blk[w]
    BY <1>2 DEF Busy
  <2>2. Untouched(b)
    BY <1>1, <2>1, WriterTouches DEF Base
  <2>3. QED
    BY <1>2, <2>2 DEF StreamInv, NumbersDone, Untouched
<1>3. CASE b \in Busy
  <2>1. pc[w] \in Filling /\ blk[w] = b
    BY <1>3, FillsAlone
  <2>2. ~(pc'[w] \in Filling /\ blk'[w] = blk[w])
    BY <2>1, FillsAlone
  <2>3. Stamp(w)
    BY <1>1, <2>1, <2>2, LeavesFilling DEF Base
  <2>4. QED
    BY <2>1, <2>3 DEF Stamp, StreamInv, Numbering
<1>4. CASE b \notin ToSet(dbkList)
  <2>1. Link(w) /\ b = blk[w]
    BY <1>1, <1>4, UsedFrom DEF Base
  <2>2. pc'[w] = "setcur" /\ blk'[w] = b
    BY <1>1, <2>1 DEF Link, Goto, localVars, Base, TypeOK, PcType
  <2>3. QED
    BY <2>2 DEF Busy, Filling
<1>5. QED
  BY <1>2, <1>3, <1>4

\* A block gets its place, its count and its address before it gets its record.
LEMMA TakeNumbering ==
  ASSUME Whole, StreamInv, NEW w \in Writers, Fills(w), \A u \in Threads \ {w} : Same(u),
         ~(Mark(w) \/ Body(w) \/ Stamp(w))
  PROVE  Numbering(w)' /\ UNCHANGED nextRcd /\ (curW' # NoBlk => curW' \in Busy')
<1> USE DEF Whole, Known, Base, TypeOK, PcType, LocalType, Goto, Filling, queueVars, listVars, localVars,
        blockVars, envVars
<1>1. w \in Threads /\ Kept(w) /\ Numbering(w) /\ sent \in Nat /\ nextRcd \in Nat
  BY FillsAlone, NumberTypes DEF CurrentInv, StreamInv
<1>2. CASE Reread(w) /\ pc'[w] = "count"
  <2>1. blk'[w] = curW /\ curW' = curW /\ curW # NoBlk /\ UNCHANGED <<mem, rcdNum, pos, sent, nextRcd>>
    BY <1>1, <1>2 DEF Reread
  <2>2. Busy = {}
    BY <1>2, FillsAlone DEF Reread
  <2>3. Pending(curW, rcdNum[curW]) /\ NumberedIn(mem[curW], pos[curW])
    BY <2>1, <2>2 DEF StreamInv, NumbersDone, ListInv, WrittenBlockUsed
  <2>4. QED
    BY <1>2, <2>1, <2>3, FillsAlone DEF Numbering, Pending, FirstOf
<1>3. CASE Pick(w) /\ pc'[w] = "link"
  <2>1. curW = NoBlk /\ curW' = curW /\ UNCHANGED <<sent, nextRcd>> /\ pc[w] = "pick"
    BY <1>3 DEF Pick, ListInv, CurFree
  <2>2. sent = nextRcd - 1
    <3>1. \A v \in Writers : pc[v] \notin Filling \cup Publishing
      BY <2>1, FillsAlone, WhoElse DEF Numbered, Publishing
    <3>2. pc[Exiter] \notin Publishing /\ pc[Timeout] \notin Publishing
      BY FillsAlone, WhoElse DEF Numbered
    <3>3. QED
      BY <2>1, <3>1, <3>2, WhoElse DEF CurrentInv, AllSent
  <2>3. QED
    BY <1>3, <2>1, <2>2 DEF Numbering
<1>4. CASE Link(w)
  <2>1. curW' = NoBlk /\ UNCHANGED <<sent, nextRcd>> /\ pc'[w] = "setcur" /\ pc[w] = "link"
    BY <1>1, <1>4 DEF Link, ListInv, CurFree
  <2>2. QED
    BY <1>1, <2>1 DEF Numbering
<1>5. CASE SetCur(w)
  <2>1. curW' = blk[w] /\ blk' = blk /\ UNCHANGED <<sent, nextRcd>> /\ pc'[w] = "setwrite" /\ pc[w] = "setcur"
    BY <1>1, <1>5 DEF SetCur
  <2>2. QED
    BY <1>1, <2>1, FillsAlone DEF Numbering
<1>6. CASE Count(w) \/ SetWrite(w)
  <2>1. blk[w] \in Blocks
    BY <1>1, <1>6 DEF Count, SetWrite, InHand, HandOf, Working
  <2>2. /\ UNCHANGED <<mem, pos, sent, nextRcd, curW>> /\ blk' = blk
        /\ rcdNum'[blk[w]] = rcdNum[blk[w]] + 1 /\ pc'[w] = "area"
    BY <1>1, <1>6, <2>1 DEF Count, SetWrite, BlockType
  <2>3. rcdNum[blk[w]] \in Nat
    BY <2>1, NumberTypes
  <2>4. Pending(blk[w], rcdNum[blk[w]]) /\ NumberedIn(mem[blk[w]], pos[blk[w]])
    <3>1. CASE Count(w)
      BY <1>1, <3>1 DEF Count, Numbering
    <3>2. CASE SetWrite(w)
      <4>1. rcdNum[blk[w]] = 0 /\ pos[blk[w]] = 0 /\ sent = nextRcd - 1
        BY <1>1, <3>2 DEF SetWrite, Numbering, RecordInv, Writing, Calm
      <4>2. StartsIn(mem[blk[w]], 0) = {}
        BY DEF StartsIn
      <4>3. QED
        BY <1>1, <4>1, <4>2 DEF Pending, NumberedIn
    <3>3. QED
      BY <1>6, <3>1, <3>2
  <2>5. curW' = blk'[w]
    BY <1>1, <1>6, <2>2 DEF Count, SetWrite, Kept
  <2>6. QED
    BY <2>2, <2>3, <2>4, <2>5, FillsAlone DEF Numbering, Pending, FirstOf
<1>7. CASE Area(w)
  <2>1. blk[w] \in Blocks
    BY <1>1, <1>7 DEF Area, InHand, HandOf, Working
  <2>2. /\ UNCHANGED <<mem, rcdNum, sent, nextRcd, curW>> /\ blk' = blk
        /\ addr'[w] = pos[blk[w]] /\ pc'[w] = "mark"
    BY <1>1, <1>7, <2>1 DEF Area
  <2>3. Pending(blk[w], rcdNum[blk[w]] - 1) /\ NumberedIn(mem[blk[w]], pos[blk[w]]) /\ curW' = blk'[w]
    BY <1>1, <1>7, <2>2 DEF Area, Numbering, Kept
  <2>4. QED
    BY <2>2, <2>3, FillsAlone DEF Numbering, Pending, FirstOf
<1>8. QED
  BY <1>2, <1>3, <1>4, <1>5, <1>6, <1>7 DEF Fills

\* What Mark and Body do to the block.
LEMMA RecordPut ==
  ASSUME Whole, NEW w \in Writers, Mark(w) \/ Body(w)
  PROVE  LET b == blk[w]  a == addr[w]  n == rcdNum[blk[w]] - 1  s == size[w] IN
         /\ b \in Blocks /\ a \in Nat /\ n \in Nat /\ s \in Nat \ {0} /\ n + 1 = rcdNum[b]
         /\ pos[b] = a + s /\ ChainIn(mem[b], n, a) /\ curW = b
         /\ UNCHANGED <<rcdNum, pos, size, addr, blk, curW, dbkList>>
         /\ \A c \in 0..(a - 1) : mem'[b][c] = mem[b][c]
         /\ a \in Cells
         /\ Mark(w) => pc'[w] = "body" /\ mem'[b][a].id = 0 /\ nextRcd' = nextRcd
         /\ Body(w) => /\ pc'[w] = "stamp" /\ nextRcd' = nextRcd + 1
                       /\ mem'[b][a].id = nextRcd /\ mem'[b][a].len = s
                       /\ \A c \in (a + 1)..(a + s - 1) : mem'[b][c].len = 0
<1> DEFINE b == blk[w]
           a == addr[w]
           n == rcdNum[b] - 1
           s == size[w]
           m == mem[b]
           u == mem'[b]
<1> USE DEF Whole, Known
<1>1. w \in Threads /\ b \in Blocks /\ pc[w] \in {"mark", "body"} /\ restarts = 0
  BY DEF Threads, Base, InHand, HandOf, Working, Filling, Mark, Body, Calm
<1>2. UNCHANGED <<rcdNum, pos, size, addr, blk, curW, dbkList>>
  BY DEF Mark, Body, localVars, queueVars, listVars
<1>3. /\ pos[b] = a + s /\ ChainIn(m, n, a) /\ rcdNum[b] > 0 /\ rcdNum[b] \in Nat
      /\ s \in Nat \ {0} /\ a \in Nat /\ nextRcd \in Nat
  <2>1. Writing(w)
    BY <1>1 DEF RecordInv
  <2>2. QED
    BY <1>1, <2>1, NumberTypes DEF Writing, Base, TypeOK, LocalType
<1>4. 0..(a + s - 1) \subseteq Cells
  BY <1>1, <1>3, InCells DEF NoOverrun
<1>5. curW = b
  BY <1>1 DEF CurrentInv, Kept, Filling
<1>6. CASE Mark(w)
  <2>1. u = [c \in Cells |-> IF c = a THEN [id |-> 0, len |-> s]
                             ELSE IF c \in a..(a + s - 1) THEN Blank ELSE m[c]]
    BY <1>1, <1>6 DEF Mark, Base, TypeOK, MemType
  <2>2. pc'[w] = "body" /\ nextRcd' = nextRcd /\ ~Body(w)
    BY <1>1, <1>6 DEF Mark, Body, Goto, Base, TypeOK, PcType, envVars
  <2> HIDE DEF b, a, n, s, m, u
  <2>3. \A c \in 0..(a - 1) : u[c] = m[c]
    BY <1>3, <1>4, <2>1
  <2>4. a \in Cells /\ u[a].id = 0
    BY <1>3, <1>4, <2>1
  <2>5. QED
    BY <1>1, <1>2, <1>3, <1>5, <2>2, <2>3, <2>4 DEF b, a, n, s, m, u
<1>7. CASE Body(w)
  <2>1. u = [m EXCEPT ![a] = [m[a] EXCEPT !.id = nextRcd]] /\ m \in [Cells -> Entries]
    BY <1>1, <1>7 DEF Body, Base, TypeOK, MemType
  <2>2. pc'[w] = "stamp" /\ nextRcd' = nextRcd + 1 /\ ~Mark(w)
    BY <1>1, <1>7 DEF Mark, Body, Goto, Base, TypeOK, PcType
  <2>3. m[a].len = s /\ \A c \in (a + 1)..(a + s - 1) : m[c].len = 0
    <3>1. Writing(w) /\ pc[w] = "body"
      BY <1>1, <1>7 DEF RecordInv, Body
    <3>2. QED
      BY <1>3, <3>1 DEF Writing
  <2> HIDE DEF b, a, n, s, m, u
  <2>4. \A c \in 0..(a - 1) : u[c] = m[c]
    BY <1>3, <1>4, <2>1
  <2>5. a \in Cells /\ u[a].id = nextRcd /\ u[a].len = s
    BY <1>3, <1>4, <2>1, <2>3 DEF Entries
  <2>6. \A c \in (a + 1)..(a + s - 1) : u[c].len = 0
    BY <1>3, <1>4, <2>1, <2>3
  <2>7. QED
    BY <1>1, <1>2, <1>3, <1>5, <2>2, <2>4, <2>5, <2>6 DEF b, a, n, s, m, u
<1>8. QED
  BY <1>6, <1>7

\* The record gets the next number.
LEMMA PutNumbering ==
  ASSUME Whole, StreamInv, NEW w \in Writers, Mark(w) \/ Body(w), \A u \in Threads \ {w} : Same(u)
  PROVE  Numbering(w)' /\ sent' < nextRcd' /\ curW' \in Busy'
<1> DEFINE b == blk[w]
           a == addr[w]
           n == rcdNum[b] - 1
           s == size[w]
           m == mem[b]
           u == mem'[b]
<1>1. Fills(w)
  BY DEF Fills
<1>2. /\ sent' = sent /\ sent \in Nat /\ nextRcd \in Nat /\ Numbering(w) /\ sent < nextRcd
  BY <1>1, FillsAlone, NumberTypes DEF StreamInv, Whole, Known, Base
<1>3. /\ b \in Blocks /\ a \in Nat /\ n \in Nat /\ s \in Nat \ {0} /\ n + 1 = rcdNum[b]
      /\ pos[b] = a + s /\ ChainIn(m, n, a) /\ curW = b
      /\ UNCHANGED <<rcdNum, pos, size, addr, blk, curW>>
      /\ \A c \in 0..(a - 1) : u[c] = m[c]
  BY RecordPut
<1>4. Pending(b, n) /\ NumberedIn(m, a)
  BY <1>2 DEF Numbering, Mark, Body
<1>5. pc'[w] \in {"body", "stamp"}
  BY RecordPut
<1>6. curW' \in Busy'
  BY <1>1, <1>3, <1>5, FillsAlone DEF Filling
<1>7. CASE Mark(w)
  <2>1. pc'[w] = "body" /\ u[a].id = 0 /\ nextRcd' = nextRcd
    BY <1>7, RecordPut
  <2>2. NumberedIn(u, a)
    BY <1>3, <1>4, NumberedSame
  <2>3. n > 0 => u[0].id = sent + 1
    <3>1. n > 0 => 0 \in 0..(a - 1)
      BY <1>3 DEF ChainIn, StartsIn
    <3>2. QED
      BY <1>3, <1>4, <3>1 DEF Pending, FirstOf
  <2>4. QED
    BY <1>2, <1>3, <1>4, <1>6, <2>1, <2>2, <2>3 DEF Numbering, Pending, FirstOf
<1>8. CASE Body(w)
  <2>1. /\ pc'[w] = "stamp" /\ nextRcd' = nextRcd + 1 /\ u[a].id = nextRcd /\ u[a].len = s
        /\ \A c \in (a + 1)..(a + s - 1) : u[c].len = 0
    BY <1>8, RecordPut
  <2>2. nextRcd = sent + n + 1 /\ (n > 0 => m[0].id = sent + 1)
    BY <1>2, <1>3, <1>4 DEF Pending, FirstOf
  <2>3. NumberedIn(u, pos[b]) /\ u[0].id = sent + 1
    <3> HIDE DEF a, b, m, u, n, s
    <3>1. StartsIn(u, pos[b]) = StartsIn(m, a) \cup {a} /\ StartsIn(u, a) = StartsIn(m, a)
      BY <1>3, <2>1 DEF StartsIn
    <3>2. Cardinality(StartsIn(m, a)) = n
      BY <1>3 DEF ChainIn
    <3>3. u[0].id = sent + 1
      <4>1. n = 0 => a = 0
        BY <1>3 DEF ChainIn
      <4>2. n > 0 => u[0] = m[0]
        BY <1>3 DEF ChainIn, StartsIn
      <4>3. QED
        BY <1>2, <1>3, <2>1, <2>2, <4>1, <4>2
    <3>4. NumberedIn(u, a)
      BY <1>3, <1>4, NumberedSame
    <3>5. u[a].id = u[0].id + Cardinality(StartsIn(u, a))
      BY <1>2, <1>3, <2>1, <2>2, <3>1, <3>2, <3>3
    <3>6. QED
      BY <3>1, <3>3, <3>4, <3>5 DEF NumberedIn
  <2>4. QED
    BY <1>2, <1>3, <1>6, <2>1, <2>2, <2>3 DEF Numbering, Pending, FirstOf
<1>9. QED
  BY <1>7, <1>8

\* A finished record: the block is the current one, and numbered.
LEMMA StampNumbering ==
  ASSUME Whole, StreamInv, NEW w \in Writers, Stamp(w), \A u \in Threads \ {w} : Same(u)
  PROVE  /\ Numbering(w)' /\ UNCHANGED <<nextRcd, curW, mem, rcdNum, pos>>
         /\ curW = blk[w] /\ Pending(curW, rcdNum[curW]) /\ pc[w] = "stamp" /\ pc'[w] = "idle"
<1> USE DEF Whole, Known
<1>1. w \in Threads /\ Kept(w) /\ Numbering(w)
  BY DEF CurrentInv, StreamInv, Threads
<1>2. pc[w] = "stamp" /\ pc'[w] = "idle" /\ UNCHANGED <<nextRcd, curW, mem, rcdNum, pos>>
  BY <1>1 DEF Stamp, Goto, Base, TypeOK, PcType, listVars, envVars
<1>3. curW = blk[w] /\ Pending(curW, rcdNum[curW])
  BY <1>1, <1>2 DEF Kept, Numbering, Filling
<1>4. QED
  BY <1>2, <1>3 DEF Numbering

\* What is stored for a reader stays so: a new record is written behind the old ones.
LEMMA FillsStored ==
  ASSUME Whole, NEW w \in Writers, Fills(w), \A u \in Threads \ {w} : Same(u),
         NEW p \in Subscribers, NEW b \in KeptFor(p), NEW n, Stored(b, n)
  PROVE  Stored(b, n)'
<1> USE DEF Whole, Known, Base, TypeOK, PcType, LocalType, Goto
<1>1. b \in Blocks /\ b \in ToSet(dbkList) /\ WriterMoves(w) /\ w \in Threads
  BY KeptUsed, FillsAlone
<1>2. PICK c \in StartsIn(mem[b], pos[b]) :
        mem[b][c].id = n /\ \A v \in Writers : pc[v] \in {"mark", "body"} /\ blk[v] = b => c < addr[v]
  BY DEF Stored
<1>3. \A v \in Writers \ {w} : pc'[v] = pc[v] /\ pc[v] \notin Filling
  BY FillsAlone, WhoElse DEF Same, Numbered
<1>4. \A v \in Writers \ {w} : pc'[v] \notin {"mark", "body"}
  BY <1>3 DEF Filling
<1>5. ASSUME Untouched(b), pc'[w] \in {"mark", "body"} /\ blk'[w] = b => c < addr'[w]
      PROVE  Stored(b, n)'
  BY <1>2, <1>4, <1>5 DEF Stored, Untouched
<1>6. CASE Reread(w) \/ Pick(w) \/ Count(w) \/ Link(w) \/ SetCur(w) \/ SetWrite(w) \/ Stamp(w)
  <2>1. UNCHANGED <<mem, pos>> /\ pc'[w] \notin {"mark", "body"}
    BY <1>1, <1>6 DEF Reread, Pick, Count, Link, SetCur, SetWrite, Stamp, blockVars
  <2>2. QED
    BY <1>2, <1>4, <2>1 DEF Stored
<1>7. CASE Area(w)
  <2>1. blk[w] \in Blocks /\ size[w] \in Nat /\ pos[blk[w]] \in Nat
    BY <1>1, <1>7 DEF Area, InHand, HandOf, Working, Filling, BlockType
  <2>2. /\ mem' = mem /\ pc'[w] = "mark" /\ blk' = blk /\ addr'[w] = pos[blk[w]]
        /\ pos' = [pos EXCEPT ![blk[w]] = @ + size[w]]
    BY <1>1, <1>7 DEF Area
  <2>3. c \in StartsIn(mem'[b], pos'[b]) /\ (b = blk[w] => c < addr'[w])
    BY <1>1, <1>2, <2>1, <2>2 DEF StartsIn, BlockType
  <2>4. QED
    BY <1>2, <1>4, <2>2, <2>3 DEF Stored
<1>8. CASE Mark(w) \/ Body(w)
  <2>1. /\ blk[w] \in Blocks /\ addr[w] \in Nat
        /\ UNCHANGED <<pos, addr, blk>>
        /\ \A d \in 0..(addr[w] - 1) : mem'[blk[w]][d] = mem[blk[w]][d]
        /\ pc[w] \in {"mark", "body"}
    BY <1>8, RecordPut DEF Mark, Body
  <2>2. CASE b = blk[w]
    <3>1. c \in 0..(addr[w] - 1)
      BY <1>2, <2>1, <2>2 DEF StartsIn
    <3>2. QED
      BY <1>2, <1>4, <2>1, <2>2, <3>1 DEF Stored, StartsIn
  <2>3. CASE b # blk[w]
    <3>1. Untouched(b)
      BY <1>1, <2>1, <2>3, WriterTouches
    <3>2. QED
      BY <1>5, <2>1, <2>3, <3>1
  <2>4. QED
    BY <2>2, <2>3
<1>9. QED
  BY <1>6, <1>7, <1>8 DEF Fills

\* Nothing is let go.
LEMMA FillsKept ==
  ASSUME Whole, NEW w \in Writers, Fills(w), \A u \in Threads \ {w} : Same(u), NEW p \in Subscribers
  PROVE  KeptFor(p) \subseteq KeptFor(p)'
<1> USE DEF Whole, Known
<1>1. ToRead(p)' = ToRead(p)
  BY FillsAlone, WhoElse DEF ReadersAlone, ToRead
<1>2. \A t \in Threads \ Procs : pc[t] \notin Publishing
  BY FillsAlone DEF Numbered
<1>3. curW # NoBlk => curW' = curW
  BY DEF Fills, Reread, Pick, Count, Link, SetCur, SetWrite, Area, Mark, Body, Stamp, ListInv, CurFree,
    queueVars, listVars
<1>4. ASSUME NEW b \in Busy
      PROVE  b \in KeptFor(p)'
  <2>1. pc[w] \in Filling /\ b = blk[w]
    BY <1>4, FillsAlone
  <2>2. CASE pc'[w] \in Filling /\ blk'[w] = blk[w]
    BY <2>1, <2>2 DEF KeptFor, Busy
  <2>3. CASE ~(pc'[w] \in Filling /\ blk'[w] = blk[w])
    <3>1. Stamp(w)
      BY <2>1, <2>3, FillsAlone, LeavesFilling DEF Base
    <3>2. curW = blk[w] /\ curW # NoBlk /\ curW' = curW
      BY <1>3, <3>1 DEF Stamp, CurrentInv, Kept, Filling
    <3>3. QED
      BY <2>1, <3>2 DEF KeptFor
  <2>4. QED
    BY <2>2, <2>3
<1>5. QED
  BY <1>1, <1>2, <1>3, <1>4 DEF KeptFor

\* All together.
LEMMA FillsStream ==
  ASSUME Whole, ListInv', TypeOK', StreamInv, NEW w \in Writers, Fills(w), \A u \in Threads \ {w} : Same(u)
  PROVE  StreamInv'
<1> USE DEF Whole, Known
<1>1. /\ WriterMoves(w) /\ w \in Threads /\ ReadersAlone /\ UNCHANGED <<inbox, sent, seen>>
      /\ sent \in Nat /\ nextRcd \in Nat /\ sent < nextRcd
  BY FillsAlone, NumberTypes DEF Base, StreamInv
<1>2. Numbering(w)' /\ sent' < nextRcd' /\ (curW' # NoBlk /\ curW' \notin Busy' => Pending(curW, rcdNum[curW])')
  <2>1. CASE Mark(w) \/ Body(w)
    BY <2>1, PutNumbering
  <2>2. CASE Stamp(w)
    BY <1>1, <2>2, StampNumbering DEF Pending, FirstOf
  <2>3. CASE ~(Mark(w) \/ Body(w) \/ Stamp(w))
    BY <1>1, <2>3, TakeNumbering
  <2>4. QED
    BY <2>1, <2>2, <2>3
<1>3. NumbersDone'
  <2>1. ToSet(dbkList') \subseteq Blocks
    BY ElementOfSeq, LenProperties DEF TypeOK, ListType, ToSet
  <2>2. \A b \in ToSet(dbkList') \ Busy' : NumberedIn(mem[b], pos[b])'
    BY <2>1, UsedNumbered
  <2>3. \A t \in Threads \ Procs : pc'[t] \notin Publishing
    BY FillsAlone DEF Numbered
  <2>4. QED
    BY <1>2, <2>2, <2>3 DEF NumbersDone
<1>4. \A v \in Writers : Numbering(v)'
  <2>1. \A v \in Writers \ {w} : pc'[v] \notin Numbered
    BY FillsAlone, WhoElse
  <2>2. \A v \in Writers \ {w} : Numbering(v)'
    BY <2>1 DEF Numbering, Numbered, Filling
  <2>3. QED
    BY <1>2, <2>2
<1>5. ASSUME NEW p \in Subscribers
      PROVE  Consecutive(p)' /\ AllStored(p)'
  <2>1. Consecutive(p)'
    BY <1>1, ToReadUntouched, ConsecutiveStays
  <2>2. KeptFor(p) \subseteq KeptFor(p)'
    BY FillsKept
  <2>3. ASSUME NEW b \in KeptFor(p), NEW n, Stored(b, n)
        PROVE  Stored(b, n)'
    BY <2>3, FillsStored
  <2>4. CASE nextRcd' = nextRcd
    <3>1. UNCHANGED <<nextRcd, seen>>
      BY <1>1, <2>4
    <3>2. QED
      BY <2>1, <2>2, <2>3, <3>1, StoredStays
  <2>5. CASE nextRcd' # nextRcd
    <3>1. Body(w)
      BY <2>5 DEF Fills, Reread, Pick, Count, Link, SetCur, SetWrite, Area, Mark, Stamp, envVars
    <3>2. PICK b, a, k : b = blk[w] /\ a = addr[w] /\ k = nextRcd
      OBVIOUS
    <3>3. /\ b \in Blocks /\ a \in Nat /\ size[w] \in Nat \ {0} /\ blk'[w] = b
          /\ pos'[b] = a + size[w] /\ pc'[w] = "stamp" /\ nextRcd' = k + 1
          /\ mem'[b][a].id = k /\ mem'[b][a].len = size[w]
      BY <3>1, <3>2, RecordPut
    <3>4. Stored(b, k)'
      <4>1. a \in StartsIn(mem'[b], pos'[b])
        BY <3>3 DEF StartsIn
      <4>2. \A v \in Writers : pc'[v] \notin {"mark", "body"}
        BY <3>3, FillsAlone, WhoElse DEF Numbered, Filling
      <4>3. QED
        BY <3>3, <4>1, <4>2 DEF Stored
    <3>5. b \in KeptFor(p)'
      BY <3>3 DEF KeptFor, Busy, Filling
    <3>6. ASSUME NEW n \in (Len(seen'[p]) + 1)..(nextRcd' - 1)
          PROVE  \E c \in KeptFor(p)' : Stored(c, n)'
      <4>1. CASE n = k
        BY <3>4, <3>5, <4>1
      <4>2. CASE n # k
        <5>1. n \in (Len(seen[p]) + 1)..(nextRcd - 1)
          BY <1>1, <3>2, <3>3, <4>2, NumberTypes DEF Base
        <5>2. PICK c \in KeptFor(p) : Stored(c, n)
          BY <5>1 DEF StreamInv, AllStored
        <5>3. QED
          BY <2>2, <2>3, <5>2
      <4>3. QED
        BY <4>1, <4>2
    <3>7. QED
      BY <2>1, <3>6 DEF AllStored
  <2>6. QED
    BY <2>1, <2>4, <2>5
<1>6. QED
  BY <1>2, <1>3, <1>4, <1>5 DEF StreamInv


-----------------------------------------------------------------------------
(* The steps of a publication, and those of a writer that do not fill.     *)

\* Whoever publishes, or is about to, finds no writer in a block.
LEMMA LastAlone ==
  ASSUME Whole, NEW t \in Threads \ Procs, pc[t] \in Publishing \cup {"cas"},
         t = Timeout => \A w \in Writers : ~Holds(w)
  PROVE  /\ Busy = {} /\ blk[t] \in Blocks
         /\ \A w \in Writers : pc[w] \notin Filling \cup {"link"}
         /\ \A u \in (Threads \ Procs) \ {t} : pc[u] \notin Publishing
         /\ pc[t] \in Publishing => curW = NoBlk
<1> USE DEF Whole, Known
<1>2. blk[t] \in Blocks
  BY DEF Base, InHand, HandOf, Working, Publishing
<1>3. CASE t \in Writers
  <2>1. Holds(t) /\ pc[t] # "idle"
    BY DEF Holds, Publishing
  <2>2. \A v \in Writers \ {t} : ~Holds(v)
    BY <1>3, <2>1, HolderOnly DEF Base
  <2>3. \A w \in Writers : pc[w] \notin Filling \cup {"link"}
    BY <2>2 DEF Holds, Holding, Filling, Publishing
  <2>4. \A v \in Writers \ {t} : pc[v] \notin Publishing
    BY <2>2 DEF Holds, Publishing
  <2>5. pc[Exiter] \notin Publishing /\ pc[Timeout] \notin Publishing
    BY <1>3, <2>1, NoHolder
  <2>6. pc[t] \in Publishing => curW = NoBlk
    BY <1>3 DEF ListInv, CurFree, Publishing
  <2>7. QED
    BY <1>2, <2>3, <2>4, <2>5, <2>6, WhoElse DEF Busy
<1>4. CASE t = Exiter
  <2>1. \A w \in Writers : pc[w] = "idle"
    BY <1>4 DEF Leaving, Publishing
  <2>2. pc[Timeout] \notin Publishing /\ (pc[t] \in Publishing => curW = NoBlk)
    BY <1>4 DEF Leaving, Publishing
  <2>3. QED
    BY <1>2, <1>4, <2>1, <2>2, WhoElse DEF Busy, Filling, Publishing
<1>5. CASE t = Timeout
  <2>1. \A w \in Writers : pc[w] \notin Filling \cup {"link"} \cup Publishing
    BY <1>5 DEF Holds, Holding, Filling, Publishing
  <2>2. pc[Exiter] \notin Publishing
    BY <1>5 DEF Leaving, Publishing
  <2>3. pc[t] \in Publishing => curW = NoBlk
    BY <1>5 DEF CurrentInv, Closed
  <2>4. QED
    BY <1>2, <1>5, <2>1, <2>2, <2>3, WhoElse DEF Busy
<1>6. QED
  BY <1>3, <1>4, <1>5, WhoElse

\* The compare-and-swap: what was current is now to be published.
LEMMA CasStream ==
  ASSUME Whole, Calm', StreamInv, NEW t \in Threads \ Procs, Cas(t), curW = blk[t]
  PROVE  StreamInv'
<1> USE DEF Whole, Known
<1>1. PICK b : b = blk[t]
  OBVIOUS
<1>2. /\ Busy = {} /\ b \in Blocks /\ b # NoBlk
      /\ \A w \in Writers : pc[w] \notin Filling \cup {"link"}
  <2>1. ASSUME t = Timeout, NEW w \in Writers
        PROVE  ~Holds(w)
    <3>1. pc'[Timeout] = "pub" /\ pc'[w] = pc[w]
      BY <2>1, WhoElse DEF Cas, Goto, Base, TypeOK, PcType, Resume, InHand, HandOf, Working
    <3>2. QED
      BY <3>1 DEF Calm, Overlap, Holds, Publishing
  <2>2. QED
    BY <1>1, <2>1, LastAlone, QueueAssumption DEF Cas
<1>3. /\ pc' = [pc EXCEPT ![t] = "pub"] /\ pc \in [Threads -> WriterPc \cup TimeoutPc \cup ExiterPc \cup ProcPc]
      /\ curW' = NoBlk /\ UNCHANGED <<dbkList, blk, addr, idx, mem, rcdNum, pos, sent, nextRcd, seen, inbox>>
      /\ UNCHANGED <<refCount, infoMark, connected, readers, rpos, rlen, rnum, restarts>>
  BY <1>2 DEF Cas, Goto, Resume, Base, TypeOK, PcType, localVars, blockVars, readerVars, envVars
<1>4. pc'[t] = "pub" /\ \A u \in Threads \ {t} : pc'[u] = pc[u]
  BY <1>3
<1>5. \A w \in Writers : pc'[w] \notin Filling \cup {"link"}
  BY <1>2, <1>4, WhoElse DEF Filling
<1>6. Busy' = {}
  BY <1>5 DEF Busy
<1>7. ReadersAlone
  BY <1>3, <1>4, WhoElse DEF ReadersAlone
<1>8. Pending(b, rcdNum[b]) /\ \A n : Pending(b, n)' <=> Pending(b, n)
  BY <1>1, <1>2, <1>3 DEF StreamInv, NumbersDone, Pending, FirstOf
<1>9. NumbersDone'
  <2>1. \A c \in ToSet(dbkList') \ Busy' : NumberedIn(mem[c], pos[c])'
    BY <1>2, <1>3, <1>6 DEF StreamInv, NumbersDone
  <2>2. ASSUME NEW u \in Threads \ Procs, pc'[u] \in Publishing
        PROVE  Pending(blk[u], rcdNum[blk[u]])'
    <3>1. CASE u = t
      BY <1>1, <1>3, <1>8, <3>1 DEF Pending, FirstOf
    <3>2. CASE u # t
      BY <1>3, <1>4, <2>2, <3>2 DEF StreamInv, NumbersDone, Pending, FirstOf
    <3>3. QED
      BY <3>1, <3>2
  <2>3. QED
    BY <1>3, <2>1, <2>2 DEF NumbersDone
<1>10. \A w \in Writers : Numbering(w)'
  BY <1>5 DEF Numbering, Filling
<1>11. sent' < nextRcd'
  BY <1>3 DEF StreamInv
<1>12. ASSUME NEW p \in Subscribers
       PROVE  Consecutive(p)' /\ AllStored(p)'
  <2>1. Consecutive(p)'
    BY <1>3, <1>7, ConsecutiveStays DEF Untouched
  <2>2. ToRead(p)' = ToRead(p)
    BY <1>3, <1>7, WhoElse DEF ReadersAlone, ToRead
  <2>3. {blk[u] : u \in {v \in Threads \ Procs : pc[v] \in Publishing}} \cup {b}
        \subseteq {blk[u] : u \in {v \in Threads \ Procs : pc[v] \in Publishing}}'
    BY <1>1, <1>3, <1>4 DEF Publishing, Cas
  <2>4. KeptFor(p) \subseteq KeptFor(p)'
    BY <1>1, <1>2, <2>2, <2>3 DEF KeptFor
  <2>5. \A c \in KeptFor(p) : \A n \in (Len(seen[p]) + 1)..(nextRcd - 1) : Stored(c, n) => Stored(c, n)'
    BY <1>3, <1>5 DEF Stored, Filling
  <2>6. UNCHANGED <<nextRcd, seen>>
    BY <1>3
  <2>7. QED
    BY <2>1, <2>4, <2>5, <2>6, StoredStays
<1>13. QED
  BY <1>9, <1>10, <1>11, <1>12 DEF StreamInv

\* The broadcast: every reader has the block, and with it all that was written.
LEMMA SendStream ==
  ASSUME Whole, StreamInv, NEW t \in Threads \ Procs, Send(t)
  PROVE  StreamInv' /\ sent < nextRcd - 1
<1> USE DEF Whole, Known
<1>1. PICK b : b = blk[t]
  OBVIOUS
<1>2. /\ Busy = {} /\ b \in Blocks /\ curW = NoBlk /\ pc[t] \in Publishing
      /\ \A w \in Writers : pc[w] \notin Filling \cup {"link"}
      /\ \A u \in (Threads \ Procs) \ {t} : pc[u] \notin Publishing
  BY <1>1, LastAlone, NoHolder DEF Send, Publishing
<1>3. /\ pc' = [pc EXCEPT ![t] = Resume(t)]
      /\ pc \in [Threads -> WriterPc \cup TimeoutPc \cup ExiterPc \cup ProcPc]
      /\ sent' = nextRcd - 1
      /\ UNCHANGED <<curW, dbkList, blk, addr, mem, rcdNum, pos, nextRcd, seen, rnum>>
  BY DEF Send, Goto, Base, TypeOK, PcType, localVars, blockVars, queueVars, listVars
<1>4. \A p \in Subscribers : inbox'[p] = Append(inbox[p], b)
  <2>1. \A p \in Subscribers : p \in Procs /\ p \in connected /\ ~Gone(p)
    BY WhoElse DEF DeliveryInv, Table, Calm
  <2>2. QED
    BY <1>1, <2>1 DEF Send
<1>5. /\ pc'[t] \notin Publishing \cup Filling \cup {"link"}
      /\ \A u \in Threads \ {t} : pc'[u] = pc[u]
  BY <1>3 DEF Resume, Publishing, Filling
<1>6. /\ \A w \in Writers : pc'[w] \notin Filling \cup {"link"}
      /\ \A u \in Threads \ Procs : pc'[u] \notin Publishing
      /\ \A p \in Subscribers : pc'[p] = pc[p]
  BY <1>2, <1>5, WhoElse
<1>7. Busy' = {}
  BY <1>6 DEF Busy
<1>8. /\ sent \in Nat /\ nextRcd \in Nat /\ rcdNum[b] \in Nat /\ FirstOf(b) \in Nat
      /\ NextOf(b) = FirstOf(b) + rcdNum[b]
  BY <1>2, NumberTypes DEF Base, NextOf, FirstOf
<1>9. FirstOf(b) = sent + 1 /\ NextOf(b) = nextRcd /\ sent < nextRcd - 1
  <2>1. Pending(b, rcdNum[b])
    BY <1>1, <1>2 DEF StreamInv, NumbersDone
  <2>2. rcdNum[b] > 0
    BY <1>1, <1>2 DEF DeliveryInv, Published, RecordInv, Done, Calm
  <2>3. QED
    BY <1>8, <2>1, <2>2 DEF Pending
<1>10. \A c : FirstOf(c)' = FirstOf(c) /\ NextOf(c)' = NextOf(c)
  BY <1>3 DEF FirstOf, NextOf
<1>11. NumbersDone'
  BY <1>2, <1>3, <1>6, <1>7 DEF StreamInv, NumbersDone
<1>12. \A w \in Writers : Numbering(w)'
  BY <1>6 DEF Numbering, Filling
<1>13. sent' < nextRcd'
  BY <1>3, <1>8
<1>14. ASSUME NEW p \in Subscribers
       PROVE  Consecutive(p)'
  <2>1. PICK L : L = Len(inbox[p])
    OBVIOUS
  <2>2. /\ L \in Nat /\ Len(inbox'[p]) = L + 1 /\ inbox'[p][L + 1] = b
        /\ \A i \in 1..L : inbox'[p][i] = inbox[p][i]
    BY <1>2, <1>4, <2>1, AppendProperties, LenProperties DEF Base, TypeOK, ReaderType
  <2>3. /\ \A i \in 0..L : Edge(p, i)' = Edge(p, i)
        /\ Edge(p, L + 1)' = nextRcd
    <3>1. Edge(p, 0)' = Edge(p, 0)
      BY <1>3, <1>6, <1>10 DEF Edge, NextOf
    <3>2. \A i \in 1..L : Edge(p, i)' = Edge(p, i)
      BY <1>3, <2>2 DEF Edge, NextOf
    <3>3. Edge(p, L + 1)' = NextOf(b)
      BY <1>3, <2>2 DEF Edge, NextOf
    <3>4. QED
      BY <1>9, <2>2, <3>1, <3>2, <3>3
  <2>4. Consecutive(p)
    BY DEF StreamInv
  <2>5. \A i \in 1..(L + 1) : FirstOf(inbox[p][i])' = Edge(p, i - 1)'
    <3>1. FirstOf(inbox[p][L + 1])' = Edge(p, L)'
      BY <1>3, <1>9, <2>1, <2>2, <2>3, <2>4 DEF Consecutive, FirstOf
    <3>2. \A i \in 1..L : FirstOf(inbox[p][i])' = Edge(p, i - 1)'
      BY <1>3, <2>1, <2>2, <2>3, <2>4 DEF Consecutive, FirstOf
    <3>3. QED
      BY <2>2, <3>1, <3>2
  <2>6. ToRead(p)' \subseteq ToRead(p) \cup {b}
    <3>1. /\ inbox[p] \in Seq(Blocks) /\ inbox'[p] \in Seq(Blocks)
          /\ DOMAIN inbox[p] = 1..L /\ DOMAIN inbox'[p] = 1..(L + 1)
      <4>1. inbox[p] \in Seq(Blocks) /\ inbox'[p] = Append(inbox[p], b)
        BY <1>4, WhoElse DEF Base, TypeOK, ReaderType
      <4>2. inbox'[p] \in Seq(Blocks)
        BY <1>2, <4>1
      <4>3. QED
        BY <2>1, <2>2, <4>1, <4>2, LenProperties
    <3>2. \A i \in 1..(L + 1) : i = L + 1 \/ i \in 1..L
      BY <2>2
    <3>3. ToSet(inbox'[p]) \subseteq ToSet(inbox[p]) \cup {b}
      BY <2>2, <3>1, <3>2 DEF ToSet
    <3>4. QED
      BY <1>3, <1>6, <3>3 DEF ToRead
  <2>7. \A c \in ToRead(p)' : NextOf(c)' <= sent' + 1
    <3>1. \A c \in ToRead(p) : NextOf(c) \in Nat /\ NextOf(c) <= sent + 1
      BY <2>4, StillToRead, NumberTypes DEF Base, Consecutive
    <3>2. QED
      BY <1>3, <1>8, <1>9, <1>10, <2>6, <3>1
  <2>8. sent' + 1 = Edge(p, L + 1)' /\ Len(inbox'[p]) = L + 1
    BY <1>3, <1>8, <2>2, <2>3
  <2>9. /\ pc'[p] = pc[p] /\ blk'[p] = blk[p] /\ rnum'[p] = rnum[p] /\ seen'[p] = seen[p]
        /\ FirstOf(blk[p])' = FirstOf(blk[p]) /\ NextOf(blk[p])' = NextOf(blk[p])
    BY <1>3, <1>6 DEF FirstOf, NextOf
  <2>10. /\ pc'[p] = "read" => FirstOf(blk[p])' + rnum'[p] = Len(seen'[p]) + 1
         /\ pc'[p] = "finish" => NextOf(blk[p])' = Len(seen'[p]) + 1
    BY <2>4, <2>9 DEF Consecutive
  <2>11. QED
    BY <2>5, <2>7, <2>8, <2>10 DEF Consecutive
<1>15. ASSUME NEW p \in Subscribers
       PROVE  AllStored(p)'
  <2>1. ToRead(p) \cup {b} \subseteq ToRead(p)'
    <3>1. inbox[p] \in Seq(Blocks)
      BY WhoElse DEF Base, TypeOK, ReaderType
    <3>2. ToSet(inbox[p]) \cup {b} \subseteq ToSet(inbox'[p])
      BY <1>2, <1>4, <3>1, AppendProperties, LenProperties DEF ToSet
    <3>3. QED
      BY <1>3, <1>6, <3>2 DEF ToRead
  <2>2. KeptFor(p) \subseteq KeptFor(p)'
    BY <1>1, <1>2, <2>1 DEF KeptFor
  <2>3. \A c \in KeptFor(p) : \A n \in (Len(seen[p]) + 1)..(nextRcd - 1) : Stored(c, n) => Stored(c, n)'
    BY <1>3, <1>6 DEF Stored, Filling
  <2>4. UNCHANGED <<nextRcd, seen>>
    BY <1>3
  <2>5. QED
    BY <2>2, <2>3, <2>4, StoredStays
<1>16. QED
  BY <1>9, <1>11, <1>12, <1>13, <1>14, <1>15 DEF StreamInv

\* The steps of a writer that neither fill a block nor give one up.
LEMMA WriterAside ==
  ASSUME Whole, StreamInv, NEW w \in Writers, WriterMoves(w), \A u \in Threads \ {w} : Same(u),
         ~Fills(w), ~Send(w), ~(Cas(w) /\ curW = blk[w])
  PROVE  StreamInv'
<1> USE DEF Whole, Known, Base, TypeOK, PcType, LocalType, Goto
<1>1. w \in Threads /\ w \in Threads \ Procs /\ ~(Clean(w) \/ WalkStep(w))
  BY WhoElse DEF Threads, DeliveryInv, Table, Walking, Clean, WalkStep, Visit, Visited, VisitSet
<1> DEFINE Aside == /\ UNCHANGED <<sent, nextRcd, seen, curW>>
                    /\ pc[w] \notin Filling
                    /\ \/ pc[w] \notin Numbered /\ pc'[w] \notin Numbered
                       \/ pc[w] \in Publishing /\ pc'[w] \in Publishing /\ blk'[w] = blk[w]
<1>2. Aside
  <2> USE DEF Numbered, Filling, Publishing, queueVars, listVars, localVars, readerVars, envVars
  <2>1. CASE Begin(w) \/ Lock(w) \/ ReadCur(w) \/ Alloc(w)
    BY <1>1, <2>1 DEF Begin, Lock, ReadCur, Alloc
  <2>2. CASE Reread(w)
    BY <1>1, <2>2 DEF Reread, Fills
  <2>3. CASE Pick(w)
    BY <1>1, <2>3 DEF Pick, Fills
  <2>4. CASE Collect(w) \/ Reclaim(w) \/ Fail(w) \/ Scan(w)
    BY <1>1, <2>4 DEF Collect, Reclaim, Fail, Scan, StartWalk
  <2>5. CASE Cas(w) \/ Pub(w) \/ Copy(w)
    BY <1>1, <2>5 DEF Cas, Pub, Copy, Resume
  <2>6. QED
    BY <1>1, <2>1, <2>2, <2>3, <2>4, <2>5 DEF WriterMoves, WriterStep, PubStep, Fills
<1>3. ReadersAlone /\ UNCHANGED inbox
  <2>1. CASE Publishes(w)
    BY <1>1, <2>1, PublishFrame DEF Publishes, Pub, Copy, readerVars
  <2>2. CASE ~Publishes(w)
    BY <2>2, WriterQuiet
  <2>3. QED
    BY <2>1, <2>2
<1>4. ToSet(dbkList) \subseteq Blocks
  BY ElementOfSeq, LenProperties DEF ListType, ToSet
<1>5. ASSUME NEW b \in ToSet(dbkList)
      PROVE  Untouched(b)
  <2>1. pc[w] = "reclaim" => b # cur[w]
    BY DEF ListInv, ListsPartition, InTransit
  <2>2. QED
    BY <1>2, <1>4, <2>1, WriterTouches
<1>6. ToSet(dbkList') \subseteq ToSet(dbkList)
  BY UsedFrom DEF Fills
<1>7. \A t \in Threads \ Procs :
        \/ pc'[t] = pc[t] /\ blk'[t] = blk[t] /\ (t \in Writers => addr'[t] = addr[t])
        \/ pc[t] \notin Numbered /\ pc'[t] \notin Numbered
        \/ pc[t] \in Publishing /\ pc'[t] \in Publishing /\ blk'[t] = blk[t]
  BY <1>2 DEF Same
<1>8. QED
  BY <1>2, <1>3, <1>5, <1>6, <1>7, StreamAside

\* The steps of the shutdown and of the timeout thread.
LEMMA LeaveAside ==
  ASSUME Whole, StreamInv, NEW t \in {Timeout, Exiter},
         \/ TimeoutStep /\ t = Timeout
         \/ (Destroy \/ ExitRead) /\ t = Exiter
         \/ Cas(t) \/ Pub(t) \/ Copy(t)
         \/ \E b \in Blocks : Age(b),
         ~(Cas(t) /\ curW = blk[t])
  PROVE  StreamInv'
<1> USE DEF Whole, Known, Base, TypeOK, PcType, LocalType, Goto
<1>1. t \in Threads /\ t \in Threads \ Procs /\ t \notin Writers
  BY WhoElse DEF Threads
<1>2. /\ UNCHANGED <<sent, nextRcd, seen, curW, inbox, addr, dbkList, mem, rcdNum, pos, idx>>
      /\ UNCHANGED <<refCount, infoMark, connected, readers, rpos, rlen, rnum, restarts>>
      /\ \A u \in Threads \ {t} : pc'[u] = pc[u] /\ blk'[u] = blk[u]
      /\ \/ pc'[t] = pc[t] /\ blk'[t] = blk[t]
         \/ pc[t] \notin Numbered /\ pc'[t] \notin Numbered
         \/ pc[t] \in Publishing /\ pc'[t] \in Publishing /\ blk'[t] = blk[t]
  <2> USE DEF Numbered, Filling, Publishing, queueVars, listVars, localVars, readerVars, blockVars, envVars
  <2>1. CASE TimeoutStep /\ t = Timeout
    BY <1>1, <2>1 DEF TimeoutStep, Wake, TimeoutCheck
  <2>2. CASE Destroy /\ t = Exiter
    BY <1>1, <2>2 DEF Destroy
  <2>3. CASE ExitRead /\ t = Exiter
    BY <1>1, <2>3 DEF ExitRead
  <2>4. CASE Cas(t) \/ Pub(t) \/ Copy(t)
    BY <1>1, <2>4 DEF Cas, Pub, Copy, Resume
  <2>5. CASE \E b \in Blocks : Age(b)
    BY <2>5 DEF Age
  <2>6. QED
    BY <2>1, <2>2, <2>3, <2>4, <2>5
<1>3. ReadersAlone
  BY <1>1, <1>2, WhoElse DEF ReadersAlone
<1>4. \A u \in Threads \ Procs :
        \/ pc'[u] = pc[u] /\ blk'[u] = blk[u] /\ (u \in Writers => addr'[u] = addr[u])
        \/ pc[u] \notin Numbered /\ pc'[u] \notin Numbered
        \/ pc[u] \in Publishing /\ pc'[u] \in Publishing /\ blk'[u] = blk[u]
  BY <1>2
<1>5. QED
  BY <1>2, <1>3, <1>4, StreamAside DEF Untouched

-----------------------------------------------------------------------------
(* The steps of a reader.                                                  *)

\* What a reader does leaves the blocks and everybody else where they are.
OwnStep(p) ==
  /\ UNCHANGED <<curW, dbkList, mem, rcdNum, pos, sent, nextRcd, addr>>
  /\ \A u \in Threads \ {p} : pc'[u] = pc[u] /\ blk'[u] = blk[u]
  /\ \A q \in Procs \ {p} : inbox'[q] = inbox[q] /\ rnum'[q] = rnum[q] /\ seen'[q] = seen[q]

LEMMA ReaderOwn ==
  ASSUME Whole, Calm', NEW p \in Procs, Serves(p) \/ Joins(p)
  PROVE  OwnStep(p)
<1> USE DEF Whole, Known, Base
<1>1. CASE Serves(p)
  <2>1. Elsewhere(p)
    BY <1>1, ReaderElsewhere
  <2>2. UNCHANGED <<sent, nextRcd, addr>>
    BY <1>1 DEF Serves, Recv, Read, Finish, Dec, Recheck, SetRead, localVars, envVars
  <2>3. \A q \in Procs \ {p} : seen'[q] = seen[q]
    BY <1>1 DEF Serves, Recv, Read, Finish, Dec, Recheck, SetRead, readerVars, TypeOK, ReaderType
  <2>4. QED
    BY <2>1, <2>2, <2>3 DEF Elsewhere, OwnStep
<1>2. CASE Joins(p)
  <2>1. /\ \A u \in Threads \ {p} : pc'[u] = pc[u]
        /\ UNCHANGED <<curW, dbkList, blockVars, blk, inbox, rnum>>
    BY <1>2, JoinStep
  <2>2. UNCHANGED <<sent, nextRcd, addr, seen>>
    BY <1>2 DEF Joins, Register, Connect, AddLock, Add, readerVars, localVars, envVars
  <2>3. QED
    BY <2>1, <2>2 DEF OwnStep, blockVars
<1>3. QED
  BY <1>1, <1>2

\* So the others go on as they did.
LEMMA ReaderStream ==
  ASSUME Whole, StreamInv, NEW p \in Procs, OwnStep(p),
         p \in Subscribers => Consecutive(p)' /\ AllStored(p)'
  PROVE  StreamInv'
<1> USE DEF OwnStep
<1>1. \A t \in Threads \ Procs : pc'[t] = pc[t] /\ blk'[t] = blk[t]
  OBVIOUS
<1>2. \A w \in Writers : pc'[w] = pc[w] /\ blk'[w] = blk[w]
  BY <1>1, WhoElse
<1>3. Busy' = Busy
  BY <1>2 DEF Busy
<1>4. NumbersDone'
  BY <1>1, <1>3 DEF StreamInv, NumbersDone, Pending, FirstOf
<1>5. \A w \in Writers : Numbering(w)'
  BY <1>2 DEF StreamInv, Numbering, Pending, FirstOf
<1>6. ASSUME NEW q \in Subscribers \ {p}
      PROVE  Consecutive(q)' /\ AllStored(q)'
  <2>1. /\ pc'[q] = pc[q] /\ blk'[q] = blk[q] /\ inbox'[q] = inbox[q] /\ rnum'[q] = rnum[q]
        /\ seen'[q] = seen[q]
    BY WhoElse
  <2>2. Consecutive(q) /\ AllStored(q)
    BY DEF StreamInv
  <2>3. ToRead(q)' = ToRead(q)
    BY <2>1 DEF ToRead
  <2>4. KeptFor(q)' = KeptFor(q)
    BY <1>1, <1>3, <2>3 DEF KeptFor
  <2>5. \A i : Edge(q, i)' = Edge(q, i)
    BY <2>1 DEF Edge, NextOf
  <2>6. Consecutive(q)'
    BY <2>1, <2>2, <2>3, <2>5 DEF Consecutive, FirstOf, NextOf
  <2>7. \A b : \A n : Stored(b, n)' <=> Stored(b, n)
    BY <1>2 DEF Stored
  <2>8. AllStored(q)'
    BY <2>1, <2>2, <2>4, <2>7 DEF AllStored
  <2>9. QED
    BY <2>6, <2>8
<1>7. QED
  BY <1>4, <1>5, <1>6 DEF StreamInv

\* What a reader's own step leaves of it.
LEMMA ReaderKeeps ==
  ASSUME NEW p \in Subscribers, OwnStep(p)
  PROVE  /\ \A b : FirstOf(b)' = FirstOf(b) /\ NextOf(b)' = NextOf(b)
         /\ \A b : \A n : Stored(b, n)' <=> Stored(b, n)
         /\ KeptFor(p) \ ToRead(p) \subseteq KeptFor(p)'
         /\ ToRead(p)' \subseteq KeptFor(p)'
<1> USE DEF OwnStep
<1>1. \A t \in Threads \ Procs : pc'[t] = pc[t] /\ blk'[t] = blk[t]
  BY WhoElse
<1>2. \A w \in Writers : pc'[w] = pc[w] /\ blk'[w] = blk[w]
  BY <1>1, WhoElse
<1>3. Busy' = Busy
  BY <1>2 DEF Busy
<1>4. \A b : \A n : Stored(b, n)' <=> Stored(b, n)
  BY <1>2 DEF Stored
<1>5. \A b : FirstOf(b)' = FirstOf(b) /\ NextOf(b)' = NextOf(b)
  BY DEF FirstOf, NextOf
<1>6. KeptFor(p) \ ToRead(p) \subseteq KeptFor(p)' /\ ToRead(p)' \subseteq KeptFor(p)'
  BY <1>1, <1>3 DEF KeptFor
<1>7. QED
  BY <1>4, <1>5, <1>6

\* A reader takes the offset of its next block.
LEMMA RecvStream ==
  ASSUME Whole, Calm', StreamInv, NEW p \in Subscribers, Recv(p)
  PROVE  StreamInv'
<1> USE DEF Whole, Known
<1>1. PICK L, d : L = Len(inbox[p]) /\ d = inbox[p][1]
  OBVIOUS
<1>2. p \in Procs /\ OwnStep(p) /\ UNCHANGED <<sent, nextRcd, addr, seen>> /\ pc[p] = "poll"
  BY ReaderOwn, WhoElse DEF Serves, OwnStep, Recv
<1>3. /\ ToRead(p)' = ToRead(p) /\ pc'[p] = "read" /\ blk'[p] = d /\ rnum'[p] = 0
      /\ L \in Nat /\ L > 0 /\ Len(inbox'[p]) = L - 1
      /\ \A i \in 1..(L - 1) : inbox'[p][i] = inbox[p][i + 1]
  BY <1>1, RecvDelivery, NumberTypes, WhoElse DEF Base
<1>4. /\ \A b : FirstOf(b)' = FirstOf(b) /\ NextOf(b)' = NextOf(b)
      /\ \A b : \A n : Stored(b, n)' <=> Stored(b, n)
      /\ KeptFor(p) \subseteq KeptFor(p)'
  BY <1>2, <1>3, ReaderKeeps
<1>5. Consecutive(p)
  BY DEF StreamInv
<1>6. \A i \in 0..(L - 1) : Edge(p, i)' = Edge(p, i + 1)
  <2>1. Edge(p, 0)' = NextOf(d)
    BY <1>3, <1>4 DEF Edge, NextOf
  <2>2. Edge(p, 1) = NextOf(d)
    BY <1>1 DEF Edge
  <2>3. \A i \in 1..(L - 1) : Edge(p, i)' = NextOf(inbox[p][i + 1])
    BY <1>3, <1>4 DEF Edge, NextOf
  <2>4. \A i \in 1..(L - 1) : Edge(p, i + 1) = NextOf(inbox[p][i + 1])
    BY <1>3 DEF Edge
  <2>5. QED
    BY <1>3, <2>1, <2>2, <2>3, <2>4
<1>7. Consecutive(p)'
  <2>1. ASSUME NEW i \in 1..(L - 1)
        PROVE  FirstOf(inbox[p][i])' = Edge(p, i - 1)'
    <3>1. i + 1 \in 1..L /\ i - 1 \in 0..(L - 1) /\ (i + 1) - 1 = i /\ (i - 1) + 1 = i
      BY <1>3
    <3>2. FirstOf(inbox[p][i + 1]) = Edge(p, i) /\ Edge(p, i - 1)' = Edge(p, i)
      BY <1>1, <1>5, <1>6, <3>1 DEF Consecutive
    <3>3. QED
      BY <1>3, <1>4, <3>2 DEF FirstOf
  <2>2. sent' + 1 = Edge(p, L - 1)'
    BY <1>1, <1>2, <1>3, <1>5, <1>6 DEF Consecutive
  <2>3. FirstOf(d) = Len(seen[p]) + 1
    <3>1. 1 \in 1..L /\ 1 - 1 = 0
      BY <1>3
    <3>2. FirstOf(d) = Edge(p, 0)
      BY <1>1, <1>5, <3>1 DEF Consecutive
    <3>3. QED
      BY <1>2, <3>2 DEF Edge
  <2>4. FirstOf(d) \in Nat
    BY <2>3, NumberTypes DEF Base
  <2>5. FirstOf(blk[p])' + rnum'[p] = Len(seen'[p]) + 1
    BY <1>2, <1>3, <1>4, <2>3, <2>4 DEF FirstOf
  <2>6. \A b \in ToRead(p)' : NextOf(b)' <= sent' + 1
    BY <1>2, <1>3, <1>4, <1>5 DEF Consecutive
  <2>7. QED
    BY <1>3, <2>1, <2>2, <2>5, <2>6 DEF Consecutive
<1>8. AllStored(p)'
  BY <1>2, <1>4, StoredStays
<1>9. QED
  BY <1>2, <1>7, <1>8, ReaderStream

\* The record handed over is the one that follows the last.
LEMMA ReadNumber ==
  ASSUME Whole, StreamInv, NEW p \in Subscribers, Read(p)
  PROVE  /\ seen' = [seen EXCEPT ![p] = Append(@, Len(@) + 1)]
         /\ Len(seen[p]) + 1 <= sent
         /\ Len(seen'[p]) = Len(seen[p]) + 1 /\ NextOf(blk[p]) <= sent + 1
         /\ FirstOf(blk[p]) + rnum[p] = Len(seen[p]) + 1
<1> USE DEF Whole, Known
<1>1. PICK b : b = blk[p]
  OBVIOUS
<1>2. /\ pc[p] = "read" /\ rnum[p] < rcdNum[b] /\ b \in ToRead(p)
      /\ seen' = [seen EXCEPT ![p] = Append(@, mem[b][rpos[p]].id)]
  BY <1>1, ReadNext DEF Read, ToRead
<1>3. b \in ToSet(dbkList) \ Busy
  BY <1>2, StillToRead DEF Unknown
<1>4. rpos[p] \in StartsIn(mem[b], pos[b]) /\ rnum[p] = Cardinality(StartsIn(mem[b], rpos[p]))
  BY <1>1, <1>2 DEF DeliveryInv, Reading
<1>5. NumberedIn(mem[b], pos[b])
  BY <1>3 DEF StreamInv, NumbersDone
<1>6. mem[b][rpos[p]].id = FirstOf(b) + rnum[p]
  BY <1>4, <1>5 DEF NumberedIn, FirstOf
<1>7. FirstOf(b) + rnum[p] = Len(seen[p]) + 1 /\ NextOf(b) <= sent + 1
  BY <1>1, <1>2 DEF StreamInv, Consecutive
<1>8. FirstOf(b) \in Nat /\ rcdNum[b] \in Nat /\ rnum[p] \in Nat /\ sent \in Nat /\ Len(seen[p]) \in Nat
      /\ NextOf(b) = FirstOf(b) + rcdNum[b]
  BY <1>2, StillToRead, NumberTypes DEF Base, FirstOf, NextOf
<1>9. Len(seen[p]) + 1 <= sent
  BY <1>2, <1>7, <1>8
<1>10. seen \in [Procs -> Seq(Nat)] /\ p \in Procs
  BY WhoElse DEF Base, TypeOK, ReaderType
<1>11. seen' = [seen EXCEPT ![p] = Append(@, Len(@) + 1)]
  BY <1>2, <1>6, <1>7, <1>10
<1>12. Len(seen'[p]) = Len(seen[p]) + 1
  BY <1>8, <1>10, <1>11
<1>13. QED
  BY <1>1, <1>7, <1>9, <1>11, <1>12

\* A reader reads a record.
LEMMA ReadStream ==
  ASSUME Whole, Calm', StreamInv, NEW p \in Subscribers, Read(p)
  PROVE  StreamInv'
<1> USE DEF Whole, Known
<1>1. PICK b, n, r : b = blk[p] /\ n = Len(seen[p]) /\ r = rnum[p]
  OBVIOUS
<1>2. p \in Procs /\ OwnStep(p) /\ UNCHANGED <<sent, nextRcd, addr>> /\ pc[p] = "read"
  BY ReaderOwn, WhoElse DEF Serves, OwnStep, Read
<1>3. /\ ToRead(p)' = ToRead(p) /\ UNCHANGED <<blk, inbox>> /\ pc'[p] \in {"read", "finish"}
      /\ pc'[p] = "finish" => r + 1 = rcdNum[b]
      /\ rnum' = [rnum EXCEPT ![p] = @ + 1]
  BY <1>1, ReadNext
<1>4. Len(seen'[p]) = n + 1 /\ FirstOf(b) + r = n + 1
  BY <1>1, ReadNumber
<1>5. /\ \A c : FirstOf(c)' = FirstOf(c) /\ NextOf(c)' = NextOf(c)
      /\ \A c : \A k : Stored(c, k)' <=> Stored(c, k)
      /\ KeptFor(p) \subseteq KeptFor(p)'
  BY <1>2, <1>3, ReaderKeeps
<1>6. rnum'[p] = r + 1
  BY <1>1, <1>2, <1>3 DEF Base, TypeOK, ReaderType
<1>7. b \in Blocks /\ n \in Nat /\ r \in Nat /\ FirstOf(b) \in Nat /\ rcdNum[b] \in Nat
      /\ NextOf(b) = FirstOf(b) + rcdNum[b]
  BY <1>1, <1>2, StillToRead, NumberTypes DEF Base, ToRead, FirstOf, NextOf
<1>8. Consecutive(p)
  BY DEF StreamInv
<1>9. pc'[p] = "finish" => NextOf(b) = n + 2
  BY <1>3, <1>4, <1>7
<1>10. \A i : Edge(p, i)' = Edge(p, i)
  <2>1. Edge(p, 0) = NextOf(b)
    BY <1>1, <1>2 DEF Edge
  <2>2. Edge(p, 0)' = NextOf(b)
    <3>1. CASE pc'[p] = "read"
      BY <1>1, <1>3, <1>5, <3>1 DEF Edge, NextOf
    <3>2. CASE pc'[p] = "finish"
      BY <1>4, <1>7, <1>9, <3>2 DEF Edge
    <3>3. QED
      BY <1>3, <3>1, <3>2
  <2>3. \A i : i # 0 => Edge(p, i)' = Edge(p, i)
    BY <1>3, <1>5 DEF Edge, NextOf
  <2>4. QED
    BY <2>1, <2>2, <2>3
<1>11. Consecutive(p)'
  <2>1. \A i \in 1..Len(inbox'[p]) : FirstOf(inbox[p][i])' = Edge(p, i - 1)'
    BY <1>3, <1>5, <1>8, <1>10 DEF Consecutive, FirstOf
  <2>2. sent' + 1 = Edge(p, Len(inbox[p]))'
    <3>1. PICK l : l = Len(inbox[p])
      OBVIOUS
    <3>2. Len(inbox'[p]) = l /\ sent + 1 = Edge(p, l)
      BY <1>3, <1>8, <3>1 DEF Consecutive
    <3>3. QED
      BY <1>2, <1>10, <3>2 DEF Edge
  <2>3. \A c \in ToRead(p)' : NextOf(c)' <= sent' + 1
    BY <1>2, <1>3, <1>5, <1>8 DEF Consecutive
  <2>4. pc'[p] = "read" => FirstOf(blk[p])' + rnum'[p] = Len(seen'[p]) + 1
    <3>1. FirstOf(blk[p])' = FirstOf(b)'
      BY <1>1, <1>3 DEF FirstOf
    <3>2. FirstOf(blk[p])' = FirstOf(b)
      BY <1>5, <3>1
    <3>3. QED
      BY <1>4, <1>6, <1>7, <3>2
  <2>5. pc'[p] = "finish" => NextOf(blk[p])' = Len(seen'[p]) + 1
    BY <1>1, <1>3, <1>4, <1>5, <1>7, <1>9 DEF NextOf
  <2>6. QED
    BY <2>1, <2>2, <2>3, <2>4, <2>5 DEF Consecutive
<1>12. AllStored(p)'
  <2>1. nextRcd \in Nat /\ nextRcd' = nextRcd
    BY <1>2, NumberTypes DEF Base
  <2>2. ASSUME NEW k \in (Len(seen'[p]) + 1)..(nextRcd' - 1)
        PROVE  \E c \in KeptFor(p)' : Stored(c, k)'
    <3>1. k \in (Len(seen[p]) + 1)..(nextRcd - 1)
      BY <1>1, <1>4, <1>7, <2>1
    <3>2. PICK c \in KeptFor(p) : Stored(c, k)
      BY <3>1 DEF StreamInv, AllStored
    <3>3. QED
      BY <1>5, <3>2
  <2>3. QED
    BY <2>2 DEF AllStored
<1>13. QED
  BY <1>2, <1>11, <1>12, ReaderStream

\* A reader is through with a block: it was handed all of its records.
LEMMA FinishStream ==
  ASSUME Whole, Calm', StreamInv, NEW p \in Subscribers,
         Finish(p) \/ Dec(p) \/ Recheck(p) \/ SetRead(p)
  PROVE  StreamInv'
<1> USE DEF Whole, Known
<1>1. PICK b, L : b = blk[p] /\ L = Len(inbox[p])
  OBVIOUS
<1>2. p \in Procs /\ OwnStep(p) /\ UNCHANGED <<sent, nextRcd, addr, seen, blk, inbox, rnum>>
  BY ReaderOwn, WhoElse DEF Serves, Finish, Dec, Recheck, SetRead, localVars, readerVars, envVars
<1>3. pc[p] # "read" /\ pc'[p] \notin {"read", "finish"}
  BY WhoElse DEF Finish, Dec, Recheck, SetRead, Goto, Base, TypeOK, PcType
<1>4. /\ \A c : FirstOf(c)' = FirstOf(c) /\ NextOf(c)' = NextOf(c)
      /\ \A c : \A k : Stored(c, k)' <=> Stored(c, k)
      /\ KeptFor(p) \ ToRead(p) \subseteq KeptFor(p)'
      /\ ToRead(p)' \subseteq KeptFor(p)'
  BY <1>2, ReaderKeeps
<1>5. /\ ToRead(p)' \subseteq ToRead(p)
      /\ ToRead(p) \subseteq ToRead(p)' \cup (IF pc[p] = "finish" THEN {b} ELSE {})
  BY <1>1, <1>2, <1>3 DEF ToRead
<1>6. Consecutive(p)
  BY DEF StreamInv
<1>7. \A i : Edge(p, i)' = Edge(p, i)
  BY <1>2, <1>3, <1>4 DEF Edge, NextOf
<1>8. Consecutive(p)'
  <2>1. \A i \in 1..L : FirstOf(inbox[p][i])' = Edge(p, i - 1)'
    BY <1>1, <1>2, <1>4, <1>6, <1>7 DEF Consecutive, FirstOf
  <2>2. sent' + 1 = Edge(p, L)'
    BY <1>1, <1>2, <1>6, <1>7 DEF Consecutive
  <2>3. \A c \in ToRead(p)' : NextOf(c)' <= sent' + 1
    BY <1>2, <1>4, <1>5, <1>6 DEF Consecutive
  <2>4. Len(inbox'[p]) = L /\ Edge(p, Len(inbox[p]))' = Edge(p, L)'
    BY <1>1, <1>2 DEF Edge
  <2>5. QED
    BY <1>3, <2>1, <2>2, <2>3, <2>4 DEF Consecutive
<1>9. ASSUME pc[p] = "finish", NEW k \in (Len(seen[p]) + 1)..(nextRcd - 1), Stored(b, k)
      PROVE  FALSE
  <2>1. b \in ToRead(p) /\ NextOf(b) = Len(seen[p]) + 1
    BY <1>1, <1>6, <1>9 DEF ToRead, Consecutive
  <2>2. b \in Blocks /\ b \in ToSet(dbkList) \ Busy /\ Done(b)
    BY <2>1, StillToRead DEF Unknown
  <2>3. PICK c \in StartsIn(mem[b], pos[b]) : mem[b][c].id = k
    BY <1>9 DEF Stored
  <2>4. /\ NumberedIn(mem[b], pos[b]) /\ ChainIn(mem[b], rcdNum[b], pos[b])
        /\ mem[b][0].id \in Nat /\ rcdNum[b] \in Nat /\ pos[b] \in Nat /\ Len(seen[p]) \in Nat
    BY <2>2, NumberTypes DEF StreamInv, NumbersDone, Done, FirstOf, Base, TypeOK, BlockType
  <2>5. mem[b][c].id < mem[b][0].id + rcdNum[b]
    BY <2>4, NumberedOrder
  <2>6. QED
    BY <1>9, <2>1, <2>3, <2>4, <2>5 DEF NextOf
<1>10. AllStored(p)'
  <2> SUFFICES ASSUME NEW k \in (Len(seen[p]) + 1)..(nextRcd - 1)
               PROVE  \E c \in KeptFor(p)' : Stored(c, k)'
    BY <1>2 DEF AllStored
  <2>1. PICK c \in KeptFor(p) : Stored(c, k)
    BY DEF StreamInv, AllStored
  <2>2. c \in KeptFor(p)'
    BY <1>4, <1>5, <1>9, <2>1
  <2>3. QED
    BY <1>4, <2>1, <2>2
<1>11. QED
  BY <1>2, <1>8, <1>10, ReaderStream

-----------------------------------------------------------------------------

\* Every step of a reader, of one that joins late too.
LEMMA AnyReaderStream ==
  ASSUME Whole, Calm', StreamInv, NEW p \in Procs, ReaderStep(p) \/ WalkStep(p) \/ ReaderCrash(p)
  PROVE  StreamInv'
<1> USE DEF Whole, Known
<1>1. ~ReaderCrash(p) /\ ~WalkStep(p)
  <2>1. ~WalkStep(p)
    BY DEF WalkStep, Visit, Visited, VisitSet, DeliveryInv, Table, Serving, Joining
  <2>2. ~ReaderCrash(p)
    BY WhoElse DEF ReaderCrash, Goto, Calm, Gone, Base, TypeOK, PcType
  <2>3. QED
    BY <2>1, <2>2
<1>2. Serves(p) \/ Joins(p)
  BY <1>1 DEF ReaderStep, Serves, Joins
<1>3. CASE p \in Subscribers
  <2>1. Serves(p)
    BY <1>2, <1>3, JoinStep
  <2>2. QED
    BY <1>3, <2>1, RecvStream, ReadStream, FinishStream DEF Serves
<1>4. CASE p \notin Subscribers
  BY <1>2, <1>4, ReaderOwn, ReaderStream
<1>5. QED
  BY <1>3, <1>4

(* The invariant is one.                                                   *)

\* Before the first record.
LEMMA StreamStart ==
  ASSUME Init
  PROVE  StreamInv
<1>1. /\ sent = 0 /\ nextRcd = 1 /\ curW = NoBlk /\ dbkList = <<>>
      /\ \A w \in Writers : pc[w] = "idle"
      /\ \A t \in Threads \ Procs : pc[t] \in {"idle", "tsleep", "xoff"}
  BY WhoElse DEF Init, Threads
<1>2. \A p \in Subscribers : pc[p] = "poll" /\ inbox[p] = <<>> /\ seen[p] = <<>>
  BY WhoElse DEF Init, Subscribers
<1>3. NumbersDone
  BY <1>1 DEF NumbersDone, ToSet, Publishing
<1>4. \A w \in Writers : Numbering(w)
  BY <1>1 DEF Numbering
<1>5. \A p \in Subscribers : ToRead(p) = {} /\ Len(inbox[p]) = 0 /\ Len(seen[p]) = 0
  BY <1>2 DEF ToRead, ToSet
<1>6. \A p \in Subscribers : Consecutive(p) /\ AllStored(p)
  BY <1>1, <1>2, <1>5 DEF Consecutive, AllStored, Edge
<1>7. QED
  BY <1>1, <1>3, <1>4, <1>6 DEF StreamInv

\* Every step of the queue keeps StreamInv.
LEMMA StreamStep ==
  ASSUME Whole, StreamInv, CalmNext, Whole'
  PROVE  StreamInv'
<1> USE DEF Whole, Known
<1>1. Next /\ Calm' /\ ~Restart
  BY DEF CalmNext, Restart, Calm
<1>2. ASSUME NEW w \in Writers, WriterMoves(w), \A u \in Threads \ {w} : Same(u)
      PROVE  StreamInv'
  <2>1. w \in Threads \ Procs
    BY WhoElse
  <2>2. CASE Fills(w)
    BY <1>2, <2>2, FillsStream DEF Base
  <2>3. CASE Send(w)
    BY <2>1, <2>3, SendStream
  <2>4. CASE Cas(w) /\ curW = blk[w]
    BY <1>1, <2>1, <2>4, CasStream
  <2>5. QED
    BY <1>2, <2>2, <2>3, <2>4, WriterAside
<1>3. CASE OtherMoves
  <2>1. ASSUME NEW t \in {Timeout, Exiter}, PubStep(t)
        PROVE  StreamInv'
    <3>1. CASE Send(t)
      BY <3>1, SendStream, WhoElse
    <3>2. CASE Cas(t) /\ curW = blk[t]
      BY <1>1, <3>2, CasStream, WhoElse
    <3>3. QED
      BY <2>1, <3>1, <3>2, LeaveAside DEF PubStep
  <2>2. CASE TimeoutStep
    <3>1. ~Cas(Timeout)
      BY <2>2 DEF Cas, TimeoutStep, Wake, TimeoutCheck
    <3>2. QED
      BY <2>2, <3>1, LeaveAside
  <2>3. CASE Destroy \/ ExitRead
    <3>1. ~Cas(Exiter)
      BY <2>3 DEF Cas, Destroy, ExitRead
    <3>2. QED
      BY <2>3, <3>1, LeaveAside
  <2>4. CASE \E b \in Blocks : Age(b)
    <3>1. ~(Cas(Exiter) /\ curW = blk[Exiter])
      BY <2>4, WhoElse DEF Cas, Age, Goto, Base, TypeOK, PcType, Threads
    <3>2. QED
      BY <2>4, <3>1, LeaveAside
  <2>5. ASSUME NEW p \in Procs, WalkStep(p) \/ ReaderStep(p) \/ ReaderCrash(p)
        PROVE  StreamInv'
    BY <1>1, <2>5, AnyReaderStream
  <2>6. QED
    BY <1>3, <2>1, <2>2, <2>3, <2>4, <2>5 DEF OtherMoves
<1>4. QED
  BY <1>1, <1>2, <1>3, WhoMoves DEF Base

\* A step that changes nothing keeps it too.
LEMMA StreamStutter ==
  ASSUME StreamInv, UNCHANGED vars
  PROVE  StreamInv'
<1>1. UNCHANGED <<curW, dbkList, pc, blk, addr, inbox, rnum, mem, pos, rcdNum, sent, nextRcd, seen>>
  BY DEF vars, queueVars, blockVars, localVars, readerVars, envVars
<1>2. Busy' = Busy
  BY <1>1 DEF Busy
<1>3. NumbersDone'
  BY <1>1, <1>2 DEF StreamInv, NumbersDone, Pending, FirstOf
<1>4. \A w \in Writers : Numbering(w)'
  BY <1>1 DEF StreamInv, Numbering, Pending, FirstOf
<1>5. \A p \in Subscribers : ToRead(p)' = ToRead(p) /\ \A i : Edge(p, i)' = Edge(p, i)
  BY <1>1 DEF ToRead, Edge, NextOf
<1>6. \A p \in Subscribers : Consecutive(p)'
  BY <1>1, <1>5 DEF StreamInv, Consecutive, FirstOf, NextOf
<1>7. \A p \in Subscribers : AllStored(p)'
  BY <1>1, <1>2, <1>5 DEF StreamInv, AllStored, KeptFor, Stored
<1>8. QED
  BY <1>1, <1>3, <1>4, <1>6, <1>7 DEF StreamInv

LEMMA StreamInvariant == CalmSpec => [](Whole /\ StreamInv)
<1>1. Init => StreamInv
  BY StreamStart
<1>2. Whole /\ StreamInv /\ [CalmNext]_vars /\ Whole' => StreamInv'
  BY StreamStep, StreamStutter
<1>3. CalmSpec => Init /\ [][CalmNext]_vars
  BY DEF CalmSpec
<1>4. QED
  BY <1>1, <1>2, <1>3, WholeInvariant, PTL

-----------------------------------------------------------------------------
(* The refinement.                                                         *)

\* The addresses of the blocks.
Places == {c \in Blocks \X Cells : c[2] < BlkSize[c[1]]}

\* They are finitely many.
LEMMA PlacesFinite == IsFiniteSet(Places)
<1>1. IsFiniteSet(Blocks)
  <2>1. /\ Layout \in [1..Len(Layout) -> Blocks] /\ Len(Layout) \in Nat
        /\ \A b \in Blocks : \E i \in 1..Len(Layout) : Layout[i] = b
    BY QueueAssumption, LenProperties DEF ToSet
  <2>2. Layout \in Surjection(1..Len(Layout), Blocks)
    BY <2>1 DEF Surjection
  <2>3. IsFiniteSet(1..Len(Layout))
    BY <2>1, FS_Interval
  <2>4. QED
    BY <2>2, <2>3, FS_Surjection
<1>2. IsFiniteSet(Cells)
  <2> DEFINE S == {0..(BlkSize[b] - 1) : b \in Blocks}
             g == [b \in Blocks |-> 0..(BlkSize[b] - 1)]
  <2>1. g \in Surjection(Blocks, S)
    BY DEF Surjection
  <2>2. IsFiniteSet(S)
    <3> HIDE DEF g, S
    <3>1. QED
      BY <1>1, <2>1, FS_Surjection
  <2>3. \A b \in Blocks : IsFiniteSet(0..(BlkSize[b] - 1))
    <3>1. \A b \in Blocks : BlkSize[b] - 1 \in Int /\ 0 \in Int
      BY QueueAssumption
    <3>2. QED
      BY <3>1, FS_Interval
  <2>4. \A T \in S : IsFiniteSet(T)
    BY <2>3
  <2>5. Cells = UNION S
    BY DEF Cells
  <2> HIDE DEF g, S
  <2>6. QED
    BY <2>2, <2>4, <2>5, FS_UNION
<1>3. IsFiniteSet(Blocks \X Cells)
  BY <1>1, <1>2, FS_Product
<1>4. Places \in SUBSET (Blocks \X Cells)
  BY DEF Places
<1>5. QED
  BY <1>3, <1>4, FS_Subset

\* What a reader was not yet handed is stored in different places, and none of them is the one
\* a writer finishes a record at: so there were fewer such records than places.
LEMMA WriterWaits ==
  ASSUME Whole, StreamInv, NEW w \in Writers, Body(w), NEW p \in Subscribers
  PROVE  nextRcd - 1 - Len(seen[p]) < Cardinality(Places)
<1> USE DEF Whole, Known
<1> DEFINE a == <<blk[w], addr[w]>>
           N == (Len(seen[p]) + 1)..(nextRcd - 1)
           Others == Places \ {a}
           Has(c, n) == mem[c[1]][c[2]].id = n
           f == [n \in N |-> CHOOSE c \in Others : Has(c, n)]
<1>1. Len(seen[p]) \in Nat /\ nextRcd \in Nat
  BY NumberTypes DEF Base
<1>2. a \in Places
  <2>1. /\ blk[w] \in Blocks /\ addr[w] \in Cells /\ addr[w] \in Nat /\ size[w] \in Nat \ {0}
        /\ pos[blk[w]] = addr[w] + size[w]
    BY RecordPut
  <2>2. pos[blk[w]] <= BlkSize[blk[w]] /\ BlkSize[blk[w]] \in Nat
    BY <2>1, QueueAssumption DEF NoOverrun
  <2>3. addr[w] < BlkSize[blk[w]]
    BY <2>1, <2>2
  <2>4. QED
    BY <2>1, <2>3 DEF Places
<1>3. ASSUME NEW n \in N
      PROVE  \E c \in Others : Has(c, n)
  <2>1. PICK b \in KeptFor(p) : Stored(b, n)
    BY DEF StreamInv, AllStored
  <2>2. b \in Blocks
    BY KeptUsed
  <2>3. PICK e \in StartsIn(mem[b], pos[b]) :
          /\ mem[b][e].id = n
          /\ \A v \in Writers : pc[v] \in {"mark", "body"} /\ blk[v] = b => e < addr[v]
    BY <2>1 DEF Stored
  <2>4. pos[b] \in Nat /\ pos[b] <= BlkSize[b] /\ BlkSize[b] \in Nat
    BY <2>2, QueueAssumption DEF NoOverrun, Base, TypeOK, BlockType
  <2>5. e \in 0..(BlkSize[b] - 1)
    BY <2>3, <2>4 DEF StartsIn
  <2>6. e \in Cells /\ e < BlkSize[b]
    BY <2>2, <2>4, <2>5 DEF Cells
  <2>7. <<b, e>> \in Places
    BY <2>2, <2>6 DEF Places
  <2>8. addr[w] \in Nat
    BY RecordPut
  <2>9. <<b, e>> # a
    BY <2>3, <2>5, <2>8 DEF Body
  <2>10. Has(<<b, e>>, n)
    BY <2>3
  <2>11. QED
    BY <2>7, <2>9, <2>10
<1>4. f \in Injection(N, Others)
  <2> HIDE DEF N, Others
  <2>1. \A n \in N : f[n] \in Others /\ mem[f[n][1]][f[n][2]].id = n
    BY <1>3
  <2>2. f \in [N -> Others]
    BY <2>1
  <2> HIDE DEF f
  <2>3. QED
    BY <2>1, <2>2 DEF Injection, IsInjective
<1>5. IsFiniteSet(Others) /\ Cardinality(Others) = Cardinality(Places) - 1
  BY <1>2, PlacesFinite, FS_RemoveElement
<1>6. Cardinality(N) <= Cardinality(Others)
  <2> HIDE DEF N, Others, f
  <2>1. QED
    BY <1>4, <1>5, FS_Injection
<1>7. nextRcd - 1 - Len(seen[p]) <= Cardinality(N)
  <2>1. PICK l \in Nat : l = Len(seen[p])
    BY <1>1
  <2>2. l + 1 \in Int /\ nextRcd - 1 \in Int
    BY <1>1
  <2>3. Cardinality((l + 1)..(nextRcd - 1)) = IF l + 1 > nextRcd - 1 THEN 0 ELSE (nextRcd - 1) - (l + 1) + 1
    BY <2>2, FS_Interval
  <2>4. nextRcd - 1 - l <= Cardinality((l + 1)..(nextRcd - 1))
    BY <1>1, <2>3
  <2>5. QED
    BY <2>1, <2>4
<1>8. Cardinality(Places) \in Nat /\ Cardinality(N) \in Int
  <2>1. Len(seen[p]) + 1 \in Int /\ nextRcd - 1 \in Int
    BY <1>1
  <2>2. IsFiniteSet(N)
    BY <2>1, FS_Interval
  <2> HIDE DEF N
  <2>3. QED
    BY <2>2, PlacesFinite, FS_CardinalityType
<1> HIDE DEF N, Others
<1>9. PICK l \in Nat : l = Len(seen[p])
  BY <1>1
<1>10. PICK k \in Int, q \in Nat : k = Cardinality(N) /\ q = Cardinality(Places)
  BY <1>8
<1>11. nextRcd - 1 - l <= k /\ k <= q - 1
  BY <1>5, <1>6, <1>7, <1>9, <1>10
<1>12. nextRcd - 1 - l < q
  BY <1>1, <1>11
<1>13. QED
  BY <1>9, <1>10, <1>12

\* The three steps that count for the stream.
LEMMA StreamActions ==
  ASSUME Whole, CalmNext
  PROVE  \/ \E w \in Writers : Body(w)
         \/ \E t \in Threads \ Procs : Send(t)
         \/ \E p \in Procs : Read(p)
         \/ UNCHANGED <<nextRcd, sent, seen>>
<1> USE DEF envVars, readerVars
<1>1. Next /\ ~Restart
  <2>1. Next /\ restarts = 0 /\ restarts' = 0
    BY DEF CalmNext, Calm, Whole, Known
  <2>2. QED
    BY <2>1 DEF Restart
<1>2. ASSUME NEW w \in Writers, WriterStep(w), ~Body(w)
      PROVE  UNCHANGED <<nextRcd, sent, seen>>
  <2>1. CASE Begin(w) \/ Lock(w) \/ ReadCur(w) \/ Reread(w) \/ Count(w) \/ Alloc(w) \/ Collect(w)
    BY <2>1 DEF Begin, Lock, ReadCur, Reread, Count, Alloc, Collect
  <2>2. CASE Reclaim(w) \/ Pick(w) \/ Link(w) \/ SetCur(w) \/ SetWrite(w)
    BY <2>2 DEF Reclaim, Pick, Link, SetCur, SetWrite
  <2>3. CASE Area(w) \/ Mark(w) \/ Stamp(w) \/ Fail(w) \/ Scan(w) \/ Clean(w)
    BY <2>3 DEF Area, Mark, Stamp, Fail, Scan, Clean
  <2>4. QED
    BY <1>2, <2>1, <2>2, <2>3 DEF WriterStep
<1>3. ASSUME NEW t \in Threads \ Procs, PubStep(t), ~Send(t)
      PROVE  UNCHANGED <<nextRcd, sent, seen>>
  BY <1>3 DEF PubStep, Cas, Pub, Copy
<1>4. ASSUME NEW t \in Walkers, WalkStep(t)
      PROVE  UNCHANGED <<nextRcd, sent, seen>>
  BY <1>4 DEF WalkStep, Visit, Visited, VisitSet
<1>5. ASSUME NEW p \in Procs, ReaderStep(p) \/ ReaderCrash(p), ~Read(p)
      PROVE  UNCHANGED <<nextRcd, sent, seen>>
  <2>1. CASE Register(p) \/ Connect(p) \/ AddLock(p) \/ Add(p) \/ Recv(p)
    BY <2>1 DEF Register, Connect, AddLock, Add, Recv
  <2>2. CASE Finish(p) \/ Dec(p) \/ Recheck(p) \/ SetRead(p) \/ ReaderCrash(p)
    BY <2>2 DEF Finish, Dec, Recheck, SetRead, ReaderCrash
  <2>3. QED
    BY <1>5, <2>1, <2>2 DEF ReaderStep
<1>6. CASE TimeoutStep \/ Destroy \/ ExitRead
  BY <1>6 DEF TimeoutStep, Wake, TimeoutCheck, Destroy, ExitRead
<1>7. ASSUME NEW b \in Blocks, Age(b)
      PROVE  UNCHANGED <<nextRcd, sent, seen>>
  BY <1>7 DEF Age
<1>8. QED
  BY <1>1, <1>2, <1>3, <1>4, <1>5, <1>6, <1>7 DEF Next

\* A step of the queue is a step of the stream or leaves it alone.
LEMMA StreamNext ==
  ASSUME Whole, StreamInv, [CalmNext]_vars
  PROVE  [Stream!Next]_(Stream!vars)
<1> DEFINE got == [p \in Subscribers |-> seen[p]]
<1> USE DEF Whole, Known
<1>1. /\ sent \in Nat /\ nextRcd \in Nat /\ \A p \in Subscribers : Len(seen[p]) \in Nat
      /\ seen \in [Procs -> Seq(Nat)] /\ Subscribers \subseteq Procs
  BY NumberTypes, WhoElse DEF Base, TypeOK, ReaderType
<1>2. ASSUME NEW w \in Writers, Body(w)
      PROVE  Stream!Write
  <2>1. nextRcd' = nextRcd + 1 /\ UNCHANGED <<sent, seen>>
    BY <1>2 DEF Body, readerVars
  <2>2. \A p \in Subscribers : nextRcd - 1 - Len(seen[p]) < Cardinality(Places)
    BY <1>2, WriterWaits
  <2>3. got' = got /\ \A p \in Subscribers : got[p] = seen[p]
    BY <2>1
  <2>4. PICK k : k = Cardinality(Places)
    OBVIOUS
  <2>5. \A p \in Subscribers : nextRcd - 1 - Len(got[p]) < k
    BY <2>2, <2>3, <2>4
  <2>6. nextRcd' - 1 = (nextRcd - 1) + 1
    BY <1>1, <2>1
  <2> HIDE DEF got
  <2>7. QED
    BY <2>1, <2>3, <2>4, <2>5, <2>6 DEF Stream!Write, Places, got
<1>3. ASSUME NEW t \in Threads \ Procs, Send(t)
      PROVE  Stream!Publish
  <2>1. sent < nextRcd - 1
    BY <1>3, SendStream
  <2>2. sent' = nextRcd - 1 /\ UNCHANGED <<nextRcd, seen>>
    BY <1>1, <1>3, <2>1 DEF Send
  <2>3. QED
    BY <2>1, <2>2 DEF Stream!Publish
<1>4. ASSUME NEW p \in Subscribers, Read(p)
      PROVE  Stream!Deliver(p)
  <2>1. /\ seen' = [seen EXCEPT ![p] = Append(@, Len(@) + 1)]
        /\ Len(seen[p]) < sent
    BY <1>1, <1>4, ReadNumber
  <2>2. UNCHANGED <<nextRcd, sent>>
    BY <1>4 DEF Read, envVars
  <2>3. got' = [got EXCEPT ![p] = Append(@, Len(@) + 1)]
    BY <1>1, <2>1
  <2>4. QED
    BY <1>1, <2>1, <2>2, <2>3 DEF Stream!Deliver
<1>5. ASSUME NEW p \in Procs \ Subscribers, Read(p)
      PROVE  UNCHANGED Stream!vars
  <2>1. UNCHANGED <<nextRcd, sent>> /\ \A q \in Procs \ {p} : seen'[q] = seen[q]
    BY <1>1, <1>5 DEF Read, envVars
  <2>2. got' = got
    BY <1>1, <2>1
  <2>3. QED
    BY <2>1, <2>2 DEF Stream!vars
<1>6. CASE UNCHANGED <<nextRcd, sent, seen>>
  BY <1>6 DEF Stream!vars
<1>7. CASE UNCHANGED vars
  BY <1>6, <1>7 DEF vars, envVars, readerVars
<1>8. QED
  BY <1>2, <1>3, <1>4, <1>5, <1>6, <1>7, StreamActions DEF Stream!Next

\* The queue delivers as RecordStream promises (lines 2066-2136 and all that lead there): whatever
\* the writers, the timeout thread, the shutdown and the readers do in a calm behaviour, each reader
\* that joined first is handed the records that were broadcast, each once and in order, and no
\* writer runs further ahead of the slowest of them than the blocks have room.  That it is handed
\* them at all is for the runs to show.
THEOREM StreamImplemented == CalmSpec => Stream!Init /\ [][Stream!Next]_(Stream!vars)
<1>1. Init => Stream!Init
  BY WhoElse DEF Init, Stream!Init
<1>2. Whole /\ StreamInv /\ [CalmNext]_vars => [Stream!Next]_(Stream!vars)
  BY StreamNext
<1>3. CalmSpec => Init /\ [][CalmNext]_vars
  BY DEF CalmSpec
<1>4. QED
  BY <1>1, <1>2, <1>3, StreamInvariant, PTL
=============================================================================
