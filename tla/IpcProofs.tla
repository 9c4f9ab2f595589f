----------------------------- MODULE IpcProofs -----------------------------
(***************************************************************************)
(* System V IPC as ce_util uses it.  The named semaphore of ce_sem.c is a  *)
(* lock, for any set of processes, however often the set is removed and    *)
(* made again.  Whoever uses the shared memory region uses the one that is *)
(* served, and its queues lie apart and are laid out without gap or        *)
(* overlap.                                                                *)
(***************************************************************************)
EXTENDS MCLibrary, FiniteSetTheorems, SequenceTheorems, WellFoundedInduction, TLAPS

-----------------------------------------------------------------------------
(* The definitions of the standard modules that the instances bring in.    *)

LEMMA SemCardinality == \A T : S!Cardinality(T) = Cardinality(T)
BY Zenon DEF S!Cardinality, Cardinality

-----------------------------------------------------------------------------
(* The semaphore. *)

SemPlaces == {"out", "open", "zero", "up", "ready", "waits", "holds"}

\* The processes that have the unit of a set, or still have to give it.
Owners(s) == {u \in Users : sem[u] = s /\ at[u] \in {"zero", "up", "holds"}}

SemTypes ==
  /\ sets \in 0..MaxSets /\ named \in 0..sets /\ exists \subseteq 1..sets
  /\ value \in [1..MaxSets -> Nat]
  /\ at \in [Users -> SemPlaces] /\ sem \in [Users -> 0..sets]

\* The one set there can be is the one under the key.
OneSet == \A s \in exists : named = s

\* A set without its unit has one owner, and one with it has none.
UnitKept ==
  \A s \in exists :
    \/ value[s] = 1 /\ Owners(s) = {}
    \/ value[s] = 0 /\ \E u \in Users : Owners(s) = {u}

\* The set somebody holds is there, and a set not made yet has the value it is made with.
HolderThere == \A u \in Users : at[u] = "holds" => sem[u] \in exists
Unmade      == \A s \in (sets + 1)..MaxSets : value[s] = 0

\* The inductive form of SemExclusion.
SemInv == SemTypes /\ OneSet /\ UnitKept /\ HolderThere /\ Unmade

-----------------------------------------------------------------------------

\* The invariant says what SemExclusion counts.
LEMMA SemInvImplies == SemInv => SemExclusion
<1> SUFFICES ASSUME SemInv PROVE SemExclusion
  OBVIOUS
<1> DEFINE H == {u \in Users : at[u] = "holds"}
<1>1. Cardinality(H) <= 1
  <2>1. CASE H = {}
    BY <2>1, FS_EmptySet
  <2>2. CASE H # {}
    <3>1. PICK u \in H : TRUE
      BY <2>2
    <3>2. \A v \in H : v \in Owners(named) /\ named \in exists
      BY DEF SemInv, OneSet, HolderThere, Owners
    <3>3. PICK w \in Users : Owners(named) = {w}
      BY <3>1, <3>2 DEF SemInv, UnitKept
    <3>4. H = {w}
      BY <3>1, <3>2, <3>3
    <3>5. Cardinality({w}) = 1
      BY FS_Singleton
    <3>6. QED
      BY <3>4, <3>5
  <2>3. QED
    BY <2>1, <2>2
<1>2. ASSUME NEW s \in exists
      PROVE  value[s] + Cardinality(Owners(s)) = 1
  <2>1. CASE value[s] = 1 /\ Owners(s) = {}
    BY <2>1, FS_EmptySet
  <2>2. ASSUME NEW u \in Users, value[s] = 0, Owners(s) = {u}
        PROVE  value[s] + Cardinality(Owners(s)) = 1
    BY <2>2, FS_Singleton
  <2>3. QED
    BY <2>1, <2>2 DEF SemInv, UnitKept
<1>3. QED
  BY <1>1, <1>2, SemCardinality DEF SemExclusion, S!SemExclusion, Owners

\* No set has been made.
LEMMA SemInit == MaxSets \in Nat /\ S!Init => SemInv
BY DEF S!Init, SemInv, SemTypes, OneSet, UnitKept, HolderThere, Unmade, S!Gone, SemPlaces

\* Every step keeps the unit of every set.
LEMMA SemStep ==
  ASSUME MaxSets \in Nat, SemInv, [S!Next]_(S!semVars)
  PROVE  SemInv'
<1> USE DEF SemInv, SemTypes, OneSet, HolderThere, Unmade, SemPlaces, S!Gone, S!Step
<1>1. ASSUME NEW u \in Users, S!Make(u)
      PROVE  SemInv'
  <2>1. PICK s \in 1..MaxSets : s = sets + 1
    BY <1>1 DEF S!Make
  <2>2. /\ sets' = s /\ named' = s /\ exists' = {s}
        /\ sem' = [sem EXCEPT ![u] = s] /\ at' = [at EXCEPT ![u] = "zero"]
        /\ UNCHANGED value /\ at[u] = "out" /\ exists = {}
    <3>1. exists = {}
      BY <1>1 DEF S!Make
    <3>2. QED
      BY <1>1, <2>1, <3>1 DEF S!Make
  <2>3. value[s] = 0
    BY <2>1
  <2>4. Owners(s)' = {u}
    BY <2>1, <2>2 DEF Owners
  <2>5. UnitKept'
    BY <2>2, <2>3, <2>4 DEF UnitKept
  <2>6. SemTypes'
    BY <2>1, <2>2
  <2>7. HolderThere'
    BY <2>1, <2>2
  <2>8. QED
    BY <2>1, <2>2, <2>5, <2>6, <2>7
<1>2. ASSUME NEW u \in Users, S!Exists(u) \/ S!Open(u) \/ S!Crash(u)
      PROVE  SemInv'
  <2>1. \A s \in exists : Owners(s)' = Owners(s)
    BY <1>2 DEF S!Exists, S!Open, S!Crash, Owners
  <2>2. UNCHANGED <<sets, named, value, exists>>
    BY <1>2 DEF S!Exists, S!Open, S!Crash
  <2>3. UnitKept'
    BY <2>1, <2>2 DEF UnitKept
  <2>4. QED
    BY <1>2, <2>2, <2>3 DEF S!Exists, S!Open, S!Crash
<1>3. ASSUME NEW u \in Users, S!Zero(u)
      PROVE  SemInv'
  <2>1. \A s \in exists : Owners(s)' = Owners(s)
    BY <1>3 DEF S!Zero, Owners
  <2>2. sem[u] \in exists => u \in Owners(sem[u])
    BY <1>3 DEF S!Zero, Owners
  <2>3. UnitKept'
    BY <1>3, <2>1, <2>2 DEF S!Zero, UnitKept
  <2>4. SemTypes'
    <3>1. at' \in [Users -> SemPlaces] /\ UNCHANGED <<sets, named, exists, sem>>
      BY <1>3 DEF S!Zero
    <3>2. value \in [1..MaxSets -> Nat]
      OBVIOUS
    <3>3. value' = value \/ value' = [value EXCEPT ![sem[u]] = 0]
      BY <1>3 DEF S!Zero
    <3>4. value' \in [1..MaxSets -> Nat]
      BY ONLY <3>2, <3>3
    <3>5. QED
      BY <3>1, <3>4
  <2>5. HolderThere'
    BY <1>3 DEF S!Zero
  <2>6. Unmade'
    BY <1>3 DEF S!Zero
  <2>7. QED
    BY <1>3, <2>3, <2>4, <2>6, <2>5 DEF S!Zero
<1>4. ASSUME NEW u \in Users, S!Up(u)
      PROVE  SemInv'
  <2>1. \A s \in exists : Owners(s)' = Owners(s) \ {u}
    BY <1>4 DEF S!Up, Owners
  <2>2. sem[u] \in exists => u \in Owners(sem[u])
    BY <1>4 DEF S!Up, Owners
  <2>3. \A s \in exists : sem[u] # s => u \notin Owners(s)
    BY DEF Owners
  <2>4. UnitKept'
    <3>1. exists' = exists /\ exists \subseteq 1..MaxSets /\ value \in [1..MaxSets -> Nat]
      BY <1>4 DEF S!Up
    <3>2. ASSUME NEW s \in exists
          PROVE  \/ value'[s] = 1 /\ Owners(s)' = {}
                 \/ value'[s] = 0 /\ \E w \in Users : Owners(s)' = {w}
      <4>1. \/ value[s] = 1 /\ Owners(s) = {}
            \/ value[s] = 0 /\ \E w \in Users : Owners(s) = {w}
        BY DEF UnitKept
      <4>2. CASE sem[u] = s
        <5>1. Owners(s) = {u} /\ value[s] = 0
          BY <2>2, <4>1, <4>2
        <5>2. value'[s] = 1
          BY <1>4, <3>1, <4>2, <5>1 DEF S!Up
        <5>3. QED
          BY <2>1, <5>1, <5>2
      <4>3. CASE sem[u] # s
        <5>1. value'[s] = value[s]
          BY <1>4, <3>1, <4>3 DEF S!Up
        <5>2. Owners(s)' = Owners(s)
          BY <2>1, <2>3, <4>3
        <5>3. QED
          BY <4>1, <5>1, <5>2
      <4>4. QED
        BY <4>2, <4>3
    <3>3. QED
      BY <3>1, <3>2 DEF UnitKept
  <2>5. SemTypes'
    <3>1. at' \in [Users -> SemPlaces] /\ UNCHANGED <<sets, named, exists, sem>>
      BY <1>4 DEF S!Up
    <3>2. value \in [1..MaxSets -> Nat]
      OBVIOUS
    <3>3. value' = value \/ value' = [value EXCEPT ![sem[u]] = @ + 1]
      BY <1>4 DEF S!Up
    <3>4. value' \in [1..MaxSets -> Nat]
      BY ONLY <3>2, <3>3
    <3>5. QED
      BY <3>1, <3>4
  <2>6. HolderThere'
    BY <1>4 DEF S!Up
  <2>7. Unmade'
    BY <1>4 DEF S!Up
  <2>8. QED
    BY <1>4, <2>4, <2>5, <2>7, <2>6 DEF S!Up
<1>5. ASSUME NEW u \in Users, S!Lock(u) \/ S!TryLock(u) \/ S!Wake(u)
      PROVE  SemInv'
  <2>1. CASE at'[u] = "holds"
    <3>1. sem[u] \in exists /\ value[sem[u]] > 0
          /\ at' = [at EXCEPT ![u] = "holds"]
          /\ value' = [value EXCEPT ![sem[u]] = @ - 1] /\ UNCHANGED <<sets, named, exists, sem>>
      BY <1>5, <2>1 DEF S!Lock, S!TryLock, S!Wake
    <3>2. \A s \in exists : Owners(s)' = IF s = sem[u] THEN Owners(s) \cup {u} ELSE Owners(s)
      BY <3>1 DEF Owners
    <3>3. UnitKept'
      BY <3>1, <3>2 DEF UnitKept
    <3>4. QED
      BY <3>1, <3>3
  <2>2. CASE at'[u] # "holds"
    <3>1. /\ at[u] \in {"ready", "waits"} /\ at'[u] \in {"out", "waits"}
          /\ at' = [at EXCEPT ![u] = at'[u]]
          /\ UNCHANGED <<sets, named, exists, sem, value>>
      BY <1>5, <2>2 DEF S!Lock, S!TryLock, S!Wake
    <3>2. \A s \in exists : Owners(s)' = Owners(s)
      BY <3>1 DEF Owners
    <3>3. UnitKept'
      BY <3>1, <3>2 DEF UnitKept
    <3>4. QED
      BY <3>1, <3>3
  <2>3. QED
    BY <2>1, <2>2
<1>6. ASSUME NEW u \in Users, S!Unlock(u)
      PROVE  SemInv'
  <2>1. sem[u] \in exists /\ u \in Owners(sem[u])
    BY <1>6 DEF S!Unlock, Owners
  <2>2. \A s \in exists : Owners(s)' = Owners(s) \ {u}
    BY <1>6 DEF S!Unlock, Owners
  <2>3. \A s \in exists : sem[u] # s => u \notin Owners(s)
    BY DEF Owners
  <2>4. UnitKept'
    BY <1>6, <2>1, <2>2, <2>3 DEF S!Unlock, UnitKept
  <2>5. QED
    BY <1>6, <2>4 DEF S!Unlock
<1>7. ASSUME NEW u \in Users, S!Destroy(u)
      PROVE  SemInv'
  <2>1. \A s : Owners(s)' = Owners(s)
    BY <1>7 DEF S!Destroy, Owners
  <2>2. UnitKept'
    BY <1>7, <2>1 DEF S!Destroy, UnitKept
  <2>3. \A v \in Users : at'[v] # "holds"
    BY <1>7 DEF S!Destroy
  <2>4. SemTypes'
    <3>1. at' \in [Users -> SemPlaces] /\ UNCHANGED <<sets, value, sem>>
      BY <1>7 DEF S!Destroy
    <3>2. exists' \subseteq 1..sets
      BY <1>7 DEF S!Destroy
    <3>3. named' \in {0, named} /\ 0 \in 0..sets
      BY <1>7 DEF S!Destroy
    <3>4. QED
      BY <3>1, <3>2, <3>3
  <2>5. Unmade'
    BY <1>7 DEF S!Destroy
  <2>6. OneSet' /\ HolderThere'
    BY <1>7, <2>3 DEF S!Destroy
  <2>7. QED
    BY <2>2, <2>5, <2>6, <2>4
<1>8. CASE UNCHANGED S!semVars
  BY <1>8 DEF S!semVars, UnitKept, Owners
<1>9. QED
  BY <1>1, <1>2, <1>3, <1>4, <1>5, <1>6, <1>7, <1>8 DEF S!Next, S!Progress

\* ce_sem_create, ce_sem_lock, ce_sem_unlock, ce_sem_destroy (lines 37-139): however many
\* processes create, open, remove and make the semaphore again, at most one holds it, and
\* its one unit is neither doubled nor lost.
THEOREM SemaphoreLocks ==
  ASSUME MaxSets \in Nat
  PROVE  S!Spec => []SemExclusion
<1>1. S!Init => SemInv
  BY SemInit
<1>2. SemInv /\ [S!Next]_(S!semVars) => SemInv'
  BY SemStep
<1>3. QED
  BY <1>1, <1>2, SemInvImplies, PTL DEF S!Spec

-----------------------------------------------------------------------------
(* The shared memory region: the invariant. *)

RegionPlaces ==
  {"down", "excl", "stat", "rmid", "get", "attach", "header", "freepos", "serve", "init", "link", "count"}
Working == {"header", "freepos", "serve", "init", "link", "count"}

\* Queues as ipc_shm_queue_create makes them; the ones it has initialised.
QueuesMade ==
  {a \in [id : QueueIds, off : Nat, len : Nat, rcd : Nat, ready : BOOLEAN] :
     SizeOfHeader <= a.off /\ R!Asserted(a.len, a.rcd)}
QueuesReady == {a \in QueuesMade : a.ready = TRUE}
HeadType == [size : Nat, num : Nat, free : Nat]

RegionTypes ==
  /\ segs \in 0..MaxSegs /\ keyed \in 0..segs /\ seen \in 0..segs
  /\ head \in [1..MaxSegs -> HeadType]
  /\ queues \in [1..MaxSegs -> Seq(QueuesReady)]
  /\ pc \in RegionPlaces
  /\ att \in [R!Procs -> 0..segs]
  /\ found \in [Readers -> QueuesReady \cup {R!NoQueue}]

\* The creating process: what it works on is the segment under the key.
MainThere ==
  /\ pc \in Working => att[R!Main] = keyed /\ keyed # R!None
  /\ pc \notin Working => att[R!Main] = R!None
  /\ pc \in {"stat", "rmid", "get", "attach"} => seen = keyed /\ keyed # R!None
  /\ pc = "excl" => keyed = R!None

\* The readers: but for the late ones they are attached to nothing else, and to nothing at
\* all once the segment is given up.
ReadersThere ==
  /\ \A r \in Readers \ late : att[r] \in {R!None, keyed}
  /\ pc = "rmid" => \A r \in Readers \ late : att[r] = R!None

\* A segment no header was written in, one whose free position is still to come, and one
\* that is in use: its queues end before the free position, the newest first.
Blank(s) == head[s] = [size |-> 0, num |-> 0, free |-> 0] /\ queues[s] = <<>>
Half(s)  == head[s] = [size |-> RegionSize, num |-> 0, free |-> 0] /\ queues[s] = <<>>
Counted(s) == head[s].num > 0 <=> queues[s] # <<>>
Laid(s) ==
  /\ head[s].size = RegionSize /\ SizeOfHeader <= head[s].free /\ head[s].free <= RegionSize
  /\ \A i \in DOMAIN queues[s] : queues[s][i].off + queues[s][i].len <= head[s].free
  /\ \A i, j \in DOMAIN queues[s] : i < j =>
       /\ queues[s][i].id # queues[s][j].id
       /\ queues[s][j].off + queues[s][j].len <= queues[s][i].off

Segments ==
  \A s \in 1..MaxSegs :
    \/ Blank(s)
    \/ s <= segs /\ Laid(s) /\ (Counted(s) \/ (pc = "count" /\ s = keyed))
    \/ pc = "freepos" /\ s = keyed

\* The segment the creating process works on, and the queue it is about to link.
Coming(a) ==
  /\ a \in QueuesMade
  /\ a.off + a.len <= head[keyed].free
  /\ \A i \in DOMAIN queues[keyed] :
       /\ queues[keyed][i].id # a.id
       /\ queues[keyed][i].off + queues[keyed][i].len <= a.off
Work ==
  /\ pc \in {"attach", "header"} => Blank(keyed)
  /\ pc = "freepos" => Half(keyed)
  /\ pc \in {"init", "link", "count"} => Laid(keyed)
  /\ pc \in {"init", "link"} => Coming(new)
  /\ pc = "link" => new.ready = TRUE
  /\ pc = "count" => queues[keyed] # <<>>

RegionInv == RegionTypes /\ MainThere /\ ReadersThere /\ Segments /\ Work

-----------------------------------------------------------------------------
(* Arithmetic of the sizes.                                                *)

LEMMA DivMod ==
  ASSUME NEW x \in Int, NEW d \in Nat \ {0}
  PROVE  x \div d \in Int /\ x % d \in 0..(d - 1) /\ x = d * (x \div d) + (x % d)
OBVIOUS

\* A set of numbers has a least one, and one with a bound a greatest.
LEMMA LeastThere ==
  ASSUME NEW T, T \subseteq Nat, T # {}
  PROVE  \E x \in T : \A y \in T : x <= y
<1> DEFINE Smaller == {ss \in Nat \X Nat : ss[1] < ss[2]}
<1>1. IsWellFoundedOn(Smaller, Nat)
  BY NatLessThanWellFounded DEF OpToRel
<1>2. \A y \in Nat, z \in Nat : y < z => <<y, z>> \in Smaller
  OBVIOUS
<1> HIDE DEF Smaller
<1>3. PICK x \in T : \A y \in T : ~(<<y, x>> \in Smaller)
  BY <1>1, WFMin
<1>4. \A y \in T : ~(y < x)
  BY <1>2, <1>3
<1>5. \A y \in T : x <= y
  BY <1>4
<1>6. QED
  BY <1>5

LEMMA MaxThere ==
  ASSUME NEW T, NEW n \in Nat, T \subseteq 0..n, T # {}
  PROVE  R!Max(T) \in T
<1> DEFINE U == {n - x : x \in T}
<1>1. U \subseteq Nat
  <2>1. \A x \in T : x \in Nat /\ n - x \in Nat
    OBVIOUS
  <2>2. QED
    BY <2>1
<1>2. U # {}
  <2>1. PICK x : x \in T
    OBVIOUS
  <2>2. n - x \in U
    BY <2>1
  <2>3. QED
    BY <2>2
<1>3. PICK u \in U : \A v \in U : u <= v
  <2> HIDE DEF U
  <2>1. QED
    BY <1>1, <1>2, LeastThere
<1>4. PICK x \in T : u = n - x
  BY <1>3
<1>5. \A y \in T : n - x <= n - y
  BY <1>3, <1>4
<1>6. \A y \in T : x >= y
  BY <1>5
<1>7. QED
  BY <1>6 DEF R!Max

\* calculate_queue_args: a block holds PubNum records at least.
LEMMA BlockSizes ==
  ASSUME R!GeometryAssumption, NEW len \in Nat, NEW rcd \in Nat
  PROVE  /\ R!RcdNum(len, rcd) \in Nat /\ R!RcdNum(len, rcd) >= PubNum
         /\ R!Unit(rcd) \in Nat \ {0}
         /\ R!BlkSize(len, rcd) \in Nat \ {0}
         /\ R!BlkSize(len, rcd) = R!RcdNum(len, rcd) * R!Unit(rcd)
<1> USE DEF R!GeometryAssumption
<1>1. R!RcdNum(len, rcd) \in PubNum..2 * PubNum
  <2>1. CASE R!Enough(len, rcd) = {}
    BY <2>1 DEF R!RcdNum
  <2>2. CASE R!Enough(len, rcd) # {}
    <3>1. 2 * PubNum \in Nat /\ R!Enough(len, rcd) \subseteq 0..2 * PubNum
      BY DEF R!Enough
    <3>2. R!Max(R!Enough(len, rcd)) \in R!Enough(len, rcd)
      BY <2>2, <3>1, MaxThere
    <3>3. R!Max(R!Enough(len, rcd)) \in PubNum..2 * PubNum
      BY <3>2 DEF R!Enough
    <3>4. QED
      BY <2>2, <3>3 DEF R!RcdNum
  <2>3. QED
    BY <2>1, <2>2
<1>2. PICK n \in PubNum..2 * PubNum : n = R!RcdNum(len, rcd)
  BY <1>1
<1>3. PICK u \in Nat \ {0} : u = R!Unit(rcd)
  BY DEF R!Unit
<1>4. n \in Nat \ {0} /\ n >= PubNum
  OBVIOUS
<1>5. n * u \in Nat \ {0}
  BY <1>4
<1>6. QED
  BY <1>2, <1>3, <1>4, <1>5 DEF R!BlkSize

\* The assertion: what is accepted has room for a block, behind the header of the queue.
LEMMA AcceptedHasRoom ==
  ASSUME R!GeometryAssumption, NEW len \in Nat, NEW rcd \in Nat, R!Asserted(len, rcd)
  PROVE  R!FullNum(len, rcd) \in Nat \ {0, 1} /\ R!Payload(len) \in Nat \ {0} /\ len > 0
<1>1. PICK d \in Nat \ {0} : d = R!BlkSize(len, rcd)
  BY BlockSizes
<1>2. PICK x \in Int : x = R!Payload(len) /\ x = len - SizeOfQueue
  BY DEF R!Payload, R!GeometryAssumption
<1>3. PICK q \in Int : q = x \div d
  BY DivMod
<1>4. PICK r \in 0..(d - 1) : r = x % d
  BY DivMod
<1>5. x = d * q + r
  BY <1>3, <1>4, DivMod
<1>6. q = R!FullNum(len, rcd) /\ q > MinNum
  BY <1>1, <1>2, <1>3 DEF R!FullNum, R!Asserted
<1>7. q \in Nat \ {0, 1}
  BY <1>6 DEF R!GeometryAssumption
<1>8. d * q \in Nat \ {0}
  BY <1>7
<1>9. x \in Nat \ {0}
  BY <1>4, <1>5, <1>8
<1>10. QED
  BY <1>2, <1>6, <1>7, <1>9 DEF R!GeometryAssumption

\* ipc_shm_queue_data_block_create: the blocks cover the payload without gap or overlap.
LEMMA BlocksCover ==
  ASSUME R!GeometryAssumption, NEW len \in Nat, NEW rcd \in Nat, R!Asserted(len, rcd)
  PROVE  LET b == R!Blocks(len, rcd)   n == R!BlkNum(len, rcd)   size == R!BlkSize(len, rcd) IN
         /\ b[1].off = SizeOfQueue
         /\ \A k \in 1..n - 1 : b[k].size = size /\ b[k+1].off = b[k].off + size
         /\ SizeOfBlock + PubNum * rcd <= size
         /\ b[n].size > 0 /\ b[n].off + b[n].size = len
<1>1. PICK d \in Nat \ {0} : d = R!BlkSize(len, rcd)
  BY BlockSizes
<1>2. PICK x \in Nat \ {0} : x = R!Payload(len) /\ x = len - SizeOfQueue
  BY AcceptedHasRoom DEF R!Payload
<1>3. PICK q \in Nat \ {0, 1} : q = R!FullNum(len, rcd)
  BY AcceptedHasRoom
<1>4. q = x \div d
  BY <1>1, <1>2, <1>3 DEF R!FullNum
<1>5. PICK r \in 0..(d - 1) : r = x % d /\ x = d * (x \div d) + r
  <2>1. x \in Int
    OBVIOUS
  <2>2. QED
    BY <2>1, DivMod
<1>6. x = d * q + r
  BY <1>4, <1>5
<1>7. PICK n \in Nat : n = R!BlkNum(len, rcd) /\ n = IF r = 0 THEN q ELSE q + 1
  BY <1>1, <1>2, <1>3, <1>5 DEF R!BlkNum
<1>8. R!LastSize(len, rcd) = IF r = 0 THEN d ELSE x - d * q
  BY <1>1, <1>2, <1>3, <1>5 DEF R!LastSize
<1> DEFINE b == R!Blocks(len, rcd)
<1>9. \A i \in 1..n : /\ b[i].off = SizeOfQueue + (i - 1) * d
                      /\ b[i].size = IF i < n THEN d ELSE R!LastSize(len, rcd)
  BY <1>1, <1>7 DEF R!Blocks
<1> HIDE DEF b
<1>10. SizeOfQueue \in Nat /\ SizeOfBlock \in Nat \ {0} /\ PubNum \in Nat \ {0}
  BY DEF R!GeometryAssumption
<1>11. b[1].off = SizeOfQueue
  <2>1. 1 \in 1..n /\ (1 - 1) * d = 0
    BY <1>7
  <2>2. QED
    BY <1>9, <1>10, <2>1
<1>12. ASSUME NEW k \in 1..n - 1
       PROVE  b[k].size = d /\ b[k + 1].off = b[k].off + d
  <2>1. k \in 1..n /\ k + 1 \in 1..n /\ k < n
    BY <1>12
  <2>2. ((k + 1) - 1) * d = (k - 1) * d + d
    BY <1>12
  <2>3. QED
    BY <1>9, <1>10, <2>1, <2>2
<1>13. SizeOfBlock + PubNum * rcd <= d
  <2>1. PICK m \in Nat : m = R!RcdNum(len, rcd) /\ m >= PubNum
    BY BlockSizes
  <2>2. d = m * (rcd + SizeOfBlock)
    BY <1>1, <2>1 DEF R!BlkSize, R!Unit
  <2>3. m * (rcd + SizeOfBlock) = m * rcd + m * SizeOfBlock
    BY <1>10
  <2>4. m * rcd >= PubNum * rcd
    BY <1>10, <2>1
  <2>5. m * SizeOfBlock >= SizeOfBlock
    BY <1>10, <2>1
  <2>6. QED
    BY <1>10, <2>2, <2>3, <2>4, <2>5
<1>14. b[n].size > 0 /\ b[n].off + b[n].size = len
  <2>1. n \in 1..n /\ ~(n < n)
    BY <1>3, <1>7
  <2>2. b[n].off = SizeOfQueue + (n - 1) * d /\ b[n].size = R!LastSize(len, rcd)
    BY <1>9, <2>1
  <2>3. CASE r = 0
    <3>1. n = q /\ b[n].size = d /\ x = d * q
      BY <1>6, <1>7, <1>8, <2>2, <2>3
    <3>2. PICK m \in Int : m = (q - 1) * d
      OBVIOUS
    <3>3. m + d = d * q
      BY <3>2
    <3>4. b[n].off = SizeOfQueue + m /\ m + d = x /\ len = x + SizeOfQueue
      BY <1>2, <1>10, <2>2, <3>1, <3>2, <3>3
    <3>5. QED
      BY <1>10, <3>1, <3>4
  <2>4. CASE r # 0
    <3>1. n = q + 1 /\ b[n].size = x - d * q
      BY <1>7, <1>8, <2>2, <2>4
    <3>2. x - d * q = r /\ r > 0
      BY <1>6, <2>4
    <3>3. ((q + 1) - 1) * d = d * q
      OBVIOUS
    <3>4. QED
      BY <1>2, <1>6, <1>10, <2>2, <3>1, <3>2, <3>3
  <2>5. QED
    BY <2>3, <2>4
<1>15. QED
  BY <1>1, <1>7, <1>11, <1>12, <1>13, <1>14 DEF b

\* ipc_shm_queue_add: a queue in front of the list.
LEMMA InFront ==
  ASSUME NEW Items, NEW x \in Items, NEW q \in Seq(Items)
  PROVE  /\ <<x>> \o q \in Seq(Items)
         /\ \A i \in DOMAIN (<<x>> \o q) :
              \/ i = 1 /\ (<<x>> \o q)[i] = x
              \/ i > 1 /\ i - 1 \in DOMAIN q /\ (<<x>> \o q)[i] = q[i - 1]
         /\ <<x>> \o q # <<>>
<1>1. <<x>> \in Seq(Items) /\ Len(<<x>>) = 1 /\ <<x>>[1] = x
  OBVIOUS
<1>2. PICK n \in Nat : n = Len(q) /\ DOMAIN q = 1..n
  BY LenProperties
<1>3. PICK c \in Seq(Items) : c = <<x>> \o q
  BY <1>1, ConcatProperties
<1>4. Len(c) = 1 + n /\ DOMAIN c = 1..(1 + n)
  BY <1>1, <1>2, <1>3, ConcatProperties, LenProperties
<1>5. c[1] = x
  BY <1>1, <1>2, <1>3, <1>4, ConcatProperties
<1>6. \A i \in 2..(1 + n) : c[i] = q[i - 1]
  <2>1. TAKE i \in 2..(1 + n)
  <2>2. i > Len(<<x>>) /\ i \in 1..Len(<<x>>) + Len(q)
    BY <1>1, <1>2
  <2>3. c[i] = q[i - Len(<<x>>)]
    BY <1>1, <1>2, <1>3, <2>2, ConcatProperties
  <2>4. QED
    BY <1>1, <2>3
<1>7. \A i \in DOMAIN c : i = 1 \/ (i \in 2..(1 + n) /\ i - 1 \in DOMAIN q)
  BY <1>2, <1>4
<1>8. c # <<>>
  BY <1>4
<1>9. QED
  BY <1>3, <1>5, <1>6, <1>7, <1>8

-----------------------------------------------------------------------------
(* The invariant is inductive. *)

LEMMA RegionInit ==
  ASSUME R!RegionAssumption, R!Init
  PROVE  RegionInv
<1> USE DEF R!Init, R!RegionAssumption, R!None
<1>1. RegionTypes
  <2>1. \A s \in 1..MaxSegs : queues[s] \in Seq(QueuesReady)
    BY EmptySeq
  <2>2. queues \in [1..MaxSegs -> Seq(QueuesReady)]
    BY <2>1
  <2>3. head \in [1..MaxSegs -> HeadType]
    BY DEF HeadType
  <2>4. QED
    BY <2>2, <2>3 DEF RegionTypes, RegionPlaces
<1>2. MainThere /\ ReadersThere
  BY DEF MainThere, ReadersThere, Working, R!Procs
<1>3. Segments /\ Work
  BY DEF Segments, Work, Blank
<1>4. QED
  BY <1>1, <1>2, <1>3 DEF RegionInv

\* shmget finds the segment under the key, or none.
LEMMA DelGetKeeps ==
  ASSUME R!RegionAssumption, R!GeometryAssumption, ~CrashAnywhere, RegionInv, R!DelGet
  PROVE  RegionInv'
<1> USE DEF R!DelGet, R!kernel, R!memory, R!others, R!None
<1>1. RegionTypes /\ MainThere /\ ReadersThere /\ Segments /\ Work
  BY DEF RegionInv
<1>2. RegionTypes'
  BY <1>1 DEF RegionTypes, RegionPlaces, R!Procs, R!RegionAssumption
<1>3. MainThere'
  BY <1>1 DEF MainThere, RegionTypes, Working, RegionPlaces, R!Procs, R!RegionAssumption
<1>4. ReadersThere'
  BY <1>1 DEF ReadersThere, MainThere, RegionTypes, Working, R!Procs, R!RegionAssumption
<1>5. Segments'
  BY <1>1 DEF Segments, RegionTypes, MainThere, Working, Blank, Laid, Counted
<1>6. Work'
  BY <1>1 DEF Work, Segments, RegionTypes, MainThere, Working, Blank, Laid, Half, Coming, R!RegionAssumption
<1>7. QED
  BY <1>2, <1>3, <1>4, <1>5, <1>6 DEF RegionInv

\* Nobody attached: the readers are gone.
LEMMA StatKeeps ==
  ASSUME R!RegionAssumption, R!GeometryAssumption, ~CrashAnywhere, RegionInv, R!Stat
  PROVE  RegionInv'
<1> USE DEF R!Stat, R!Attached, R!kernel, R!memory, R!others, R!None
<1>1. RegionTypes /\ MainThere /\ ReadersThere /\ Segments /\ Work
  BY DEF RegionInv
<1>2. RegionTypes'
  BY <1>1 DEF RegionTypes, RegionPlaces, R!Procs, R!RegionAssumption
<1>3. MainThere'
  BY <1>1 DEF MainThere, RegionTypes, Working, RegionPlaces, R!Procs, R!RegionAssumption
<1>4. ReadersThere'
  BY <1>1 DEF ReadersThere, MainThere, RegionTypes, Working, R!Procs, R!RegionAssumption
<1>5. Segments'
  BY <1>1 DEF Segments, RegionTypes, MainThere, Working, Blank, Laid, Counted
<1>6. Work'
  BY <1>1 DEF Work, Segments, RegionTypes, MainThere, Working, Blank, Laid, Half, Coming, R!RegionAssumption
<1>7. QED
  BY <1>2, <1>3, <1>4, <1>5, <1>6 DEF RegionInv

\* The segment loses its key; no reader but a late one is attached to it.
LEMMA RmidKeeps ==
  ASSUME R!RegionAssumption, R!GeometryAssumption, ~CrashAnywhere, RegionInv, R!Rmid
  PROVE  RegionInv'
<1> USE DEF R!Rmid, R!kernel, R!memory, R!others, R!None
<1>1. RegionTypes /\ MainThere /\ ReadersThere /\ Segments /\ Work
  BY DEF RegionInv
<1>2. RegionTypes'
  BY <1>1 DEF RegionTypes, RegionPlaces, R!Procs, R!RegionAssumption
<1>3. MainThere'
  BY <1>1 DEF MainThere, RegionTypes, Working, RegionPlaces, R!Procs, R!RegionAssumption
<1>4. ReadersThere'
  BY <1>1 DEF ReadersThere, MainThere, RegionTypes, Working, R!Procs, R!RegionAssumption
<1>5. Segments'
  BY <1>1 DEF Segments, RegionTypes, MainThere, Working, Blank, Laid, Counted
<1>6. Work'
  BY <1>1 DEF Work, Segments, RegionTypes, MainThere, Working, Blank, Laid, Half, Coming, R!RegionAssumption
<1>7. QED
  BY <1>2, <1>3, <1>4, <1>5, <1>6 DEF RegionInv

\* A new segment is blank.
LEMMA ExclKeeps ==
  ASSUME R!RegionAssumption, R!GeometryAssumption, ~CrashAnywhere, RegionInv, R!Excl
  PROVE  RegionInv'
<1> USE DEF R!Excl, R!kernel, R!memory, R!others, R!None
<1>1. RegionTypes /\ MainThere /\ ReadersThere /\ Segments /\ Work
  BY DEF RegionInv
<1>2. RegionTypes'
  BY <1>1 DEF RegionTypes, RegionPlaces, R!Procs, R!RegionAssumption
<1>3. MainThere'
  BY <1>1 DEF MainThere, RegionTypes, Working, RegionPlaces, R!Procs, R!RegionAssumption
<1>4. ReadersThere'
  BY <1>1 DEF ReadersThere, MainThere, RegionTypes, Working, R!Procs, R!RegionAssumption
<1>5. Segments'
  BY <1>1 DEF Segments, RegionTypes, MainThere, Working, Blank, Laid, Counted
<1>6. Work'
  BY <1>1 DEF Work, Segments, RegionTypes, MainThere, Working, Blank, Laid, Half, Coming, R!RegionAssumption
<1>7. QED
  BY <1>2, <1>3, <1>4, <1>5, <1>6 DEF RegionInv

\* The creating process attaches to the new segment.
LEMMA AttachKeeps ==
  ASSUME R!RegionAssumption, R!GeometryAssumption, ~CrashAnywhere, RegionInv, R!Attach
  PROVE  RegionInv'
<1> USE DEF R!Attach, R!kernel, R!memory, R!others, R!None
<1>1. RegionTypes /\ MainThere /\ ReadersThere /\ Segments /\ Work
  BY DEF RegionInv
<1>2. RegionTypes'
  BY <1>1 DEF RegionTypes, RegionPlaces, R!Procs, R!RegionAssumption
<1>3. MainThere'
  BY <1>1 DEF MainThere, RegionTypes, Working, RegionPlaces, R!Procs, R!RegionAssumption
<1>4. ReadersThere'
  BY <1>1 DEF ReadersThere, MainThere, RegionTypes, Working, R!Procs, R!RegionAssumption
<1>5. Segments'
  BY <1>1 DEF Segments, RegionTypes, MainThere, Working, Blank, Laid, Counted
<1>6. Work'
  BY <1>1 DEF Work, Segments, RegionTypes, MainThere, Working, Blank, Laid, Half, Coming, R!RegionAssumption
<1>7. QED
  BY <1>2, <1>3, <1>4, <1>5, <1>6 DEF RegionInv

\* A segment somebody uses is kept and served again.
LEMMA GetKeeps ==
  ASSUME R!RegionAssumption, R!GeometryAssumption, ~CrashAnywhere, RegionInv, R!Get
  PROVE  RegionInv'
<1> USE DEF R!Get, R!kernel, R!memory, R!others, R!None
<1>1. RegionTypes /\ MainThere /\ ReadersThere /\ Segments /\ Work
  BY DEF RegionInv
<1>2. RegionTypes'
  BY <1>1 DEF RegionTypes, RegionPlaces, R!Procs, R!RegionAssumption
<1>3. MainThere'
  BY <1>1 DEF MainThere, RegionTypes, Working, RegionPlaces, R!Procs, R!RegionAssumption
<1>4. ReadersThere'
  BY <1>1 DEF ReadersThere, MainThere, RegionTypes, Working, R!Procs, R!RegionAssumption
<1>5. Segments'
  BY <1>1 DEF Segments, RegionTypes, MainThere, Working, Blank, Laid, Counted
<1>6. Work'
  BY <1>1 DEF Work, Segments, RegionTypes, MainThere, Working, Blank, Laid, Half, Coming, R!RegionAssumption
<1>7. QED
  BY <1>2, <1>3, <1>4, <1>5, <1>6 DEF RegionInv

\* The creating process leaves, or is killed outside its stores.
LEMMA LeaveKeeps ==
  ASSUME R!RegionAssumption, R!GeometryAssumption, ~CrashAnywhere, RegionInv, R!Leave
  PROVE  RegionInv'
<1> USE DEF R!Leave, R!kernel, R!memory, R!others, R!None
<1>1. RegionTypes /\ MainThere /\ ReadersThere /\ Segments /\ Work
  BY DEF RegionInv
<1>2. RegionTypes'
  BY <1>1 DEF RegionTypes, RegionPlaces, R!Procs, R!RegionAssumption
<1>3. MainThere'
  BY <1>1 DEF MainThere, RegionTypes, Working, RegionPlaces, R!Procs, R!RegionAssumption
<1>4. ReadersThere'
  BY <1>1 DEF ReadersThere, MainThere, RegionTypes, Working, R!Procs, R!RegionAssumption
<1>5. Segments'
  BY <1>1 DEF Segments, RegionTypes, MainThere, Working, Blank, Laid, Counted
<1>6. Work'
  BY <1>1 DEF Work, Segments, RegionTypes, MainThere, Working, Blank, Laid, Half, Coming, R!RegionAssumption
<1>7. QED
  BY <1>2, <1>3, <1>4, <1>5, <1>6 DEF RegionInv

\* A reader attaches, late or not.
LEMMA OpenKeeps ==
  ASSUME R!RegionAssumption, R!GeometryAssumption, ~CrashAnywhere, RegionInv, NEW r \in Readers, R!Open(r)
  PROVE  RegionInv'
<1> USE DEF R!Open, R!kernel, R!memory, R!others, R!None
<1>1. RegionTypes /\ MainThere /\ ReadersThere /\ Segments /\ Work
  BY DEF RegionInv
<1>2. RegionTypes'
  BY <1>1 DEF RegionTypes, RegionPlaces, R!Procs, R!RegionAssumption
<1>3. MainThere'
  BY <1>1 DEF MainThere, RegionTypes, Working, RegionPlaces, R!Procs, R!RegionAssumption
<1>4. ReadersThere'
  BY <1>1 DEF ReadersThere, MainThere, RegionTypes, Working, R!Procs, R!RegionAssumption
<1>5. Segments'
  BY <1>1 DEF Segments, RegionTypes, MainThere, Working, Blank, Laid, Counted
<1>6. Work'
  BY <1>1 DEF Work, Segments, RegionTypes, MainThere, Working, Blank, Laid, Half, Coming, R!RegionAssumption
<1>7. QED
  BY <1>2, <1>3, <1>4, <1>5, <1>6 DEF RegionInv

\* A reader looks a queue up.
LEMMA FindKeeps ==
  ASSUME R!RegionAssumption, R!GeometryAssumption, ~CrashAnywhere, RegionInv,
         NEW r \in Readers, NEW id \in QueueIds, R!Find(r, id)
  PROVE  RegionInv'
<1> USE DEF R!Find, R!Queue, R!kernel, R!memory, R!others, R!None
<1>1. RegionTypes /\ MainThere /\ ReadersThere /\ Segments /\ Work
  BY DEF RegionInv
<1>2. RegionTypes'
  BY <1>1 DEF RegionTypes, RegionPlaces, R!Procs, R!RegionAssumption
<1>3. MainThere'
  BY <1>1 DEF MainThere, RegionTypes, Working, RegionPlaces, R!Procs, R!RegionAssumption
<1>4. ReadersThere'
  BY <1>1 DEF ReadersThere, MainThere, RegionTypes, Working, R!Procs, R!RegionAssumption
<1>5. Segments'
  BY <1>1 DEF Segments, RegionTypes, MainThere, Working, Blank, Laid, Counted
<1>6. Work'
  BY <1>1 DEF Work, Segments, RegionTypes, MainThere, Working, Blank, Laid, Half, Coming, R!RegionAssumption
<1>7. QED
  BY <1>2, <1>3, <1>4, <1>5, <1>6 DEF RegionInv

\* A reader detaches.
LEMMA CloseKeeps ==
  ASSUME R!RegionAssumption, R!GeometryAssumption, ~CrashAnywhere, RegionInv, NEW r \in Readers, R!Close(r)
  PROVE  RegionInv'
<1> USE DEF R!Close, R!kernel, R!memory, R!others, R!None
<1>1. RegionTypes /\ MainThere /\ ReadersThere /\ Segments /\ Work
  BY DEF RegionInv
<1>2. RegionTypes'
  BY <1>1 DEF RegionTypes, RegionPlaces, R!Procs, R!RegionAssumption
<1>3. MainThere'
  BY <1>1 DEF MainThere, RegionTypes, Working, RegionPlaces, R!Procs, R!RegionAssumption
<1>4. ReadersThere'
  BY <1>1 DEF ReadersThere, MainThere, RegionTypes, Working, R!Procs, R!RegionAssumption
<1>5. Segments'
  BY <1>1 DEF Segments, RegionTypes, MainThere, Working, Blank, Laid, Counted
<1>6. Work'
  BY <1>1 DEF Work, Segments, RegionTypes, MainThere, Working, Blank, Laid, Half, Coming, R!RegionAssumption
<1>7. QED
  BY <1>2, <1>3, <1>4, <1>5, <1>6 DEF RegionInv

\* The header is written but for the free position: the segment was blank.
LEMMA HeaderKeeps ==
  ASSUME R!RegionAssumption, R!GeometryAssumption, ~CrashAnywhere, RegionInv, R!Header
  PROVE  RegionInv'
<1> USE DEF R!Header, R!kernel, R!memory, R!others, R!None
<1>1. RegionTypes /\ MainThere /\ ReadersThere /\ Segments /\ Work
  BY DEF RegionInv
<1>2. att[R!Main] = keyed /\ keyed \in 1..MaxSegs /\ keyed <= segs
  BY <1>1 DEF RegionTypes, MainThere, Working, R!RegionAssumption
<1>3. head[keyed] = [size |-> 0, num |-> 0, free |-> 0]
  BY <1>1 DEF Work, Blank
<1>4. head'[keyed] = [size |-> RegionSize, num |-> 0, free |-> 0] /\ queues'[keyed] = <<>>
  <2>1. head'[keyed] = [head[keyed] EXCEPT !.size = RegionSize, !.num = 0]
    BY <1>1, <1>2 DEF RegionTypes
  <2>2. queues'[keyed] = <<>>
    BY <1>1, <1>2 DEF RegionTypes
  <2>3. PICK h : h = [head[keyed] EXCEPT !.size = RegionSize]
    OBVIOUS
  <2>4. h = [size |-> RegionSize, num |-> 0, free |-> 0]
    BY ONLY <1>3, <2>3
  <2>5. head'[keyed] = [h EXCEPT !.num = 0]
    BY ONLY <2>1, <2>3, Zenon
  <2>6. head'[keyed] = [size |-> RegionSize, num |-> 0, free |-> 0]
    BY ONLY <2>4, <2>5
  <2>7. QED
    BY ONLY <2>2, <2>6
<1>5. \A s \in 1..MaxSegs : s # keyed => head'[s] = head[s] /\ queues'[s] = queues[s]
  BY <1>1, <1>2 DEF RegionTypes
<1>6. RegionTypes'
  <2>1. head' \in [1..MaxSegs -> HeadType]
    <3>1. [size |-> RegionSize, num |-> 0, free |-> 0] \in HeadType
      BY ONLY R!RegionAssumption DEF HeadType, R!RegionAssumption
    <3>2. head'[keyed] \in HeadType
      BY <1>4, <3>1
    <3>3. QED
      BY <1>1, <1>2, <1>5, <3>2 DEF RegionTypes
  <2>2. queues' \in [1..MaxSegs -> Seq(QueuesReady)]
    <3>1. <<>> \in Seq(QueuesReady)
      BY EmptySeq
    <3>2. QED
      BY <1>1, <1>2, <3>1 DEF RegionTypes
  <2>3. QED
    BY <1>1, <2>1, <2>2 DEF RegionTypes, RegionPlaces
<1>7. MainThere'
  BY <1>1 DEF MainThere, RegionTypes, Working, RegionPlaces, R!Procs
<1>8. ReadersThere'
  BY <1>1 DEF ReadersThere, MainThere, RegionTypes, Working, R!Procs, R!RegionAssumption
<1>9. Segments'
  BY <1>1, <1>2, <1>5 DEF Segments, Blank, Laid, Counted
<1>10. Work'
  BY <1>4 DEF Work, Half
<1>11. QED
  BY <1>6, <1>7, <1>8, <1>9, <1>10 DEF RegionInv

\* The free position makes the segment one in use, without queues.
LEMMA FreePosKeeps ==
  ASSUME R!RegionAssumption, R!GeometryAssumption, ~CrashAnywhere, RegionInv, R!FreePos
  PROVE  RegionInv'
<1> USE DEF R!FreePos, R!kernel, R!memory, R!others, R!None
<1>1. RegionTypes /\ MainThere /\ ReadersThere /\ Segments /\ Work
  BY DEF RegionInv
<1>2. att[R!Main] = keyed /\ keyed \in 1..MaxSegs /\ keyed <= segs
  BY <1>1 DEF RegionTypes, MainThere, Working, R!RegionAssumption
<1>3. Half(keyed)
  BY <1>1 DEF Work
<1>4. head'[keyed] = [size |-> RegionSize, num |-> 0, free |-> SizeOfHeader] /\ queues'[keyed] = <<>>
  BY <1>1, <1>2, <1>3 DEF RegionTypes, Half
<1>5. \A s \in 1..MaxSegs : s # keyed => head'[s] = head[s] /\ queues'[s] = queues[s]
  BY <1>1, <1>2 DEF RegionTypes
<1>6. RegionTypes'
  <2>1. head' \in [1..MaxSegs -> HeadType]
    <3>1. head'[keyed] \in HeadType
      BY <1>4 DEF HeadType, R!RegionAssumption
    <3>2. QED
      BY <1>1, <1>2, <1>5, <3>1 DEF RegionTypes
  <2>2. QED
    BY <1>1, <2>1 DEF RegionTypes, RegionPlaces
<1>7. MainThere'
  BY <1>1 DEF MainThere, RegionTypes, Working, RegionPlaces, R!Procs
<1>8. ReadersThere'
  BY <1>1 DEF ReadersThere, MainThere, RegionTypes, Working, R!Procs, R!RegionAssumption
<1>9. Segments'
  <2>1. Laid(keyed)' /\ Counted(keyed)'
    BY <1>2, <1>4 DEF Laid, Counted, R!RegionAssumption
  <2>2. ASSUME NEW s \in 1..MaxSegs, s # keyed
        PROVE  Blank(s)' \/ (s <= segs' /\ Laid(s)' /\ Counted(s)')
    BY <1>1, <1>2, <1>5, <2>2 DEF Segments, Blank, Laid, Counted
  <2>3. keyed' = keyed /\ segs' = segs
    OBVIOUS
  <2>4. QED
    BY <1>2, <1>4, <2>1, <2>2, <2>3 DEF Segments, Laid, Counted
<1>10. Work'
  BY DEF Work
<1>11. QED
  BY <1>6, <1>7, <1>8, <1>9, <1>10 DEF RegionInv

\* The queue is initialised before it is linked.
LEMMA InitQueueKeeps ==
  ASSUME R!RegionAssumption, R!GeometryAssumption, ~CrashAnywhere, RegionInv, R!InitQueue
  PROVE  RegionInv'
<1> USE DEF R!InitQueue, R!kernel, R!memory, R!others, R!None
<1>1. RegionTypes /\ MainThere /\ ReadersThere /\ Segments /\ Work
  BY DEF RegionInv
<1>2. Laid(keyed) /\ Coming(new)
  BY <1>1 DEF Work
<1>3. new' = [id |-> new.id, off |-> new.off, len |-> new.len, rcd |-> new.rcd, ready |-> TRUE]
  BY <1>2 DEF Coming, QueuesMade
<1>4. RegionTypes' /\ MainThere' /\ ReadersThere' /\ Segments'
  BY <1>1 DEF RegionTypes, MainThere, ReadersThere, Segments, RegionPlaces, Working, Laid, Blank, Counted
<1>5. new' \in QueuesMade
  BY <1>2, <1>3 DEF Coming, QueuesMade
<1>6. Work'
  BY <1>2, <1>3, <1>5 DEF Work, Laid, Coming
<1>7. QED
  BY <1>4, <1>6 DEF RegionInv

\* The count tells of the queues again.
LEMMA CountQueueKeeps ==
  ASSUME R!RegionAssumption, R!GeometryAssumption, ~CrashAnywhere, RegionInv, R!CountQueue
  PROVE  RegionInv'
<1> USE DEF R!CountQueue, R!My, R!kernel, R!memory, R!others, R!None
<1>1. RegionTypes /\ MainThere /\ ReadersThere /\ Segments /\ Work
  BY DEF RegionInv
<1>2. att[R!Main] = keyed /\ keyed \in 1..MaxSegs /\ keyed <= segs
  BY <1>1 DEF RegionTypes, MainThere, Working, R!RegionAssumption
<1>3. Laid(keyed) /\ queues[keyed] # <<>>
  BY <1>1 DEF Work
<1>4. PICK n \in Nat : n = head[keyed].num
  BY <1>1, <1>2 DEF RegionTypes, HeadType
<1>5. head'[keyed] = [head[keyed] EXCEPT !.num = n + 1]
  BY <1>1, <1>2, <1>4 DEF RegionTypes
<1>6. \A s \in 1..MaxSegs : s # keyed => head'[s] = head[s]
  BY <1>1, <1>2 DEF RegionTypes
<1>7. head'[keyed].num = n + 1 /\ head'[keyed].size = head[keyed].size /\ head'[keyed].free = head[keyed].free
  BY <1>1, <1>2, <1>5 DEF RegionTypes, HeadType
<1>8. RegionTypes'
  <2>1. head'[keyed] \in HeadType
    BY <1>1, <1>2, <1>5 DEF RegionTypes, HeadType
  <2>2. head' \in [1..MaxSegs -> HeadType]
    BY <1>1, <1>2, <1>6, <2>1 DEF RegionTypes
  <2>3. QED
    BY <1>1, <2>2 DEF RegionTypes, RegionPlaces
<1>9. MainThere'
  BY <1>1 DEF MainThere, RegionTypes, Working, RegionPlaces, R!Procs
<1>10. ReadersThere'
  BY <1>1 DEF ReadersThere, MainThere, RegionTypes, Working, R!Procs, R!RegionAssumption
<1>11. Segments'
  <2>1. Laid(keyed)' /\ Counted(keyed)'
    BY <1>2, <1>3, <1>7 DEF Laid, Counted
  <2>2. ASSUME NEW s \in 1..MaxSegs, s # keyed
        PROVE  Blank(s)' \/ (s <= segs' /\ Laid(s)' /\ Counted(s)')
    BY <1>1, <1>2, <1>6, <2>2 DEF Segments, Blank, Laid, Counted
  <2>3. keyed' = keyed /\ segs' = segs /\ queues' = queues
    OBVIOUS
  <2>4. \A s \in 1..MaxSegs : Blank(s)' \/ (s <= segs' /\ Laid(s)' /\ Counted(s)')
    BY <1>2, <1>3, <1>7, <2>2, <2>3 DEF Laid, Counted
  <2>5. QED
    BY <2>4 DEF Segments
<1>12. Work'
  BY DEF Work
<1>13. QED
  BY <1>8, <1>9, <1>10, <1>11, <1>12 DEF RegionInv

\* The queue goes in front of the list, where it lies behind all the others.
LEMMA LinkQueueKeeps ==
  ASSUME R!RegionAssumption, R!GeometryAssumption, ~CrashAnywhere, RegionInv, R!LinkQueue
  PROVE  RegionInv'
<1> USE DEF R!LinkQueue, R!My, R!kernel, R!memory, R!others, R!None
<1>1. RegionTypes /\ MainThere /\ ReadersThere /\ Segments /\ Work
  BY DEF RegionInv
<1>2. att[R!Main] = keyed /\ keyed \in 1..MaxSegs /\ keyed <= segs
  BY <1>1 DEF RegionTypes, MainThere, Working, R!RegionAssumption
<1>3. Laid(keyed) /\ Coming(new) /\ new.ready = TRUE
  BY <1>1 DEF Work
<1>4. new \in QueuesReady
  BY <1>3 DEF Coming, QueuesReady
<1>5. PICK q \in Seq(QueuesReady) : q = queues[keyed]
  BY <1>1, <1>2 DEF RegionTypes
<1>6. PICK c : c = <<new>> \o q
  OBVIOUS
<1>7. /\ c \in Seq(QueuesReady) /\ c # <<>>
      /\ \A i \in DOMAIN c : \/ i = 1 /\ c[i] = new
                             \/ i > 1 /\ i - 1 \in DOMAIN q /\ c[i] = q[i - 1]
  BY <1>4, <1>6, InFront
<1>8. queues'[keyed] = c /\ \A s \in 1..MaxSegs : s # keyed => queues'[s] = queues[s]
  BY <1>1, <1>2, <1>5, <1>6 DEF RegionTypes
<1>9. RegionTypes'
  <2>1. queues' \in [1..MaxSegs -> Seq(QueuesReady)]
    BY <1>1, <1>2, <1>7, <1>8 DEF RegionTypes
  <2>2. QED
    BY <1>1, <2>1 DEF RegionTypes, RegionPlaces
<1>10. MainThere' /\ ReadersThere'
  BY <1>1 DEF MainThere, ReadersThere, RegionTypes, Working, RegionPlaces, R!Procs
<1>11. Laid(keyed)'
  <2>1. PICK f : f = head[keyed].free
    OBVIOUS
  <2>2. /\ head[keyed].size = RegionSize /\ SizeOfHeader <= f /\ f <= RegionSize
        /\ \A i \in DOMAIN q : q[i].off + q[i].len <= f
        /\ \A i, j \in DOMAIN q : i < j => q[i].id # q[j].id /\ q[j].off + q[j].len <= q[i].off
    BY <1>3, <1>5, <2>1 DEF Laid
  <2>3. /\ new.off + new.len <= f
        /\ \A i \in DOMAIN q : q[i].id # new.id /\ q[i].off + q[i].len <= new.off
    BY <1>3, <1>5, <2>1 DEF Coming
  <2>4. \A i \in DOMAIN c : i \in Nat /\ c[i].off + c[i].len <= f
    <3>1. \A i \in DOMAIN c : i \in Nat
      BY <1>7, LenProperties
    <3>2. QED
      BY <1>7, <2>2, <2>3, <3>1
  <2>5. \A i, j \in DOMAIN c : i < j => c[i].id # c[j].id /\ c[j].off + c[j].len <= c[i].off
    <3>1. SUFFICES ASSUME NEW i \in DOMAIN c, NEW j \in DOMAIN c, i < j
                   PROVE  c[i].id # c[j].id /\ c[j].off + c[j].len <= c[i].off
      OBVIOUS
    <3>2. i \in Nat /\ j \in Nat
      BY <2>4
    <3>3. j > 1 /\ j - 1 \in DOMAIN q /\ c[j] = q[j - 1]
      <4>1. i >= 1
        BY <1>7
      <4>2. j # 1
        BY <3>1, <3>2, <4>1
      <4>3. QED
        BY <1>7, <4>2
    <3>4. CASE i = 1 /\ c[i] = new
      BY <2>3, <3>3, <3>4
    <3>5. CASE i > 1 /\ i - 1 \in DOMAIN q /\ c[i] = q[i - 1]
      <4>1. i - 1 < j - 1
        BY <3>1, <3>2
      <4>2. QED
        BY <2>2, <3>3, <3>5, <4>1
    <3>6. QED
      BY <1>7, <3>4, <3>5
  <2>6. queues'[keyed'] = c /\ head'[keyed'] = head[keyed]
    BY <1>8
  <2>7. /\ \A i \in DOMAIN queues'[keyed'] :
             queues'[keyed'][i].off + queues'[keyed'][i].len <= head'[keyed'].free
        /\ \A i, j \in DOMAIN queues'[keyed'] : i < j =>
             /\ queues'[keyed'][i].id # queues'[keyed'][j].id
             /\ queues'[keyed'][j].off + queues'[keyed'][j].len <= queues'[keyed'][i].off
    BY ONLY <2>1, <2>4, <2>5, <2>6
  <2>8. QED
    BY ONLY <2>1, <2>2, <2>6, <2>7 DEF Laid
<1>12. Segments'
  <2>1. ASSUME NEW s \in 1..MaxSegs, s # keyed
        PROVE  Blank(s)' \/ (s <= segs' /\ Laid(s)' /\ Counted(s)')
    BY <1>1, <1>2, <1>8, <2>1 DEF Segments, Blank, Laid, Counted
  <2>2. keyed' = keyed /\ segs' = segs /\ head' = head /\ pc' = "count"
    OBVIOUS
  <2>3. ASSUME NEW s \in 1..MaxSegs, s = keyed
        PROVE  s <= segs' /\ Laid(s)'
    BY <1>2, <1>11, <2>2, <2>3 DEF Laid
  <2>4. QED
    BY <2>1, <2>2, <2>3 DEF Segments
<1>13. Work'
  BY <1>7, <1>8, <1>11 DEF Work, Laid
<1>14. QED
  BY <1>9, <1>10, <1>12, <1>13 DEF RegionInv

\* A queue that has room is put at the free position; a segment without one has no room.
LEMMA CreateQueueKeeps ==
  ASSUME R!RegionAssumption, R!GeometryAssumption, ~CrashAnywhere, RegionInv,
         NEW id \in QueueIds, NEW r \in Requests, R!CreateQueue(id, r[1], r[2])
  PROVE  RegionInv'
<1> USE DEF R!My, R!kernel, R!memory, R!others, R!None
<1>1. RegionTypes /\ MainThere /\ ReadersThere /\ Segments /\ Work
  BY DEF RegionInv
<1>2. pc = "serve" /\ att[R!Main] = keyed /\ keyed \in 1..MaxSegs /\ keyed <= segs
  BY <1>1 DEF R!CreateQueue, RegionTypes, MainThere, Working, R!RegionAssumption
<1>3. PICK rcd \in Nat, len \in Nat : rcd = r[2] /\ len = R!QueueLen(r[1], r[2])
  BY DEF R!RegionAssumption
<1>4. /\ R!Queue(keyed, id) = {}
      /\ head[keyed].size - head[keyed].free >= len
      /\ \/ /\ R!Asserted(len, rcd)
            /\ new' = [id |-> id, off |-> head[keyed].free, len |-> len, rcd |-> rcd, ready |-> FALSE]
            /\ head' = [head EXCEPT ![keyed].free = @ + len]
            /\ pc' = "init" /\ UNCHANGED att
         \/ R!Fail /\ UNCHANGED <<new, head>>
      /\ UNCHANGED <<segs, keyed, queues, seen, late, found>>
  BY <1>2, <1>3 DEF R!CreateQueue
<1>5. PICK h \in HeadType : h = head[keyed]
  BY <1>1, <1>2 DEF RegionTypes
<1>6. CASE R!Fail /\ UNCHANGED <<new, head>>
  <2>1. pc' = "down" /\ att' = [att EXCEPT ![R!Main] = R!None]
    BY <1>6 DEF R!Fail
  <2>2. RegionTypes'
    BY <1>1, <1>4, <1>6, <2>1 DEF RegionTypes, RegionPlaces, R!Procs, R!RegionAssumption
  <2>3. MainThere'
    BY <1>1, <1>4, <2>1 DEF MainThere, RegionTypes, Working, R!Procs
  <2>4. ReadersThere'
    BY <1>1, <1>4, <2>1 DEF ReadersThere, RegionTypes, R!Procs, R!RegionAssumption
  <2>5. Segments'
    BY <1>1, <1>2, <1>4, <1>6, <2>1 DEF Segments, Blank, Laid, Counted
  <2>6. Work'
    BY <2>1 DEF Work
  <2>7. QED
    BY <2>2, <2>3, <2>4, <2>5, <2>6 DEF RegionInv
<1>7. CASE /\ R!Asserted(len, rcd)
           /\ new' = [id |-> id, off |-> head[keyed].free, len |-> len, rcd |-> rcd, ready |-> FALSE]
           /\ head' = [head EXCEPT ![keyed].free = @ + len]
           /\ pc' = "init" /\ UNCHANGED att
  <2>1. len > 0
    BY <1>7, AcceptedHasRoom
  <2>2. Laid(keyed) /\ Counted(keyed)
    <3>1. ~Blank(keyed)
      BY <1>4, <2>1 DEF Blank
    <3>2. QED
      BY <1>1, <1>2, <3>1 DEF Segments
  <2>3. \A i \in DOMAIN queues[keyed] : queues[keyed][i].id # id
    <3>1. SUFFICES ASSUME NEW i \in DOMAIN queues[keyed] PROVE queues[keyed][i].id # id
      OBVIOUS
    <3>2. queues[keyed] # <<>>
      OBVIOUS
    <3>3. head[keyed].num > 0
      BY <2>2, <3>2 DEF Counted
    <3>4. QED
      BY <1>4, <3>3 DEF R!Queue
  <2>4. h.free \in Nat /\ h.size = RegionSize /\ SizeOfHeader <= h.free /\ h.free + len <= RegionSize
    <3>1. h.free \in Nat /\ h.size \in Nat
      BY DEF HeadType
    <3>2. h.size = RegionSize /\ SizeOfHeader <= h.free
      BY <1>5, <2>2 DEF Laid
    <3>3. QED
      BY <1>4, <1>5, <3>1, <3>2
  <2>5. head'[keyed] = [size |-> RegionSize, num |-> h.num, free |-> h.free + len]
    <3>1. head'[keyed] = [h EXCEPT !.free = h.free + len]
      BY <1>1, <1>2, <1>5, <1>7 DEF RegionTypes
    <3>2. QED
      BY <2>4, <3>1 DEF HeadType
  <2>6. \A s \in 1..MaxSegs : s # keyed => head'[s] = head[s]
    BY <1>1, <1>2, <1>7 DEF RegionTypes
  <2>7. RegionTypes'
    <3>1. head'[keyed] \in HeadType
      BY <2>4, <2>5 DEF HeadType, R!RegionAssumption
    <3>2. head' \in [1..MaxSegs -> HeadType]
      BY <1>1, <1>2, <1>7, <2>6, <3>1 DEF RegionTypes
    <3>3. QED
      BY <1>1, <1>4, <1>7, <3>2 DEF RegionTypes, RegionPlaces
  <2>8. MainThere' /\ ReadersThere'
    BY <1>1, <1>2, <1>4, <1>7 DEF MainThere, ReadersThere, RegionTypes, Working, RegionPlaces, R!Procs
  <2>9. \A i \in DOMAIN queues[keyed] : queues[keyed][i].off + queues[keyed][i].len <= h.free
    BY <1>5, <2>2 DEF Laid
  <2>10. \A i \in DOMAIN queues[keyed] : queues[keyed][i].off \in Nat /\ queues[keyed][i].len \in Nat
    <3>1. queues[keyed] \in Seq(QueuesReady)
      BY <1>1, <1>2 DEF RegionTypes
    <3>2. QED
      BY <3>1, ElementOfSeq, LenProperties DEF QueuesReady, QueuesMade
  <2>11. Laid(keyed)'
    <3>1. SizeOfHeader \in Nat
      BY DEF R!RegionAssumption
    <3>2. \A i \in DOMAIN queues[keyed] : queues[keyed][i].off + queues[keyed][i].len <= h.free + len
      BY <2>4, <2>9, <2>10
    <3>3. SizeOfHeader <= h.free + len
      BY <2>4, <3>1
    <3>4. QED
      BY <1>4, <2>2, <2>4, <2>5, <3>2, <3>3 DEF Laid
  <2>12. Counted(keyed)'
    BY <1>4, <1>5, <2>2, <2>5 DEF Counted
  <2>13. Segments'
    <3>1. ASSUME NEW s \in 1..MaxSegs, s # keyed
          PROVE  Blank(s)' \/ (s <= segs' /\ Laid(s)' /\ Counted(s)')
      BY <1>1, <1>2, <1>4, <2>6, <3>1 DEF Segments, Blank, Laid, Counted
    <3>2. ASSUME NEW s \in 1..MaxSegs, s = keyed
          PROVE  s <= segs' /\ Laid(s)' /\ Counted(s)'
      BY <1>2, <1>4, <2>11, <2>12, <3>2 DEF Laid, Counted
    <3>3. QED
      BY <3>1, <3>2 DEF Segments
  <2>14. Coming(new)'
    <3>1. new' \in QueuesMade
      BY <1>5, <1>7, <2>4 DEF QueuesMade
    <3>2. new'.off + new'.len <= head'[keyed].free
      BY <1>5, <1>7, <2>4, <2>5
    <3>3. \A i \in DOMAIN queues[keyed] :
            /\ queues[keyed][i].id # new'.id
            /\ queues[keyed][i].off + queues[keyed][i].len <= new'.off
      BY <1>5, <1>7, <2>3, <2>9
    <3>4. QED
      BY <1>4, <3>1, <3>2, <3>3 DEF Coming
  <2>15. Work'
    BY <1>4, <1>7, <2>11, <2>14 DEF Work, Laid
  <2>16. QED
    BY <2>7, <2>8, <2>13, <2>15 DEF RegionInv
<1>8. QED
  BY <1>4, <1>6, <1>7

LEMMA RegionStep ==
  ASSUME R!RegionAssumption, R!GeometryAssumption, ~CrashAnywhere, RegionInv, [R!Next]_(R!regionVars)
  PROVE  RegionInv'
<1>1. CASE R!DelGet
  BY <1>1, DelGetKeeps
<1>2. CASE R!Stat
  BY <1>2, StatKeeps
<1>3. CASE R!Rmid
  BY <1>3, RmidKeeps
<1>4. CASE R!Excl
  BY <1>4, ExclKeeps
<1>5. CASE R!Attach
  BY <1>5, AttachKeeps
<1>6. CASE R!Header
  BY <1>6, HeaderKeeps
<1>7. CASE R!FreePos
  BY <1>7, FreePosKeeps
<1>8. CASE R!Get
  BY <1>8, GetKeeps
<1>9. ASSUME NEW id \in QueueIds, NEW q \in Requests, R!CreateQueue(id, q[1], q[2])
      PROVE  RegionInv'
  BY <1>9, CreateQueueKeeps
<1>10. CASE R!InitQueue
  BY <1>10, InitQueueKeeps
<1>11. CASE R!LinkQueue
  BY <1>11, LinkQueueKeeps
<1>12. CASE R!CountQueue
  BY <1>12, CountQueueKeeps
<1>13. CASE R!Leave
  BY <1>13, LeaveKeeps
<1>14. ASSUME NEW r \in Readers, R!Open(r) \/ R!Close(r) \/ \E id \in QueueIds : R!Find(r, id)
       PROVE  RegionInv'
  BY <1>14, OpenKeeps, CloseKeeps, FindKeeps
<1>15. CASE UNCHANGED R!regionVars
  BY <1>15 DEF R!regionVars, RegionInv, RegionTypes, MainThere, ReadersThere, Segments, Work, Blank, Half,
               Laid, Counted, Coming
<1>16. QED
  BY <1>1, <1>2, <1>3, <1>4, <1>5, <1>6, <1>7, <1>8, <1>9, <1>10, <1>11, <1>12, <1>13, <1>14, <1>15 DEF R!Next

-----------------------------------------------------------------------------
(* What the invariant says of those who use the region. *)

\* A queue in a list was made and initialised by ipc_shm_queue_create.
LEMMA ListedMade ==
  ASSUME RegionTypes, NEW s \in 1..MaxSegs, NEW i \in DOMAIN queues[s]
  PROVE  queues[s][i] \in QueuesReady
<1>1. queues[s] \in Seq(QueuesReady)
  BY DEF RegionTypes
<1>2. QED
  BY <1>1, ElementOfSeq, LenProperties

LEMMA RegionIsSound ==
  ASSUME R!RegionAssumption, R!GeometryAssumption, RegionInv
  PROVE  RegionSound
<1>1. RegionTypes /\ MainThere /\ ReadersThere /\ Segments /\ Work
  BY DEF RegionInv
<1>2. R!SameRegion
  BY <1>1 DEF R!SameRegion, MainThere, ReadersThere, Working, R!My
<1>3. segs \in Nat /\ 1..segs \subseteq 1..MaxSegs
  BY <1>1 DEF RegionTypes, R!RegionAssumption
<1>4. ASSUME NEW s \in 1..segs, NEW i \in DOMAIN queues[s]
      PROVE  Laid(s)
  <2>1. queues[s] # <<>>
    BY <1>4
  <2>2. QED
    BY <1>1, <1>3, <2>1 DEF Segments, Blank, Work, Half
<1>5. R!QueuesApart
  <2>1. ASSUME NEW s \in 1..segs, NEW i \in DOMAIN queues[s], NEW j \in DOMAIN queues[s]
        PROVE  /\ SizeOfHeader <= queues[s][i].off /\ queues[s][i].off + queues[s][i].len <= RegionSize
               /\ i < j => /\ queues[s][i].id # queues[s][j].id
                           /\ queues[s][j].off + queues[s][j].len <= queues[s][i].off
    <3>1. Laid(s)
      BY <1>4
    <3>2. queues[s][i] \in QueuesReady /\ head[s] \in HeadType
      BY <1>1, <1>3, ListedMade DEF RegionTypes
    <3>3. PICK a \in QueuesReady : a = queues[s][i]
      BY <3>2
    <3>4. a.off \in Nat /\ a.len \in Nat /\ SizeOfHeader <= a.off
      BY DEF QueuesReady, QueuesMade
    <3>5. a.off + a.len <= head[s].free /\ head[s].free <= RegionSize
      BY <3>1, <3>3 DEF Laid
    <3>6. head[s].free \in Nat /\ RegionSize \in Nat
      BY <3>2 DEF HeadType, R!RegionAssumption
    <3>7. a.off + a.len <= RegionSize
      BY <3>4, <3>5, <3>6
    <3>8. i < j => /\ queues[s][i].id # queues[s][j].id
                   /\ queues[s][j].off + queues[s][j].len <= queues[s][i].off
      BY <3>1 DEF Laid
    <3>9. QED
      BY <3>3, <3>4, <3>7, <3>8
  <2>2. \A r \in Readers : found[r] # R!NoQueue => found[r].ready
    <3>1. TAKE r \in Readers
    <3>2. found[r] \in QueuesReady \cup {R!NoQueue}
      BY <1>1 DEF RegionTypes
    <3>3. QED
      BY <3>2 DEF QueuesReady
  <2>3. QED
    BY <2>1, <2>2 DEF R!QueuesApart
<1>6. R!BlocksTile
  <2>1. SUFFICES ASSUME NEW shape \in R!Shapes
                 PROVE  LET len == shape[1]   rcd == shape[2]
                            b == R!Blocks(len, rcd)   n == R!BlkNum(len, rcd)   size == R!BlkSize(len, rcd)
                        IN
                        /\ b[1].off = SizeOfQueue
                        /\ \A k \in 1..n - 1 : b[k].size = size /\ b[k+1].off = b[k].off + size
                        /\ SizeOfBlock + PubNum * rcd <= size
                        /\ b[n].size > 0 /\ b[n].off + b[n].size = len
    BY DEF R!BlocksTile
  <2>2. PICK s \in 1..segs : shape \in {<<queues[s][i].len, queues[s][i].rcd>> : i \in DOMAIN queues[s]}
    BY DEF R!Shapes
  <2>3. PICK i \in DOMAIN queues[s] : shape = <<queues[s][i].len, queues[s][i].rcd>>
    BY <2>2
  <2>4. PICK a \in QueuesReady : a = queues[s][i]
    BY <1>1, <1>3, ListedMade
  <2>5. a.len \in Nat /\ a.rcd \in Nat /\ R!Asserted(a.len, a.rcd)
    BY DEF QueuesReady, QueuesMade
  <2>6. shape[1] = a.len /\ shape[2] = a.rcd
    BY <2>3, <2>4
  <2>7. QED
    BY <2>5, <2>6, BlocksCover
<1>7. QED
  BY <1>2, <1>5, <1>6 DEF RegionSound, R!RegionSound

\* Over creations that are cut short and repeated, and restarts with readers that attach and
\* detach: the readers use the region that is served, the queues of a region lie behind its
\* header, inside it and apart, and the blocks of every queue cover its payload without gap or
\* overlap.  A crash between two stores of the header or of the count is left out, as in the
\* run: ipc_shm_header_init does not survive it.
THEOREM RegionHolds ==
  ASSUME R!RegionAssumption, R!GeometryAssumption, ~CrashAnywhere
  PROVE  R!Spec => []RegionSound
<1>1. R!Init => RegionInv
  BY RegionInit
<1>2. RegionInv /\ [R!Next]_(R!regionVars) => RegionInv'
  BY RegionStep
<1>3. RegionInv => RegionSound
  BY RegionIsSound
<1>4. QED
  BY <1>1, <1>2, <1>3, PTL DEF R!Spec
=============================================================================
