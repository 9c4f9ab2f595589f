-------------------------------- MODULE Pool --------------------------------
(***************************************************************************)
(* A memory pool of ce_palloc.c: a chain of blocks of one size from which  *)
(* small pieces are cut, a list of large chunks of their own, and a list   *)
(* of clean-up records.  The nodes of both lists are cut from the blocks.  *)
(* Sizes and offsets are in bytes, with the sizes of a 64-bit build.       *)
(*                                                                         *)
(* Operators named for a mistake (RoomBeforeAlign, ...) are wrong versions *)
(* of the definition after them; nothing in the specification uses them.   *)
(***************************************************************************)
EXTENDS Integers, Sequences, FiniteSets, TLC

CONSTANTS
  PSize,             \* the size ce_create_pool is called with
  Sizes,             \* sizes the callers ask for
  Chunks,            \* what malloc can give for large requests
  MaxBlocks,         \* how many blocks posix_memalign can give
  MaxPieces,         \* bound: requests are made while fewer pieces are held
  NULL,
  ResetWithCleanup   \* whether callers reset a pool that has clean-up records

CE_ALIGNMENT == 8
PoolT    == 64      \* sizeof(ce_pool_t)
DataT    == 32      \* sizeof(ce_pool_data_t)
LargeT   == 16      \* sizeof(ce_pool_large_t)
CleanupT == 24      \* sizeof(ce_pool_cleanup_t)
CE_MAX_ALLOC_FROM_POOL == 4095

\* All callers of ce_create_pool ask for a multiple of the alignment, and for no less
\* than CE_MIN_POOL_SIZE.
ASSUME PoolAssumption ==
  /\ PSize \in Nat /\ PSize >= PoolT + 2 * LargeT /\ PSize % CE_ALIGNMENT = 0
  /\ Sizes \subseteq Nat
  /\ MaxBlocks \in Nat \ {0} /\ MaxPieces \in Nat
  /\ NULL \notin Chunks
  /\ ResetWithCleanup \in BOOLEAN

VARIABLES
  last, failed,      \* per block: d.last as an offset, d.failed
  current,           \* the block pool->current points to
  large,             \* the list of large chunks: where its node is, its chunk or NULL
  cleanup,           \* the list of clean-up records: where each is
  heap,              \* the large chunks malloc has given and free has not got back
  held,              \* every piece cut from the blocks since the last reset, in order
  alive              \* FALSE after ce_destroy_pool

vars == <<last, failed, current, large, cleanup, heap, held, alive>>

\* The blocks as the allocating functions see them; a function that calls another one
\* hands it the blocks it got from the one before.
Blocks == [last |-> last, failed |-> failed, current |-> current]

Piece(b, m, n) == [blk |-> b, at |-> m, size |-> n]

Num(c)    == Len(c.last)
AlignUp(x) == ((x + CE_ALIGNMENT - 1) \div CE_ALIGNMENT) * CE_ALIGNMENT

\* pool->max, the largest request that is cut from a block.
MaxSmall ==
  IF PSize - PoolT < CE_MAX_ALLOC_FROM_POOL THEN PSize - PoolT ELSE CE_MAX_ALLOC_FROM_POOL

\* Where a request begins in block i: ce_palloc aligns, ce_pnalloc does not.
Start(c, i, aligned) == IF aligned THEN AlignUp(c.last[i]) ELSE c.last[i]

RoomBeforeAlign(c, i, n, aligned) == PSize - c.last[i] >= n

\* (size_t)(p->d.end - m) >= size: a start behind the end counts as endless room.
Room(c, i, n, aligned) ==
  LET m == Start(c, i, aligned) IN m > PSize \/ PSize - m >= n

Fitting(c, n, aligned) == {i \in c.current..Num(c) : Room(c, i, n, aligned)}

FirstFitting(c, n, aligned) ==
  CHOOSE i \in Fitting(c, n, aligned) : \A j \in Fitting(c, n, aligned) : i <= j

\* What a function that allocates does: the blocks after it, and the piece it cut from
\* them in a sequence, which is empty if it returns NULL.
Outcome(c, got) == [blocks |-> c, got |-> got]

Cut(c, i, m, n) == Outcome([c EXCEPT !.last[i] = m + n], <<Piece(i, m, n)>>)

\* Every block from current to the last but one has failed once more; current moves
\* behind the last of those that had failed more than four times before.
Tired(c) == {i \in c.current..(Num(c) - 1) : c.failed[i] > 4}

NextCurrent(c) ==
  IF Tired(c) = {} THEN c.current
  ELSE 1 + (CHOOSE i \in Tired(c) : \A j \in Tired(c) : j <= i)

NewBlockNotCut(c, n) ==
  LET m == AlignUp(DataT) IN
  Outcome([last |-> Append(c.last, m), failed |-> Append(c.failed, 0),
           current |-> NextCurrent(c)],
          <<Piece(Num(c) + 1, m, n)>>)

NewBlock(c, n) ==
  LET m == AlignUp(DataT) IN
  Outcome([last    |-> Append(c.last, m + n),
           failed  |-> Append([i \in 1..Num(c) |->
                                 IF i \in c.current..(Num(c) - 1) THEN c.failed[i] + 1
                                 ELSE c.failed[i]], 0),
           current |-> NextCurrent(c)],
          <<Piece(Num(c) + 1, m, n)>>)

\* ce_palloc and ce_pnalloc of a small request.
Small(c, n, aligned) ==
  IF Fitting(c, n, aligned) # {}
  THEN LET i == FirstFitting(c, n, aligned) IN {Cut(c, i, Start(c, i, aligned), n)}
  ELSE {Outcome(c, <<>>)} \cup IF Num(c) < MaxBlocks THEN {NewBlock(c, n)} ELSE {}

\* A large request: one of the first five nodes without a chunk is used again, else
\* there is a new node, and no allocation if there is none.
Reusable(lg) == {i \in DOMAIN lg : i <= 5 /\ lg[i].alloc = NULL}

FirstReusable(lg) == CHOOSE i \in Reusable(lg) : \A j \in Reusable(lg) : i <= j

\* What it does to blocks, list and heap: the outcome of cutting the node, the list, and
\* the chunk that stays allocated in a set.
LargeOutcome(o, lg, kept) == [node |-> o, large |-> lg, kept |-> kept]

NewNodeLeaks(c, lg, x) ==
  {LargeOutcome(o,
                IF o.got = <<>> THEN lg ELSE <<[node |-> o.got[1], alloc |-> x]>> \o lg,
                {x}) : o \in Small(c, LargeT, TRUE)}

NewNode(c, lg, x) ==
  {LargeOutcome(o,
                IF o.got = <<>> THEN lg ELSE <<[node |-> o.got[1], alloc |-> x]>> \o lg,
                IF o.got = <<>> THEN {} ELSE {x}) : o \in Small(c, LargeT, TRUE)}

PallocLarge(c, lg, x) ==
  IF Reusable(lg) # {}
  THEN {LargeOutcome(Outcome(c, <<>>), [lg EXCEPT ![FirstReusable(lg)].alloc = x], {x})}
  ELSE NewNode(c, lg, x)

-----------------------------------------------------------------------------

\* A caller may ask for memory.
Asks == alive /\ Len(held) < MaxPieces

Become(c) == last' = c.last /\ failed' = c.failed /\ current' = c.current

Init ==
  /\ last = <<PoolT>> /\ failed = <<0>> /\ current = 1
  /\ large = <<>> /\ cleanup = <<>> /\ heap = {} /\ held = <<>> /\ alive = TRUE

Palloc(n, aligned) ==
  /\ Asks /\ n <= MaxSmall
  /\ \E o \in Small(Blocks, n, aligned) : Become(o.blocks) /\ held' = held \o o.got
  /\ UNCHANGED <<large, cleanup, heap, alive>>

TakeLarge(l) ==
  /\ Become(l.node.blocks)
  /\ held' = held \o l.node.got
  /\ large' = l.large
  /\ heap' = heap \cup l.kept
  /\ UNCHANGED <<cleanup, alive>>

\* ce_palloc of a large request.
Large(n) ==
  /\ Asks /\ n > MaxSmall
  /\ \E x \in Chunks \ heap : \E l \in PallocLarge(Blocks, large, x) : TakeLarge(l)

\* ce_pmemalign never looks for a node to use again.
Pmemalign ==
  /\ Asks
  /\ \E x \in Chunks \ heap : \E l \in NewNode(Blocks, large, x) : TakeLarge(l)

\* ce_pfree gives a chunk back; its node stays on the list.
Pfree(x) ==
  /\ alive
  /\ \E i \in DOMAIN large :
       /\ large[i].alloc = x
       /\ \A j \in 1..(i - 1) : large[j].alloc # x
       /\ large' = [large EXCEPT ![i].alloc = NULL]
  /\ heap' = heap \ {x}
  /\ UNCHANGED <<last, failed, current, cleanup, held, alive>>

\* ce_pool_cleanup_add: a record, and n bytes for its data.  Without the data the record
\* is not linked, and its memory is lost until the pool is destroyed.
CleanupAdd(n) ==
  /\ Asks
  /\ \E o \in Small(Blocks, CleanupT, TRUE) :
       \/ /\ o.got = <<>> \/ n = 0
          /\ Become(o.blocks) /\ held' = held \o o.got
          /\ cleanup' = o.got \o cleanup
          /\ UNCHANGED <<large, heap>>
       \/ /\ o.got # <<>> /\ n \in 1..MaxSmall
          /\ \E d \in Small(o.blocks, n, TRUE) :
               /\ Become(d.blocks) /\ held' = held \o o.got \o d.got
               /\ cleanup' = IF d.got = <<>> THEN cleanup ELSE o.got \o cleanup
          /\ UNCHANGED <<large, heap>>
       \/ /\ o.got # <<>> /\ n > MaxSmall
          /\ \E x \in Chunks \ heap : \E l \in PallocLarge(o.blocks, large, x) :
               /\ Become(l.node.blocks) /\ held' = held \o o.got \o l.node.got
               /\ large' = l.large /\ heap' = heap \cup l.kept
               /\ cleanup' = IF l.kept = {} THEN cleanup ELSE o.got \o cleanup
       \/ /\ o.got # <<>> /\ n > MaxSmall
          /\ Become(o.blocks) /\ held' = held \o o.got
          /\ UNCHANGED <<large, heap, cleanup>>
  /\ UNCHANGED alive

Chunked == {large[i].alloc : i \in DOMAIN large}

ResetKeepsList ==
  /\ alive /\ (cleanup = <<>> \/ ResetWithCleanup)
  /\ last' = [i \in DOMAIN last |-> PoolT]
  /\ large' = [i \in DOMAIN large |-> [large[i] EXCEPT !.alloc = NULL]]
  /\ heap' = heap \ Chunked /\ held' = <<>>
  /\ UNCHANGED <<failed, current, cleanup, alive>>

\* ce_reset_pool moves every d.last back.  It leaves failed, current and cleanup alone.
Reset ==
  /\ alive /\ (cleanup = <<>> \/ ResetWithCleanup)
  /\ last' = [i \in DOMAIN last |-> PoolT]
  /\ large' = <<>> /\ heap' = heap \ Chunked /\ held' = <<>>
  /\ UNCHANGED <<failed, current, cleanup, alive>>

\* ce_destroy_pool frees the chunks and the blocks.
Destroy ==
  /\ alive /\ alive' = FALSE
  /\ large' = <<>> /\ heap' = heap \ Chunked /\ held' = <<>> /\ cleanup' = <<>>
  /\ UNCHANGED <<last, failed, current>>

Next ==
  \/ \E n \in Sizes, aligned \in BOOLEAN : Palloc(n, aligned)
  \/ \E n \in Sizes : Large(n)
  \/ Pmemalign
  \/ \E x \in Chunks : Pfree(x)
  \/ \E n \in Sizes : CleanupAdd(n)
  \/ Reset
  \/ Destroy

Spec == Init /\ [][Next]_vars

-----------------------------------------------------------------------------
(* Properties *)

Pieces == [blk : Nat, at : Nat, size : Nat]

TypeOK ==
  /\ last \in Seq(Nat) /\ failed \in Seq(Nat)
  /\ Len(last) > 0 /\ Len(failed) = Len(last)
  /\ current \in 1..Len(last)
  /\ large \in Seq([node : Pieces, alloc : Chunks \cup {NULL}])
  /\ cleanup \in Seq(Pieces)
  /\ heap \subseteq Chunks
  /\ held \in Seq(Pieces)
  /\ alive \in BOOLEAN

\* ce_palloc, ce_pnalloc, ce_palloc_large, ce_pmemalign and ce_pool_cleanup_add never hand out
\* memory that is in use, by a caller or for a node or record of the pool itself, in any
\* order of calls, over resets.
A == INSTANCE Arena

ImplementsArena == A!Spec

\* Pieces lie in their block, behind its header and before d.last: the new block of
\* ce_palloc_block, which tests nothing, has room for what it was made for.
Header(i) == IF i = 1 THEN PoolT ELSE DataT

InsideBlocks ==
  /\ \A i \in DOMAIN last : last[i] \in Header(i)..PSize
  /\ \A k \in DOMAIN held :
       /\ held[k].blk \in DOMAIN last
       /\ Header(held[k].blk) <= held[k].at
       /\ held[k].at + held[k].size <= last[held[k].blk]

\* The nodes of the large list and the clean-up records.
Records == [i \in DOMAIN large |-> large[i].node] \o cleanup

\* A large chunk that malloc gave is on the list of the pool exactly once until it is given
\* back, and nothing else is: none is leaked by a failed or reused node, a reset or the
\* destruction, and none is freed twice.
ChunksListed ==
  /\ heap = Chunked \ {NULL}
  /\ \A i, j \in DOMAIN large : large[i].alloc = large[j].alloc /\ i # j => large[i].alloc = NULL

\* What the pool needs to know what it owes is safe in its own blocks: the nodes and the
\* records are pieces given out for them and not taken back by a reset, none for two of
\* them, and they name exactly the chunks malloc gave.
BookkeepingHeld ==
  /\ \A i \in DOMAIN Records : \E k \in DOMAIN held : held[k] = Records[i]
  /\ A!AllDisjoint(Records)
  /\ ChunksListed
=============================================================================
