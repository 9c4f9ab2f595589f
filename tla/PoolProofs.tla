----------------------------- MODULE PoolProofs -----------------------------
(***************************************************************************)
(* Pool implements Arena: no piece of memory is handed out twice, for      *)
(* every size of pool and request and every sequence of calls.             *)
(***************************************************************************)
EXTENDS Pool, SequenceTheorems, WellFoundedInduction, TLAPS

\* What the functions that allocate take and give back.
BlocksType(c) ==
  /\ c \in [last : Seq(Nat), failed : Seq(Nat), current : Nat]
  /\ Len(c.last) > 0 /\ Len(c.failed) = Len(c.last)
  /\ c.current \in 1..Len(c.last)

InRange(c) == \A i \in DOMAIN c.last : c.last[i] \in Header(i)..PSize

Within(c, r) ==
  /\ r.blk \in DOMAIN c.last
  /\ Header(r.blk) <= r.at
  /\ r.at + r.size <= c.last[r.blk]

HeldIn(c, h) ==
  /\ h \in Seq(Pieces)
  /\ \A k \in DOMAIN h : Within(c, h[k])
  /\ A!AllDisjoint(h)

Good(c, h) == BlocksType(c) /\ InRange(c) /\ HeldIn(c, h)

\* The inductive invariant of the refinement.
PoolInv ==
  /\ Good(Blocks, held)
  /\ large \in Seq([node : Pieces, alloc : Chunks \cup {NULL}])
  /\ cleanup \in Seq(Pieces)
  /\ heap \subseteq Chunks
  /\ alive \in BOOLEAN

\* A set of numbers has a least element ...
LEMMA LeastOf ==
  ASSUME NEW S, S \subseteq Nat, S # {}
  PROVE  \E i \in S : \A j \in S : i <= j
<1>1. PICK x \in S : \A y \in S : ~ (<<y, x>> \in OpToRel(<, Nat))
  BY NatLessThanWellFounded, WFMin
<1>2. \A y \in S : ~ (y < x)
  BY <1>1 DEF OpToRel
<1>3. QED
  BY <1>2

\* ... and a greatest one if it is bounded.
LEMMA GreatestOf ==
  ASSUME NEW m \in Nat, NEW S, S \subseteq 0..m, S # {}
  PROVE  \E i \in S : \A j \in S : j <= i
<1> DEFINE Gaps == {g \in Nat : \E i \in S : g = m - i}
<1>1. Gaps \subseteq Nat /\ Gaps # {}
  <2>1. PICK i \in S : TRUE
    OBVIOUS
  <2>2. m - i \in Gaps
    BY <2>1
  <2>3. QED
    BY <2>2
<1>2. \A j \in S : m - j \in Gaps
  OBVIOUS
<1>3. PICK d \in Gaps : \A e \in Gaps : d <= e
  <2> HIDE DEF Gaps
  <2>1. QED
    BY <1>1, LeastOf
<1>4. PICK i \in S : d = m - i
  OBVIOUS
<1>5. \A j \in S : m - i <= m - j
  BY <1>2, <1>3, <1>4
<1>6. \A j \in S : j <= i
  BY <1>5
<1>7. QED
  BY <1>6

\* The largest small request, and that nodes and records are small ones.
LEMMA SmallSizes ==
  /\ MaxSmall \in Nat /\ MaxSmall <= PSize - PoolT
  /\ LargeT \in Nat /\ LargeT <= MaxSmall
  /\ CleanupT \in Nat /\ CleanupT <= MaxSmall
BY PoolAssumption DEF MaxSmall, PoolT, LargeT, CleanupT, CE_MAX_ALLOC_FROM_POOL

\* Aligning goes up by less than the alignment and never past the end of a block.
LEMMA Aligned ==
  ASSUME NEW x \in Nat
  PROVE  /\ AlignUp(x) \in Nat /\ x <= AlignUp(x) /\ AlignUp(x) <= x + 7
         /\ x <= PSize => AlignUp(x) <= PSize
BY PoolAssumption DEF AlignUp, CE_ALIGNMENT

\* What the type of the blocks says of their fields.
LEMMA Fields ==
  ASSUME NEW c, BlocksType(c)
  PROVE  /\ c.last \in Seq(Nat) /\ c.failed \in Seq(Nat)
         /\ DOMAIN c.last = 1..Len(c.last) /\ Len(c.last) \in Nat \ {0}
         /\ \A i \in DOMAIN c.last : c.last[i] \in Nat
         /\ Len(c.failed) = Len(c.last) /\ c.current \in 1..Len(c.last)
BY DEF BlocksType

\* A piece that begins where its block ended can be added.
LEMMA OneMore ==
  ASSUME NEW c, NEW d, NEW h, Good(c, h), BlocksType(d), NEW r \in Pieces, Within(d, r),
         Len(c.last) <= Len(d.last),
         \A i \in DOMAIN c.last : c.last[i] <= d.last[i],
         r.blk \in DOMAIN c.last => c.last[r.blk] <= r.at
  PROVE  HeldIn(d, Append(h, r))
<1> DEFINE g == Append(h, r)
<1>1. /\ DOMAIN c.last \subseteq DOMAIN d.last
      /\ \A i \in DOMAIN c.last : c.last[i] \in Nat /\ d.last[i] \in Nat
  <2>1. BlocksType(c)
    BY DEF Good
  <2>2. QED
    BY <2>1, Fields, SMTT(30)
<1>2. h \in Seq(Pieces) /\ g \in Seq(Pieces) /\ Len(g) = Len(h) + 1
  BY DEF Good, HeldIn
<1>3. \A k \in DOMAIN h : g[k] = h[k] /\ Within(d, h[k])
  <2> SUFFICES ASSUME NEW k \in DOMAIN h PROVE g[k] = h[k] /\ Within(d, h[k])
    OBVIOUS
  <2>1. h[k] \in Pieces /\ Within(c, h[k])
    BY DEF Good, HeldIn
  <2>2. h[k].blk \in DOMAIN c.last /\ h[k].at \in Nat /\ h[k].size \in Nat
        /\ h[k].at + h[k].size <= c.last[h[k].blk]
    BY <2>1 DEF Within, Pieces
  <2>3. /\ h[k].blk \in DOMAIN d.last
        /\ c.last[h[k].blk] \in Nat /\ d.last[h[k].blk] \in Nat
        /\ c.last[h[k].blk] <= d.last[h[k].blk]
    BY <2>2, <1>1
  <2>4. h[k].at + h[k].size <= d.last[h[k].blk]
    BY <2>2, <2>3
  <2>5. QED
    BY <1>2, <2>1, <2>3, <2>4 DEF Within
<1>4. g[Len(g)] = r /\ DOMAIN g = DOMAIN h \cup {Len(g)}
  BY <1>2
<1>5. \A k \in DOMAIN h : A!Disjoint(h[k], r) /\ A!Disjoint(r, h[k])
  <2> SUFFICES ASSUME NEW k \in DOMAIN h PROVE A!Disjoint(h[k], r) /\ A!Disjoint(r, h[k])
    OBVIOUS
  <2>1. h[k] \in Pieces /\ Within(c, h[k])
    BY DEF Good, HeldIn
  <2>2. h[k].blk = r.blk => h[k].at + h[k].size <= r.at
    <3> SUFFICES ASSUME h[k].blk = r.blk PROVE h[k].at + h[k].size <= r.at
      OBVIOUS
    <3>1. h[k].at + h[k].size <= c.last[r.blk] /\ r.blk \in DOMAIN c.last
      BY <2>1 DEF Within
    <3>2. c.last[r.blk] \in Nat /\ c.last[r.blk] <= r.at
      BY <3>1, <1>1
    <3>3. QED
      BY <2>1, <3>1, <3>2 DEF Pieces
  <2>3. QED
    BY <2>2 DEF A!Disjoint
<1>6. A!AllDisjoint(h)
  BY DEF Good, HeldIn
<1>7. A!AllDisjoint(g)
  BY <1>2, <1>3, <1>4, <1>5, <1>6 DEF A!AllDisjoint
<1>8. QED
  BY <1>2, <1>3, <1>4, <1>7 DEF HeldIn

\* A request that fits a block.
LEMMA CutGood ==
  ASSUME NEW c, NEW h, Good(c, h), NEW n \in Nat, NEW aligned \in BOOLEAN,
         NEW i \in Fitting(c, n, aligned)
  PROVE  LET o == Cut(c, i, Start(c, i, aligned), n)
         IN  Good(o.blocks, h \o o.got) /\ o.got \in Seq(Pieces) /\ Len(o.got) = 1
<1> DEFINE m == Start(c, i, aligned)
           d == [c EXCEPT !.last[i] = m + n]
           r == Piece(i, m, n)
<1>1. i \in 1..Len(c.last) /\ c.last[i] \in Nat /\ c.last[i] \in Header(i)..PSize
  BY DEF Good, BlocksType, InRange, Fitting, Num
<1> DEFINE l == c.last[i]
<1>2. m \in Nat /\ c.last[i] <= m /\ m <= PSize
  <2>1. l \in Nat /\ l <= PSize
    BY <1>1, PoolAssumption DEF Header, PoolT, DataT
  <2>2. m = AlignUp(l) \/ m = l
    BY DEF Start
  <2>3. AlignUp(l) \in Nat /\ l <= AlignUp(l) /\ AlignUp(l) <= PSize
    <3> HIDE DEF l
    <3>1. QED
      BY <2>1, Aligned
  <2>4. QED
    BY <2>1, <2>2, <2>3
<1>3. m + n <= PSize
  BY <1>2, PoolAssumption DEF Fitting, Room
<1>4. d.last = [c.last EXCEPT ![i] = m + n] /\ d.failed = c.failed /\ d.current = c.current
  BY DEF Good, BlocksType
<1>5. BlocksType(d) /\ Len(d.last) = Len(c.last)
  <2> HIDE DEF m
  <2>1. d \in [last : Seq(Nat), failed : Seq(Nat), current : Nat]
    <3>1. m + n \in Nat /\ c.last \in Seq(Nat)
      BY <1>2, Fields DEF Good
    <3>2. [c.last EXCEPT ![i] = m + n] \in Seq(Nat)
      BY <1>1, <3>1
    <3>3. d = [c EXCEPT !.last = [c.last EXCEPT ![i] = m + n]]
      BY DEF Good, BlocksType
    <3>4. QED
      BY <3>2, <3>3 DEF Good, BlocksType
  <2>2. Len(d.last) = Len(c.last)
    BY <1>1, <1>2, <1>4, Fields DEF Good
  <2>3. QED
    BY <2>1, <2>2, <1>4 DEF Good, BlocksType
<1>6. \A j \in DOMAIN c.last : c.last[j] <= d.last[j] /\ d.last[j] \in Header(j)..PSize
  <2> SUFFICES ASSUME NEW j \in DOMAIN c.last
               PROVE  c.last[j] <= d.last[j] /\ d.last[j] \in Header(j)..PSize
    OBVIOUS
  <2> HIDE DEF m, d
  <2>1. c.last[j] \in Nat /\ c.last[j] \in Header(j)..PSize
    BY Fields DEF Good, InRange
  <2>2. CASE j = i
    BY <1>1, <1>2, <1>3, <1>4, <2>1, <2>2, PoolAssumption DEF Header, PoolT, DataT
  <2>3. CASE j # i
    BY <1>4, <2>1, <2>3
  <2>4. QED
    BY <2>2, <2>3
<1>7. r \in Pieces /\ Within(d, r) /\ c.last[r.blk] <= r.at
  BY <1>1, <1>2, <1>4, <1>5, SMTT(30) DEF Piece, Pieces, Within, Header, PoolT, DataT, BlocksType
<1> HIDE DEF m, d, r
<1>8. HeldIn(d, Append(h, r))
  BY <1>5, <1>6, <1>7, OneMore
<1>9. InRange(d)
  BY <1>5, <1>6 DEF InRange, BlocksType, Good
<1>10. h \o <<r>> = Append(h, r)
  BY <1>7 DEF Good, HeldIn
<1>11. Cut(c, i, m, n) = [blocks |-> d, got |-> <<r>>]
  BY DEF Cut, Outcome, d, r
<1>12. Good(d, h \o <<r>>) /\ <<r>> \in Seq(Pieces) /\ Len(<<r>>) = 1
  <2>1. Good(d, h \o <<r>>)
    BY <1>5, <1>8, <1>9, <1>10 DEF Good
  <2>2. <<r>> \in Seq(Pieces) /\ Len(<<r>>) = 1
    BY <1>7
  <2>3. QED
    BY <2>1, <2>2
<1>13. QED
  BY <1>11, <1>12 DEF m

\* Where current goes: it never leaves the chain.
LEMMA CurrentStays ==
  ASSUME NEW c, BlocksType(c)
  PROVE  NextCurrent(c) \in 1..Len(c.last)
<1>1. c.current \in 1..Len(c.last) /\ Len(c.last) \in Nat
  BY Fields
<1>2. Tired(c) \subseteq 1..(Len(c.last) - 1)
  BY <1>1 DEF Tired, Num
<1>3. CASE Tired(c) = {}
  BY <1>1, <1>3 DEF NextCurrent
<1>4. CASE Tired(c) # {}
  <2>1. Tired(c) \subseteq 0..Len(c.last)
    BY <1>1, <1>2
  <2>2. \E i \in Tired(c) : \A j \in Tired(c) : j <= i
    BY <1>1, <1>4, <2>1, GreatestOf
  <2>3. QED
    BY <1>1, <1>2, <1>4, <2>2 DEF NextCurrent
<1>5. QED
  BY <1>3, <1>4

\* A request for which a block is added.
LEMMA NewBlockGood ==
  ASSUME NEW c, NEW h, Good(c, h), NEW n \in Nat, n <= MaxSmall
  PROVE  LET o == NewBlock(c, n)
         IN  Good(o.blocks, h \o o.got) /\ o.got \in Seq(Pieces) /\ Len(o.got) = 1
<1> DEFINE k == Len(c.last)
           f == [i \in 1..k |-> IF i \in c.current..(k - 1) THEN c.failed[i] + 1
                                ELSE c.failed[i]]
           d == [last |-> Append(c.last, DataT + n), failed |-> Append(f, 0),
                 current |-> NextCurrent(c)]
           r == Piece(k + 1, DataT, n)
<1>1. AlignUp(DataT) = DataT
  BY DEF AlignUp, DataT, CE_ALIGNMENT
<1>2. NewBlock(c, n) = [blocks |-> d, got |-> <<r>>]
  BY <1>1 DEF NewBlock, Outcome, Num
<1>3. DataT + n \in Nat /\ DataT + n <= PSize /\ DataT <= DataT + n
  BY SmallSizes, PoolAssumption DEF DataT, PoolT
<1>4. BlocksType(c)
  BY DEF Good
<1>5. c.last \in Seq(Nat) /\ c.failed \in Seq(Nat) /\ k \in Nat \ {0} /\ Len(c.failed) = k
      /\ DOMAIN c.last = 1..k /\ \A i \in 1..k : c.last[i] \in Nat
  BY <1>4, Fields
<1>6. f \in Seq(Nat) /\ Len(f) = k
  <2>1. \A i \in 1..k : c.failed[i] \in Nat
    BY <1>5
  <2>2. f \in [1..k -> Nat]
    BY <2>1
  <2> HIDE DEF f
  <2>3. QED
    BY <2>2, k \in Nat, SMTT(60)
<1>7. BlocksType(d) /\ Len(d.last) = k + 1
  <2>1. NextCurrent(c) \in 1..k
    BY <1>4, CurrentStays
  <2> HIDE DEF f
  <2>2. d.last \in Seq(Nat) /\ d.failed \in Seq(Nat) /\ Len(d.last) = k + 1 /\ Len(d.failed) = k + 1
    BY <1>3, <1>5, <1>6
  <2>3. QED
    BY <1>5, <2>1, <2>2, SMTT(30) DEF BlocksType
<1>8. /\ \A i \in 1..k : d.last[i] = c.last[i]
      /\ d.last[k + 1] = DataT + n /\ DOMAIN d.last = 1..(k + 1)
  BY <1>3, <1>5
<1> HIDE DEF d
<1>9. InRange(d)
  <2> SUFFICES ASSUME NEW i \in 1..(k + 1) PROVE d.last[i] \in Header(i)..PSize
    BY <1>8 DEF InRange
  <2>1. CASE i \in 1..k
    BY <1>5, <1>8, <2>1 DEF Good, InRange
  <2>2. CASE i = k + 1
    BY <1>3, <1>5, <1>8, <2>2, PoolAssumption, SMTT(30) DEF Header, DataT, PoolT
  <2>3. QED
    BY <2>1, <2>2, <1>5
<1>10. r \in Pieces /\ Within(d, r) /\ r.blk \notin DOMAIN c.last
  BY <1>3, <1>5, <1>8 DEF Piece, Pieces, Within, Header, DataT, PoolT
<1> HIDE DEF r
<1>11. HeldIn(d, Append(h, r))
  <2>1. Len(c.last) <= Len(d.last)
    BY <1>5, <1>7
  <2>2. ASSUME NEW i \in DOMAIN c.last PROVE c.last[i] <= d.last[i]
    <3>1. d.last[i] = c.last[i] /\ c.last[i] \in Nat
      BY <1>5, <1>8
    <3>2. QED
      BY <3>1
  <2>3. QED
    BY <1>7, <1>10, <2>1, <2>2, OneMore
<1>12. h \o <<r>> = Append(h, r)
  BY <1>10 DEF Good, HeldIn
<1>13. Good(d, h \o <<r>>) /\ <<r>> \in Seq(Pieces) /\ Len(<<r>>) = 1
  <2>1. Good(d, h \o <<r>>)
    BY <1>7, <1>9, <1>11, <1>12 DEF Good
  <2>2. <<r>> \in Seq(Pieces) /\ Len(<<r>>) = 1
    BY <1>10
  <2>3. QED
    BY <2>1, <2>2
<1>14. QED
  BY <1>2, <1>13

\* Every outcome of a small request.
LEMMA SmallGood ==
  ASSUME NEW c, NEW h, Good(c, h), NEW n \in Nat, n <= MaxSmall, NEW aligned \in BOOLEAN,
         NEW o \in Small(c, n, aligned)
  PROVE  Good(o.blocks, h \o o.got) /\ o.got \in Seq(Pieces) /\ Len(o.got) \in 0..1
<1>1. CASE Fitting(c, n, aligned) # {}
  <2> DEFINE i == FirstFitting(c, n, aligned)
  <2>1. i \in Fitting(c, n, aligned)
    <3>1. Fitting(c, n, aligned) \subseteq Nat
      BY DEF Fitting, Good, BlocksType
    <3>2. \E j \in Fitting(c, n, aligned) : \A k \in Fitting(c, n, aligned) : j <= k
      BY <1>1, <3>1, LeastOf
    <3>3. QED
      BY <3>2 DEF FirstFitting
  <2>2. o = Cut(c, i, Start(c, i, aligned), n)
    BY <1>1 DEF Small
  <2> HIDE DEF i
  <2>3. QED
    BY <2>1, <2>2, CutGood
<1>2. CASE o = Outcome(c, <<>>)
  <2>1. o.blocks = c /\ o.got = <<>> /\ h \o <<>> = h
    BY <1>2 DEF Outcome, Good, HeldIn
  <2>2. QED
    BY <2>1
<1>3. CASE o = NewBlock(c, n)
  BY <1>3, NewBlockGood
<1>4. QED
  BY <1>1, <1>2, <1>3 DEF Small

\* Elements of the list of large chunks.
Nodes == [node : Pieces, alloc : Chunks \cup {NULL}]

\* Putting an element before a sequence, or changing one of it.
LEMMA ListType ==
  ASSUME NEW S, NEW q \in Seq(S), NEW e \in S
  PROVE  /\ <<e>> \o q \in Seq(S)
         /\ \A i \in DOMAIN q : [q EXCEPT ![i] = e] \in Seq(S)
OBVIOUS

\* Every outcome of cutting a node and putting it before the list.
LEMMA NewNodeGood ==
  ASSUME NEW c, NEW h, Good(c, h), NEW lg \in Seq(Nodes), NEW x \in Chunks,
         NEW l \in NewNode(c, lg, x)
  PROVE  /\ Good(l.node.blocks, h \o l.node.got) /\ l.node.got \in Seq(Pieces)
         /\ l.large \in Seq(Nodes) /\ l.kept \subseteq Chunks
<1>1. PICK o \in Small(c, LargeT, TRUE) :
        l = LargeOutcome(o,
                         IF o.got = <<>> THEN lg ELSE <<[node |-> o.got[1], alloc |-> x]>> \o lg,
                         IF o.got = <<>> THEN {} ELSE {x})
  BY DEF NewNode
<1>2. Good(o.blocks, h \o o.got) /\ o.got \in Seq(Pieces) /\ Len(o.got) \in 0..1
  BY SmallSizes, SmallGood
<1>3. l.node = o
      /\ l.large = (IF o.got = <<>> THEN lg ELSE <<[node |-> o.got[1], alloc |-> x]>> \o lg)
      /\ l.kept \subseteq {x}
  BY <1>1 DEF LargeOutcome
<1>4. l.large \in Seq(Nodes)
  <2>1. CASE o.got = <<>>
    BY <1>3, <2>1
  <2>2. CASE o.got # <<>>
    <3>1. o.got[1] \in Pieces
      BY <1>2, <2>2
    <3>2. [node |-> o.got[1], alloc |-> x] \in Nodes
      BY <3>1 DEF Nodes
    <3>3. QED
      BY <1>3, <2>2, <3>2, ListType
  <2>3. QED
    BY <2>1, <2>2
<1>5. QED
  BY <1>2, <1>3, <1>4

\* Every outcome of a large request.
LEMMA LargeGood ==
  ASSUME NEW c, NEW h, Good(c, h), NEW lg \in Seq(Nodes), NEW x \in Chunks,
         NEW l \in PallocLarge(c, lg, x)
  PROVE  /\ Good(l.node.blocks, h \o l.node.got) /\ l.node.got \in Seq(Pieces)
         /\ l.large \in Seq(Nodes) /\ l.kept \subseteq Chunks
<1>1. CASE Reusable(lg) = {}
  BY <1>1, NewNodeGood DEF PallocLarge
<1>2. CASE Reusable(lg) # {}
  <2> DEFINE i == FirstReusable(lg)
  <2>1. i \in DOMAIN lg
    <3>1. Reusable(lg) \subseteq Nat
      BY DEF Reusable
    <3>2. \E j \in Reusable(lg) : \A k \in Reusable(lg) : j <= k
      BY <1>2, <3>1, LeastOf
    <3>3. QED
      BY <3>2 DEF FirstReusable, Reusable
  <2>2. l = [node |-> [blocks |-> c, got |-> <<>>],
             large |-> [lg EXCEPT ![i].alloc = x], kept |-> {x}]
    BY <1>2 DEF PallocLarge, LargeOutcome, Outcome
  <2> HIDE DEF i
  <2>3. [lg[i] EXCEPT !.alloc = x] \in Nodes
    <3>1. lg[i] \in Nodes
      BY <2>1
    <3>2. QED
      BY <3>1 DEF Nodes
  <2>4. [lg EXCEPT ![i].alloc = x] = [lg EXCEPT ![i] = [lg[i] EXCEPT !.alloc = x]]
    OBVIOUS
  <2>5. l.large \in Seq(Nodes)
    BY <2>1, <2>2, <2>3, <2>4, ListType
  <2>6. h \o <<>> = h
    BY DEF Good, HeldIn
  <2>7. l.node.blocks = c /\ l.node.got = <<>> /\ l.kept = {x}
    BY <2>2
  <2>8. QED
    BY <2>5, <2>6, <2>7
<1>3. QED
  BY <1>1, <1>2

\* Concatenation is associative.
LEMMA Assoc ==
  ASSUME NEW S, NEW a \in Seq(S), NEW b \in Seq(S), NEW d \in Seq(S)
  PROVE  (a \o b) \o d = a \o (b \o d) /\ b \o d \in Seq(S)
BY ConcatAssociative, ConcatProperties, SMTT(30)

\* Appending changes nothing before.
LEMMA GivesOut ==
  ASSUME NEW h \in Seq(Pieces), NEW g \in Seq(Pieces)
  PROVE  /\ h \o g \in Seq(Pieces) /\ Len(h) <= Len(h \o g)
         /\ \A i \in DOMAIN h : (h \o g)[i] = h[i]
OBVIOUS

\* What a step that gives out g leaves behind.
GaveOut(g) ==
  /\ g \in Seq(Pieces) /\ held' = held \o g /\ PoolInv'

\* A step that ends with the blocks of an outcome.
LEMMA Becomes ==
  ASSUME PoolInv, NEW c, NEW g \in Seq(Pieces), Good(c, held \o g),
         Become(c), held' = held \o g,
         large' \in Seq(Nodes), cleanup' \in Seq(Pieces), heap' \subseteq Chunks,
         alive' \in BOOLEAN
  PROVE  GaveOut(g)
<1>1. c = [last |-> c.last, failed |-> c.failed, current |-> c.current]
  BY DEF Good, BlocksType
<1>2. Blocks' = c
  BY <1>1 DEF Become, Blocks
<1>3. Good(Blocks, held)'
  BY <1>2 DEF Good, BlocksType, InRange, HeldIn, Within, Header, A!AllDisjoint, A!Disjoint
<1>4. QED
  BY <1>3 DEF GaveOut, PoolInv, Nodes

\* ce_palloc and ce_pnalloc of a small size.
LEMMA PallocGives ==
  ASSUME PoolInv, NEW n \in Sizes, NEW aligned \in BOOLEAN, Palloc(n, aligned)
  PROVE  \E g : GaveOut(g)
<1>1. n \in Nat /\ n <= MaxSmall
  BY PoolAssumption DEF Palloc
<1>2. PICK o \in Small(Blocks, n, aligned) : Become(o.blocks) /\ held' = held \o o.got
  BY DEF Palloc
<1>3. Good(o.blocks, held \o o.got) /\ o.got \in Seq(Pieces)
  BY <1>1, SmallGood DEF PoolInv
<1>4. GaveOut(o.got)
  BY <1>2, <1>3, Becomes DEF Palloc, PoolInv, Nodes
<1>5. QED
  BY <1>4

\* A large chunk: at most its node is cut from the blocks.
LEMMA TakeLargeGives ==
  ASSUME PoolInv, NEW x \in Chunks,
         NEW l \in PallocLarge(Blocks, large, x) \cup NewNode(Blocks, large, x), TakeLarge(l)
  PROVE  \E g : GaveOut(g)
<1>1. /\ Good(l.node.blocks, held \o l.node.got) /\ l.node.got \in Seq(Pieces)
      /\ l.large \in Seq(Nodes) /\ l.kept \subseteq Chunks
  BY LargeGood, NewNodeGood DEF PoolInv, Nodes
<1>2. GaveOut(l.node.got)
  BY <1>1, Becomes DEF TakeLarge, PoolInv
<1>3. QED
  BY <1>2

\* The record, and the piece or the chunk of its data.
LEMMA CleanupAddGives ==
  ASSUME PoolInv, NEW n \in Sizes, CleanupAdd(n)
  PROVE  \E g : GaveOut(g)
<1>1. n \in Nat /\ Good(Blocks, held)
  BY PoolAssumption DEF PoolInv
<1>2. PICK o \in Small(Blocks, CleanupT, TRUE) :
       \/ /\ o.got = <<>> \/ n = 0
          /\ Become(o.blocks) /\ held' = held \o o.got
          /\ cleanup' = o.got \o cleanup
          /\ UNCHANGED <<large, heap>>
       \/ /\ o.got # <<>> /\ n \in 1..MaxSmall
          /\ \E d \in Small(o.blocks, n, TRUE) :
               /\ Become(d.blocks) /\ held' = held \o o.got \o d.got
               /\ cleanup' = IF d.got = <<>> THEN cleanup ELSE o.got \o cleanup
          /\ UNCHANGED <<large, heap>>
       \/ /\ o.got # <<>> /\ n > MaxSmall
          /\ \E x \in Chunks \ heap : \E l \in PallocLarge(o.blocks, large, x) :
               /\ Become(l.node.blocks) /\ held' = held \o o.got \o l.node.got
               /\ large' = l.large /\ heap' = heap \cup l.kept
               /\ cleanup' = IF l.kept = {} THEN cleanup ELSE o.got \o cleanup
       \/ /\ o.got # <<>> /\ n > MaxSmall
          /\ Become(o.blocks) /\ held' = held \o o.got
          /\ UNCHANGED <<large, heap, cleanup>>
  BY DEF CleanupAdd
<1>3. Good(o.blocks, held \o o.got) /\ o.got \in Seq(Pieces)
  BY <1>1, SmallSizes, SmallGood
<1>4. /\ held \in Seq(Pieces) /\ large \in Seq(Nodes) /\ cleanup \in Seq(Pieces)
      /\ heap \subseteq Chunks /\ alive' \in BOOLEAN
      /\ o.got \o cleanup \in Seq(Pieces)
  BY <1>3 DEF PoolInv, Good, HeldIn, Nodes, CleanupAdd
<1>5. CASE Become(o.blocks) /\ held' = held \o o.got /\ UNCHANGED <<large, heap>>
           /\ cleanup' \in {cleanup, o.got \o cleanup}
  <2>1. GaveOut(o.got)
    BY <1>3, <1>4, <1>5, Becomes
  <2>2. QED
    BY <2>1
<1>6. ASSUME n \in 1..MaxSmall, UNCHANGED <<large, heap>>,
             NEW d \in Small(o.blocks, n, TRUE),
             Become(d.blocks), held' = held \o o.got \o d.got,
             cleanup' \in {cleanup, o.got \o cleanup}
      PROVE  \E g : GaveOut(g)
  <2>1. Good(d.blocks, held \o o.got \o d.got) /\ d.got \in Seq(Pieces)
    <3>1. n <= MaxSmall
      BY <1>6, SmallSizes
    <3>2. QED
      BY <1>1, <1>3, <1>6, <3>1, SmallGood
  <2>2. held \o o.got \o d.got = held \o (o.got \o d.got) /\ o.got \o d.got \in Seq(Pieces)
    BY <1>3, <1>4, <2>1, Assoc
  <2>3. GaveOut(o.got \o d.got)
    BY <1>4, <1>6, <2>1, <2>2, Becomes
  <2>4. QED
    BY <2>3
<1>7. ASSUME NEW x \in Chunks, NEW l \in PallocLarge(o.blocks, large, x),
             Become(l.node.blocks), held' = held \o o.got \o l.node.got,
             large' = l.large, heap' = heap \cup l.kept,
             cleanup' \in {cleanup, o.got \o cleanup}
      PROVE  \E g : GaveOut(g)
  <2>1. /\ Good(l.node.blocks, held \o o.got \o l.node.got) /\ l.node.got \in Seq(Pieces)
        /\ l.large \in Seq(Nodes) /\ l.kept \subseteq Chunks
    BY <1>3, <1>4, LargeGood
  <2>2. /\ held \o o.got \o l.node.got = held \o (o.got \o l.node.got)
        /\ o.got \o l.node.got \in Seq(Pieces)
    BY <1>3, <1>4, <2>1, Assoc
  <2>3. GaveOut(o.got \o l.node.got)
    BY <1>4, <1>7, <2>1, <2>2, Becomes
  <2>4. QED
    BY <2>3
<1>8. QED
  BY <1>2, <1>5, <1>6, <1>7

\* Freeing a chunk touches no block.
LEMMA PfreeKeeps ==
  ASSUME PoolInv, NEW x \in Chunks, Pfree(x)
  PROVE  PoolInv' /\ held' = held
<1>1. Blocks' = Blocks /\ held' = held
  BY DEF Pfree, Blocks
<1>2. Good(Blocks, held)'
  BY <1>1 DEF PoolInv, Good, BlocksType, InRange, HeldIn, Within, Header,
    A!AllDisjoint, A!Disjoint
<1>3. large' \in Seq(Nodes)
  <2>1. PICK i \in DOMAIN large : large' = [large EXCEPT ![i].alloc = NULL]
    BY DEF Pfree
  <2>2. large \in Seq(Nodes) /\ large[i] \in Nodes
    <3>1. large \in Seq(Nodes)
      BY DEF PoolInv, Nodes
    <3>2. QED
      BY <3>1
  <2>3. [large[i] EXCEPT !.alloc = NULL] \in Nodes
    BY <2>2 DEF Nodes
  <2>4. large' = [large EXCEPT ![i] = [large[i] EXCEPT !.alloc = NULL]]
    BY <2>1
  <2>5. QED
    BY <2>2, <2>3, <2>4, ListType
<1>4. QED
  BY <1>1, <1>2, <1>3 DEF PoolInv, Pfree, Nodes

\* A reset leaves every block with its header only.
LEMMA ResetKeeps ==
  ASSUME PoolInv, Reset
  PROVE  PoolInv' /\ held' = <<>>
<1>1. BlocksType(Blocks)
  BY DEF PoolInv, Good
<1>2. last \in Seq(Nat) /\ DOMAIN last = 1..Len(last) /\ failed \in Seq(Nat) /\ current \in Nat
      /\ Len(last) > 0 /\ Len(failed) = Len(last) /\ current \in 1..Len(last)
  BY <1>1 DEF BlocksType, Blocks
<1>3. last' \in Seq(Nat) /\ Len(last') = Len(last) /\ DOMAIN last' = DOMAIN last
      /\ \A i \in DOMAIN last : last'[i] = PoolT
  BY <1>2 DEF Reset, PoolT
<1>4. BlocksType(Blocks')
  <2>1. Blocks' = [last |-> last', failed |-> failed, current |-> current]
    BY DEF Blocks, Reset
  <2>2. QED
    BY <1>2, <1>3, <2>1 DEF BlocksType
<1>5. InRange(Blocks')
  <2>1. PoolT \in 1..PSize /\ DataT <= PoolT
    BY PoolAssumption DEF PoolT, LargeT, DataT
  <2>2. \A i \in DOMAIN last' : last'[i] \in Header(i)..PSize
    BY <1>3, <2>1, PoolAssumption DEF Header, PoolT, DataT
  <2>3. QED
    BY <2>2 DEF InRange, Blocks
<1>6. HeldIn(Blocks', held')
  BY DEF Reset, HeldIn, A!AllDisjoint
<1>7. Good(Blocks, held)'
  BY <1>4, <1>5, <1>6 DEF Good, BlocksType, InRange, HeldIn, Within, Header,
    A!AllDisjoint, A!Disjoint
<1>8. QED
  BY <1>7 DEF PoolInv, Reset

\* The destruction takes every piece back.
LEMMA DestroyKeeps ==
  ASSUME PoolInv, Destroy
  PROVE  PoolInv' /\ held' = <<>>
<1>1. Blocks' = Blocks /\ held' = <<>>
  BY DEF Destroy, Blocks
<1>2. Good(Blocks, held)'
  BY <1>1 DEF PoolInv, Good, BlocksType, InRange, HeldIn, Within, Header,
    A!AllDisjoint, A!Disjoint
<1>3. QED
  <2>1. alive' \in BOOLEAN
    BY DEF Destroy
  <2>2. large' \in Seq(Nodes) /\ cleanup' \in Seq(Pieces) /\ heap' \subseteq Chunks
    BY DEF Destroy, PoolInv
  <2>3. QED
    BY <1>1, <1>2, <2>1, <2>2 DEF PoolInv, Nodes

\* What every step does, as the refinement needs it.
Keeps    == PoolInv' /\ held' = held
TookBack == PoolInv' /\ held' = <<>>

\* Every step gives out pieces, takes all back, or leaves them alone.
LEMMA StepOutcome ==
  ASSUME PoolInv, [Next]_vars
  PROVE  (\E g : GaveOut(g)) \/ TookBack \/ Keeps
<1>1. ASSUME NEW n \in Sizes, NEW aligned \in BOOLEAN, Palloc(n, aligned)
      PROVE  \E g : GaveOut(g)
  BY <1>1, PallocGives
<1>2. ASSUME NEW n \in Sizes, Large(n) PROVE \E g : GaveOut(g)
  <2>1. PICK x \in Chunks \ heap : \E l \in PallocLarge(Blocks, large, x) : TakeLarge(l)
    BY <1>2 DEF Large
  <2>2. QED
    BY <2>1, TakeLargeGives
<1>3. ASSUME Pmemalign PROVE \E g : GaveOut(g)
  <2>1. PICK x \in Chunks \ heap : \E l \in NewNode(Blocks, large, x) : TakeLarge(l)
    BY <1>3 DEF Pmemalign
  <2>2. QED
    BY <2>1, TakeLargeGives
<1>4. ASSUME NEW n \in Sizes, CleanupAdd(n) PROVE \E g : GaveOut(g)
  BY <1>4, CleanupAddGives
<1>5. ASSUME NEW x \in Chunks, Pfree(x) PROVE Keeps
  BY <1>5, PfreeKeeps DEF Keeps
<1>6. ASSUME Reset \/ Destroy PROVE TookBack
  BY <1>6, ResetKeeps, DestroyKeeps DEF TookBack
<1>7. CASE UNCHANGED vars
  <2>1. Blocks' = Blocks /\ held' = held
    BY <1>7 DEF vars, Blocks
  <2>2. Good(Blocks, held)'
    BY <2>1 DEF PoolInv, Good, BlocksType, InRange, HeldIn, Within, Header,
      A!AllDisjoint, A!Disjoint
  <2>3. QED
    BY <1>7, <2>1, <2>2 DEF PoolInv, Keeps, vars
<1>8. QED
  BY <1>1, <1>2, <1>3, <1>4, <1>5, <1>6, <1>7 DEF Next

\* A new pool is good.
LEMMA PoolInit == Init => PoolInv
<1> SUFFICES ASSUME Init PROVE PoolInv
  OBVIOUS
<1>1. Blocks = [last |-> <<PoolT>>, failed |-> <<0>>, current |-> 1]
  BY DEF Init, Blocks
<1>2. BlocksType(Blocks)
  BY <1>1 DEF BlocksType, PoolT
<1>3. InRange(Blocks)
  BY <1>1, PoolAssumption DEF InRange, Header, PoolT, LargeT
<1>4. HeldIn(Blocks, held)
  BY DEF Init, HeldIn, A!AllDisjoint
<1>5. QED
  BY <1>2, <1>3, <1>4 DEF PoolInv, Good, Init

\* The invariant of all reachable states.
LEMMA PoolInvariant == Spec => []PoolInv
<1>1. PoolInv /\ [Next]_vars => PoolInv'
  BY StepOutcome DEF GaveOut, TookBack, Keeps
<1>2. QED
  BY PoolInit, <1>1, PTL DEF Spec

\* Every variable keeps its type: there is a failure count for every block, and current
\* is one of the blocks.
THEOREM PoolTyped == Spec => []TypeOK
<1>1. PoolInv => TypeOK
  BY DEF PoolInv, Good, BlocksType, HeldIn, Blocks, TypeOK
<1>2. QED
  BY PoolInvariant, <1>1, PTL

\* Every piece lies in its block behind the header, whatever the sizes.
THEOREM PiecesInside == Spec => []InsideBlocks
<1>1. PoolInv => InsideBlocks
  BY DEF PoolInv, Good, BlocksType, InRange, HeldIn, Within, Blocks, InsideBlocks
<1>2. QED
  BY PoolInvariant, <1>1, PTL

\* The pool implements the arena: every step gives out pieces that nobody else has, takes
\* all back, or leaves them alone.
THEOREM PoolImplementsArena == Spec => ImplementsArena
<1>1. Init => A!Init
  BY DEF Init, A!Init
<1>2. PoolInv /\ [Next]_vars => [A!Next]_held
  <2> SUFFICES ASSUME PoolInv, [Next]_vars PROVE [A!Next]_held
    OBVIOUS
  <2>1. ASSUME NEW g, GaveOut(g) PROVE A!GiveOut
    <3>1. held \in Seq(Pieces) /\ g \in Seq(Pieces) /\ held' = held \o g
      BY <2>1 DEF GaveOut, PoolInv, Good, HeldIn
    <3>2. A!AllDisjoint(held')
      BY <2>1 DEF GaveOut, PoolInv, Good, HeldIn, A!AllDisjoint, A!Disjoint
    <3>3. QED
      BY <3>1, <3>2, GivesOut DEF A!GiveOut
  <2>2. CASE TookBack
    BY <2>2 DEF TookBack, A!Next, A!TakeBack
  <2>3. CASE Keeps
    BY <2>3 DEF Keeps
  <2>4. QED
    BY <2>1, <2>2, <2>3, StepOutcome DEF A!Next
<1>3. QED
  BY PoolInvariant, <1>1, <1>2, PTL DEF Spec, ImplementsArena, A!Spec
-----------------------------------------------------------------------------
(* What the pool owes.                                                     *)

Has(h, r) == \E k \in DOMAIN h : h[k] = r

\* The nodes of list lg and the records of list cl are pieces of h, none twice.
Owned(lg, cl, h) ==
  /\ \A i \in DOMAIN lg : Has(h, lg[i].node)
  /\ \A i \in DOMAIN cl : Has(h, cl[i])
  /\ \A i, j \in DOMAIN lg : i # j => A!Disjoint(lg[i].node, lg[j].node)
  /\ \A i, j \in DOMAIN cl : i # j => A!Disjoint(cl[i], cl[j])
  /\ \A i \in DOMAIN lg, j \in DOMAIN cl :
       A!Disjoint(lg[i].node, cl[j]) /\ A!Disjoint(cl[j], lg[i].node)

\* The chunks of list lg are those of hp, each once.
Listed(lg, hp) ==
  /\ \A x \in hp : \E i \in DOMAIN lg : lg[i].alloc = x
  /\ \A i \in DOMAIN lg : lg[i].alloc \in hp \cup {NULL}
  /\ \A i, j \in DOMAIN lg : lg[i].alloc = lg[j].alloc /\ i # j => lg[i].alloc = NULL

\* The inductive form of BookkeepingHeld.
BookInv == Owned(large, cleanup, held) /\ Listed(large, heap)

\* More pieces do no harm.
LEMMA OwnedMore ==
  ASSUME NEW lg, NEW cl, NEW h \in Seq(Pieces), NEW g \in Seq(Pieces), Owned(lg, cl, h)
  PROVE  Owned(lg, cl, h \o g)
<1>1. \A r : Has(h, r) => Has(h \o g, r)
  BY GivesOut, LenProperties DEF Has
<1>2. QED
  BY <1>1 DEF Owned

\* The piece cut last is apart from all the pool has.
LEMMA LastApart ==
  ASSUME NEW lg, NEW cl, NEW h \in Seq(Pieces), NEW r \in Pieces, Owned(lg, cl, h), A!AllDisjoint(h \o <<r>>)
  PROVE  /\ Has(h \o <<r>>, r)
         /\ \A i \in DOMAIN lg : A!Disjoint(lg[i].node, r) /\ A!Disjoint(r, lg[i].node)
         /\ \A i \in DOMAIN cl : A!Disjoint(cl[i], r) /\ A!Disjoint(r, cl[i])
<1> DEFINE g == h \o <<r>>
<1>1. /\ Len(h) + 1 \in DOMAIN g /\ g[Len(h) + 1] = r
      /\ \A k \in DOMAIN h : k \in DOMAIN g /\ k # Len(h) + 1 /\ g[k] = h[k]
  BY LenProperties
<1>2. \A q : Has(h, q) => A!Disjoint(q, r) /\ A!Disjoint(r, q)
  <2> SUFFICES ASSUME NEW k \in DOMAIN h
               PROVE  A!Disjoint(h[k], r) /\ A!Disjoint(r, h[k])
    BY DEF Has
  <2>1. k \in DOMAIN g /\ k # Len(h) + 1 /\ g[k] = h[k]
    BY <1>1
  <2> HIDE DEF g
  <2>2. A!AllDisjoint(g)
    BY DEF g
  <2>3. QED
    BY <1>1, <2>1, <2>2 DEF A!AllDisjoint
<1>3. Has(g, r)
  BY <1>1 DEF Has
<1>4. QED
  BY <1>2, <1>3 DEF Owned

\* A new node ...
LEMMA OwnedNode ==
  ASSUME NEW lg \in Seq(Nodes), NEW cl, NEW h \in Seq(Pieces), NEW r \in Pieces, NEW x \in Chunks,
         Owned(lg, cl, h), A!AllDisjoint(h \o <<r>>)
  PROVE  Owned(<<[node |-> r, alloc |-> x]>> \o lg, cl, h \o <<r>>)
<1> DEFINE e == [node |-> r, alloc |-> x]
           g == <<e>> \o lg
           k == h \o <<r>>
<1>1. /\ DOMAIN g = 1..(Len(lg) + 1) /\ g[1] = e /\ DOMAIN lg = 1..Len(lg) /\ Len(lg) \in Nat
      /\ \A i \in DOMAIN lg : g[i + 1] = lg[i]
  <2>1. e \in Nodes
    BY DEF Nodes
  <2> HIDE DEF e
  <2>2. QED
    BY <2>1
<1>2. \A i \in DOMAIN g : \/ i = 1 /\ g[i].node = r
                          \/ i - 1 \in DOMAIN lg /\ g[i].node = lg[i - 1].node
  <2> SUFFICES ASSUME NEW i \in 2..(Len(lg) + 1)
               PROVE  i - 1 \in DOMAIN lg /\ g[i] = lg[i - 1]
    BY <1>1
  <2>1. i - 1 \in DOMAIN lg /\ (i - 1) + 1 = i
    BY <1>1
  <2>2. QED
    BY <1>1, <2>1
<1>3. Owned(lg, cl, k)
  <2>1. <<r>> \in Seq(Pieces)
    OBVIOUS
  <2>2. QED
    BY <2>1, OwnedMore
<1>4. /\ Has(k, r)
      /\ \A i \in DOMAIN lg : A!Disjoint(lg[i].node, r) /\ A!Disjoint(r, lg[i].node)
      /\ \A i \in DOMAIN cl : A!Disjoint(cl[i], r) /\ A!Disjoint(r, cl[i])
  BY LastApart
<1> HIDE DEF g, k
<1>5. \A i, j \in DOMAIN g : i # j => A!Disjoint(g[i].node, g[j].node)
  <2> SUFFICES ASSUME NEW i \in DOMAIN g, NEW j \in DOMAIN g, i # j
               PROVE  A!Disjoint(g[i].node, g[j].node)
    OBVIOUS
  <2>1. i \in Int /\ j \in Int
    BY <1>1
  <2>2. i - 1 # j - 1
    BY <2>1
  <2>3. QED
    BY <1>2, <1>3, <1>4, <2>2 DEF Owned
<1>6. \A i \in DOMAIN g : Has(k, g[i].node)
  BY <1>2, <1>3, <1>4 DEF Owned
<1>7. \A i \in DOMAIN g, j \in DOMAIN cl : A!Disjoint(g[i].node, cl[j]) /\ A!Disjoint(cl[j], g[i].node)
  BY <1>2, <1>3, <1>4 DEF Owned
<1>8. Owned(g, cl, k)
  BY <1>3, <1>5, <1>6, <1>7 DEF Owned
<1>9. QED
  BY <1>8 DEF g, k

\* ... and a new record.
LEMMA OwnedRecord ==
  ASSUME NEW lg, NEW cl \in Seq(Pieces), NEW h \in Seq(Pieces), NEW r \in Pieces,
         Owned(lg, cl, h), A!AllDisjoint(h \o <<r>>)
  PROVE  Owned(lg, <<r>> \o cl, h \o <<r>>)
<1> DEFINE g == <<r>> \o cl
           k == h \o <<r>>
<1>1. /\ DOMAIN g = 1..(Len(cl) + 1) /\ g[1] = r /\ DOMAIN cl = 1..Len(cl) /\ Len(cl) \in Nat
      /\ \A i \in DOMAIN cl : g[i + 1] = cl[i]
  OBVIOUS
<1>2. \A i \in DOMAIN g : \/ i = 1 /\ g[i] = r
                          \/ i - 1 \in DOMAIN cl /\ g[i] = cl[i - 1]
  <2> SUFFICES ASSUME NEW i \in 2..(Len(cl) + 1)
               PROVE  i - 1 \in DOMAIN cl /\ g[i] = cl[i - 1]
    BY <1>1
  <2>1. i - 1 \in DOMAIN cl /\ (i - 1) + 1 = i
    BY <1>1
  <2>2. QED
    BY <1>1, <2>1
<1>3. Owned(lg, cl, k)
  <2>1. <<r>> \in Seq(Pieces)
    OBVIOUS
  <2>2. QED
    BY <2>1, OwnedMore
<1>4. /\ Has(k, r)
      /\ \A i \in DOMAIN lg : A!Disjoint(lg[i].node, r) /\ A!Disjoint(r, lg[i].node)
      /\ \A i \in DOMAIN cl : A!Disjoint(cl[i], r) /\ A!Disjoint(r, cl[i])
  BY LastApart
<1> HIDE DEF g, k
<1>5. \A i, j \in DOMAIN g : i # j => A!Disjoint(g[i], g[j])
  <2> SUFFICES ASSUME NEW i \in DOMAIN g, NEW j \in DOMAIN g, i # j
               PROVE  A!Disjoint(g[i], g[j])
    OBVIOUS
  <2>1. i \in Int /\ j \in Int
    BY <1>1
  <2>2. i - 1 # j - 1
    BY <2>1
  <2>3. QED
    BY <1>2, <1>3, <1>4, <2>2 DEF Owned
<1>6. \A i \in DOMAIN g : Has(k, g[i])
  BY <1>2, <1>3, <1>4 DEF Owned
<1>7. \A i \in DOMAIN lg, j \in DOMAIN g : A!Disjoint(lg[i].node, g[j]) /\ A!Disjoint(g[j], lg[i].node)
  BY <1>2, <1>3, <1>4 DEF Owned
<1>8. Owned(lg, g, k)
  BY <1>3, <1>5, <1>6, <1>7 DEF Owned
<1>9. QED
  BY <1>8 DEF g, k

\* A chunk with a new node, and one on an old node.
LEMMA ListedNode ==
  ASSUME NEW lg \in Seq(Nodes), NEW hp, NEW x \in Chunks \ hp, NEW r \in Pieces, Listed(lg, hp)
  PROVE  Listed(<<[node |-> r, alloc |-> x]>> \o lg, hp \cup {x})
<1> DEFINE e == [node |-> r, alloc |-> x]
           g == <<e>> \o lg
<1>1. /\ DOMAIN g = 1..(Len(lg) + 1) /\ g[1] = e /\ DOMAIN lg = 1..Len(lg) /\ Len(lg) \in Nat
      /\ \A i \in DOMAIN lg : i + 1 \in DOMAIN g /\ g[i + 1] = lg[i]
  <2>1. e \in Nodes
    BY DEF Nodes
  <2> HIDE DEF e
  <2>2. QED
    BY <2>1
<1>2. \A i \in DOMAIN g : \/ i = 1 /\ g[i].alloc = x
                          \/ i - 1 \in DOMAIN lg /\ g[i].alloc = lg[i - 1].alloc
  <2> SUFFICES ASSUME NEW i \in 2..(Len(lg) + 1)
               PROVE  i - 1 \in DOMAIN lg /\ g[i] = lg[i - 1]
    BY <1>1
  <2>1. i - 1 \in DOMAIN lg /\ (i - 1) + 1 = i
    BY <1>1
  <2>2. QED
    BY <1>1, <2>1
<1>3. x # NULL /\ \A i \in DOMAIN lg : lg[i].alloc # x
  BY PoolAssumption DEF Listed
<1> HIDE DEF g
<1>4. \A i, j \in DOMAIN g : g[i].alloc = g[j].alloc /\ i # j => g[i].alloc = NULL
  <2> SUFFICES ASSUME NEW i \in DOMAIN g, NEW j \in DOMAIN g, i # j, g[i].alloc = g[j].alloc
               PROVE  g[i].alloc = NULL
    OBVIOUS
  <2>1. i \in Int /\ j \in Int
    BY <1>1
  <2>2. i - 1 # j - 1
    BY <2>1
  <2>3. QED
    BY <1>2, <1>3, <2>2 DEF Listed
<1>5. \A y \in hp \cup {x} : \E i \in DOMAIN g : g[i].alloc = y
  <2>1. \E i \in DOMAIN g : g[i].alloc = x
    BY <1>1
  <2>2. ASSUME NEW y \in hp
        PROVE  \E i \in DOMAIN g : g[i].alloc = y
    BY <1>1 DEF Listed
  <2>3. QED
    BY <2>1, <2>2
<1>6. \A i \in DOMAIN g : g[i].alloc \in (hp \cup {x}) \cup {NULL}
  BY <1>2 DEF Listed
<1>7. QED
  BY <1>4, <1>5, <1>6 DEF Listed, g

LEMMA ListedReuse ==
  ASSUME NEW lg \in Seq(Nodes), NEW hp \in SUBSET Chunks, NEW x \in Chunks \ hp,
         NEW i \in DOMAIN lg, lg[i].alloc = NULL, Listed(lg, hp)
  PROVE  Listed([lg EXCEPT ![i].alloc = x], hp \cup {x})
<1> DEFINE g == [lg EXCEPT ![i].alloc = x]
<1>1. \A j \in DOMAIN lg : lg[j] \in Nodes
  BY LenProperties
<1>2. DOMAIN g = DOMAIN lg /\ g[i].alloc = x /\ \A j \in DOMAIN lg \ {i} : g[j] = lg[j]
  BY <1>1 DEF Nodes
<1>3. x # NULL /\ NULL \notin hp /\ \A j \in DOMAIN lg : lg[j].alloc # x
  BY PoolAssumption DEF Listed
<1> HIDE DEF g
<1>4. \A y \in hp \cup {x} : \E j \in DOMAIN g : g[j].alloc = y
  <2>1. \E j \in DOMAIN g : g[j].alloc = x
    BY <1>2
  <2>2. ASSUME NEW y \in hp
        PROVE  \E j \in DOMAIN g : g[j].alloc = y
    <3>1. PICK j \in DOMAIN lg : lg[j].alloc = y
      BY DEF Listed
    <3>2. j \in DOMAIN lg \ {i}
      BY <1>3, <3>1
    <3>3. QED
      BY <1>2, <3>1, <3>2
  <2>3. QED
    BY <2>1, <2>2
<1>5. \A j \in DOMAIN g : g[j].alloc \in (hp \cup {x}) \cup {NULL}
  BY <1>2 DEF Listed
<1>6. \A j, k \in DOMAIN g : g[j].alloc = g[k].alloc /\ j # k => g[j].alloc = NULL
  BY <1>2, <1>3 DEF Listed
<1>7. QED
  BY <1>4, <1>5, <1>6 DEF Listed, g

\* What is freed is off the list.
LEMMA ListedFree ==
  ASSUME NEW lg \in Seq(Nodes), NEW hp \in SUBSET Chunks, NEW x \in Chunks, NEW i \in DOMAIN lg, lg[i].alloc = x,
         Listed(lg, hp)
  PROVE  Listed([lg EXCEPT ![i].alloc = NULL], hp \ {x})
<1> DEFINE g == [lg EXCEPT ![i].alloc = NULL]
<1>1. \A j \in DOMAIN lg : lg[j] \in Nodes
  BY LenProperties
<1>2. DOMAIN g = DOMAIN lg /\ g[i].alloc = NULL /\ \A j \in DOMAIN lg \ {i} : g[j] = lg[j]
  BY <1>1 DEF Nodes
<1>3. x # NULL /\ \A j \in DOMAIN lg \ {i} : lg[j].alloc # x
  BY PoolAssumption DEF Listed
<1> HIDE DEF g
<1>4. QED
  BY <1>2, <1>3 DEF Listed, g

\* The nodes stay when a chunk of the list changes.
LEMMA OwnedSame ==
  ASSUME NEW lg \in Seq(Nodes), NEW cl, NEW h, NEW x, NEW i \in DOMAIN lg, Owned(lg, cl, h)
  PROVE  Owned([lg EXCEPT ![i].alloc = x], cl, h)
<1> DEFINE g == [lg EXCEPT ![i].alloc = x]
<1>1. \A j \in DOMAIN lg : lg[j] \in Nodes
  BY LenProperties
<1>2. DOMAIN g = DOMAIN lg /\ \A j \in DOMAIN lg : g[j].node = lg[j].node
  BY <1>1 DEF Nodes
<1> HIDE DEF g
<1>3. QED
  BY <1>2 DEF Owned, g

\* Cutting a node for a chunk keeps the books.
LEMMA NewNodeBooks ==
  ASSUME NEW c, NEW h, Good(c, h), NEW lg \in Seq(Nodes), NEW cl, NEW hp \in SUBSET Chunks,
         NEW x \in Chunks \ hp, NEW l \in NewNode(c, lg, x), Owned(lg, cl, h), Listed(lg, hp)
  PROVE  Owned(l.large, cl, h \o l.node.got) /\ Listed(l.large, hp \cup l.kept)
<1>1. PICK o \in Small(c, LargeT, TRUE) :
        l = LargeOutcome(o,
                         IF o.got = <<>> THEN lg ELSE <<[node |-> o.got[1], alloc |-> x]>> \o lg,
                         IF o.got = <<>> THEN {} ELSE {x})
  BY DEF NewNode
<1>2. Good(o.blocks, h \o o.got) /\ o.got \in Seq(Pieces) /\ Len(o.got) \in 0..1
  BY SmallSizes, SmallGood
<1>3. /\ l.node = o
      /\ l.large = (IF o.got = <<>> THEN lg ELSE <<[node |-> o.got[1], alloc |-> x]>> \o lg)
      /\ l.kept = (IF o.got = <<>> THEN {} ELSE {x})
  BY <1>1 DEF LargeOutcome
<1>4. h \in Seq(Pieces) /\ A!AllDisjoint(h \o o.got)
  BY <1>2 DEF Good, HeldIn
<1>5. CASE o.got = <<>>
  <2>1. h \o o.got = h /\ hp \cup l.kept = hp
    BY <1>3, <1>4, <1>5
  <2>2. QED
    BY <1>3, <1>5, <2>1
<1>6. CASE o.got # <<>>
  <2>1. PICK r \in Pieces : o.got = <<r>>
    BY <1>2, <1>6
  <2>2. l.large = <<[node |-> r, alloc |-> x]>> \o lg /\ l.kept = {x} /\ l.node.got = <<r>>
    BY <1>3, <1>6, <2>1
  <2>3. A!AllDisjoint(h \o <<r>>)
    BY <1>4, <2>1
  <2>4. Owned(<<[node |-> r, alloc |-> x]>> \o lg, cl, h \o <<r>>)
    BY <1>4, <2>3, OwnedNode
  <2>5. Listed(<<[node |-> r, alloc |-> x]>> \o lg, hp \cup {x})
    BY ListedNode
  <2>6. QED
    BY <2>2, <2>4, <2>5
<1>7. QED
  BY <1>5, <1>6

\* So does a large request.
LEMMA LargeBooks ==
  ASSUME NEW c, NEW h, Good(c, h), NEW lg \in Seq(Nodes), NEW cl, NEW hp \in SUBSET Chunks,
         NEW x \in Chunks \ hp, NEW l \in PallocLarge(c, lg, x), Owned(lg, cl, h), Listed(lg, hp)
  PROVE  Owned(l.large, cl, h \o l.node.got) /\ Listed(l.large, hp \cup l.kept)
<1>1. CASE Reusable(lg) = {}
  BY <1>1, NewNodeBooks DEF PallocLarge
<1>2. CASE Reusable(lg) # {}
  <2> DEFINE i == FirstReusable(lg)
  <2>1. i \in Reusable(lg)
    <3>1. Reusable(lg) \subseteq Nat
      BY DEF Reusable
    <3>2. \E j \in Reusable(lg) : \A k \in Reusable(lg) : j <= k
      BY <1>2, <3>1, LeastOf
    <3>3. QED
      BY <3>2 DEF FirstReusable
  <2>2. i \in DOMAIN lg /\ lg[i].alloc = NULL
    BY <2>1 DEF Reusable
  <2>3. l.node.got = <<>> /\ l.large = [lg EXCEPT ![i].alloc = x] /\ l.kept = {x}
    BY <1>2 DEF PallocLarge, LargeOutcome, Outcome
  <2> HIDE DEF i
  <2>4. h \o <<>> = h
    BY DEF Good, HeldIn
  <2>5. Owned([lg EXCEPT ![i].alloc = x], cl, h)
    BY <2>2, OwnedSame
  <2>6. Listed(l.large, hp \cup {x})
    BY <2>2, <2>3, ListedReuse
  <2>7. QED
    BY <2>3, <2>4, <2>5, <2>6
<1>3. QED
  BY <1>1, <1>2
\* A record for a clean-up, with or without its data.
LEMMA CleanupBooks ==
  ASSUME PoolInv, BookInv, NEW n \in Sizes, CleanupAdd(n)
  PROVE  BookInv'
<1>1. n \in Nat /\ Good(Blocks, held)
  BY PoolAssumption DEF PoolInv
<1>2. PICK o \in Small(Blocks, CleanupT, TRUE) :
       \/ /\ o.got = <<>> \/ n = 0
          /\ Become(o.blocks) /\ held' = held \o o.got
          /\ cleanup' = o.got \o cleanup
          /\ UNCHANGED <<large, heap>>
       \/ /\ o.got # <<>> /\ n \in 1..MaxSmall
          /\ \E d \in Small(o.blocks, n, TRUE) :
               /\ Become(d.blocks) /\ held' = held \o o.got \o d.got
               /\ cleanup' = IF d.got = <<>> THEN cleanup ELSE o.got \o cleanup
          /\ UNCHANGED <<large, heap>>
       \/ /\ o.got # <<>> /\ n > MaxSmall
          /\ \E x \in Chunks \ heap : \E l \in PallocLarge(o.blocks, large, x) :
               /\ Become(l.node.blocks) /\ held' = held \o o.got \o l.node.got
               /\ large' = l.large /\ heap' = heap \cup l.kept
               /\ cleanup' = IF l.kept = {} THEN cleanup ELSE o.got \o cleanup
       \/ /\ o.got # <<>> /\ n > MaxSmall
          /\ Become(o.blocks) /\ held' = held \o o.got
          /\ UNCHANGED <<large, heap, cleanup>>
  BY DEF CleanupAdd
<1>3. Good(o.blocks, held \o o.got) /\ o.got \in Seq(Pieces) /\ Len(o.got) \in 0..1
  BY <1>1, SmallSizes, SmallGood
<1>4. /\ held \in Seq(Pieces) /\ large \in Seq(Nodes) /\ cleanup \in Seq(Pieces) /\ heap \in SUBSET Chunks
      /\ Owned(large, cleanup, held) /\ Listed(large, heap) /\ held \o o.got \in Seq(Pieces)
  BY <1>3 DEF PoolInv, Good, HeldIn, Nodes, BookInv
<1>5. Owned(large, cleanup, held \o o.got) /\ Owned(large, o.got \o cleanup, held \o o.got)
  <2>1. CASE o.got = <<>>
    <3>1. o.got \o cleanup = cleanup /\ held \o o.got = held
      BY <1>4, <2>1
    <3>2. QED
      BY <1>4, <3>1
  <2>2. CASE o.got # <<>>
    <3>1. PICK r \in Pieces : o.got = <<r>>
      BY <1>3, <2>2
    <3>2. A!AllDisjoint(held \o <<r>>)
      BY <1>3, <3>1 DEF Good, HeldIn
    <3>3. Owned(large, <<r>> \o cleanup, held \o <<r>>)
      BY <1>4, <3>2, OwnedRecord
    <3>4. QED
      BY <1>3, <1>4, <3>1, <3>3, OwnedMore
  <2>3. QED
    BY <2>1, <2>2
<1>6. CASE held' = held \o o.got /\ UNCHANGED <<large, heap>> /\ cleanup' \in {cleanup, o.got \o cleanup}
  BY <1>4, <1>5, <1>6 DEF BookInv
<1>7. ASSUME n \in 1..MaxSmall, UNCHANGED <<large, heap>>, NEW d \in Small(o.blocks, n, TRUE),
             held' = held \o o.got \o d.got, cleanup' \in {cleanup, o.got \o cleanup}
      PROVE  BookInv'
  <2>1. d.got \in Seq(Pieces)
    <3>1. n <= MaxSmall
      BY <1>7, SmallSizes
    <3>2. QED
      BY <1>1, <1>3, <1>7, <3>1, SmallGood
  <2>2. Owned(large, cleanup', held \o o.got \o d.got)
    BY <1>4, <1>5, <1>7, <2>1, OwnedMore
  <2>3. QED
    BY <1>4, <1>7, <2>2 DEF BookInv
<1>8. ASSUME NEW x \in Chunks \ heap, NEW l \in PallocLarge(o.blocks, large, x),
             held' = held \o o.got \o l.node.got,
             large' = l.large, heap' = heap \cup l.kept,
             cleanup' \in {cleanup, o.got \o cleanup}
      PROVE  BookInv'
  <2>1. PICK cl : cl = cleanup' /\ Owned(large, cl, held \o o.got)
    BY <1>5, <1>8
  <2>2. Owned(l.large, cl, held \o o.got \o l.node.got) /\ Listed(l.large, heap \cup l.kept)
    BY <1>3, <1>4, <2>1, LargeBooks
  <2>3. QED
    BY <1>8, <2>1, <2>2 DEF BookInv
<1>9. QED
  BY <1>2, <1>6, <1>7, <1>8

\* When everything is taken back, nothing is owed.
LEMMA EmptyBooks ==
  ASSUME PoolInv, BookInv, large' = <<>>, cleanup' = <<>>, heap' = heap \ Chunked
  PROVE  BookInv'
<1>1. heap' = {}
  BY DEF BookInv, Listed, Chunked
<1>2. DOMAIN large' = {} /\ DOMAIN cleanup' = {}
  OBVIOUS
<1>3. QED
  BY <1>1, <1>2 DEF BookInv, Owned, Listed

\* Every step keeps the books.
LEMMA BooksKept ==
  ASSUME ~ResetWithCleanup, PoolInv, BookInv, [Next]_vars
  PROVE  BookInv'
<1>1. /\ held \in Seq(Pieces) /\ large \in Seq(Nodes) /\ cleanup \in Seq(Pieces) /\ heap \in SUBSET Chunks
      /\ Owned(large, cleanup, held) /\ Listed(large, heap) /\ Good(Blocks, held)
  BY DEF PoolInv, Good, HeldIn, Nodes, BookInv
<1>2. ASSUME NEW n \in Sizes, NEW aligned \in BOOLEAN, Palloc(n, aligned)
      PROVE  BookInv'
  <2>1. n \in Nat /\ n <= MaxSmall
    BY <1>2, PoolAssumption DEF Palloc
  <2>2. PICK o \in Small(Blocks, n, aligned) : held' = held \o o.got
    BY <1>2 DEF Palloc
  <2>3. o.got \in Seq(Pieces)
    BY <1>1, <2>1, SmallGood
  <2>4. Owned(large, cleanup, held \o o.got)
    BY <1>1, <2>3, OwnedMore
  <2>5. QED
    BY <1>1, <1>2, <2>2, <2>4 DEF BookInv, Palloc
<1>3. ASSUME NEW x \in Chunks \ heap, NEW l \in PallocLarge(Blocks, large, x) \cup NewNode(Blocks, large, x),
             TakeLarge(l)
      PROVE  BookInv'
  <2>1. Owned(l.large, cleanup, held \o l.node.got) /\ Listed(l.large, heap \cup l.kept)
    BY <1>1, LargeBooks, NewNodeBooks
  <2>2. QED
    BY <1>3, <2>1 DEF TakeLarge, BookInv
<1>4. ASSUME NEW n \in Sizes, Large(n) PROVE BookInv'
  BY <1>3, <1>4 DEF Large
<1>5. ASSUME Pmemalign PROVE BookInv'
  BY <1>3, <1>5 DEF Pmemalign
<1>6. ASSUME NEW n \in Sizes, CleanupAdd(n) PROVE BookInv'
  BY <1>6, CleanupBooks
<1>7. ASSUME NEW x \in Chunks, Pfree(x) PROVE BookInv'
  <2>1. PICK i \in DOMAIN large : large[i].alloc = x /\ large' = [large EXCEPT ![i].alloc = NULL]
    BY <1>7 DEF Pfree
  <2>2. heap' = heap \ {x} /\ UNCHANGED <<cleanup, held>>
    BY <1>7 DEF Pfree
  <2>3. Owned([large EXCEPT ![i].alloc = NULL], cleanup, held)
    BY <1>1, OwnedSame
  <2>4. Listed([large EXCEPT ![i].alloc = NULL], heap \ {x})
    BY <1>1, <2>1, ListedFree
  <2>5. QED
    BY <2>1, <2>2, <2>3, <2>4 DEF BookInv
<1>8. CASE Reset
  BY <1>8, EmptyBooks DEF Reset
<1>9. CASE Destroy
  BY <1>9, EmptyBooks DEF Destroy
<1>10. CASE UNCHANGED vars
  BY <1>10 DEF vars, BookInv
<1>11. QED
  BY <1>2, <1>4, <1>5, <1>6, <1>7, <1>8, <1>9, <1>10 DEF Next

\* As long as no pool with clean-up records is reset, the pool finds what it has to free and whom to
\* call: its nodes and records lie in pieces of their own that nobody else was given, and name each
\* chunk malloc gave exactly once (ce_palloc.c, the allocating functions, ce_pfree, ce_reset_pool).
THEOREM BooksHeld ==
  ASSUME ~ResetWithCleanup
  PROVE  Spec => []BookkeepingHeld
<1>1. Init => BookInv
  <2>1. Init => DOMAIN large = {} /\ DOMAIN cleanup = {} /\ heap = {}
    BY DEF Init
  <2>2. QED
    BY <2>1 DEF BookInv, Owned, Listed
<1>2. PoolInv /\ BookInv => BookkeepingHeld
  <2> SUFFICES ASSUME PoolInv, BookInv
               PROVE  BookkeepingHeld
    OBVIOUS
  <2>1. ChunksListed
    BY PoolAssumption DEF BookInv, Listed, ChunksListed, Chunked, PoolInv
  <2>2. PICK n \in Nat : n = Len(large) /\ DOMAIN large = 1..n /\ large \in Seq(Nodes) /\ cleanup \in Seq(Pieces)
    BY LenProperties DEF PoolInv, Nodes
  <2> DEFINE nodes == [i \in DOMAIN large |-> large[i].node]
  <2>3. nodes \in Seq(Pieces) /\ Len(nodes) = n /\ \A i \in 1..n : nodes[i] = large[i].node
    <3>1. \A i \in 1..n : large[i].node \in Pieces
      <4>1. \A i \in 1..n : large[i] \in Nodes
        BY <2>2
      <4>2. QED
        BY <4>1 DEF Nodes
    <3>2. nodes \in [1..n -> Pieces]
      BY <2>2, <3>1
    <3>3. QED
      BY <2>2, <3>2
  <2>4. Records = nodes \o cleanup
    BY DEF Records
  <2> HIDE DEF nodes
  <2>5. \A i \in DOMAIN Records : \/ i \in DOMAIN large /\ Records[i] = large[i].node
                                  \/ i - n \in DOMAIN cleanup /\ Records[i] = cleanup[i - n] /\ i \in Int
    BY <2>2, <2>3, <2>4, ConcatProperties
  <2>6. \A i \in DOMAIN Records : Has(held, Records[i])
    BY <2>5 DEF BookInv, Owned
  <2>7. A!AllDisjoint(Records)
    <3> SUFFICES ASSUME NEW i \in DOMAIN Records, NEW j \in DOMAIN Records, i # j
                 PROVE  A!Disjoint(Records[i], Records[j])
      BY DEF A!AllDisjoint
    <3>1. \A k \in DOMAIN Records : k \in Int
      BY <2>2, <2>5
    <3>2. i - n # j - n
      BY <3>1
    <3>3. QED
      BY <2>5, <3>2 DEF BookInv, Owned
  <2>8. QED
    BY <2>1, <2>6, <2>7 DEF BookkeepingHeld, Has
<1>3. PoolInv /\ BookInv /\ [Next]_vars => BookInv'
  BY BooksKept
<1>4. QED
  BY <1>1, <1>2, <1>3, PoolInvariant, PTL DEF Spec
=============================================================================
