------------------------------- MODULE Tables -------------------------------
(***************************************************************************)
(* ce_tables.c over ce_array.c: tables of pairs in which a key may occur   *)
(* several times, with an index of the first and the last entry of each    *)
(* hash value.  The entries of a table are the first nelts slots of a      *)
(* piece of memory, which two tables can share.                            *)
(***************************************************************************)
EXTENDS Integers, SequencesExt, FiniteSetsExt

CONSTANTS
  Strings,     \* keys, as sequences of bytes
  Vals,        \* values; a merged value is a sequence of them
  Names,       \* the tables
  MaxElts,     \* bound on the entries of each table
  MaxVal,      \* bound on the length of a value
  EmptyBase    \* ce_table_overlay is called with an empty base

TablesAssumption ==
  /\ \A key \in Strings : Len(key) > 0 /\ \A i \in DOMAIN key : key[i] \in 1..255
  /\ MaxElts \in [Names -> Nat] /\ MaxVal \in Nat /\ EmptyBase \in BOOLEAN

VARIABLES
  mem,     \* the arrays: sequences of slots, each by the name of a table that uses it
  table,   \* [elts, nelts, nalloc, first, last] by name; the indices by hash value
  content  \* history: what each table should hold

bvars == <<mem, table, content>>

----------------------------------------------------------------------------
(* Keys. *)

TABLE_HASH(key) == key[1] % 32
Upper(c) == c - 32 * ((c \div 32) % 2)                \* c & 0xdf
COMPUTE_KEY_CHECCEUM(key) == [i \in 1..Min({4, Len(key)}) |-> Upper(key[i])]
Lower(c) == IF c \in 65..90 THEN c + 32 ELSE c
Folded(key) == [i \in DOMAIN key |-> Lower(key[i])]
Greater(a, b) ==     \* ce_strcasecmp(a, b) > 0
  \E i \in 1..Len(a) : /\ i > Len(b) \/ Folded(a)[i] > Folded(b)[i]
                       /\ i <= Len(b) + 1 /\ SubSeq(Folded(a), 1, i - 1) = SubSeq(Folded(b), 1, i - 1)

Entry(key, val) == [key |-> key, val |-> <<val>>, key_checceum |-> COMPUTE_KEY_CHECCEUM(key)]
Same(e, key) == e.key_checceum = COMPUTE_KEY_CHECCEUM(key) /\ Folded(e.key) = Folded(key)

----------------------------------------------------------------------------
(* Arrays. *)

Slot == [unused |-> TRUE]
Slots(n) == [i \in 1..n |-> Slot]
Elts(t)  == SubSeq(mem[t.elts], 1, t.nelts)
Over(m, E) == E \o SubSeq(m, Len(E) + 1, Len(m))

Fresh == "new"      \* the array an operation allocates
Put(M, at, m) == [x \in DOMAIN M \cup {at} |-> IF x = at THEN m ELSE M[x]]

RECURSIVE Doubled(_, _)
Doubled(n, need) == IF need > n THEN Doubled(2*n, need) ELSE n

\* ce_array_push_noclear: the outcomes, as the memory and the table.  A full array grows
\* by a slot where it stands, when it ends where the pool does, or moves to twice the room.
Push(M, t, e) ==
  LET grown == [t EXCEPT !.nelts = @ + 1]
      at    == Fresh
      Set(m) == [m EXCEPT ![t.nelts + 1] = e]
  IN IF t.nelts < t.nalloc THEN {[mem |-> Put(M, t.elts, Set(M[t.elts])), table |-> grown]}
     ELSE {[mem   |-> Put(M, at, Set(SubSeq(M[t.elts], 1, t.nalloc) \o Slots(t.nalloc))),
            table |-> [grown EXCEPT !.elts = at, !.nalloc = 2*@]]}
          \cup IF t.nalloc < Len(M[t.elts]) THEN {}
               ELSE {[mem |-> Put(M, t.elts, Append(M[t.elts], e)),
                      table |-> [grown EXCEPT !.nalloc = @ + 1]]}

ce_array_cat(M, dst, src) ==
  LET n     == dst.nelts + src.nelts
      moves == n > dst.nalloc
      size  == Doubled(2*dst.nalloc, n)
      at    == IF moves THEN Fresh ELSE dst.elts
      room  == IF moves THEN SubSeq(M[dst.elts], 1, dst.nalloc) \o Slots(size - dst.nalloc)
               ELSE M[dst.elts]
      Both  == SubSeq(M[dst.elts], 1, dst.nelts) \o SubSeq(M[src.elts], 1, src.nelts)
  IN [mem   |-> Put(M, at, Over(room, Both)),
      table |-> [dst EXCEPT !.elts = at, !.nelts = n, !.nalloc = IF moves THEN size ELSE @]]

----------------------------------------------------------------------------
(* The index. *)

Indexed(t, h) == h \in DOMAIN t.first
With(f, h, i) == [x \in DOMAIN f \cup {h} |-> IF x = h THEN i ELSE f[x]]

Hashes(E) == {TABLE_HASH(E[i].key) : i \in DOMAIN E}
Places(E, h) == {i \in DOMAIN E : TABLE_HASH(E[i].key) = h}
table_reindex(t, E) ==
  [t EXCEPT !.nelts = Len(E), !.first = [h \in Hashes(E) |-> Min(Places(E, h))],
            !.last = [h \in Hashes(E) |-> Max(Places(E, h))]]

\* Mutant: the last entry of a hash value is not looked at.
BetweenShort(t, key) ==
  LET h == TABLE_HASH(key) IN IF Indexed(t, h) THEN t.first[h]..t.last[h] - 1 ELSE {}

\* Where an entry is looked for, and where it is.
Between(t, key) ==
  LET h == TABLE_HASH(key) IN IF Indexed(t, h) THEN t.first[h]..t.last[h] ELSE {}
Hits(t, key) == {i \in Between(t, key) : Same(mem[t.elts][i], key)}

Without(E, I) == LET keep == SetToSortSeq(DOMAIN E \ I, <) IN [j \in DOMAIN keep |-> E[keep[j]]]

----------------------------------------------------------------------------
(* The operations, each with what it should do to the contents. *)

Init ==
  /\ mem = [n \in Names |-> Slots(1)]
  /\ table = [n \in Names |-> [elts |-> n, nelts |-> 0, nalloc |-> 1,
                               first |-> <<>>, last |-> <<>>]]
  /\ content = [n \in Names |-> <<>>]

\* An array is named by one of its tables; what is behind the entries of all of them is
\* never read again and is forgotten.
Owner(T, n) == CHOOSE m \in Names : T[m].elts = T[n].elts
Kept(M, T, n) ==
  LET m == M[T[n].elts]
      k == Max({T[x].nelts : x \in {y \in Names : T[y].elts = T[n].elts}})
  IN SubSeq(m, 1, k) \o Slots(Len(m) - k)
Becoming(T, M) ==
  /\ table' = [x \in Names |-> [T[x] EXCEPT !.elts = Owner(T, x)]]
  /\ mem' = [x \in {Owner(T, y) : y \in Names} |-> Kept(M, T, x)]
Becomes(n, t, M, C) == Becoming([table EXCEPT ![n] = t], M) /\ content' = [content EXCEPT ![n] = C]

Pair(key, val) == [key |-> key, val |-> <<val>>]
Match(C, key)  == {i \in DOMAIN C : Folded(C[i].key) = Folded(key)}

Append2(n, key, val, C) ==
  \E o \in Push(mem, table[n], Entry(key, val)) :
    LET h == TABLE_HASH(key)   i == table[n].nelts + 1 IN
    Becomes(n, [o.table EXCEPT !.last = With(@, h, i),
                               !.first = IF Indexed(table[n], h) THEN @ ELSE With(@, h, i)],
            o.mem, C)

ce_table_add(n, key, val) ==
  Append2(n, key, val, Append(content[n], Pair(key, val)))

\* Mutant: the other entries stay.
SetKeepsOthers(n, key, val) ==
  LET t == table[n]   H == Hits(t, key)   C == content[n]   J == Match(C, key)
  IN IF H = {} THEN Append2(n, key, val, Append(C, Pair(key, val)))
     ELSE Becomes(n, t, Put(mem, t.elts, [mem[t.elts] EXCEPT ![Min(H)].val = <<val>>]),
                  Without([C EXCEPT ![Min(J)].val = <<val>>], J \ {Min(J)}))

\* The first of the entries takes the value, the others go.
ce_table_set(n, key, val) ==
  LET t == table[n]   H == Hits(t, key)   C == content[n]   J == Match(C, key)
      E == Without([Elts(t) EXCEPT ![Min(H)].val = <<val>>], H \ {Min(H)})
      D == IF J = {} THEN Append(C, Pair(key, val))
           ELSE Without([C EXCEPT ![Min(J)].val = <<val>>], J \ {Min(J)})
  IN IF H = {} THEN Append2(n, key, val, D)
     ELSE Becomes(n, IF Cardinality(H) = 1 THEN t ELSE table_reindex(t, E),
                  Put(mem, t.elts, Over(mem[t.elts], E)), D)

ce_table_unset(n, key) ==
  LET t == table[n]   H == Hits(t, key)   E == Without(Elts(t), H)
  IN Becomes(n, IF H = {} THEN t ELSE table_reindex(t, E),
             Put(mem, t.elts, Over(mem[t.elts], E)),
             Without(content[n], Match(content[n], key)))

ce_table_merge(n, key, val) ==
  LET t == table[n]   H == Hits(t, key)   C == content[n]   J == Match(C, key)
      E == [Elts(t) EXCEPT ![Min(H)].val = Append(@, val)]
      D == IF J = {} THEN Append(C, Pair(key, val)) ELSE [C EXCEPT ![Min(J)].val = Append(@, val)]
  IN IF H = {} THEN Append2(n, key, val, D)
     ELSE Becomes(n, t, Put(mem, t.elts, Over(mem[t.elts], E)), D)

ce_table_clear(n) ==
  Becomes(n, [table[n] EXCEPT !.nelts = 0, !.first = <<>>, !.last = <<>>], mem, <<>>)

\* A copy has the room of the original, a clone what its entries need.
ce_table_copy(n, of) ==
  LET t == table[of]   at == Fresh IN
  Becomes(n, [t EXCEPT !.elts = at],
          Put(mem, at, Over(Slots(t.nalloc), Elts(t))), content[of])
ce_table_clone(n, of) ==
  LET t == table[of]   at == Fresh   room == Max({1, t.nelts}) IN
  Becomes(n, table_reindex([t EXCEPT !.elts = at, !.nalloc = room], Elts(t)),
          Put(mem, at, Over(Slots(room), Elts(t))), content[of])

\* copy_array_hdr_core shares the array and says that it is full; what is then appended
\* moves it, unless there is nothing to append.
ce_table_overlay(n, overlay, base) ==
  LET hdr == [table[overlay] EXCEPT !.nalloc = table[overlay].nelts]
      o   == ce_array_cat(mem, hdr, table[base])
  IN /\ EmptyBase \/ table[base].nelts > 0
     /\ table[overlay].nelts > 0
     /\ Becomes(n, table_reindex(o.table, SubSeq(o.mem[o.table.elts], 1, o.table.nelts)),
                o.mem, content[overlay] \o content[base])

----------------------------------------------------------------------------
(* Overlapping: one table is appended to another, and of the entries of    *)
(* one key one remains.                                                    *)

\* The merge of two sorted blocks of places in E.
RECURSIVE merge(_, _, _)
merge(E, a, b) ==
  IF a = <<>> THEN b ELSE IF b = <<>> THEN a
  ELSE IF Greater(E[Head(a)].key, E[Head(b)].key) THEN <<Head(b)>> \o merge(E, a, Tail(b))
  ELSE <<Head(a)>> \o merge(E, Tail(a), b)

RECURSIVE MergeBlocks(_, _, _)
MergeBlocks(E, v, size) ==
  IF Len(v) <= size THEN v
  ELSE merge(E, SubSeq(v, 1, size), SubSeq(v, size + 1, Min({2*size, Len(v)})))
         \o MergeBlocks(E, SubSeq(v, 2*size + 1, Len(v)), size)

RECURSIVE MergePasses(_, _, _)
MergePasses(E, v, size) ==
  IF size >= Len(v) THEN v ELSE MergePasses(E, MergeBlocks(E, v, size), 2*size)
table_mergesort(E) == MergePasses(E, MergeBlocks(E, [i \in DOMAIN E |-> i], 1), 2)

\* The run of places behind k in sorted whose entries have the key of the one at k.
RunEnd(E, sorted, k) ==
  Max({m \in k..Len(sorted) : \A j \in k..m : Same(E[sorted[j]], E[sorted[k]].key)})
Joined(E, sorted, k) ==
  FoldLeft(LAMBDA v, j : v \o E[sorted[j]].val, <<>>, [j \in 1..RunEnd(E, sorted, k) - k + 1 |-> k + j - 1])

RECURSIVE dedup(_, _, _, _)
dedup(E, sorted, k, flags) ==
  IF k > Len(sorted) THEN [elts |-> E, drop |-> {}]
  ELSE LET end  == RunEnd(E, sorted, k)
           val  == IF flags = "merge" THEN Joined(E, sorted, k) ELSE E[sorted[end]].val
           rest == dedup([E EXCEPT ![sorted[k]].val = val], sorted, end + 1, flags)
       IN [elts |-> rest.elts, drop |-> rest.drop \cup {sorted[j] : j \in k + 1..end}]

ce_table_compress(E, flags) ==
  LET r == dedup(E, table_mergesort(E), 1, flags) IN Without(r.elts, r.drop)

\* ce_table_cat: the index of s moves behind the entries of t.
ce_table_cat(M, t, s) ==
  LET o  == ce_array_cat(M, t, s)
      H  == DOMAIN t.last \cup DOMAIN s.last
      up == [h \in H |-> IF h \in DOMAIN s.last THEN s.last[h] + t.nelts ELSE t.last[h]]
      lo == [h \in H |-> IF h \in DOMAIN t.first THEN t.first[h] ELSE s.first[h] + t.nelts]
  IN [mem |-> o.mem, table |-> [o.table EXCEPT !.first = lo, !.last = up]]

\* What should become of C: of the pairs of one key the first stays, with the last value
\* or all of them.
Compressed(C, flags) ==
  LET Group(i) == SelectSeq(C, LAMBDA p : Folded(p.key) = Folded(C[i].key))
      Val(i) == IF flags = "merge" THEN FlattenSeq([j \in DOMAIN Group(i) |-> Group(i)[j].val])
                ELSE Last(Group(i)).val
      Again == {i \in DOMAIN C : \E j \in 1..i - 1 : Folded(C[j].key) = Folded(C[i].key)}
  IN Without([i \in DOMAIN C |-> [key |-> C[i].key, val |-> Val(i)]], Again)

\* Nothing is compressed, and the index stays as it was joined, when there is one entry.
Joint(n, t, M, E, F, C) ==
  Becomes(n, IF Len(E) <= 1 THEN t ELSE table_reindex(t, F), Put(M, t.elts, Over(M[t.elts], F)), C)
JointFrom(n, o, E, flags, C) == Joint(n, o.table, o.mem, E, ce_table_compress(E, flags), C)
JointOf(n, o, flags, C) == JointFrom(n, o, SubSeq(o.mem[o.table.elts], 1, o.table.nelts), flags, C)
ce_table_overlap(n, b, flags) ==
  /\ table[n].nelts + table[b].nelts > 0
  /\ JointOf(n, ce_table_cat(mem, table[n], table[b]), flags, Compressed(content[n] \o content[b], flags))

Bounded(T, C) ==
  \A n \in Names : T[n].nelts <= MaxElts[n] /\ \A i \in DOMAIN C[n] : Len(C[n][i].val) <= MaxVal

Next ==
  /\ \E n \in Names :
       \/ \E key \in Strings, val \in Vals :
            ce_table_add(n, key, val) \/ ce_table_set(n, key, val) \/ ce_table_merge(n, key, val)
       \/ \E key \in Strings : ce_table_unset(n, key)
       \/ ce_table_clear(n)
       \/ \E b \in Names \ {n} :
            \/ ce_table_copy(n, b) \/ ce_table_clone(n, b)
            \/ \E over \in {n, b} : ce_table_overlay(n, over, IF over = n THEN b ELSE n)
            \/ \E flags \in {"set", "merge"} : ce_table_overlap(n, b, flags)
  /\ Bounded(table', content')

Spec == Init /\ [][Next]_bvars

----------------------------------------------------------------------------
ce_table_get(t, key) == IF Hits(t, key) = {} THEN <<>> ELSE mem[t.elts][Min(Hits(t, key))].val
ce_table_vdo(t, key) == [j \in 1..Cardinality(Hits(t, key)) |->
                           mem[t.elts][SetToSortSeq(Hits(t, key), <)[j]].val]

\* Every table holds what was put into it, and nothing that was done to another: the
\* entries are the pairs in their order; by its index, whatever was removed, merged or
\* moved, a key finds its first value and a scan all of them.
TablesExact ==
  \A n \in Names :
    LET t == table[n]   C == content[n] IN
    /\ [i \in 1..t.nelts |-> [key |-> Elts(t)[i].key, val |-> Elts(t)[i].val]] = C
    /\ \A key \in Strings :
         LET V == SelectSeq(C, LAMBDA p : Folded(p.key) = Folded(key)) IN
         /\ ce_table_vdo(t, key) = [j \in DOMAIN V |-> V[j].val]
         /\ ce_table_get(t, key) = IF V = <<>> THEN <<>> ELSE V[1].val
=============================================================================
