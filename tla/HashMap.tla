------------------------------ MODULE HashMap ------------------------------
(***************************************************************************)
(* ce_map.c: a hash table with open addressing.  A slot is empty, taken, or *)
(* a dummy that keeps the probes over a deleted key going; m_key_usable    *)
(* counts down the empty slots that may still be taken, and the table is   *)
(* rebuilt when none is left.                                              *)
(***************************************************************************)
EXTENDS Integers, SequencesExt, FiniteSetsExt

CONSTANTS
  Keys,         \* strings, as sequences of bytes
  Entries,      \* the pairs <<key, value>> that callers set, no value NULL
  MaxUsed,      \* bound on ma_used, which overwriting counts up too
  DeleteAbsent, \* callers delete keys that are not in the map
  NULL, dummy

\* With at most six bytes the hash stays below 2^28, where nothing is folded back.
HashMapAssumption ==
  /\ \A key \in Keys : Len(key) \in 1..6 /\ \A i \in DOMAIN key : key[i] \in 1..255
  /\ \A e \in Entries : e[1] \in Keys /\ e[2] # NULL
  /\ MaxUsed \in Nat /\ DeleteAbsent \in BOOLEAN

VARIABLES
  table,   \* the entries by slot
  usable,  \* m_key_usable
  used,    \* ma_used
  phase,   \* "live", "cleared" (the static one-slot table) or "wild"
  dict     \* history: what was set and not deleted, by key

hvars == <<table, usable, used, phase, dict>>

MAP_INIT_D_SIZE == 8
USABLE_FRACTION(n) == (2*n + 1) \div 3
GROWTH_RATE(x) == 2*x

Size(t)  == Cardinality(DOMAIN t)
Vacant   == [key |-> NULL, hash |-> 0, value |-> NULL]
create_map_keys(n) == [i \in 0..n - 1 |-> Vacant]
string_hash(key)   == FoldLeft(LAMBDA h, c : 16*h + c, 0, key)

----------------------------------------------------------------------------
(* Probing. *)

\* i grows without a mask and overflows; only its low bits are used, and those the
\* sum modulo the size has too.
NextSlot(t, i, perturb) == (5*i + perturb + 1) % Size(t)

\* No table makes a probe that ends take so many steps.
Patience(t) == 2*Size(t) + 8
LOOPS == -1
NONE  == -2

RECURSIVE probe(_, _, _, _, _, _)
probe(t, key, i, perturb, freeslot, n) ==
  IF n = 0 THEN LOOPS
  ELSE IF t[i].key = NULL THEN IF freeslot = NONE THEN i ELSE freeslot
  ELSE IF t[i].key = key THEN i
  ELSE probe(t, key, NextSlot(t, i, perturb), perturb \div 32,
             IF t[i].key = dummy /\ freeslot = NONE THEN i ELSE freeslot, n - 1)

find_key_entry(t, key) ==
  probe(t, key, string_hash(key) % Size(t), string_hash(key), NONE, Patience(t))

RECURSIVE empty_slot(_, _, _)
empty_slot(t, i, perturb) ==
  IF t[i].key = NULL THEN i ELSE empty_slot(t, NextSlot(t, i, perturb), perturb \div 32)
find_empty_slot(t, hash) == empty_slot(t, hash % Size(t), hash)

Taken(t, i) == t[i].key \notin {NULL, dummy}
ce_map_get_value(t, key) ==
  LET ep == find_key_entry(t, key) IN IF Taken(t, ep) THEN t[ep].value ELSE NULL

----------------------------------------------------------------------------
(* The table is rebuilt. *)

RECURSIVE NewSize(_, _)
NewSize(size, minused) == IF size > minused THEN size ELSE NewSize(2*size, minused)

insertmap_clean(t, e) == [t EXCEPT ![find_empty_slot(t, e.hash)] = e]
map_resize(minused) ==
  FoldLeft(LAMBDA t, i : IF table[i].value # NULL THEN insertmap_clean(t, table[i]) ELSE t,
           create_map_keys(NewSize(MAP_INIT_D_SIZE, minused)),
           [j \in 1..Size(table) |-> j - 1])
insertion_resize == map_resize(GROWTH_RATE(used))

----------------------------------------------------------------------------
(* The operations. *)

Init ==
  /\ table = create_map_keys(MAP_INIT_D_SIZE)
  /\ usable = USABLE_FRACTION(MAP_INIT_D_SIZE)
  /\ used = 0 /\ phase = "live" /\ dict = <<>>

Fill(t, i, key, value) == [t EXCEPT ![i] = [key |-> key, hash |-> string_hash(key), value |-> value]]
Remember(key, value)   == dict' = [k \in DOMAIN dict \cup {key} |-> IF k = key THEN value ELSE dict[k]]

Overwrite(key, value) ==
  LET ep == find_key_entry(table, key) IN
  /\ Taken(table, ep)
  /\ table' = [table EXCEPT ![ep].value = value]
  /\ used' = used + 1 /\ Remember(key, value)
  /\ UNCHANGED <<usable, phase>>

TakeDummy(key, value) ==
  LET ep == find_key_entry(table, key) IN
  /\ table[ep].key = dummy
  /\ table' = Fill(table, ep, key, value)
  /\ used' = used + 1 /\ Remember(key, value)
  /\ UNCHANGED <<usable, phase>>

TakeEmpty(key, value) ==
  LET ep == find_key_entry(table, key) IN
  /\ table[ep].key = NULL /\ usable > 0
  /\ table' = Fill(table, ep, key, value)
  /\ usable' = usable - 1
  /\ used' = used + 1 /\ Remember(key, value)
  /\ UNCHANGED phase

\* The rebuilt table leaves room for ma_used entries, whether it has so many or not.
\* malloc can fail: then nothing changes.
Grow(key, value) ==
  LET ep == find_key_entry(table, key)   t == insertion_resize IN
  /\ table[ep].key = NULL /\ usable <= 0 /\ phase = "live"
  /\ table' = Fill(t, find_empty_slot(t, string_hash(key)), key, value)
  /\ usable' = USABLE_FRACTION(Size(t)) - used - 1
  /\ used' = used + 1 /\ Remember(key, value)
  /\ UNCHANGED phase

\* After ce_clear_map the next growth hands the static table to free().
GrowCleared ==
  /\ phase = "cleared" /\ phase' = "wild"
  /\ UNCHANGED <<table, usable, used, dict>>

DelEmpties(key) ==
  LET ep == find_key_entry(table, key) IN
  /\ Taken(table, ep) \/ DeleteAbsent
  /\ table' = [table EXCEPT ![ep] = Vacant]
  /\ used' = used - 1
  /\ dict' = [k \in DOMAIN dict \ {key} |-> dict[k]]
  /\ UNCHANGED <<usable, phase>>

\* A key that is not there turns an empty slot into a dummy, which usable still counts.
ce_map_del_value(key) ==
  LET ep == find_key_entry(table, key) IN
  /\ Taken(table, ep) \/ DeleteAbsent
  /\ table' = [table EXCEPT ![ep].key = dummy, ![ep].value = NULL]
  /\ used' = used - 1
  /\ dict' = [k \in DOMAIN dict \ {key} |-> dict[k]]
  /\ UNCHANGED <<usable, phase>>

ce_clear_map ==
  /\ phase = "live"
  /\ table' = create_map_keys(1)
  /\ usable' = 0 /\ used' = 0 /\ dict' = <<>> /\ phase' = "cleared"

Next ==
  /\ phase # "wild" /\ used < MaxUsed
  /\ \/ \E e \in Entries : \/ Overwrite(e[1], e[2]) \/ TakeDummy(e[1], e[2])
                           \/ TakeEmpty(e[1], e[2]) \/ Grow(e[1], e[2])
     \/ \E key \in Keys : ce_map_del_value(key)
     \/ ce_clear_map \/ GrowCleared

Spec == Init /\ [][Next]_hvars

----------------------------------------------------------------------------
\* However setting, overwriting, deleting and rebuilding follow one another, a look-up
\* of any key ends, and returns the value last set for it and not deleted.  More slots
\* are empty than usable says, so that one always stops a probe.
MapIsDict ==
  /\ \A key \in Keys :
       /\ find_key_entry(table, key) # LOOPS
       /\ ce_map_get_value(table, key) = IF key \in DOMAIN dict THEN dict[key] ELSE NULL
  /\ Cardinality({i \in DOMAIN table : table[i].key = NULL}) > usable
=============================================================================
