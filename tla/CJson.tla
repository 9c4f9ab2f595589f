------------------------------- MODULE CJson -------------------------------
(***************************************************************************)
(* cJSON (collectors/wireshark/src/cJSON.c), with which the collector      *)
(* builds and prints what it reports: items on a heap, chained through     *)
(* next, prev and child, and the recursive parser and printer.  Characters *)
(* are their codes; a number is an integer (rounding of doubles is left    *)
(* out).  cJSON_New_Item fails when all of Items are in use.               *)
(*                                                                         *)
(* `value' is what the user knows: for each item the user holds, the tree  *)
(* it stands for.  The user changes the items it holds only, and neither   *)
(* changes nor deletes one that a reference still shares children with.    *)
(***************************************************************************)
EXTENDS Integers, Sequences, SequencesExt, FiniteSets

CONSTANTS
    MaxItems,       \* how many items malloc has room for
    Leaves,         \* [type, data] of the values that are created
    Keys,           \* the names given to the items of objects
    Alike,          \* pairs of texts that mean the same
    MaxSteps        \* bound of the run: calls

VARIABLES heap, wild, value, lent, steps

vars == <<heap, wild, value, lent, steps>>

Items == 1..MaxItems
Nil == 0
Blank == [live |-> FALSE, type |-> "", data |-> << >>, ref |-> FALSE, string |-> << >>,
          next |-> Nil, prev |-> Nil, child |-> Nil]

NoFree(h) == \A i \in Items : h[i].live
FreeItem(h) == CHOOSE i \in Items : ~h[i].live /\ \A j \in 1..(i - 1) : h[j].live
cJSON_New_Item(h, i, type, data) ==
    [h EXCEPT ![i] = [Blank EXCEPT !.live = TRUE, !.type = type, !.data = data]]

(* the items of the chain that begins at i *)
RECURSIVE Chain(_, _)
Chain(h, i) == IF i = Nil THEN << >> ELSE <<i>> \o Chain(h, h[i].next)
Children(h, i) == Chain(h, h[i].child)

(***************************************************************************)
(* Lists                                                                   *)
(***************************************************************************)
RECURSIVE cJSON_Delete(_, _)
cJSON_Delete(s, c) ==
    IF c = Nil THEN s
    ELSE LET d == IF s.heap[c].ref THEN s ELSE cJSON_Delete(s, s.heap[c].child)
             freed == [heap |-> [d.heap EXCEPT ![c] = [@ EXCEPT !.live = FALSE]],
                       wild |-> d.wild \/ ~d.heap[c].live]
         IN  cJSON_Delete(freed, s.heap[c].next)

Scrubbed(h) == [i \in Items |-> IF h[i].live THEN h[i] ELSE Blank]

SuffixOneWay(h, prev, item) == [h EXCEPT ![prev].next = item]
suffix_object(h, prev, item) == [h EXCEPT ![prev].next = item, ![item].prev = prev]

cJSON_AddItemToArray(h, array, item) ==
    IF h[array].child = Nil THEN [h EXCEPT ![array].child = item]
    ELSE suffix_object(h, Last(Children(h, array)), item)

cJSON_AddItemToObject(h, object, string, item) ==
    cJSON_AddItemToArray([h EXCEPT ![item].string = <<string>>], object, item)

ReferenceOwns(h, ref, item) == [h EXCEPT ![ref] = [h[item] EXCEPT !.string = << >>, !.next = Nil, !.prev = Nil]]
create_reference(h, ref, item) ==
    [h EXCEPT ![ref] = [h[item] EXCEPT !.string = << >>, !.ref = TRUE, !.next = Nil, !.prev = Nil]]

(* the item at a place of the chain, Nil past its end *)
cJSON_GetArrayItem(h, array, which) ==
    IF which < Len(Children(h, array)) THEN Children(h, array)[which + 1] ELSE Nil

cJSON_DetachItemFromArray(h, array, c) ==
    LET n == h[c].next
        p == h[c].prev
    IN  [i \in Items |->
            [h[i] EXCEPT !.next = IF i = c THEN Nil ELSE IF i = p THEN n ELSE @,
                         !.prev = IF i = c THEN Nil ELSE IF i = n THEN p ELSE @,
                         !.child = IF i = array /\ @ = c THEN n ELSE @]]

(* cJSON_ReplaceItemInArray up to the deletion of what is replaced *)
Exchanged(h, array, c, item) ==
    LET n == h[c].next
        p == h[c].prev
        first == h[array].child = c
    IN  [i \in Items |->
            [h[i] EXCEPT !.next = IF i = item THEN n ELSE IF i = c THEN Nil
                                  ELSE IF i = p /\ ~first THEN item ELSE @,
                         !.prev = IF i = item THEN p ELSE IF i = c THEN Nil
                                  ELSE IF i = n THEN item ELSE @,
                         !.child = IF i = array /\ first THEN item ELSE @]]

Lower(s) == [i \in 1..Len(s) |-> IF s[i] \in 65..90 THEN s[i] + 32 ELSE s[i]]
cJSON_strcasecmp(s1, s2) == s1 # << >> /\ Lower(s1[1]) = Lower(s2)
(* the first item whose name is the string but for the case, Nil if there is none *)
cJSON_GetObjectItem(h, object, string) ==
    LET named == SelectSeq(Children(h, object), LAMBDA i : cJSON_strcasecmp(h[i].string, string))
    IN  IF named = << >> THEN Nil ELSE Head(named)

(* [heap, wild, item]: the copy, or Nil when the items run out and the part made is deleted *)
RECURSIVE cJSON_Duplicate(_, _, _)
Appended(s, new, kid, last) ==
    IF s.item = Nil THEN [cJSON_Delete([heap |-> s.heap, wild |-> s.wild], new) EXCEPT !.heap = Scrubbed(@)]
                          @@ [item |-> Nil]
    ELSE [heap |-> IF last = Nil THEN [s.heap EXCEPT ![new].child = s.item]
                   ELSE suffix_object(s.heap, last, s.item),
          wild |-> s.wild, item |-> new]
cJSON_Duplicate(s, item, recurse) ==
    IF NoFree(s.heap) THEN [s EXCEPT !.item = Nil]
    ELSE LET new == FreeItem(s.heap)
             one == [s EXCEPT !.heap[new] = [s.heap[item] EXCEPT !.ref = FALSE, !.next = Nil,
                                                                  !.prev = Nil, !.child = Nil],
                              !.item = new]
         IN  IF ~recurse THEN one
             ELSE FoldLeft(LAMBDA t, kid :
                              IF t.item = Nil THEN t
                              ELSE Appended(cJSON_Duplicate(t, kid, TRUE), new, kid,
                                            IF t.heap[new].child = Nil THEN Nil
                                            ELSE Last(Children(t.heap, new))),
                           one, Children(s.heap, item))

(***************************************************************************)
(* Text.  A tree is [type, data, kids], a kid [key, val] with key <<name>> *)
(* or << >>.                                                               *)
(***************************************************************************)
Leaf(type, data) == [type |-> type, data |-> data, kids |-> << >>]

RECURSIVE TreeOf(_, _)
TreeOf(h, i) ==
    [type |-> h[i].type, data |-> h[i].data,
     kids |-> LET c == Children(h, i)
              IN  [k \in 1..Len(c) |-> [key |-> h[c[k]].string, val |-> TreeOf(h, c[k])]]]

Word == [Null |-> <<110, 117, 108, 108>>, True |-> <<116, 114, 117, 101>>,
         False |-> <<102, 97, 108, 115, 101>>]

RECURSIVE Decimal(_)
Decimal(n) == IF n < 0 THEN <<45>> \o Decimal(-n)
              ELSE IF n < 10 THEN <<48 + n>> ELSE Decimal(n \div 10) \o <<48 + (n % 10)>>

Escapes == 8 :> 98 @@ 12 :> 102 @@ 10 :> 110 @@ 13 :> 114 @@ 9 :> 116 @@ 34 :> 34 @@ 92 :> 92
HexDigit(d) == IF d < 10 THEN 48 + d ELSE 87 + d

(* [out, room]: the text with its NUL, and what was allocated for it *)
print_string_ptr(str) ==
    LET one(c) == IF c \in DOMAIN Escapes THEN <<92, Escapes[c]>>
                  ELSE IF c < 32 THEN <<92, 117, 48, 48, HexDigit(c \div 16), HexDigit(c % 16)>>
                  ELSE <<c>>
        size(c) == 1 + (IF c \in DOMAIN Escapes THEN 1 ELSE IF c < 32 THEN 5 ELSE 0)
    IN  [out |-> <<34>> \o FlattenSeq([i \in 1..Len(str) |-> one(str[i])]) \o <<34>>,
         room |-> 3 + FoldLeft(LAMBDA n, c : n + size(c), 0, str)]

Tabs(n) == [i \in 1..n |-> 9]
Total(parts, extra) == FoldLeft(LAMBDA n, t : n + Len(t) + extra, 0, parts)

(* what print_array makes of its entries, and the room it allocates *)
PrintArrayShort(entries, fmt) ==
    [out |-> <<91>> \o FlattenSeq([i \in 1..Len(entries) |->
                  entries[i] \o (IF i = Len(entries) THEN << >> ELSE IF fmt THEN <<44, 32>> ELSE <<44>>)]) \o <<93>>,
     room |-> 2 + Total(entries, 0)]
print_array(entries, fmt) ==
    IF entries = << >> THEN [out |-> <<91, 93>>, room |-> 3]
    ELSE [out |-> <<91>> \o FlattenSeq([i \in 1..Len(entries) |->
                        entries[i] \o (IF i = Len(entries) THEN << >> ELSE IF fmt THEN <<44, 32>> ELSE <<44>>)])
                  \o <<93>>,
          room |-> 5 + Total(entries, 2 + (IF fmt THEN 1 ELSE 0))]

print_object(names, entries, depth, fmt) ==
    LET d == depth + 1
        line(i) == (IF fmt THEN Tabs(d) ELSE << >>) \o names[i] \o (IF fmt THEN <<58, 9>> ELSE <<58>>)
                   \o entries[i] \o (IF i = Len(entries) THEN << >> ELSE <<44>>)
                   \o (IF fmt THEN <<10>> ELSE << >>)
    IN  IF entries = << >>
        THEN [out |-> IF fmt THEN <<123, 10>> \o Tabs(depth - 1) \o <<125>> ELSE <<123, 125>>,
              room |-> IF fmt THEN depth + 4 ELSE 3]
        ELSE [out |-> <<123>> \o (IF fmt THEN <<10>> ELSE << >>)
                      \o FlattenSeq([i \in 1..Len(entries) |-> line(i)])
                      \o (IF fmt THEN Tabs(d - 1) ELSE << >>) \o <<125>>,
              room |-> 7 + (IF fmt THEN d ELSE 0) + Total(entries, 0)
                         + Total(names, 2 + (IF fmt THEN 2 + d ELSE 0))]

(* [out, fits]: the text of a value, and whether every buffer on the way held its text and NUL *)
Fit(p, fits) == [out |-> p.out, fits |-> fits /\ Len(p.out) + 1 <= p.room]
RECURSIVE print_value(_, _, _)
Outs(printed) == [i \in 1..Len(printed) |-> printed[i].out]
Inside(printed) == \A i \in 1..Len(printed) : printed[i].fits
Composed(v, printed, depth, fmt) ==
    IF v.type = "Array" THEN Fit(print_array(Outs(printed), fmt), Inside(printed))
    ELSE Fit(print_object([i \in 1..Len(v.kids) |-> print_string_ptr(v.kids[i].key[1]).out],
                          Outs(printed), depth, fmt), Inside(printed))
print_value(v, depth, fmt) ==
    CASE v.type \in DOMAIN Word -> [out |-> Word[v.type], fits |-> TRUE]
      [] v.type = "Number" -> Fit([out |-> Decimal(v.data[1]), room |-> 21], TRUE)
      [] v.type = "String" -> Fit(print_string_ptr(v.data), TRUE)
      [] OTHER -> Composed(v, [i \in 1..Len(v.kids) |->
                                  print_value(v.kids[i].val, depth + 1, fmt)], depth, fmt)

cJSON_Print(v, fmt) == print_value(v, 0, fmt)

(* Parsing: a place in the text is an index, 0 the failure; past the end stands the NUL, and  *)
(* behind that whatever is in memory.  A parser that looks there is lost: it is said to fail, *)
(* and that it did not stay inside (fits).                                                    *)
Fail == 0
At(t, p) == IF p <= Len(t) THEN t[p] ELSE 0
Outside(t, p) == p > Len(t) + 1
IsDigit(c) == c \in 48..57

(* the first place from p on whose character is not in S *)
RECURSIVE Past(_, _, _)
Past(t, p, S) == IF At(t, p) \in S THEN Past(t, p + 1, S) ELSE p
skip(t, p) == IF p = Fail THEN Fail ELSE Past(t, p, 1..32)

RECURSIVE ReadDigits(_, _, _)
ReadDigits(t, p, n) == IF IsDigit(At(t, p)) THEN ReadDigits(t, p + 1, 10 * n + At(t, p) - 48)
                       ELSE [end |-> p, n |-> n]

(* n * 10 ^ e cut to an integer *)
RECURSIVE Scaled(_, _)
Scaled(n, e) == IF e = 0 \/ n = 0 THEN n
                ELSE IF e > 0 THEN Scaled(10 * n, e - 1) ELSE Scaled(n \div 10, e + 1)

Exponent(t, p) ==
    IF At(t, p) \notin {69, 101} THEN [end |-> p, n |-> 0]
    ELSE LET signed == At(t, p + 1) \in {43, 45}
             d == ReadDigits(t, IF signed THEN p + 2 ELSE p + 1, 0)
         IN  IF At(t, p + 1) = 45 THEN [d EXCEPT !.n = -@] ELSE d

parse_number(t, p) ==
    LET q == IF At(t, p) = 45 THEN p + 1 ELSE p
        z == IF At(t, q) = 48 THEN q + 1 ELSE q
        whole == IF At(t, z) \in 49..57 THEN ReadDigits(t, z, 0) ELSE [end |-> z, n |-> 0]
        point == At(t, whole.end) = 46 /\ IsDigit(At(t, whole.end + 1))
        all == IF point THEN ReadDigits(t, whole.end + 1, whole.n) ELSE whole
        exp == Exponent(t, all.end)
        scale == IF point THEN whole.end + 1 - all.end ELSE 0
    IN  [end |-> exp.end, fits |-> TRUE,
         tree |-> Leaf("Number", <<(IF At(t, p) = 45 THEN -1 ELSE 1) * Scaled(all.n, scale + exp.n)>>)]

HexValue(c) == IF IsDigit(c) THEN c - 48 ELSE IF c \in 65..70 THEN c - 55
               ELSE IF c \in 97..102 THEN c - 87 ELSE -1
parse_hex4(t, p) ==
    LET d == [i \in 0..3 |-> HexValue(At(t, p + i))]
    IN  IF \E i \in 0..3 : d[i] < 0 THEN 0 ELSE 4096 * d[0] + 256 * d[1] + 16 * d[2] + d[3]

Low6(u) == 128 + (u % 64)
Utf8(u) ==
    IF u < 128 THEN <<u>>
    ELSE IF u < 2048 THEN <<192 + (u \div 64), Low6(u)>>
    ELSE IF u < 65536 THEN <<224 + (u \div 4096), Low6(u \div 64), Low6(u)>>
    ELSE <<240 + (u \div 262144), Low6(u \div 4096), Low6(u \div 64), Low6(u)>>

(* an escape \u at p: [end, bytes]; invalid characters and halves are dropped *)
UnicodeBmpOnly(t, p) == [end |-> p + 6, bytes |-> Utf8(parse_hex4(t, p + 2))]
Unicode(t, p) ==
    LET uc == parse_hex4(t, p + 2)
        uc2 == parse_hex4(t, p + 8)
        Nothing(end) == [end |-> end, bytes |-> << >>]
    IN  IF uc \in 56320..57343 \/ uc = 0 THEN Nothing(p + 6)
        ELSE IF uc \notin 55296..56319 THEN [end |-> p + 6, bytes |-> Utf8(uc)]
        ELSE IF At(t, p + 6) # 92 \/ At(t, p + 7) # 117 THEN Nothing(p + 6)
        ELSE IF uc2 \notin 56320..57343 THEN Nothing(p + 12)
        ELSE [end |-> p + 12, bytes |-> Utf8(65536 + 1024 * (uc % 1024) + (uc2 % 1024))]

Unescaped == 98 :> 8 @@ 102 :> 12 @@ 110 :> 10 @@ 114 :> 13 @@ 116 :> 9
Escape(t, p) ==
    IF At(t, p + 1) = 117 THEN Unicode(t, p)
    ELSE [end |-> p + 2, bytes |-> <<IF At(t, p + 1) \in DOMAIN Unescaped THEN Unescaped[At(t, p + 1)]
                                     ELSE At(t, p + 1)>>]

(* the first pass over a string: how many bytes are counted for it, -1 for a pass that skips *)
(* the NUL as an escaped character                                                            *)
RECURSIVE Measured(_, _, _)
Measured(t, p, len) ==
    IF Outside(t, p) THEN -1
    ELSE IF At(t, p) \in {0, 34} THEN len
    ELSE Measured(t, IF At(t, p) = 92 THEN p + 2 ELSE p + 1, len + 1)

RECURSIVE Copied(_, _, _)
CopiedEscape(t, e, out) == Copied(t, e.end, out \o e.bytes)
Copied(t, p, out) ==
    IF Outside(t, p) THEN [end |-> Fail, out |-> out]
    ELSE IF At(t, p) \in {0, 34} THEN [end |-> IF At(t, p) = 34 THEN p + 1 ELSE p, out |-> out]
    ELSE IF At(t, p) # 92 THEN Copied(t, p + 1, Append(out, t[p]))
    ELSE CopiedEscape(t, Escape(t, p), out)

Allocated(c, room) == [end |-> c.end, tree |-> Leaf("String", c.out),
                       fits |-> c.end # Fail /\ Len(c.out) + 1 <= room]
parse_string(t, p) ==
    IF p = Fail \/ At(t, p) # 34 THEN [end |-> Fail, tree |-> Leaf("", << >>), fits |-> TRUE]
    ELSE Allocated(Copied(t, p + 1, << >>), Measured(t, p + 1, 0) + 1)

StartsWith(t, p, w) == p + Len(w) - 1 <= Len(t) /\ SubSeq(t, p, p + Len(w) - 1) = w
Constants == {"Null", "False", "True"}

RECURSIVE parse_value(_, _)

(* one member: a value, or in an object a name, a colon and a value *)
Colon(t, p) == IF p = Fail \/ At(t, p) # 58 THEN Fail ELSE p + 1
Named(t, name) == [end |-> Colon(t, skip(t, name.end)), key |-> <<name.tree.data>>, fits |-> name.fits]
KidOf(t, name, v) == [end |-> skip(t, v.end), fits |-> name.fits /\ v.fits,
                      kid |-> [key |-> name.key, val |-> v.tree]]
Valued(t, name) == KidOf(t, name, parse_value(t, skip(t, name.end)))
Member(t, p, object) ==
    IF object THEN Valued(t, Named(t, parse_string(t, skip(t, p))))
    ELSE Valued(t, [end |-> p, key |-> << >>, fits |-> TRUE])

(* the members up to the closing bracket *)
RECURSIVE Members(_, _, _, _)
MoreMembers(t, m, z, close) ==
    IF m.end = Fail THEN [z EXCEPT !.end = Fail, !.fits = @ /\ m.fits]
    ELSE LET all == [z EXCEPT !.tree.kids = Append(@, m.kid), !.fits = @ /\ m.fits]
         IN  IF At(t, m.end) = 44 THEN Members(t, m.end + 1, all, close)
             ELSE [all EXCEPT !.end = IF At(t, m.end) = close THEN m.end + 1 ELSE Fail]
Members(t, p, z, close) == MoreMembers(t, Member(t, p, z.tree.type = "Object"), z, close)

(* parse_array and parse_object from the character after the bracket *)
parse_members(t, p, type, close) ==
    IF At(t, skip(t, p)) = close THEN [end |-> skip(t, p) + 1, tree |-> Leaf(type, << >>), fits |-> TRUE]
    ELSE Members(t, skip(t, p), [end |-> p, tree |-> Leaf(type, << >>), fits |-> TRUE], close)

parse_value(t, p) ==
    IF p = Fail THEN [end |-> Fail, tree |-> Leaf("", << >>), fits |-> TRUE]
    ELSE IF \E k \in Constants : StartsWith(t, p, Word[k])
         THEN LET k == CHOOSE k \in Constants : StartsWith(t, p, Word[k])
              IN  [end |-> p + Len(Word[k]), tree |-> Leaf(k, << >>), fits |-> TRUE]
    ELSE IF At(t, p) = 34 THEN parse_string(t, p)
    ELSE IF At(t, p) = 45 \/ IsDigit(At(t, p)) THEN parse_number(t, p)
    ELSE IF At(t, p) \in {91, 123}
         THEN parse_members(t, p + 1, IF At(t, p) = 91 THEN "Array" ELSE "Object", At(t, p) + 2)
    ELSE [end |-> Fail, tree |-> Leaf("", << >>), fits |-> TRUE]

(* only blanks may follow when the end of the text is required *)
Terminated(t, v, required) ==
    IF required /\ v.end # Fail /\ At(t, skip(t, v.end)) # 0 THEN [v EXCEPT !.end = Fail] ELSE v
cJSON_ParseWithOpts(t, require_null_terminated) ==
    Terminated(t, parse_value(t, skip(t, 1)), require_null_terminated)

(* cJSON_Minify, with what its scan is in at the end: a string or a comment that is not closed *)
(* takes it past the NUL                                                                        *)
cJSON_Minify(t) ==
    FoldLeft(LAMBDA z, i :
        CASE z.m = "string" -> [out |-> Append(z.out, t[i]), m |-> IF t[i] = 34 THEN "out"
                                     ELSE IF t[i] = 92 THEN "escape" ELSE "string"]
          [] z.m = "escape" -> [out |-> Append(z.out, t[i]), m |-> "string"]
          [] z.m = "line" -> [z EXCEPT !.m = IF t[i] = 10 THEN "out" ELSE "line"]
          [] z.m = "comment" -> [z EXCEPT !.m = IF t[i] = 42 /\ At(t, i + 1) = 47 THEN "close" ELSE "comment"]
          [] z.m = "close" -> [z EXCEPT !.m = "out"]
          [] OTHER -> IF t[i] \in {9, 10, 13, 32} THEN z
                      ELSE IF t[i] = 47 /\ At(t, i + 1) \in {42, 47}
                           THEN [z EXCEPT !.m = IF At(t, i + 1) = 47 THEN "line" ELSE "comment"]
                      ELSE [out |-> Append(z.out, t[i]), m |-> IF t[i] = 34 THEN "string" ELSE "out"],
        [out |-> << >>, m |-> "out"], [i \in 1..Len(t) |-> i])

(***************************************************************************)
(* Actions                                                                 *)
(***************************************************************************)
Init ==
    /\ heap = [i \in Items |-> Blank] /\ wild = FALSE
    /\ value = << >>             \* the function with the empty domain
    /\ lent = << >>
    /\ steps = 0

Held == DOMAIN value
Containers == {i \in Held : heap[i].type \in {"Array", "Object"} /\ ~heap[i].ref}
Unlent == Containers \ {lent[r] : r \in {r \in DOMAIN lent : heap[r].live}}
Drop(f, S) == [x \in DOMAIN f \ S |-> f[x]]
Tick == steps < MaxSteps /\ steps' = steps + 1
NameFor(a) == IF heap[a].type = "Object" THEN {<<k>> : k \in Keys} ELSE {<< >>}
WithKid(v, key, kid) == [v EXCEPT !.kids = Append(@, [key |-> key, val |-> kid])]

Create(leaf) ==
    /\ Tick /\ ~NoFree(heap)
    /\ heap' = cJSON_New_Item(heap, FreeItem(heap), leaf.type, leaf.data)
    /\ value' = FreeItem(heap) :> Leaf(leaf.type, leaf.data) @@ value
    /\ UNCHANGED <<wild, lent>>

(* cJSON_CreateIntArray *)
CreateIntArray(numbers) ==
    LET free == SetToSortSeq({i \in Items : ~heap[i].live}, <)
        a == free[1]
        n == Len(numbers)
        made == FoldLeft(LAMBDA h, k : cJSON_New_Item(h, free[k + 1], "Number", <<numbers[k]>>),
                         cJSON_New_Item(heap, a, "Array", << >>), [k \in 1..n |-> k])
    IN  /\ Tick /\ Len(free) > n
        /\ heap' = FoldLeft(LAMBDA h, k : IF k = 1 THEN [h EXCEPT ![a].child = free[2]]
                                          ELSE suffix_object(h, free[k], free[k + 1]),
                            made, [k \in 1..n |-> k])
        /\ value' = a :> [type |-> "Array", data |-> << >>,
                          kids |-> [k \in 1..n |-> [key |-> << >>, val |-> Leaf("Number", <<numbers[k]>>)]]]
                    @@ value
        /\ UNCHANGED <<wild, lent>>

Added(h, a, key, item) ==
    IF key = << >> THEN cJSON_AddItemToArray(h, a, item) ELSE cJSON_AddItemToObject(h, a, key[1], item)

Add(a, item, key) ==
    /\ Tick /\ a # item
    /\ heap' = Added(heap, a, key, item)
    /\ value' = [Drop(value, {item}) EXCEPT ![a] = WithKid(@, key, value[item])]
    /\ UNCHANGED <<wild, lent>>

(* cJSON_AddItemReferenceToArray, ...ToObject; nothing is added when no item is left *)
AddReference(a, item, key) ==
    /\ Tick /\ a # item
    /\ IF NoFree(heap) THEN UNCHANGED <<heap, value, lent>>
       ELSE /\ heap' = Added(create_reference(heap, FreeItem(heap), item), a, key, FreeItem(heap))
            /\ value' = [value EXCEPT ![a] = WithKid(@, key, value[item])]
            /\ lent' = FreeItem(heap) :> item @@ lent
    /\ UNCHANGED wild

(* the items a tree owns *)
RECURSIVE Owned(_, _)
Owned(h, i) == {i} \cup (IF h[i].ref THEN {} ELSE UNION {Owned(h, c) : c \in {Children(h, i)[k] :
                                                                  k \in 1..Len(Children(h, i))}})
Deletable(i) == \A r \in DOMAIN lent : heap[r].live /\ lent[r] \in Owned(heap, i) => r \in Owned(heap, i)

DeleteFrom(h, i) ==
    LET d == cJSON_Delete([heap |-> h, wild |-> wild], i)
    IN  /\ heap' = Scrubbed(d.heap) /\ wild' = d.wild
        /\ lent' = Drop(lent, {r \in DOMAIN lent : ~d.heap[r].live})

Delete(i) ==
    /\ Tick /\ Deletable(i)
    /\ DeleteFrom(heap, i)
    /\ value' = Drop(value, {i})

RemovedAt(s, which) == SubSeq(s, 1, which) \o SubSeq(s, which + 2, Len(s))
(* the place of an item among the children of its container *)
IndexIn(h, a, c) == CHOOSE k \in 0..MaxItems : cJSON_GetArrayItem(h, a, k) = c

(* cJSON_DetachItemFromArray, ...FromObject (c is what the name finds) *)
Detach(a, c) ==
    LET which == IndexIn(heap, a, c)
    IN  /\ Tick
        /\ heap' = cJSON_DetachItemFromArray(heap, a, c)
        /\ value' = c :> value[a].kids[which + 1].val
                    @@ [value EXCEPT ![a].kids = RemovedAt(@, which)]
        /\ UNCHANGED <<wild, lent>>

(* cJSON_DeleteItemFromArray, ...FromObject *)
DeleteItem(a, c) ==
    /\ Tick /\ Deletable(c)
    /\ DeleteFrom(cJSON_DetachItemFromArray(heap, a, c), c)
    /\ value' = [value EXCEPT ![a].kids = RemovedAt(@, IndexIn(heap, a, c))]

(* cJSON_ReplaceItemInArray; in an object the new item takes the name that was looked up *)
Replace(a, c, item, key) ==
    /\ Tick /\ item # a /\ Deletable(c)
    /\ DeleteFrom(Exchanged(IF key = << >> THEN heap ELSE [heap EXCEPT ![item].string = key], a, c, item), c)
    /\ value' = [Drop(value, {item}) EXCEPT ![a].kids[IndexIn(heap, a, c) + 1] =
                    [key |-> key, val |-> value[item]]]

(* the copy of a reference has children of its own *)
Duplicate(i, recurse) ==
    LET d == cJSON_Duplicate([heap |-> heap, wild |-> wild, item |-> Nil], i, recurse)
    IN  /\ Tick
        /\ heap' = d.heap /\ wild' = d.wild
        /\ value' = IF d.item = Nil THEN value
                    ELSE d.item :> (IF recurse THEN value[i] ELSE [value[i] EXCEPT !.kids = << >>]) @@ value
        /\ UNCHANGED lent

(* the items an object's look-ups by any name find *)
Found(a) == IF heap[a].type = "Array" THEN {[item |-> c, key |-> << >>] : c \in ToSet(Children(heap, a))}
            ELSE {[item |-> cJSON_GetObjectItem(heap, a, k), key |-> <<k>>] : k \in Keys}

Next ==
    \/ \E leaf \in Leaves : Create(leaf)
    \/ CreateIntArray(<<-1, 10>>)
    \/ \E a \in Unlent : \E item \in Held, key \in NameFor(a) : Add(a, item, key) \/ AddReference(a, item, key)
    \/ \E i \in Held : Delete(i) \/ \E recurse \in BOOLEAN : Duplicate(i, recurse)
    \/ \E a \in Unlent : \E f \in Found(a) :
          /\ f.item # Nil
          /\ \/ Detach(a, f.item) \/ DeleteItem(a, f.item)
             \/ \E item \in Held : Replace(a, f.item, item, f.key)

Spec == Init /\ [][Next]_vars

(***************************************************************************)
(* Properties                                                              *)
(***************************************************************************)
(* TreesHeld: the chained items of every item the user holds are the tree it was built to be,
   whatever was added, detached, replaced, referenced, copied or deleted before; prev leads
   back to what next leads from; each item in use belongs to exactly one tree of the user, and
   none was freed twice - a reference shares children but never frees them. *)
TreesHeld ==
    /\ ~wild
    /\ \A i \in Held : /\ heap[i].live /\ heap[i].next = Nil /\ heap[i].prev = Nil
                       /\ TreeOf(heap, i) = value[i]
    /\ \A i \in Items : heap[i].next # Nil => heap[heap[i].next].prev = i
    /\ {i \in Items : heap[i].live} = UNION {Owned(heap, i) : i \in Held}
    /\ \A i, j \in Held : i # j => Owned(heap, i) \cap Owned(heap, j) = {}

(* TextsFaithful: printing a tree fills no buffer past the room computed for it, indented or
   not; parsing what was printed gives the tree back, in strings that fit what the first pass
   measured, and minifying the indented text gives the plain one.  A text cut short anywhere but
   in an escape is read within its bounds.  Texts that spell a number or a string differently are
   read as the same tree. *)
NoEscapeCut(t, n) == \A k \in 1..n : k > n - 5 => t[k] # 92
TextFaithful(v, plain, fancy) ==
    /\ plain.fits /\ fancy.fits
    /\ cJSON_Minify(fancy.out) = [out |-> plain.out, m |-> "out"]
    /\ \A n \in 0..Len(plain.out) :
          NoEscapeCut(plain.out, n) => cJSON_ParseWithOpts(SubSeq(plain.out, 1, n), FALSE).fits
    /\ \A t \in {plain.out, fancy.out} :
          \A p \in {cJSON_ParseWithOpts(t, TRUE)} : p.end = Len(t) + 1 /\ p.fits /\ p.tree = v
TextsFaithful ==
    /\ \A i \in Held : TextFaithful(value[i], cJSON_Print(value[i], FALSE), cJSON_Print(value[i], TRUE))
    /\ \A p \in Alike :
          \E v \in {cJSON_ParseWithOpts(p[1], TRUE)} :
              v.end # Fail /\ v.tree = cJSON_ParseWithOpts(p[2], FALSE).tree

CJsonExact == TreesHeld /\ TextsFaithful
=============================================================================
