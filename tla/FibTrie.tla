------------------------------ MODULE FibTrie ------------------------------
(***************************************************************************)
(* The LC-trie of routes of fib_trie.c.  One writer (under RTNL) inserts,  *)
(* deletes and flushes routes and rebalances the trie by inflating and     *)
(* halving its nodes; readers (under RCU) look addresses up meanwhile.     *)
(*                                                                         *)
(* An update is computed at its start, on the memory as the writer finds   *)
(* it, as the sequence of the stores a reader can see; the stores are then *)
(* carried out one by one, and the loads of a reader interleave with them. *)
(* A node is named by what it is created with and a number that tells      *)
(* nodes that exist at the same time apart.                                *)
(***************************************************************************)
EXTENDS Integers, SequencesExt, FiniteSetsExt

CONSTANTS
  K,            \* KEYLENGTH
  Nets,         \* the routes used: <<key, plen>>, the bits after plen are 0
  Addresses,    \* the addresses readers look up
  MaxUpdates,   \* updates that begin while a reader looks up
  Fails         \* which allocation of an update fails (0 = none)

FibTrieAssumption ==
  /\ K \in Nat \ {0}
  /\ Nets \subseteq (0..2^K - 1) \X (0..K)
  /\ Addresses \subseteq 0..2^K - 1
  /\ MaxUpdates \in Nat /\ Fails \subseteq Nat

NULL == <<>>
ERR  == <<"ENOMEM">>

VARIABLES
  mem,       \* [h |-> the nodes by name, root |-> t->trie]
  todo,      \* stores of the current update not yet carried out
  doomed,    \* nodes given to call_rcu, each with the readers it waits for
  routes,    \* routes whose alias is on a list
  rd,        \* the reader: where it is and its local variables
  span       \* routes there always, or at some time, since its look-up began

vars == <<mem, todo, doomed, routes, rd, span>>

----------------------------------------------------------------------------
(* Keys, bit 0 the most significant. *)

mask_pfx(k, l) == (k \div 2^(K - l)) * 2^(K - l)
Bits(a, offset, bits) ==
  IF offset < K THEN ((a * 2^offset) % 2^K) \div 2^(K - bits) ELSE 0
SubEquals(a, offset, bits, b) ==
  bits = 0 \/ offset >= K \/ Bits(a, offset, bits) = Bits(b, offset, bits)
Mismatch(a, offset, b) == Min({i \in offset..K - 1 : Bits(a, i, 1) # Bits(b, i, 1)})
Matches(p, key) == mask_pfx(key, p[2]) = p[1]
WithBit(a, pos, v) == a + (v - Bits(a, pos, 1)) * 2^(K - 1 - pos)

----------------------------------------------------------------------------
(* Nodes and the stores of an update.  S is an update being computed: the  *)
(* memory as the writer sees it, the stores so far, tnode_free_head, and   *)
(* the number of allocations with the one that fails.                      *)

Leaf(key) == [leaf |-> TRUE, key |-> key, parent |-> NULL, list |-> <<>>]
Tnode(key, pos, bits) ==
  [leaf |-> FALSE, key |-> key, parent |-> NULL, pos |-> pos, bits |-> bits,
   full |-> 0, empty |-> 2^bits, child |-> [i \in 0..2^bits - 1 |-> NULL]]

Effect(m, w) ==
  CASE w.op = "new"    -> [m EXCEPT !.h = (w.at :> w.node) @@ @]
    [] w.op = "child"  -> [m EXCEPT !.h[w.at].child[w.i] = w.to,
                                    !.h[w.at].full = w.full, !.h[w.at].empty = w.empty]
    [] w.op = "parent" -> [m EXCEPT !.h[w.at].parent = w.to]
    [] w.op = "list"   -> [m EXCEPT !.h[w.at].list = w.list]
    [] w.op = "root"   -> [m EXCEPT !.root = w.to]
    [] w.op = "free"   -> m

Store(S, w) == [S EXCEPT !.m = Effect(@, w), !.log = Append(@, w)]
Node(S, n)  == S.m.h[n]
Update(f)   == [m |-> mem, log |-> <<>>, unused |-> <<>>, n |-> 0, fail |-> f, ok |-> TRUE]

\* An allocation: the new node's name, or NULL.
New(S, node, name) ==
  LET T  == [S EXCEPT !.n = @ + 1]
      id == name \o <<Min({g \in 0..Cardinality(DOMAIN S.m.h) : name \o <<g>> \notin DOMAIN S.m.h})>>
  IN IF T.n = S.fail THEN [s |-> T, node |-> NULL]
     ELSE [s |-> Store(T, [op |-> "new", at |-> id, node |-> node]), node |-> id]
leaf_new(S, key) == New(S, Leaf(key), <<key, K, 0>>)
tnode_new(S, key, pos, bits) == New(S, Tnode(key, pos, bits), <<key, pos, bits>>)

\* call_rcu at once, or after the new nodes are published.
tnode_free(S, n) == Store(S, [op |-> "free", at |-> n])
FreeUnsafe(S, n) == tnode_free(S, n)
tnode_free_safe(S, n) == [S EXCEPT !.unused = <<n>> \o @]
tnode_free_flush(S) == FoldLeft(tnode_free, [S EXCEPT !.unused = <<>>], S.unused)

Len2(t) == 2^t.bits
tnode_full(S, t, n) ==
  n # NULL /\ ~Node(S, n).leaf /\ Node(S, n).pos = t.pos + t.bits

Parent(S, n, p) == Store(S, [op |-> "parent", at |-> n, to |-> p])

PutKeepsFull(S, tn, i, n, wasfull) ==
  LET t == Node(S, tn)
      Num(b) == IF b THEN 1 ELSE 0
      T == IF n # NULL THEN Parent(S, n, tn) ELSE S
  IN Store(T, [op |-> "child", at |-> tn, i |-> i, to |-> n,
               full |-> t.full + Num(~wasfull /\ tnode_full(S, t, n)),
               empty |-> t.empty + Num(n = NULL) - Num(t.child[i] = NULL)])

tnode_put_child_reorg(S, tn, i, n, wasfull) ==
  LET t == Node(S, tn)
      Num(b) == IF b THEN 1 ELSE 0
      T == IF n # NULL THEN Parent(S, n, tn) ELSE S
  IN Store(T, [op |-> "child", at |-> tn, i |-> i, to |-> n,
               full |-> t.full + Num(tnode_full(S, t, n)) - Num(wasfull),
               empty |-> t.empty + Num(n = NULL) - Num(t.child[i] = NULL)])

put_child(S, tn, i, n) ==
  tnode_put_child_reorg(S, tn, i, n, tnode_full(S, Node(S, tn), Node(S, tn).child[i]))

----------------------------------------------------------------------------
(* Rebalancing. *)

MAX_WORK == 10
Threshold(t, of) ==
  CASE of = "inflate" -> IF t.parent = NULL THEN 30 ELSE 50
    [] of = "halve"   -> IF t.parent = NULL THEN 15 ELSE 25

\* An allocation failed: what was preallocated for tn is undone.
nomem(S, tn) ==
  LET kids == SelectSeq([j \in 1..Len2(Node(S, tn)) |-> Node(S, tn).child[j - 1]],
                        LAMBDA n : n # NULL)
  IN [s |-> tnode_free(FoldLeft(tnode_free, S, kids), tn), node |-> ERR]
Each(t) == [j \in 1..Len2(t) |-> j - 1]          \* the loop over the children

RECURSIVE resize(_, _), inflating(_, _, _, _), halving(_, _, _, _)

put_resized(r, tn, i) == put_child(r.s, tn, i, r.node)

\* Two children that take half of the children of inode each, preallocated.
prealloc_halves(acc, tn, old, i) ==
  LET S == acc.s   o == Node(S, old)   inode == o.child[i]
  IN IF ~acc.ok \/ ~tnode_full(S, o, inode) \/ Node(S, inode).bits <= 1 THEN acc
     ELSE LET c     == Node(S, inode)
              left  == tnode_new(S, WithBit(c.key, c.pos, 0), c.pos + 1, c.bits - 1)
              right == tnode_new(left.s, WithBit(c.key, c.pos, 1), c.pos + 1, c.bits - 1)
          IN IF left.node = NULL THEN [s |-> left.s, ok |-> FALSE]
             ELSE IF right.node = NULL
                  THEN [s |-> tnode_free(right.s, left.node), ok |-> FALSE]
             ELSE [s |-> put_child(put_child(right.s, tn, 2*i, left.node), tn, 2*i + 1, right.node),
                   ok |-> TRUE]

\* One child of the old node goes into the node of twice the size.
inflate_child(S, tn, old, i) ==
  LET o == Node(S, old)   n == o.child[i]
  IN IF n = NULL THEN S
     ELSE IF ~tnode_full(S, o, n)
          THEN put_child(S, tn, 2*i + Bits(Node(S, n).key, o.pos + o.bits, 1), n)
     ELSE LET c == Node(S, n) IN
       IF c.bits = 1
       THEN tnode_free_safe(put_child(put_child(S, tn, 2*i, c.child[0]), tn, 2*i + 1, c.child[1]), n)
       ELSE LET left  == Node(S, tn).child[2*i]
                right == Node(S, tn).child[2*i + 1]
                size  == 2^(c.bits - 1)
                Empty == put_child(put_child(S, tn, 2*i, NULL), tn, 2*i + 1, NULL)
                Fill  == FoldLeft(LAMBDA T, j : put_child(put_child(T, left, j, c.child[j]),
                                                          right, j, c.child[j + size]),
                                  Empty, [j \in 1..size |-> j - 1])
                First == put_resized(resize(Fill, left), tn, 2*i)
            IN tnode_free_safe(put_resized(resize(First, right), tn, 2*i + 1), n)

\* The children go over when all that is needed is allocated.
inflate_children(pre, tn, old) ==
  IF ~pre.ok THEN nomem(pre.s, tn)
  ELSE [s |-> tnode_free_safe(FoldLeft(LAMBDA T, i : inflate_child(T, tn, old, i),
                                       pre.s, Each(Node(pre.s, old))), old),
        node |-> tn]
inflate_into(new, old) ==
  IF new.node = NULL THEN [s |-> new.s, node |-> ERR]
  ELSE inflate_children(FoldLeft(LAMBDA acc, i : prealloc_halves(acc, new.node, old, i),
                                 [s |-> new.s, ok |-> TRUE], Each(Node(new.s, old))),
                        new.node, old)
inflate(S, old) ==
  LET o == Node(S, old) IN inflate_into(tnode_new(S, o.key, o.pos, o.bits + 1), old)

\* One node for two children of the old node, preallocated.
prealloc_pair(acc, tn, old, i) ==
  LET S == acc.s   o == Node(S, old)
      left == o.child[2*i]   right == o.child[2*i + 1]
      new  == tnode_new(S, Node(S, left).key, o.pos + o.bits - 1, 1)
  IN IF ~acc.ok \/ left = NULL \/ right = NULL THEN acc
     ELSE IF new.node = NULL THEN [s |-> new.s, ok |-> FALSE]
     ELSE [s |-> put_child(new.s, tn, i, new.node), ok |-> TRUE]

halve_pair(S, tn, old, i) ==
  LET left == Node(S, old).child[2*i]   right == Node(S, old).child[2*i + 1]
  IN IF left = NULL /\ right = NULL THEN S
     ELSE IF left = NULL THEN put_child(S, tn, i, right)
     ELSE IF right = NULL THEN put_child(S, tn, i, left)
     ELSE LET bin == Node(S, tn).child[i]
              T   == put_child(put_child(put_child(S, tn, i, NULL), bin, 0, left), bin, 1, right)
          IN put_resized(resize(T, bin), tn, i)

Pairs(o) == [j \in 1..2^(o.bits - 1) |-> j - 1]
halve_children(pre, tn, old) ==
  IF ~pre.ok THEN nomem(pre.s, tn)
  ELSE [s |-> tnode_free_safe(FoldLeft(LAMBDA T, i : halve_pair(T, tn, old, i),
                                       pre.s, Pairs(Node(pre.s, old))), old),
        node |-> tn]
halve_into(new, old) ==
  IF new.node = NULL THEN [s |-> new.s, node |-> ERR]
  ELSE halve_children(FoldLeft(LAMBDA acc, i : prealloc_pair(acc, new.node, old, i),
                               [s |-> new.s, ok |-> TRUE], Pairs(Node(new.s, old))),
                      new.node, old)
halve(S, old) ==
  LET o == Node(S, old) IN halve_into(tnode_new(S, o.key, o.pos, o.bits - 1), old)

inflate_on(new, tn, threshold, work) ==
  IF new.node = ERR THEN [s |-> new.s, node |-> tn]
  ELSE inflating(new.s, new.node, threshold, work)
inflating(S, tn, threshold, work) ==
  LET t == Node(S, tn)
  IN IF t.full = 0 \/ work = 0 \/ 50*(t.full + Len2(t) - t.empty) < threshold * Len2(t)
     THEN [s |-> S, node |-> tn]
     ELSE inflate_on(inflate(S, tn), tn, threshold, work - 1)

halve_on(new, tn, threshold, work) ==
  IF new.node = ERR THEN [s |-> new.s, node |-> tn]
  ELSE halving(new.s, new.node, threshold, work)
halving(S, tn, threshold, work) ==
  LET t == Node(S, tn)
  IN IF t.bits <= 1 \/ work = 0 \/ 100*(Len2(t) - t.empty) >= threshold * Len2(t)
     THEN [s |-> S, node |-> tn]
     ELSE halve_on(halve(S, tn), tn, threshold, work - 1)

OneChildLeft(t) == t.empty = Len2(t) - 1
one_child(S, tn) ==
  LET t == Node(S, tn)
      n == t.child[CHOOSE i \in DOMAIN t.child : t.child[i] # NULL]
  IN [s |-> tnode_free_safe(Parent(S, n, NULL), tn), node |-> n]
collapse(r) == IF OneChildLeft(Node(r.s, r.node)) THEN one_child(r.s, r.node) ELSE r

\* A node with full children is never halved, whether it was inflated or not: the
\* test of the inflating loop counts max_work down (636, 656).
resize(S, tn) ==
  IF tn = NULL THEN [s |-> S, node |-> NULL]
  ELSE LET t == Node(S, tn)
       IN IF t.empty = Len2(t) THEN [s |-> tnode_free_safe(S, tn), node |-> NULL]
          ELSE IF OneChildLeft(t) THEN one_child(S, tn)
          ELSE IF t.full > 0 THEN inflating(S, tn, Threshold(t, "inflate"), MAX_WORK)
          ELSE collapse(halving(S, tn, Threshold(t, "halve"), MAX_WORK))

Root(S, n) == Store(S, [op |-> "root", to |-> n])

\* The resized node r takes its place below tp, or becomes the root.
hang(r, tp, i, wasfull) ==
  tnode_free_flush(IF tp = NULL THEN Root(r.s, r.node)
                   ELSE tnode_put_child_reorg(r.s, tp, i, r.node, wasfull))

RECURSIVE rebalance_up(_, _, _)
rebalance_up(S, tn, key) ==
  LET tp      == Node(S, tn).parent
      cindex  == Bits(key, Node(S, tp).pos, Node(S, tp).bits)
      wasfull == tnode_full(S, Node(S, tp), Node(S, tp).child[cindex])
      T       == hang(IF Node(S, tn).leaf THEN [s |-> S, node |-> tn] ELSE resize(S, tn),
                      tp, cindex, wasfull)
  IN IF tp # NULL THEN rebalance_up(T, tp, key) ELSE T
trie_rebalance(S, tn) == rebalance_up(S, tn, Node(S, tn).key)

----------------------------------------------------------------------------
(* The operations of the writer. *)

\* The node a key leads to and its parent: fib_find_node and the first loop of
\* fib_insert_node.
RECURSIVE descend(_, _, _, _, _)
descend(m, key, tp, n, pos) ==
  IF n = NULL \/ m.h[n].leaf THEN [tp |-> tp, n |-> n, pos |-> pos]
  ELSE LET t == m.h[n] IN
    IF SubEquals(t.key, pos, t.pos - pos, key)
    THEN descend(m, key, n, t.child[Bits(key, t.pos, t.bits)], t.pos + t.bits)
    ELSE [tp |-> tp, n |-> n, pos |-> pos]
Descend(m, key) == descend(m, key, NULL, m.root, 0)

fib_find_node(m, key) ==
  LET n == Descend(m, key).n
  IN IF n # NULL /\ m.h[n].leaf /\ m.h[n].key = key THEN n ELSE NULL

\* leaf_infos by falling plen; used: it has an alias.
insert_leaf_info(list, plen) ==
  SelectSeq(list, LAMBDA li : li.plen >= plen) \o <<[plen |-> plen, used |-> FALSE]>>
    \o SelectSeq(list, LAMBDA li : li.plen < plen)
List(S, l, list, add, del) ==
  Store(S, [op |-> "list", at |-> l, list |-> list, add |-> add, del |-> del])
AliasSet(list, plen, b) ==
  [i \in DOMAIN list |-> IF list[i].plen = plen THEN [list[i] EXCEPT !.used = b] ELSE list[i]]
ListOf(S, l) == Node(S, l).list

\* The node tn that the search ended at and the leaf l become children of new,
\* which is linked when both are in.
LinksFirst(new, d, key, newpos, l) ==
  LET tn == new.node   tp == d.tp   miss == Bits(key, newpos, 1)
      Up == IF tp = NULL THEN Root(new.s, tn)
            ELSE put_child(new.s, tp, Bits(key, Node(new.s, tp).pos, Node(new.s, tp).bits), tn)
  IN put_child(put_child(Up, tn, miss, l), tn, 1 - miss, d.n)
insert_tnode(new, d, key, newpos, l) ==
  LET tn == new.node   tp == d.tp   miss == Bits(key, newpos, 1)
      Both == put_child(put_child(Parent(new.s, tn, tp), tn, miss, l), tn, 1 - miss, d.n)
  IN IF tp = NULL THEN Root(Both, tn)
     ELSE put_child(Both, tp, Bits(key, Node(Both, tp).pos, Node(Both, tp).bits), tn)

Split(new, d, key, newpos, l) ==
  IF new.node = NULL THEN [tnode_free(new.s, l) EXCEPT !.ok = FALSE]
  ELSE trie_rebalance(insert_tnode(new, d, key, newpos, l),
                      IF d.tp # NULL THEN d.tp ELSE new.node)

\* The new leaf goes into an empty slot (Case 2), or a new node takes it and what stood
\* in its place (Case 3).
insert_leaf(S, l, key) ==
  LET d  == Descend(S.m, key)
      tp == d.tp
      At == Bits(key, Node(S, tp).pos, Node(S, tp).bits)
      newpos == IF d.n = NULL THEN 0 ELSE Mismatch(key, d.pos, Node(S, d.n).key)
  IN IF S.m.root # NULL /\ d.n = NULL
     THEN trie_rebalance(put_child(Parent(S, l, tp), tp, At, l), tp)
     ELSE Split(tnode_new(S, IF d.n = NULL THEN key ELSE Node(S, d.n).key, newpos, 1),
                d, key, newpos, l)

add_alias(S, l, p) ==
  IF ~S.ok THEN S ELSE List(S, l, AliasSet(ListOf(S, l), p[2], TRUE), {p}, {})

\* fib_insert_node and the linking of the alias; ok: it did not return NULL.
fib_insert(S, p) ==
  LET key == p[1]   plen == p[2]
      found == fib_find_node(S.m, key)
      leaf  == leaf_new(S, key)
      l     == IF found # NULL THEN found ELSE leaf.node
      T     == [(IF found # NULL THEN S ELSE leaf.s) EXCEPT !.n = @ + 1]   \* leaf_info_new
      Linked == List(T, l, insert_leaf_info(ListOf(T, l), plen), {}, {})
  IN IF l = NULL THEN leaf.s
     ELSE IF T.n = T.fail THEN IF found # NULL THEN T ELSE tnode_free(T, l)
     ELSE add_alias(IF found # NULL THEN Linked ELSE insert_leaf(Linked, l, key), l, p)

trie_leaf_remove(S, l) ==
  LET tp == Node(S, l).parent
      cindex == Bits(Node(S, l).key, Node(S, tp).pos, Node(S, tp).bits)
  IN tnode_free(IF tp = NULL THEN Root(S, NULL)
                ELSE trie_rebalance(put_child(S, tp, cindex, NULL), tp), l)

remove_empty(S, l) ==
  IF l # NULL /\ ListOf(S, l) = <<>> THEN trie_leaf_remove(S, l) ELSE S

\* The alias, then its leaf_info.
alias_remove(S, l, plen) ==
  LET T == List(S, l, AliasSet(ListOf(S, l), plen, FALSE), {}, {<<Node(S, l).key, plen>>})
  IN List(T, l, SelectSeq(ListOf(T, l), LAMBDA li : li.plen # plen), {}, {})

fib_delete(S, p) ==
  LET l == fib_find_node(S.m, p[1])
  IN remove_empty(alias_remove(S, l, p[2]), l)

RECURSIVE scan(_, _, _)
leaf_walk(m, p, c) == scan(m, p, IF c = NULL THEN 0 ELSE Bits(m.h[c].key, m.h[p].pos, m.h[p].bits) + 1)
scan(m, p, idx) ==
  LET t == m.h[p]   c == t.child[idx] IN
  IF idx >= Len2(t) THEN IF t.parent = NULL THEN NULL ELSE leaf_walk(m, t.parent, p)
  ELSE IF c = NULL THEN scan(m, p, idx + 1)
  ELSE IF m.h[c].leaf THEN c
  ELSE scan(m, c, 0)
trie_firstleaf(m) ==
  IF m.root = NULL \/ m.h[m.root].leaf THEN m.root ELSE leaf_walk(m, m.root, NULL)
trie_nextleaf(m, l) == IF m.h[l].parent = NULL THEN NULL ELSE leaf_walk(m, m.h[l].parent, l)

\* Every leaf loses the routes whose fib_info is dead; a leaf that lost all is
\* removed when the walk has passed it.
trie_flush_leaf(S, l, dead) ==
  FoldLeft(LAMBDA T, li : IF <<Node(S, l).key, li.plen>> \in dead
                          THEN alias_remove(T, l, li.plen) ELSE T,
           S, ListOf(S, l))
RECURSIVE flush_from(_, _, _, _)
flush_on(S, l, dead) == flush_from(S, trie_nextleaf(S.m, l), l, dead)
flush_from(S, l, ll, dead) ==
  IF l = NULL THEN remove_empty(S, ll)
  ELSE flush_on(remove_empty(trie_flush_leaf(S, l, dead), ll), l, dead)
fib_table_flush(S, dead) == flush_from(S, trie_firstleaf(S.m), NULL, dead)

----------------------------------------------------------------------------
(* A look-up, one load of a shared pointer at a time: fib_table_lookup.    *)

Idle == [at |-> "idle"]
NoRoute == <<>>
At(r, at) == [r EXCEPT !.at = at]
Found(r, p) == [r EXCEPT !.at = "done", !.found = p]

\* The first leaf_info with an alias whose prefix the key has: check_leaf.
CheckLeafTrusts(m, r, n) ==
  LET l == m.h[n]   Hits == {i \in DOMAIN l.list : l.list[i].used}
  IN IF Hits = {} THEN NoRoute ELSE <<l.key, l.list[Min(Hits)].plen>>
check_leaf(m, r, n) ==
  LET l == m.h[n]
      Hits == {i \in DOMAIN l.list : l.list[i].used /\ Matches(<<l.key, l.list[i].plen>>, r.key)}
  IN IF Hits = {} THEN NoRoute ELSE <<l.key, l.list[Min(Hits)].plen>>

\* Chop the last 1 off the index, and leave the node when none is left.
BacktraceOnce(m, r) ==
  LET pn    == m.h[r.pn]
      Ones  == {c \in r.chop + 1..pn.bits : (r.cindex \div 2^(c - 1)) % 2 = 1}
      chop  == IF Ones = {} THEN Max({pn.bits, r.chop}) + 1 ELSE Max(Ones)
      cpl   == Min({r.cpl, pn.pos + pn.bits - chop})
      Chopped == [r EXCEPT !.chop = chop, !.cpl = cpl]
  IN IF Ones = {} THEN At(Chopped, "up")
     ELSE [At(Chopped, "child") EXCEPT !.cindex = @ - 2^(chop - 1)]
backtrace(m, r) ==
  LET pn    == m.h[r.pn]
      Ones  == {c \in r.chop + 1..pn.bits : (r.cindex \div 2^(c - 1)) % 2 = 1}
      chop  == IF Ones = {} THEN Max({pn.bits, r.chop}) + 1 ELSE Min(Ones)
      cpl   == Min({r.cpl, pn.pos + pn.bits - chop})
      Chopped == [r EXCEPT !.chop = chop, !.cpl = cpl]
  IN IF Ones = {} THEN At(Chopped, "up")
     ELSE [At(Chopped, "child") EXCEPT !.cindex = @ - 2^(chop - 1)]

\* Into the node cn, when its skipped bits allow it.
enter(m, r) ==
  LET cn == m.h[r.cn]
      wrong == mask_pfx(cn.key, cn.pos) # mask_pfx(r.key, cn.pos)
      mp == Mismatch(mask_pfx(cn.key, cn.pos), 0, mask_pfx(r.key, cn.pos))
  IN IF wrong /\ Bits(cn.key, mp, cn.pos - mp) # 0 THEN backtrace(m, r)
     ELSE [At(r, "child") EXCEPT !.pn = r.cn, !.chop = 0,
                                 !.cpl = IF wrong /\ @ >= cn.pos THEN mp ELSE @]

Load(m, r) ==
  CASE r.at = "root" ->
         IF m.root = NULL THEN Found(r, NoRoute)
         ELSE IF m.h[m.root].leaf THEN Found(r, check_leaf(m, r, m.root))
         ELSE [At(r, "child") EXCEPT !.pn = m.root]
    [] r.at = "child" ->
         LET pn     == m.h[r.pn]
             cindex == IF r.chop = 0 THEN Bits(mask_pfx(r.key, r.cpl), pn.pos, pn.bits) ELSE r.cindex
             n      == pn.child[cindex]
             s      == [r EXCEPT !.cindex = cindex, !.cn = n]
             skips  == Bits(m.h[n].key, r.cpl, m.h[n].pos - r.cpl) # 0
         IN IF n = NULL THEN backtrace(m, s)
            ELSE IF m.h[n].leaf
                 THEN IF check_leaf(m, r, n) = NoRoute THEN backtrace(m, s)
                      ELSE Found(s, check_leaf(m, r, n))
            ELSE IF r.cpl >= pn.pos + pn.bits THEN enter(m, s)
            ELSE IF skips THEN backtrace(m, s)
            ELSE At(s, "probe")
    [] r.at = "probe" ->
         IF m.h[r.cn].child[0] = NULL THEN backtrace(m, r) ELSE enter(m, r)
    [] r.at = "up" ->
         LET pn == m.h[r.pn]   parent == pn.parent
             cindex == Bits(pn.key, m.h[parent].pos, m.h[parent].bits)
         IN IF parent = NULL THEN Found(r, NoRoute)
            ELSE backtrace(m, [r EXCEPT !.cindex = cindex, !.pn = parent, !.chop = 0, !.cn = NULL])

Start(key) == [at |-> "root", key |-> key, pn |-> NULL, cn |-> NULL, cindex |-> 0,
               chop |-> 0, cpl |-> K, found |-> NoRoute]
RECURSIVE Finish(_, _)
Finish(m, r) == IF r.at = "done" THEN r.found ELSE Finish(m, Load(m, r))
fib_table_lookup(m, key) == Finish(m, Start(key))

----------------------------------------------------------------------------
(* The writer and the reader. *)

Init ==
  /\ mem = [h |-> <<>>, root |-> NULL]
  /\ todo = <<>> /\ doomed = <<>> /\ routes = {}
  /\ rd = Idle /\ span = [updates |-> 0, always |-> {}, ever |-> {}]

Reading == rd # Idle

\* The nodes an update allocates are there from its start: nothing points to them.
Begin(S) ==
  /\ todo = <<>> /\ (Reading => span.updates < MaxUpdates)
  /\ mem' = FoldLeft(Effect, mem, SelectSeq(S.log, LAMBDA w : w.op = "new"))
  /\ todo' = SelectSeq(S.log, LAMBDA w : w.op # "new")
  /\ span' = IF Reading THEN [span EXCEPT !.updates = @ + 1] ELSE span
  /\ UNCHANGED <<doomed, routes, rd>>

Insert(p, f) == p \in Nets \ routes /\ Begin(fib_insert(Update(f), p))
Delete(p, f) == p \in routes /\ Begin(fib_delete(Update(f), p))
Flush(D, f)  == D # {} /\ D \subseteq routes /\ Begin(fib_table_flush(Update(f), D))

Without(m, n) == [m EXCEPT !.h = [x \in DOMAIN @ \ {n} |-> @[x]]]

\* The next store.  A node given to call_rcu while nobody reads is gone at once.
Carry ==
  /\ todo # <<>>
  /\ LET w == Head(todo) IN
       /\ mem' = IF w.op = "free" /\ ~Reading THEN Without(mem, w.at) ELSE Effect(mem, w)
       /\ doomed' = IF w.op = "free" /\ Reading THEN (w.at :> TRUE) @@ doomed ELSE doomed
       /\ IF w.op = "list"
          THEN /\ routes' = (routes \ w.del) \cup w.add
               /\ span' = [span EXCEPT !.always = @ \ w.del,
                                       !.ever = IF Reading THEN @ \cup w.add ELSE @]
          ELSE UNCHANGED <<routes, span>>
  /\ todo' = Tail(todo)
  /\ UNCHANGED rd

LookUp(key) ==
  /\ ~Reading
  /\ rd' = Start(key)
  /\ span' = [updates |-> 0, always |-> routes, ever |-> routes]
  /\ UNCHANGED <<mem, todo, doomed, routes>>

Read ==
  /\ Reading /\ rd.at # "done"
  /\ rd' = Load(mem, rd)
  /\ UNCHANGED <<mem, todo, doomed, routes, span>>

\* rcu_read_unlock: what waited for this reader is freed.
Return ==
  /\ Reading /\ rd.at = "done"
  /\ rd' = Idle
  /\ span' = [updates |-> 0, always |-> {}, ever |-> {}]
  /\ mem' = FoldSet(LAMBDA n, m : Without(m, n), mem, DOMAIN doomed)
  /\ doomed' = <<>>
  /\ UNCHANGED <<todo, routes>>

Next ==
  \/ \E p \in Nets, f \in Fails : Insert(p, f) \/ Delete(p, f)
  \/ \E D \in SUBSET routes, f \in Fails : Flush(D, f)
  \/ Carry \/ Read \/ Return
  \/ \E key \in Addresses : LookUp(key)

Spec == Init /\ [][Next]_vars

----------------------------------------------------------------------------
Quiet == todo = <<>>
Longest(key, R) ==
  LET M == {p \in R : Matches(p, key)} IN
  IF M = {} THEN NoRoute ELSE CHOOSE p \in M : \A q \in M : q[2] <= p[2]

\* Between updates a look-up of any address finds the longest route that matches it,
\* whatever inflating, halving, compression and failed allocations made of the trie.
LookupExact ==
  Quiet => \A key \in 0..2^K - 1 : fib_table_lookup(mem, key) = Longest(key, routes)

\* At every moment of an update the children below the root lead to every route
\* there is: a subtree is linked when it is complete and unlinked when its copy is.
DescentFinds ==
  \A p \in routes :
    LET n == fib_find_node(mem, p[1]) IN
    n # NULL /\ \E i \in DOMAIN mem.h[n].list : mem.h[n].list[i] = [plen |-> p[2], used |-> TRUE]

\* Between updates the nodes are exactly the trie below the root and what waits for
\* the reader: nothing is leaked or freed twice, the parent pointers and the counts of
\* full and empty children agree with the children, and no node has a single child.
\* While an update is carried out the trie still leads to every route.
HeapIsTrie ==
  /\ Quiet => LET tn  == {n \in DOMAIN mem.h \ DOMAIN doomed : ~mem.h[n].leaf}
                  Kid(n) == {mem.h[n].child[i] : i \in DOMAIN mem.h[n].child} \ {NULL}
              IN /\ DOMAIN doomed \subseteq DOMAIN mem.h
                 /\ {mem.root} \cup UNION {Kid(n) : n \in tn} =
                      (DOMAIN mem.h \ DOMAIN doomed) \cup (IF mem.root = NULL THEN {NULL} ELSE {})
                 /\ mem.root # NULL => mem.h[mem.root].parent = NULL
                 /\ \A n \in tn :
                      /\ \A c \in Kid(n) : mem.h[c].parent = n
                      /\ Cardinality(Kid(n)) >= 2
                      /\ mem.h[n].empty = Len2(mem.h[n]) - Cardinality(Kid(n))
                      /\ mem.h[n].full = Cardinality({c \in Kid(n) :
                           ~mem.h[c].leaf /\ mem.h[c].pos = mem.h[n].pos + mem.h[n].bits})
  /\ DescentFinds

RECURSIVE Below(_, _)
Below(m, n) ==
  {n} \cup IF n \notin DOMAIN m.h \/ m.h[n].leaf THEN {}
           ELSE UNION {Below(m, m.h[n].child[i]) : i \in DOMAIN m.h[n].child}

\* What a look-up finds while the trie changes matches the address and was there at
\* some time since it began.
FoundMatches ==
  Reading /\ rd.found # NoRoute => Matches(rd.found, rd.key) /\ rd.found \in span.ever

\* Nothing a reader can come to is freed: not the node it stands on, not what is below
\* the root, not what the parent pointers there lead back to (tnode_free_safe keeps the
\* replaced nodes from call_rcu until the new ones are published), and what it finds is
\* a route that was there while it looked.
ReaderSafe ==
  LET B == Below(mem, mem.root) \ {NULL} IN
  /\ B \subseteq DOMAIN mem.h
  /\ {mem.h[n].parent : n \in B} \ {NULL} \subseteq DOMAIN mem.h
  /\ Reading => {rd.pn, rd.cn} \ {NULL} \subseteq DOMAIN mem.h
  /\ FoundMatches

\* Line 272: "we can never "miss" the correct key in the tree if present by following the wrong
\* path".  A look-up of an address that some route matched from its start to its end finds one.
LookupNeverMisses ==
  Reading /\ rd.at = "done" /\ Longest(rd.key, span.always) # NoRoute => rd.found # NoRoute
=============================================================================
