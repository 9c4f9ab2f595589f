------------------------------ MODULE MapTree ------------------------------
(***************************************************************************)
(* ce_maptree.c over the red-black trees of ce_rbtree.c: a dictionary that *)
(* is given its keys and values as pointers and hands each of them back to *)
(* node_clean once.                                                        *)
(*                                                                         *)
(* A tree T is [root, n], n the nodes by name.  A node is named by its key: *)
(* no two have the same.  What rb_tree code writes twice, once with left   *)
(* and right exchanged, is written once for a side s.                      *)
(***************************************************************************)
EXTENDS Integers, FiniteSets, SequencesExt

CONSTANTS
  Order,      \* the keys are 1..Order, compared as numbers
  Given,      \* what callers insert: a key and the pointers they have to it and to a value
  NULL

MapTreeAssumption ==
  /\ Order \in Nat /\ NULL \notin 1..Order
  /\ \A g \in Given : g.key \in 1..Order /\ g.kp \in Nat /\ g.vp \in Nat

VARIABLES
  tree,    \* maptree_node_root
  given,   \* history: pointers handed to the tree and not handed back
  cleaned  \* history: the pointers handed back that were not held

tvars == <<tree, given, cleaned>>

Empty == [root |-> NULL, n |-> <<>>]

----------------------------------------------------------------------------
(* Red-black trees. *)

Other(s) == IF s = "left" THEN "right" ELSE "left"
Red(T, x)   == x # NULL /\ T.n[x].red
Black(T, x) == x = NULL \/ ~T.n[x].red
Kid(T, x, s) == T.n[x][s]
ParentOf(T, x) == T.n[x].parent

SetParent(T, x, p) == IF x = NULL THEN T ELSE [T EXCEPT !.n[x].parent = p]
Paint(T, x, red) == [T EXCEPT !.n[x].red = red]

\* What pointed to x from p, or the root pointer, points to y.
Relink(T, p, x, y) ==
  IF p = NULL THEN [T EXCEPT !.root = y]
  ELSE IF Kid(T, p, "left") = x THEN [T EXCEPT !.n[p].left = y]
  ELSE [T EXCEPT !.n[p].right = y]

\* __rb_rotate_left for s = "left", __rb_rotate_right for "right".
rb_rotate(T, node, s) ==
  LET up     == Kid(T, node, Other(s))
      parent == ParentOf(T, node)
      inner  == Kid(T, up, s)
      A == SetParent([T EXCEPT !.n[node][Other(s)] = inner], inner, node)
      B == Relink([A EXCEPT !.n[up][s] = node, !.n[up].parent = parent], parent, node, up)
  IN SetParent(B, node, up)

Side(T, p, x) == IF Kid(T, p, "left") = x THEN "left" ELSE "right"

RECURSIVE insert_color(_, _)
insert_color(T, node) ==
  LET parent  == ParentOf(T, node)
      gparent == ParentOf(T, parent)
      s       == Side(T, gparent, parent)
      uncle   == Kid(T, gparent, Other(s))
      inner   == Kid(T, parent, Other(s)) = node
      Turned  == IF inner THEN rb_rotate(T, parent, s) ELSE T
      top     == IF inner THEN node ELSE parent
      low     == IF inner THEN parent ELSE node
      Painted == Paint(Paint(Turned, top, FALSE), gparent, TRUE)
  IN IF parent = NULL \/ ~Red(T, parent) THEN Paint(T, T.root, FALSE)
     ELSE IF Red(T, uncle)
          THEN insert_color(Paint(Paint(Paint(T, uncle, FALSE), parent, FALSE), gparent, TRUE), gparent)
     ELSE insert_color(rb_rotate(Painted, gparent, Other(s)), low)

\* One rotation at the sibling, one at the parent, and the sibling takes its colour.
LastRotations(T, parent, s) ==
  LET o      == Kid(T, parent, Other(s))
      nephew == Kid(T, o, s)
      A      == IF Black(T, Kid(T, o, Other(s)))
                THEN rb_rotate(Paint(Paint(T, nephew, FALSE), o, TRUE), o, Other(s))
                ELSE T
      o2     == Kid(A, parent, Other(s))
      B      == Paint(Paint(A, o2, A.n[parent].red), parent, FALSE)
  IN rb_rotate(Paint(B, Kid(B, o2, Other(s)), FALSE), parent, s)

RECURSIVE erase_color(_, _, _)
erase_color(T, node, parent) ==
  LET s == Side(T, parent, node)
      sibling == Kid(T, parent, Other(s))
      A == IF Red(T, sibling)
           THEN rb_rotate(Paint(Paint(T, sibling, FALSE), parent, TRUE), parent, s)
           ELSE T
      o == Kid(A, parent, Other(s))
      B == LastRotations(A, parent, s)
  IN IF Red(T, node) \/ node = T.root
     THEN IF node = NULL THEN T ELSE Paint(T, node, FALSE)
     ELSE IF Black(A, Kid(A, o, "left")) /\ Black(A, Kid(A, o, "right"))
          THEN erase_color(Paint(A, o, TRUE), parent, ParentOf(A, parent))
     ELSE Paint(B, B.root, FALSE)

RECURSIVE Down(_, _, _)
Down(T, x, s) == IF Kid(T, x, s) = NULL THEN x ELSE Down(T, Kid(T, x, s), s)
RECURSIVE Up(_, _, _)
Up(T, x, s) ==
  LET p == ParentOf(T, x) IN IF p # NULL /\ Kid(T, p, s) = x THEN Up(T, p, s) ELSE p

rb_end(T, s) == IF T.root = NULL THEN NULL ELSE Down(T, T.root, s)
rb_first(T)  == rb_end(T, "left")
rb_last(T)   == rb_end(T, "right")
rb_step(T, x, s) ==
  IF Kid(T, x, s) # NULL THEN Down(T, Kid(T, x, s), Other(s)) ELSE Up(T, x, s)
rb_next(T, x) == rb_step(T, x, "right")
rb_prev(T, x) == rb_step(T, x, "left")

Drop(T, x) == [T EXCEPT !.n = [y \in DOMAIN T.n \ {x} |-> T.n[y]]]

\* A node with at most one child is replaced by it.
EraseOuter(T, node) ==
  LET child  == IF Kid(T, node, "left") = NULL THEN Kid(T, node, "right") ELSE Kid(T, node, "left")
      parent == ParentOf(T, node)
  IN [T |-> Relink(SetParent(T, child, parent), parent, node, child),
      child |-> child, parent |-> parent, black |-> Black(T, node)]

\* A node with two is replaced by its successor, which takes its place and colour.
EraseInner(T, old, node) ==
  LET child  == Kid(T, node, "right")
      parent == ParentOf(T, node)
      A == Relink(T, ParentOf(T, old), old, node)
      B == IF parent = old THEN A
           ELSE SetParent([SetParent(A, child, parent) EXCEPT
                             !.n[parent].left = child, !.n[node].right = Kid(T, old, "right")],
                          Kid(T, old, "right"), node)
  IN [T |-> SetParent([B EXCEPT !.n[node].parent = ParentOf(T, old), !.n[node].red = T.n[old].red,
                                !.n[node].left = Kid(T, old, "left")],
                      Kid(T, old, "left"), node),
      child |-> child, parent |-> IF parent = old THEN node ELSE parent, black |-> Black(T, node)]

Rebalanced(e) == IF e.black THEN erase_color(e.T, e.child, e.parent) ELSE e.T
rb_erase(T, x) ==
  Drop(Rebalanced(IF Kid(T, x, "left") # NULL /\ Kid(T, x, "right") # NULL
                  THEN EraseInner(T, x, Down(T, Kid(T, x, "right"), "left"))
                  ELSE EraseOuter(T, x)), x)

----------------------------------------------------------------------------
(* The dictionary. *)

RECURSIVE search(_, _, _)
search(T, x, key) ==
  IF x = NULL \/ x = key THEN [at |-> x, parent |-> NULL]
  ELSE LET c == Kid(T, x, IF key < x THEN "left" ELSE "right") IN
       IF c = NULL THEN [at |-> NULL, parent |-> x] ELSE search(T, c, key)
rb_search_maptree(T, key) == search(T, T.root, key).at

Node(key, p, kp, vp) ==
  [left |-> NULL, right |-> NULL, parent |-> p, red |-> TRUE, kp |-> kp, vp |-> vp]
rb_link_node(T, key, p, kp, vp) ==
  LET A == [T EXCEPT !.n = [y \in DOMAIN T.n \cup {key} |->
                             IF y = key THEN Node(key, p, kp, vp) ELSE T.n[y]]]
  IN IF p = NULL THEN [A EXCEPT !.root = key]
     ELSE IF key < p THEN [A EXCEPT !.n[p].left = key] ELSE [A EXCEPT !.n[p].right = key]

KeyPtr(key, i)   == <<"key", key, i>>
ValuePtr(key, i) == <<"value", key, i>>
Pointers(T, x)   == {KeyPtr(x, T.n[x].kp), ValuePtr(x, T.n[x].vp)}

Init == tree = Empty /\ given = {} /\ cleaned = {}

\* node_clean is handed P, after the caller gave G.
Clean(G, P) ==
  /\ given' = (given \cup G) \ P
  /\ cleaned' = P \ (given \cup G)

\* A key that is there: the old pointers go back, but not one that comes in again.
Replace(key, kp, vp) ==
  /\ rb_search_maptree(tree, key) # NULL
  /\ tree' = [tree EXCEPT !.n[key].kp = kp, !.n[key].vp = vp]
  /\ Clean({KeyPtr(key, kp), ValuePtr(key, vp)},
           Pointers(tree, key) \ {KeyPtr(key, kp), ValuePtr(key, vp)})

Insert(key, kp, vp) ==
  /\ rb_search_maptree(tree, key) = NULL
  /\ tree' = insert_color(rb_link_node(tree, key, search(tree, tree.root, key).parent, kp, vp), key)
  /\ Clean({KeyPtr(key, kp), ValuePtr(key, vp)}, {})

DelLeavesNode(key) ==
  /\ rb_search_maptree(tree, key) # NULL
  /\ UNCHANGED tree
  /\ Clean({}, Pointers(tree, key))
ce_maptree_del(key) ==
  /\ rb_search_maptree(tree, key) # NULL
  /\ tree' = rb_erase(tree, key)
  /\ Clean({}, Pointers(tree, key))

\* __do_clear_mptmap: the last and the first node go, again and again, but the node that
\* was the root at the beginning goes when it is the only one.  The nodes, in that order.
Doomed(l, f, root) ==
  (IF l # root THEN <<l>> ELSE <<>>) \o (IF f # root /\ f # l THEN <<f>> ELSE <<>>)
RECURSIVE clear(_, _)
clear(T, root) ==
  LET doomed == Doomed(rb_last(T), rb_first(T), root) IN
  IF doomed = <<>> THEN <<root>> ELSE doomed \o clear(FoldLeft(rb_erase, T, doomed), root)

\* node_clean is called for every node, in the order in which they go.
HandBack(order) ==
  /\ given' = given \ UNION {Pointers(tree, order[i]) : i \in DOMAIN order}
  /\ cleaned' = UNION {Pointers(tree, order[i]) :
                         i \in {j \in DOMAIN order : \E k \in 1..j - 1 : order[k] = order[j]}}
ce_clear_maptree ==
  /\ tree.root # NULL
  /\ tree' = Empty
  /\ HandBack(clear(tree, tree.root))

Next ==
  \/ \E g \in Given : Insert(g.key, g.kp, g.vp) \/ Replace(g.key, g.kp, g.vp)
  \/ \E key \in 1..Order : ce_maptree_del(key)
  \/ ce_clear_maptree

Spec == Init /\ [][Next]_tvars

----------------------------------------------------------------------------
RECURSIVE walk(_, _)
walk(T, x) == IF x = NULL THEN <<>> ELSE <<x>> \o walk(T, rb_next(T, x))

\* The number of black nodes on every way down from x, or -1 when they differ.
RECURSIVE BlackHeight(_, _)
BlackHeight(T, x) ==
  IF x = NULL THEN 0
  ELSE LET l == BlackHeight(T, Kid(T, x, "left"))   r == BlackHeight(T, Kid(T, x, "right"))
       IN IF l # r THEN -1 ELSE IF T.n[x].red THEN l ELSE l + 1

\* After any sequence of insertions, replacements and deletions the tree is a red-black
\* search tree: walking from the first node meets every key once and in order, a search
\* finds what is there, no red node has a red child and all ways down are equally black.
\* Every pointer the tree was given and does not hold was handed back, once.
TreeIsDict ==
  /\ \A key \in 1..Order : (rb_search_maptree(tree, key) # NULL) = (key \in DOMAIN tree.n)
  /\ LET w == walk(tree, rb_first(tree)) IN
       /\ \A i \in 1..Len(w) - 1 : w[i] < w[i + 1] /\ rb_prev(tree, w[i + 1]) = w[i]
       /\ {w[i] : i \in DOMAIN w} = DOMAIN tree.n
  /\ \A x \in DOMAIN tree.n : tree.n[x].red =>
       \A s \in {"left", "right"} : Black(tree, Kid(tree, x, s))
  /\ Black(tree, tree.root) /\ BlackHeight(tree, tree.root) >= 0
  /\ given = UNION {Pointers(tree, x) : x \in DOMAIN tree.n} /\ cleaned = {}
=============================================================================
