------------------------------- MODULE Arena --------------------------------
(***************************************************************************)
(* What a memory pool promises: pieces of memory that nobody else has, and *)
(* that stay where they are until the whole pool is reset or destroyed.    *)
(***************************************************************************)
EXTENDS Naturals, Sequences

\* The pieces given out, in order, each with its block, its offset and its size.
VARIABLE held

Disjoint(r, q) ==
  \/ r.blk # q.blk
  \/ r.at + r.size <= q.at
  \/ q.at + q.size <= r.at

AllDisjoint(h) == \A i, j \in DOMAIN h : i # j => Disjoint(h[i], h[j])

Init == held = <<>>

\* Some pieces more; those that were given out before are where they were.
GiveOut ==
  /\ Len(held) <= Len(held')
  /\ \A i \in DOMAIN held : held'[i] = held[i]
  /\ AllDisjoint(held')

TakeBack == held' = <<>>

Next == GiveOut \/ TakeBack

Spec == Init /\ [][Next]_held
=============================================================================
