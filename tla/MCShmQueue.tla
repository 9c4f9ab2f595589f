----------------------------- MODULE MCShmQueue -----------------------------
(* Instances of ShmQueue for TLC.                                          *)
EXTENDS ShmQueueClaims

CONSTANTS b1, b2, p1, p2, p3

OneBlock  == <<b1>>
TwoBlocks == <<b1, b2>>
Size1     == [b \in Blocks |-> 1]
Size2     == [b \in Blocks |-> 2]
SizeTail  == [b \in Blocks |-> IF b = b2 THEN 1 ELSE 2]  \* the last block is shorter

\* p3 is a later process of the program p1 was a process of.
Names == [p \in Procs |-> IF p = p3 THEN p1 ELSE p]

OneJoined  == <<p1>>
TwoJoined  == <<p1, p2>>
=============================================================================
