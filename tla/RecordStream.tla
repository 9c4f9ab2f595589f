---------------------------- MODULE RecordStream ----------------------------
(***************************************************************************)
(* What a record queue promises its readers: every reader is handed every  *)
(* record, once, in the order of writing, some time after the record was   *)
(* broadcast, and the writer waits for the slowest reader instead of       *)
(* running more than Capacity ahead of it.                                 *)
(***************************************************************************)
EXTENDS Integers, Sequences

CONSTANTS Readers, Capacity

VARIABLES
  written,   \* records written so far; they are numbered from 1
  published, \* records broadcast so far
  got        \* per reader, the records it was handed

vars == <<written, published, got>>

Init == written = 0 /\ published = 0 /\ got = [r \in Readers |-> <<>>]

Write ==
  /\ \A r \in Readers : written - Len(got[r]) < Capacity
  /\ written' = written + 1
  /\ UNCHANGED <<published, got>>

\* All that was written and not yet broadcast goes out.
Publish ==
  /\ published < written
  /\ published' = written
  /\ UNCHANGED <<written, got>>

Deliver(r) ==
  /\ Len(got[r]) < published
  /\ got' = [got EXCEPT ![r] = Append(@, Len(@) + 1)]
  /\ UNCHANGED <<written, published>>

Next == Write \/ Publish \/ \E r \in Readers : Deliver(r)

Spec == Init /\ [][Next]_vars /\ \A r \in Readers : WF_vars(Deliver(r))
=============================================================================
