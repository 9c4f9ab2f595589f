---------------------------- MODULE EventProofs ----------------------------
(***************************************************************************)
(* Proofs about the components that wait: the timer, the end of a context, *)
(* and the poll set.                                                       *)
(***************************************************************************)
EXTENDS MCEvents, SequenceTheorems, TLAPS

-----------------------------------------------------------------------------
(* The timer of ce_timer.c.                                                *)

\* Where owner and thread can be: a thread exists from the creation of the
\* record on, a cancellation is pending only once stop has been called, and
\* stop is called with the thread's identifier stored.
TimerInv ==
  /\ owner \in {"out", "starting", "running", "cancelled"}
  /\ owner = "out" => thread \in {"none", "ended", "broke"}
  /\ thread = "cleanup" => cancel
  /\ cancel => owner \in {"cancelled", "out"}
  /\ owner \in {"running", "cancelled"} => tidSet
  /\ T!RecordOutlivesThread

LEMMA TimerInit == T!Init => TimerInv
BY DEF T!Init, TimerInv, T!RecordOutlivesThread, T!Alive, T!Loop, T!Early

LEMMA TimerNext == TimerInv /\ [T!Next]_(T!timerVars) => TimerInv'
<1> SUFFICES ASSUME TimerInv, [T!Next]_(T!timerVars)
             PROVE  TimerInv'
  OBVIOUS
<1> USE DEF TimerInv, T!RecordOutlivesThread, T!Alive, T!Loop, T!Early
<1>1. CASE T!Start
  BY <1>1 DEF T!Start
<1>2. CASE T!Started
  BY <1>2 DEF T!Started
<1>3. CASE T!Stop
  BY <1>3 DEF T!Stop
<1>4. CASE T!Join
  BY <1>4 DEF T!Join
<1>5. CASE T!Enter \/ T!Register \/ T!Arm \/ T!Beat
  BY <1>5 DEF T!Enter, T!Register, T!Arm, T!Beat, T!Go
<1>6. CASE T!Elapse \/ T!Trigger \/ T!Interrupted \/ T!Unregister
  BY <1>6 DEF T!Elapse, T!Trigger, T!Interrupted, T!Unregister, T!Go
<1>7. CASE T!Cancelled
  BY <1>7 DEF T!Cancelled
<1>8. CASE UNCHANGED T!timerVars
  BY <1>8 DEF T!timerVars
<1>9. QED
  BY <1>1, <1>2, <1>3, <1>4, <1>5, <1>6, <1>7, <1>8 DEF T!Next, T!Thread

(* Wherever the cancellation meets the timer's thread, the thread and its  *)
(* clean-up handler find the record they read, and the identifier in it    *)
(* (ce_timer_stop, ce_run_timer_wrap, timer_thrd_cleanup), as long as      *)
(* select has not failed.                                                  *)
THEOREM TimerRecordHeld == T!Spec => []RecordOutlivesThread
<1>1. TimerInv => RecordOutlivesThread
  BY DEF TimerInv, RecordOutlivesThread
<1>2. QED
  BY <1>1, TimerInit, TimerNext, PTL DEF T!Spec

-----------------------------------------------------------------------------
(* The end of an ipc context.                                              *)

\* The handshake: the answer is given by a thread that has left its loop, and
\* the destroyer is past the wait only with the answer; the region is there
\* until it is detached.
ExitInv ==
  /\ main \in {"run", "wait", "publish", "detach", "pools", "done"}
  /\ main = "run" => stat = "THD_NO_EXIT"
  /\ main \in {"publish", "detach", "pools", "done"} => stat = "THD_EXITED"
  /\ stat = "THD_EXITED" => loop \in {"cleanup", "ended"}
  /\ loop = "exited" => stat = "THD_EXIT"
  /\ stop => loop = "ended"
  /\ main \notin {"pools", "done"} => region

LEMMA ExitNext == ExitInv /\ [X!Next]_(X!exitVars) => ExitInv'
<1> SUFFICES ASSUME ExitInv, [X!Next]_(X!exitVars)
             PROVE  ExitInv'
  OBVIOUS
<1> USE DEF ExitInv, X!At, X!In
<1>1. CASE X!Ask
  BY <1>1 DEF X!Ask
<1>2. CASE X!Answered \/ X!PublishRest
  BY <1>2 DEF X!Answered, X!PublishRest
<1>3. CASE X!Detach \/ X!Pools
  BY <1>3 DEF X!Detach, X!Pools
<1>4. CASE X!Test \/ X!Check
  BY <1>4 DEF X!Test, X!Check
<1>5. CASE X!Asked
  BY <1>5 DEF X!Asked
<1>6. CASE X!Exited \/ X!Cleanup
  BY <1>6 DEF X!Exited, X!Cleanup
<1>7. CASE UNCHANGED X!exitVars
  BY <1>7 DEF X!exitVars
<1>8. QED
  BY <1>1, <1>2, <1>3, <1>4, <1>5, <1>6, <1>7 DEF X!Next, X!Main, X!Thread

(* While the timeout thread works on the shared region, the region is      *)
(* attached and destory_ipc_context has not begun to publish what is left: *)
(* the safety part of DestroyEnds.                                         *)
THEOREM RegionThere == X!Spec => []X!RegionWhileAttached
<1>1. X!Init => ExitInv
  BY DEF X!Init, ExitInv
<1>2. ExitInv => X!RegionWhileAttached
  BY DEF ExitInv, X!RegionWhileAttached
<1>3. QED
  BY <1>1, <1>2, ExitNext, PTL DEF X!Spec

-----------------------------------------------------------------------------
(* The poll set.  The shape of its state first.                            *)

Elems == 1..MaxElems

PollTypes ==
  /\ made \in 0..MaxElems
  /\ query \in Seq(Elems) /\ free \in Seq(Elems) /\ dead \in Seq(Elems)
  /\ pfd \in [Elems -> Fds \cup {NoFd}]
  /\ interest \in [Fds -> 0..MaxElems]
  /\ rdlist \in Seq(Fds)
  /\ upc \in [Fds -> {"idle", "ring"}]
  /\ ppc \in [Pollers -> {"out", "copy", "shift", "handed"}]
  /\ batch \in [Pollers -> Seq([elem : 0..MaxElems, fd : Fds])]
  /\ copied \in [Pollers -> Nat]
  /\ result \in [1..Nalloc -> Fds \cup {NoFd}]

\* The rings are sequences without repetitions, disjoint and complete.
Distinct == IsInjective(query) /\ IsInjective(dead) /\ IsInjective(free)
Apart ==
  /\ ToSet(query) \cap ToSet(dead) = {}
  /\ ToSet(query) \cap ToSet(free) = {}
  /\ ToSet(dead) \cap ToSet(free) = {}
Complete == ToSet(query) \cup ToSet(dead) \cup ToSet(free) = 1..made

\* The kernel has a descriptor ready only while it is registered and has
\* input, and once; a descriptor whose element still has to leave the query
\* ring is not registered.
ReadyKnown ==
  /\ IsInjective(rdlist)
  /\ \A fd \in ToSet(rdlist) : fd \in pending /\ interest[fd] # NoElem
Leaving == \A fd \in Fds : upc[fd] = "ring" => interest[fd] = NoElem

\* An event in flight: its element has not been freed, and still holds the
\* descriptor it was registered with.
InFlight(ev) == ev.elem \in ToSet(query) \cup ToSet(dead) /\ pfd[ev.elem] = ev.fd

\* What a poller has copied is right, and what it has still to copy is there.
PollerHeld(p) ==
  /\ Len(batch[p]) <= Nalloc
  /\ copied[p] <= Len(batch[p])
  /\ ppc[p] = "out" => batch[p] = <<>>
  /\ ppc[p] = "copy" => copied[p] < Len(batch[p])
  /\ ppc[p] \in {"shift", "handed"} => copied[p] = Len(batch[p])
  /\ ppc[p] = "handed" => batch[p] # <<>>
  /\ \A i \in DOMAIN batch[p] :
       IF i <= copied[p] THEN result[i] = batch[p][i].fd ELSE InFlight(batch[p][i])

PollInv ==
  /\ PollTypes
  /\ Distinct /\ Apart /\ Complete
  /\ WatchedInQuery
  /\ ReadyKnown /\ Leaving
  /\ \A p \in Pollers : PollerHeld(p)

-----------------------------------------------------------------------------
(* Sequences without repetitions: what the rings and the ready list rest   *)
(* on.                                                                     *)

\* One more element at the end.
LEMMA AppendList ==
  ASSUME NEW S, NEW s \in Seq(S), NEW e \in S
  PROVE  /\ Append(s, e) \in Seq(S)
         /\ ToSet(Append(s, e)) = ToSet(s) \cup {e}
         /\ IsInjective(s) /\ e \notin ToSet(s) => IsInjective(Append(s, e))
<1> DEFINE r == Append(s, e)
<1>1. Len(s) \in Nat /\ DOMAIN s = 1..Len(s)
  BY LenProperties
<1>2. /\ r \in Seq(S) /\ Len(r) = Len(s) + 1
      /\ \A i \in 1..Len(s) : r[i] = s[i]
      /\ r[Len(s) + 1] = e
  BY AppendProperties
<1>3. DOMAIN r = 1..(Len(s) + 1)
  BY <1>2, LenProperties
<1> HIDE DEF r
<1>4. \A i \in DOMAIN r : (i = Len(s) + 1 /\ r[i] = e) \/ (i \in DOMAIN s /\ r[i] = s[i])
  BY <1>1, <1>2, <1>3
<1>5. \A i \in DOMAIN s : i \in DOMAIN r /\ r[i] = s[i]
  BY <1>1, <1>2, <1>3
<1>6. Len(s) + 1 \in DOMAIN r
  BY <1>1, <1>3
<1>7. ToSet(r) \subseteq ToSet(s) \cup {e}
  BY <1>4 DEF ToSet
<1>8. ToSet(s) \subseteq ToSet(r) /\ e \in ToSet(r)
  BY <1>2, <1>5, <1>6 DEF ToSet
<1>9. ASSUME IsInjective(s), e \notin ToSet(s)
      PROVE  IsInjective(r)
  BY <1>4, <1>9 DEF IsInjective, ToSet
<1>10. QED
  BY <1>2, <1>7, <1>8, <1>9 DEF r

\* One sequence behind another.
LEMMA JoinList ==
  ASSUME NEW S, NEW s \in Seq(S), NEW t \in Seq(S)
  PROVE  /\ s \o t \in Seq(S)
         /\ ToSet(s \o t) = ToSet(s) \cup ToSet(t)
         /\ IsInjective(s) /\ IsInjective(t) /\ ToSet(s) \cap ToSet(t) = {} => IsInjective(s \o t)
<1> DEFINE r == s \o t
<1>1. /\ Len(s) \in Nat /\ DOMAIN s = 1..Len(s)
      /\ Len(t) \in Nat /\ DOMAIN t = 1..Len(t)
  BY LenProperties
<1>2. /\ r \in Seq(S) /\ Len(r) = Len(s) + Len(t)
      /\ \A i \in 1..(Len(s) + Len(t)) : r[i] = IF i <= Len(s) THEN s[i] ELSE t[i - Len(s)]
  BY ConcatProperties
<1>3. DOMAIN r = 1..(Len(s) + Len(t))
  BY <1>2, LenProperties
<1> HIDE DEF r
<1>4. \A i \in DOMAIN r : \/ i \in DOMAIN s /\ r[i] = s[i]
                          \/ i > Len(s) /\ i - Len(s) \in DOMAIN t /\ r[i] = t[i - Len(s)]
  BY <1>1, <1>2, <1>3
<1>5. \A i \in DOMAIN s : i \in DOMAIN r /\ r[i] = s[i]
  BY <1>1, <1>2, <1>3
<1>6. ASSUME NEW j \in DOMAIN t
      PROVE  j + Len(s) \in DOMAIN r /\ r[j + Len(s)] = t[j]
  <2>1. j + Len(s) \in 1..(Len(s) + Len(t)) /\ ~(j + Len(s) <= Len(s)) /\ (j + Len(s)) - Len(s) = j
    BY <1>1
  <2>2. QED
    BY <1>2, <1>3, <2>1
<1>7. ToSet(r) \subseteq ToSet(s) \cup ToSet(t)
  BY <1>4 DEF ToSet
<1>8. ToSet(s) \subseteq ToSet(r)
  BY <1>5 DEF ToSet
<1>9. ToSet(t) \subseteq ToSet(r)
  BY <1>6 DEF ToSet
<1>10. ASSUME IsInjective(s), IsInjective(t), ToSet(s) \cap ToSet(t) = {}
       PROVE  IsInjective(r)
  <2>1. \A i \in DOMAIN s, j \in DOMAIN t : s[i] # t[j]
    BY <1>10 DEF ToSet
  <2>2. SUFFICES ASSUME NEW i \in DOMAIN r, NEW j \in DOMAIN r, r[i] = r[j]
                 PROVE  i = j
    BY DEF IsInjective
  <2>3. CASE i \in DOMAIN s /\ r[i] = s[i]
    <3>1. j \in DOMAIN s /\ r[j] = s[j]
      BY <1>4, <2>1, <2>2, <2>3
    <3>2. QED
      BY <1>10, <2>2, <2>3, <3>1 DEF IsInjective
  <2>4. CASE i - Len(s) \in DOMAIN t /\ r[i] = t[i - Len(s)]
    <3>1. j - Len(s) \in DOMAIN t /\ r[j] = t[j - Len(s)]
      BY <1>4, <2>1, <2>2, <2>4
    <3>2. i - Len(s) = j - Len(s)
      BY <1>10, <2>2, <2>4, <3>1 DEF IsInjective
    <3>3. QED
      BY <1>1, <1>3, <3>2
  <2>5. QED
    BY <1>4, <2>3, <2>4
<1>11. QED
  BY <1>2, <1>7, <1>8, <1>9, <1>10 DEF r

\* A part of a sequence.
LEMMA PartList ==
  ASSUME NEW S, NEW s \in Seq(S), NEW m \in 1..(Len(s) + 1), NEW n \in 0..Len(s)
  PROVE  /\ SubSeq(s, m, n) \in Seq(S)
         /\ ToSet(SubSeq(s, m, n)) = {s[i] : i \in m..n}
         /\ IsInjective(s) => IsInjective(SubSeq(s, m, n))
<1> DEFINE r == SubSeq(s, m, n)
<1>1. Len(s) \in Nat /\ DOMAIN s = 1..Len(s) /\ \A i \in 1..Len(s) : s[i] \in S
  BY LenProperties, ElementOfSeq
<1>2. m \in Int /\ n \in Int /\ m..n \subseteq 1..Len(s)
  BY <1>1
<1>3. \A i \in m..n : s[i] \in S
  BY <1>1, <1>2
<1>4. /\ r \in Seq(S) /\ Len(r) = IF m <= n THEN n - m + 1 ELSE 0
      /\ \A i \in 1..(n - m + 1) : r[i] = s[m + i - 1]
  BY <1>2, <1>3, SubSeqProperties
<1>5. DOMAIN r = 1..Len(r)
  BY <1>4, LenProperties
<1> HIDE DEF r
<1>6. ASSUME NEW i \in DOMAIN r
      PROVE  i \in Nat /\ (m + i) - 1 \in m..n /\ r[i] = s[(m + i) - 1]
  BY <1>2, <1>4, <1>5
<1>7. ASSUME NEW k \in m..n
      PROVE  \E i \in DOMAIN r : r[i] = s[k]
  <2>1. PICK i \in 1..(n - m + 1) : (m + i) - 1 = k
    <3>1. (k - m) + 1 \in 1..(n - m + 1) /\ (m + ((k - m) + 1)) - 1 = k
      BY <1>2
    <3>2. QED
      BY <3>1
  <2>2. i \in DOMAIN r
    BY <1>2, <1>4, <1>5
  <2>3. r[i] = s[k]
    BY <1>4, <2>1
  <2>4. QED
    BY <2>2, <2>3
<1>8. ToSet(r) \subseteq {s[i] : i \in m..n}
  BY <1>6 DEF ToSet
<1>9. {s[i] : i \in m..n} \subseteq ToSet(r)
  BY <1>7 DEF ToSet
<1>10. ASSUME IsInjective(s)
       PROVE  IsInjective(r)
  <2>1. SUFFICES ASSUME NEW i \in DOMAIN r, NEW j \in DOMAIN r, r[i] = r[j]
                 PROVE  i = j
    BY DEF IsInjective
  <2>2. (m + i) - 1 = (m + j) - 1
    BY <1>1, <1>2, <1>6, <1>10, <2>1 DEF IsInjective
  <2>3. QED
    BY <1>2, <1>6, <2>2
<1>11. QED
  BY <1>4, <1>8, <1>9, <1>10 DEF r

\* The part of a sequence without repetitions behind a place has nothing in
\* common with the part up to it.
LEMMA PartsApart ==
  ASSUME NEW S, NEW s \in Seq(S), IsInjective(s), NEW k \in 0..Len(s), NEW m \in 0..Len(s)
  PROVE  m <= k => {s[i] : i \in 1..m} \cap {s[i] : i \in (k + 1)..Len(s)} = {}
<1>1. Len(s) \in Nat /\ DOMAIN s = 1..Len(s)
  BY LenProperties
<1>2. SUFFICES ASSUME m <= k, NEW i \in 1..m, NEW j \in (k + 1)..Len(s), s[i] = s[j]
               PROVE  FALSE
  OBVIOUS
<1>3. i \in DOMAIN s /\ j \in DOMAIN s /\ i # j
  BY <1>1, <1>2
<1>4. QED
  BY <1>2, <1>3 DEF IsInjective

\* An element taken out.
LEMMA RemoveList ==
  ASSUME NEW S, NEW s \in Seq(S), IsInjective(s), NEW k \in DOMAIN s
  PROVE  /\ RemoveAt(s, k) \in Seq(S)
         /\ IsInjective(RemoveAt(s, k))
         /\ ToSet(RemoveAt(s, k)) = ToSet(s) \ {s[k]}
<1> DEFINE before == SubSeq(s, 1, k - 1)
           after  == SubSeq(s, k + 1, Len(s))
<1>1. Len(s) \in Nat /\ DOMAIN s = 1..Len(s) /\ k \in 1..Len(s)
  BY LenProperties
<1>2. 1 \in 1..(Len(s) + 1) /\ k - 1 \in 0..Len(s) /\ k + 1 \in 1..(Len(s) + 1) /\ Len(s) \in 0..Len(s)
  BY <1>1
<1>3. before \in Seq(S) /\ ToSet(before) = {s[i] : i \in 1..(k - 1)} /\ IsInjective(before)
  BY <1>2, PartList
<1>4. after \in Seq(S) /\ ToSet(after) = {s[i] : i \in (k + 1)..Len(s)} /\ IsInjective(after)
  BY <1>2, PartList
<1>5. {s[i] : i \in 1..(k - 1)} \cap {s[i] : i \in (k + 1)..Len(s)} = {}
  <2>1. k \in 0..Len(s) /\ k - 1 <= k
    BY <1>1
  <2>2. QED
    BY <1>2, <2>1, PartsApart
<1>6. RemoveAt(s, k) = before \o after
  BY DEF RemoveAt
<1> HIDE DEF before, after
<1>7. /\ before \o after \in Seq(S)
      /\ ToSet(before \o after) = ToSet(before) \cup ToSet(after)
      /\ IsInjective(before \o after)
  <2>1. ToSet(before) \cap ToSet(after) = {}
    BY <1>3, <1>4, <1>5
  <2>2. before \in Seq(S) /\ after \in Seq(S) /\ IsInjective(before) /\ IsInjective(after)
    BY <1>3, <1>4
  <2>3. QED
    BY <2>1, <2>2, JoinList
<1>8. \A i \in DOMAIN s : i = k \/ i \in 1..(k - 1) \/ i \in (k + 1)..Len(s)
  BY <1>1
<1>9. ToSet(s) \ {s[k]} \subseteq ToSet(before) \cup ToSet(after)
  BY <1>3, <1>4, <1>8 DEF ToSet
<1>10. \A i \in 1..(k - 1) : i \in DOMAIN s /\ i # k
  BY <1>1
<1>11. \A i \in (k + 1)..Len(s) : i \in DOMAIN s /\ i # k
  BY <1>1
<1>12. ToSet(before) \cup ToSet(after) \subseteq ToSet(s) \ {s[k]}
  BY <1>3, <1>4, <1>10, <1>11 DEF ToSet, IsInjective
<1>13. QED
  BY <1>6, <1>7, <1>9, <1>12

\* The first element taken off.
LEMMA TailList ==
  ASSUME NEW S, NEW s \in Seq(S), s # <<>>, IsInjective(s)
  PROVE  /\ Tail(s) \in Seq(S) /\ Head(s) \in ToSet(s)
         /\ IsInjective(Tail(s))
         /\ ToSet(Tail(s)) = ToSet(s) \ {Head(s)}
<1>1. Len(s) \in Nat /\ DOMAIN s = 1..Len(s) /\ Len(s) # 0
  BY LenProperties, EmptySeq
<1>2. /\ Head(s) = s[1]
      /\ Tail(s) \in Seq(S) /\ Len(Tail(s)) = Len(s) - 1
      /\ \A i \in 1..Len(Tail(s)) : Tail(s)[i] = s[i + 1]
  BY HeadTailProperties
<1>3. DOMAIN Tail(s) = 1..(Len(s) - 1)
  BY <1>2, LenProperties
<1>4. 1 \in DOMAIN s
  BY <1>1
<1>5. \A i \in DOMAIN Tail(s) : i \in Nat /\ i + 1 \in DOMAIN s /\ i + 1 # 1 /\ Tail(s)[i] = s[i + 1]
  BY <1>1, <1>2, <1>3
<1>6. IsInjective(Tail(s))
  <2>1. SUFFICES ASSUME NEW i \in DOMAIN Tail(s), NEW j \in DOMAIN Tail(s), Tail(s)[i] = Tail(s)[j]
                 PROVE  i = j
    BY DEF IsInjective
  <2>2. i + 1 = j + 1
    BY <1>5, <2>1 DEF IsInjective
  <2>3. QED
    BY <1>5, <2>2
<1>7. ToSet(Tail(s)) \subseteq ToSet(s) \ {Head(s)}
  BY <1>2, <1>4, <1>5 DEF ToSet, IsInjective
<1>8. ASSUME NEW j \in DOMAIN s, s[j] # Head(s)
      PROVE  s[j] \in ToSet(Tail(s))
  <2>1. j - 1 \in DOMAIN Tail(s) /\ (j - 1) + 1 = j
    BY <1>1, <1>2, <1>3, <1>8
  <2>2. QED
    BY <1>5, <2>1 DEF ToSet
<1>9. ToSet(s) \ {Head(s)} \subseteq ToSet(Tail(s))
  BY <1>8 DEF ToSet
<1>10. Head(s) \in ToSet(s)
  BY <1>2, <1>4 DEF ToSet
<1>11. QED
  BY <1>2, <1>6, <1>7, <1>9, <1>10

\* What is in front goes behind the rest.
LEMMA RotateList ==
  ASSUME NEW S, NEW s \in Seq(S), IsInjective(s), NEW k \in 0..Len(s)
  PROVE  /\ SubSeq(s, k + 1, Len(s)) \o SubSeq(s, 1, k) \in Seq(S)
         /\ IsInjective(SubSeq(s, k + 1, Len(s)) \o SubSeq(s, 1, k))
         /\ ToSet(SubSeq(s, k + 1, Len(s)) \o SubSeq(s, 1, k)) = ToSet(s)
<1> DEFINE front == SubSeq(s, 1, k)
           rest  == SubSeq(s, k + 1, Len(s))
<1>1. Len(s) \in Nat /\ DOMAIN s = 1..Len(s) /\ k \in Nat /\ k <= Len(s)
  BY LenProperties
<1>2. 1 \in 1..(Len(s) + 1) /\ k + 1 \in 1..(Len(s) + 1) /\ Len(s) \in 0..Len(s)
  BY <1>1
<1>3. front \in Seq(S) /\ ToSet(front) = {s[i] : i \in 1..k} /\ IsInjective(front)
  BY <1>2, PartList
<1>4. rest \in Seq(S) /\ ToSet(rest) = {s[i] : i \in (k + 1)..Len(s)} /\ IsInjective(rest)
  BY <1>2, PartList
<1>5. {s[i] : i \in 1..k} \cap {s[i] : i \in (k + 1)..Len(s)} = {}
  <2>1. k <= k
    BY <1>1
  <2>2. QED
    BY <2>1, PartsApart, Zenon
<1> HIDE DEF front, rest
<1>6. /\ rest \o front \in Seq(S)
      /\ ToSet(rest \o front) = ToSet(rest) \cup ToSet(front)
      /\ IsInjective(rest \o front)
  <2>1. ToSet(rest) \cap ToSet(front) = {}
    BY <1>3, <1>4, <1>5
  <2>2. rest \in Seq(S) /\ front \in Seq(S) /\ IsInjective(rest) /\ IsInjective(front)
    BY <1>3, <1>4
  <2>3. QED
    BY <2>1, <2>2, JoinList
<1>7. \A i \in DOMAIN s : i \in 1..k \/ i \in (k + 1)..Len(s)
  BY <1>1
<1>8. (\A i \in 1..k : i \in DOMAIN s) /\ \A i \in (k + 1)..Len(s) : i \in DOMAIN s
  BY <1>1
<1>9. ToSet(s) \subseteq ToSet(rest) \cup ToSet(front)
  BY <1>3, <1>4, <1>7 DEF ToSet
<1>10. ToSet(rest) \cup ToSet(front) \subseteq ToSet(s)
  BY <1>3, <1>4, <1>8 DEF ToSet
<1>11. QED
  BY <1>6, <1>9, <1>10 DEF front, rest

-----------------------------------------------------------------------------
(* The user threads of the poll set keep the invariant.                    *)

LEMMA PollInit == Init => PollInv
<1> SUFFICES ASSUME Init PROVE PollInv
  OBVIOUS
<1> USE PollsetAssumption DEF Init
<1>1. PollTypes
  BY DEF PollTypes, Elems, NoElem
<1>2. ToSet(query) = {} /\ ToSet(dead) = {} /\ ToSet(free) = {} /\ ToSet(rdlist) = {}
  BY DEF ToSet
<1>3. Distinct /\ IsInjective(rdlist)
  BY DEF Distinct, IsInjective
<1>4. Apart /\ Complete
  BY <1>2 DEF Apart, Complete
<1>5. WatchedInQuery /\ ReadyKnown /\ Leaving
  BY <1>2, <1>3 DEF WatchedInQuery, ReadyKnown, Leaving, NoElem
<1>6. ASSUME NEW p \in Pollers
      PROVE  PollerHeld(p)
  <2>1. batch[p] = <<>> /\ copied[p] = 0 /\ ppc[p] = "out" /\ Len(batch[p]) = 0
    OBVIOUS
  <2>2. DOMAIN batch[p] = {}
    BY <2>1
  <2>3. QED
    BY <2>1, <2>2 DEF PollerHeld
<1>7. QED
  BY <1>1, <1>3, <1>4, <1>5, <1>6 DEF PollInv

\* A descriptor that is no longer ready is off the ready list.
LEMMA UnreadyList ==
  ASSUME rdlist \in Seq(Fds), IsInjective(rdlist), NEW fd, Unready(fd)
  PROVE  /\ rdlist' \in Seq(Fds) /\ IsInjective(rdlist')
         /\ ToSet(rdlist') = ToSet(rdlist) \ {fd}
<1>1. CASE PlacesOf(fd) = {} /\ UNCHANGED rdlist
  BY <1>1 DEF PlacesOf, ToSet
<1>2. ASSUME NEW i \in PlacesOf(fd), rdlist' = RemoveAt(rdlist, i)
      PROVE  /\ rdlist' \in Seq(Fds) /\ IsInjective(rdlist')
             /\ ToSet(rdlist') = ToSet(rdlist) \ {fd}
  <2>1. i \in DOMAIN rdlist /\ rdlist[i] = fd
    BY <1>2 DEF PlacesOf
  <2>2. QED
    BY <1>2, <2>1, RemoveList
<1>3. QED
  BY <1>1, <1>2 DEF Unready

\* What the pollers hold is not disturbed by a step that frees no element of
\* the query and the dead ring and writes none.
LEMMA PollersKept ==
  ASSUME PollInv, UNCHANGED pollVars,
         ToSet(query) \cup ToSet(dead) \subseteq ToSet(query') \cup ToSet(dead'),
         \A e \in ToSet(query) \cup ToSet(dead) : pfd'[e] = pfd[e]
  PROVE  (\A p \in Pollers : PollerHeld(p))'
<1>1. SUFFICES ASSUME NEW p \in Pollers
               PROVE  PollerHeld(p)'
  OBVIOUS
<1>2. PollerHeld(p) /\ UNCHANGED <<ppc, batch, copied, result>>
  BY DEF PollInv, pollVars
<1>3. ASSUME NEW i \in DOMAIN batch[p], InFlight(batch[p][i])
      PROVE  InFlight(batch[p][i])'
  BY <1>2, <1>3 DEF InFlight
<1>4. QED
  BY <1>2, <1>3 DEF PollerHeld

\* impl_pollset_add.
LEMMA AddKeeps ==
  ASSUME PollInv, NEW fd \in Fds, Add(fd)
  PROVE  PollInv'
<1> USE DEF PollInv
<1>1. PICK e \in Elems :
        /\ Take(e)
        /\ pfd' = [pfd EXCEPT ![e] = fd]
        /\ Added(fd, e) \/ NotAdded(e)
  BY DEF Add, Elems
<1>2. /\ upc[fd] = "idle"
      /\ UNCHANGED <<dead, pending, upc, pollVars>>
  BY DEF Add
<1> DEFINE left == FreeLeft
<1>3. /\ left \in Seq(Elems) /\ IsInjective(left)
      /\ ToSet(left) = ToSet(free) \ {e}
      /\ e \notin ToSet(query) /\ e \notin ToSet(dead)
      /\ made' \in 0..MaxElems
      /\ 1..made' = (1..made) \cup {e}
  <2>1. CASE free # <<>>
    <3>1. e = Head(free) /\ made' = made /\ left = Tail(free)
      BY <1>1, <2>1 DEF Take, FreeLeft
    <3>2. /\ Tail(free) \in Seq(Elems) /\ Head(free) \in ToSet(free)
          /\ IsInjective(Tail(free))
          /\ ToSet(Tail(free)) = ToSet(free) \ {Head(free)}
      BY <2>1, TailList DEF PollTypes, Distinct
    <3>3. e \in ToSet(free)
      BY <3>1, <3>2
    <3>4. QED
      BY <3>1, <3>2, <3>3 DEF Apart, Complete, PollTypes
  <2>2. CASE free = <<>>
    <3>1. e = made + 1 /\ made' = made + 1 /\ left = free
      BY <1>1, <2>2 DEF Take, FreeLeft
    <3>2. made \in Nat /\ made + 1 \in 1..MaxElems
      BY <3>1 DEF PollTypes, Elems
    <3>3. e \notin 1..made /\ 1..(made + 1) = (1..made) \cup {e}
      BY <3>1, <3>2
    <3>4. e \notin ToSet(query) /\ e \notin ToSet(dead) /\ e \notin ToSet(free)
      BY <3>3 DEF Complete
    <3>5. QED
      BY <3>1, <3>2, <3>3, <3>4 DEF Distinct, PollTypes
  <2>3. QED
    BY <2>1, <2>2
<1> HIDE DEF left
<1>4. pfd' \in [Elems -> Fds \cup {NoFd}] /\ pfd'[e] = fd /\ \A x \in Elems : x # e => pfd'[x] = pfd[x]
  BY <1>1 DEF PollTypes
<1>5. \A x \in ToSet(query) \cup ToSet(dead) : pfd'[x] = pfd[x]
  BY <1>3, <1>4, ElementOfSeq, LenProperties DEF PollTypes, ToSet
<1>6. CASE NotAdded(e)
  <2>1. UNCHANGED <<interest, rdlist, query>> /\ free' = Append(left, e)
    BY <1>6 DEF NotAdded, left
  <2>2. /\ free' \in Seq(Elems) /\ ToSet(free') = ToSet(free) \cup {e}
        /\ IsInjective(free')
    BY <1>3, <2>1, AppendList
  <2>3. PollTypes'
    BY <1>2, <1>3, <1>4, <2>1, <2>2 DEF PollTypes, pollVars
  <2>4. Distinct' /\ Apart' /\ Complete'
    BY <1>2, <1>3, <2>1, <2>2 DEF Distinct, Apart, Complete
  <2>5. WatchedInQuery'
    BY <1>5, <2>1 DEF WatchedInQuery, InRing
  <2>6. ReadyKnown' /\ Leaving'
    BY <1>2, <2>1 DEF ReadyKnown, Leaving
  <2>7. (\A p \in Pollers : PollerHeld(p))'
    BY <1>2, <1>5, <2>1, PollersKept
  <2>8. QED
    BY <2>3, <2>4, <2>5, <2>6, <2>7
<1>7. CASE Added(fd, e)
  <2>1. /\ interest[fd] = NoElem
        /\ interest' = [interest EXCEPT ![fd] = e]
        /\ rdlist' = IF fd \in pending THEN Append(rdlist, fd) ELSE rdlist
        /\ query' = Append(query, e)
        /\ free' = left
    BY <1>7 DEF Added, left
  <2>2. /\ query' \in Seq(Elems) /\ ToSet(query') = ToSet(query) \cup {e}
        /\ IsInjective(query')
    BY <1>3, <2>1, AppendList DEF PollTypes, Distinct
  <2>3. /\ interest' \in [Fds -> 0..MaxElems] /\ interest'[fd] = e
        /\ \A g \in Fds : g # fd => interest'[g] = interest[g]
        /\ e # NoElem
    BY <2>1 DEF PollTypes, Elems, NoElem
  <2>4. fd \notin ToSet(rdlist)
    BY <2>1 DEF ReadyKnown
  <2>5. /\ Append(rdlist, fd) \in Seq(Fds)
        /\ ToSet(Append(rdlist, fd)) = ToSet(rdlist) \cup {fd}
        /\ IsInjective(Append(rdlist, fd))
    BY <2>4, AppendList DEF PollTypes, ReadyKnown
  <2>6. PollTypes'
    BY <1>2, <1>3, <1>4, <2>1, <2>2, <2>3, <2>5 DEF PollTypes, pollVars
  <2>7. Distinct' /\ Apart' /\ Complete'
    BY <1>2, <1>3, <2>1, <2>2 DEF Distinct, Apart, Complete
  <2>8. WatchedInQuery'
    BY <1>4, <1>5, <2>2, <2>3 DEF WatchedInQuery, InRing
  <2>9. \A g \in ToSet(rdlist) : g \in Fds
    BY ElementOfSeq, LenProperties DEF PollTypes, ToSet
  <2>10. ReadyKnown'
    BY <1>2, <2>1, <2>3, <2>4, <2>5, <2>9 DEF ReadyKnown
  <2>11. Leaving'
    BY <1>2, <2>3 DEF Leaving
  <2>12. (\A p \in Pollers : PollerHeld(p))'
    BY <1>2, <1>5, <2>2, PollersKept
  <2>13. QED
    BY <2>6, <2>7, <2>8, <2>10, <2>11, <2>12
<1>8. QED
  BY <1>1, <1>6, <1>7

\* A descriptor that is no longer registered: the first half of
\* impl_pollset_remove, and a close.
LEMMA ForgetKeeps ==
  ASSUME PollInv, NEW fd \in Fds, RemoveDel(fd) \/ Close(fd)
  PROVE  PollInv'
<1> USE DEF PollInv
<1>1. /\ interest' = [interest EXCEPT ![fd] = NoElem]
      /\ Unready(fd)
      /\ UNCHANGED <<rings, pollVars>>
      /\ upc' = upc \/ upc' = [upc EXCEPT ![fd] = "ring"]
      /\ pending \ {fd} \subseteq pending'
  BY DEF RemoveDel, Close
<1>2. /\ interest' \in [Fds -> 0..MaxElems] /\ interest'[fd] = NoElem
      /\ \A g \in Fds : g # fd => interest'[g] = interest[g]
  BY <1>1, PollsetAssumption DEF PollTypes, NoElem
<1>3. /\ rdlist' \in Seq(Fds) /\ IsInjective(rdlist')
      /\ ToSet(rdlist') = ToSet(rdlist) \ {fd}
  BY <1>1, UnreadyList DEF PollTypes, ReadyKnown
<1>4. upc' \in [Fds -> {"idle", "ring"}] /\ \A g \in Fds : g # fd => upc'[g] = upc[g]
  BY <1>1 DEF PollTypes
<1>5. UNCHANGED <<made, query, free, dead, pfd, ppc, batch, copied, result>>
  BY <1>1 DEF rings, pollVars
<1>6. PollTypes'
  BY <1>2, <1>3, <1>4, <1>5 DEF PollTypes
<1>7. Distinct' /\ Apart' /\ Complete'
  BY <1>5 DEF Distinct, Apart, Complete
<1>8. WatchedInQuery'
  BY <1>2, <1>5 DEF WatchedInQuery
<1>9. \A g \in ToSet(rdlist) : g \in Fds
  BY ElementOfSeq, LenProperties DEF PollTypes, ToSet
<1>10. ReadyKnown'
  BY <1>1, <1>2, <1>3, <1>9 DEF ReadyKnown
<1>11. Leaving'
  BY <1>2, <1>4 DEF Leaving
<1>12. (\A p \in Pollers : PollerHeld(p))'
  BY <1>1, <1>5, PollersKept
<1>13. QED
  BY <1>6, <1>7, <1>8, <1>10, <1>11, <1>12

\* The second half of impl_pollset_remove: the element that leaves the query
\* ring is none the kernel points to, since the descriptor it holds is not
\* registered.
LEMMA RemoveRingKeeps ==
  ASSUME PollInv, NEW fd \in Fds, RemoveRing(fd)
  PROVE  PollInv'
<1> USE DEF PollInv
<1>1. /\ upc[fd] = "ring"
      /\ upc' = [upc EXCEPT ![fd] = "idle"]
      /\ UNCHANGED <<made, free, pfd, interest, pending, rdlist, ppc, batch, copied, result>>
  BY DEF RemoveRing, kernel, pollVars
<1>2. UNCHANGED pollVars
  BY DEF RemoveRing
<1>3. upc' \in [Fds -> {"idle", "ring"}] /\ \A g \in Fds : upc'[g] = "ring" => upc[g] = "ring"
  BY <1>1 DEF PollTypes
<1>4. ReadyKnown' /\ Leaving'
  BY <1>1, <1>3 DEF ReadyKnown, Leaving
<1>5. CASE UNCHANGED <<query, dead>>
  <2>1. PollTypes'
    BY <1>1, <1>3, <1>5 DEF PollTypes
  <2>2. Distinct' /\ Apart' /\ Complete' /\ WatchedInQuery'
    BY <1>1, <1>5 DEF Distinct, Apart, Complete, WatchedInQuery
  <2>3. (\A p \in Pollers : PollerHeld(p))'
    BY <1>1, <1>2, <1>5, PollersKept
  <2>4. QED
    BY <1>4, <2>1, <2>2, <2>3
<1>6. ASSUME NEW i \in Held(fd), query' = RemoveAt(query, i), dead' = Append(dead, query[i])
      PROVE  PollInv'
  <2>1. i \in DOMAIN query /\ pfd[query[i]] = fd /\ i \in 1..Len(query)
    BY LenProperties DEF Held, PollTypes
  <2>2. PICK e \in Elems : e = query[i]
    BY <2>1, ElementOfSeq DEF PollTypes
  <2>3. e \in ToSet(query) /\ pfd[e] = fd
    BY <2>1, <2>2 DEF ToSet
  <2>4. /\ query' \in Seq(Elems) /\ IsInjective(query')
        /\ ToSet(query') = ToSet(query) \ {e}
    BY <1>6, <2>1, <2>2, RemoveList DEF PollTypes, Distinct
  <2>5. /\ dead' \in Seq(Elems) /\ IsInjective(dead')
        /\ ToSet(dead') = ToSet(dead) \cup {e}
    <3>1. e \notin ToSet(dead) /\ dead' = Append(dead, e)
      BY <1>6, <2>2, <2>3 DEF Apart
    <3>2. QED
      BY <3>1, AppendList DEF PollTypes, Distinct
  <2>6. PollTypes'
    BY <1>1, <1>3, <2>4, <2>5 DEF PollTypes
  <2>7. Distinct' /\ Apart' /\ Complete'
    BY <1>1, <2>3, <2>4, <2>5 DEF Distinct, Apart, Complete
  <2>8. ASSUME NEW g \in Fds, interest[g] # NoElem
        PROVE  interest[g] \in ToSet(query') /\ pfd[interest[g]] = g
    <3>1. interest[g] \in ToSet(query) /\ pfd[interest[g]] = g
      BY <2>8 DEF WatchedInQuery, InRing
    <3>2. g # fd
      BY <1>1, <2>8 DEF Leaving
    <3>3. interest[g] # e
      BY <2>3, <3>1, <3>2
    <3>4. QED
      BY <2>4, <3>1, <3>3
  <2>9. WatchedInQuery'
    BY <1>1, <2>8 DEF WatchedInQuery, InRing
  <2>10. (\A p \in Pollers : PollerHeld(p))'
    BY <1>1, <1>2, <2>4, <2>5, PollersKept
  <2>11. QED
    BY <1>4, <2>6, <2>7, <2>9, <2>10
<1>7. QED
  BY <1>5, <1>6 DEF RemoveRing

\* Input arrives.
LEMMA ArriveKeeps ==
  ASSUME PollInv, NEW fd \in Fds, Arrive(fd)
  PROVE  PollInv'
<1> USE DEF PollInv
<1>1. /\ fd \notin pending /\ pending' = pending \cup {fd}
      /\ rdlist' = IF interest[fd] # NoElem THEN Append(rdlist, fd) ELSE rdlist
      /\ UNCHANGED <<made, query, free, dead, pfd, interest, upc, ppc, batch, copied, result>>
      /\ UNCHANGED pollVars
  BY DEF Arrive, rings, pollVars
<1>2. fd \notin ToSet(rdlist)
  BY <1>1 DEF ReadyKnown
<1>3. /\ Append(rdlist, fd) \in Seq(Fds)
      /\ ToSet(Append(rdlist, fd)) = ToSet(rdlist) \cup {fd}
      /\ IsInjective(Append(rdlist, fd))
  BY <1>2, AppendList DEF PollTypes, ReadyKnown
<1>4. PollTypes'
  BY <1>1, <1>3 DEF PollTypes
<1>5. Distinct' /\ Apart' /\ Complete' /\ WatchedInQuery'
  BY <1>1 DEF Distinct, Apart, Complete, WatchedInQuery
<1>6. ReadyKnown' /\ Leaving'
  BY <1>1, <1>3 DEF ReadyKnown, Leaving
<1>7. (\A p \in Pollers : PollerHeld(p))'
  BY <1>1, PollersKept
<1>8. QED
  BY <1>4, <1>5, <1>6, <1>7

-----------------------------------------------------------------------------
(* The poller keeps the invariant.  One thread polls a set: the descriptor *)
(* array is shared by all polls of a set, and the shift of one poll would  *)
(* free the elements another one has still to read.                        *)

OnePoller == \A p, q \in Pollers : p = q

Events == [elem : 0..MaxElems, fd : Fds]

\* epoll_wait: what it returns points into the query ring.
LEMMA WaitKeeps ==
  ASSUME PollInv, OnePoller, NEW p \in Pollers, Wait(p)
  PROVE  PollInv'
<1> USE DEF PollInv
<1>1. /\ ppc[p] = "out"
      /\ batch' = [batch EXCEPT ![p] =
           [i \in 1..Fetched |-> [elem |-> interest[rdlist[i]], fd |-> rdlist[i]]]]
      /\ rdlist' = SubSeq(rdlist, Fetched + 1, Len(rdlist)) \o SubSeq(rdlist, 1, Fetched)
      /\ copied' = [copied EXCEPT ![p] = 0]
      /\ ppc' = [ppc EXCEPT ![p] = IF Fetched > 0 THEN "copy" ELSE "shift"]
      /\ UNCHANGED <<made, query, free, dead, pfd, interest, pending, upc, result>>
  BY DEF Wait, Goto, rings
<1>2. Len(rdlist) \in Nat /\ DOMAIN rdlist = 1..Len(rdlist) /\ \A i \in 1..Len(rdlist) : rdlist[i] \in Fds
  BY LenProperties, ElementOfSeq DEF PollTypes
<1>3. PICK n \in Nat : n = Fetched
  BY <1>2, PollsetAssumption DEF Fetched
<1>4. n <= Len(rdlist) /\ n <= Nalloc /\ n \in 0..Len(rdlist)
  <2>1. PICK l \in Nat : l = Len(rdlist)
    BY <1>2
  <2>2. n = IF l < Nalloc THEN l ELSE Nalloc
    BY <1>3, <2>1 DEF Fetched
  <2>3. n <= l /\ n <= Nalloc
    BY <2>2, PollsetAssumption
  <2>4. QED
    BY <2>1, <2>3
<1>5. \A i \in 1..n : rdlist[i] \in Fds /\ rdlist[i] \in ToSet(rdlist)
  BY <1>2, <1>4 DEF ToSet
<1>6. \A i \in 1..n : InFlight([elem |-> interest[rdlist[i]], fd |-> rdlist[i]])
  BY <1>5 DEF ReadyKnown, WatchedInQuery, InRing, InFlight
<1> DEFINE evs == [i \in 1..n |-> [elem |-> interest[rdlist[i]], fd |-> rdlist[i]]]
<1>7. \A i \in 1..n : evs[i] \in Events
  BY <1>5 DEF Events, PollTypes
<1>8. evs \in Seq(Events) /\ Len(evs) = n
  BY <1>7, IsASeq
<1>9. batch'[p] = evs /\ copied'[p] = 0 /\ ppc'[p] = IF n > 0 THEN "copy" ELSE "shift"
  BY <1>1, <1>3 DEF PollTypes
<1>10. DOMAIN evs = 1..n /\ \A i \in 1..n : InFlight(evs[i])
  BY <1>6
<1>11. evs = <<>> => n = 0
  BY <1>8
<1> HIDE DEF evs
<1>12. PollerHeld(p)'
  <2>1. PICK b : b = evs
    OBVIOUS
  <2>2. batch'[p] = b /\ Len(b) = n /\ DOMAIN b = 1..n /\ (b = <<>> => n = 0)
    BY <1>8, <1>9, <1>10, <1>11, <2>1
  <2>3. \A i \in 1..n : InFlight(b[i])
    BY <1>10, <2>1
  <2>4. \A i \in 1..n : ~(i <= 0) /\ InFlight(b[i])'
    BY <1>1, <2>3 DEF InFlight
  <2>5. \A i \in 1..n : ~(i <= 0) /\ InFlight(batch[p][i])'
    BY <2>2, <2>4 DEF InFlight
  <2>6. QED
    BY <1>4, <1>9, <2>2, <2>5 DEF PollerHeld
<1>13. (\A q \in Pollers : PollerHeld(q))'
  BY <1>12 DEF OnePoller
<1>14. /\ rdlist' \in Seq(Fds) /\ IsInjective(rdlist') /\ ToSet(rdlist') = ToSet(rdlist)
  BY <1>1, <1>3, <1>4, RotateList DEF PollTypes, ReadyKnown
<1>15. PollTypes'
  <2>1. batch' \in [Pollers -> Seq(Events)]
    BY <1>1, <1>8, <1>9 DEF PollTypes, Events
  <2>2. copied' \in [Pollers -> Nat] /\ ppc' \in [Pollers -> {"out", "copy", "shift", "handed"}]
    BY <1>1 DEF PollTypes
  <2>3. QED
    BY <1>1, <1>14, <2>1, <2>2 DEF PollTypes, Events
<1>16. Distinct' /\ Apart' /\ Complete' /\ WatchedInQuery' /\ ReadyKnown' /\ Leaving'
  BY <1>1, <1>14 DEF Distinct, Apart, Complete, WatchedInQuery, ReadyKnown, Leaving
<1>17. QED
  BY <1>13, <1>15, <1>16

\* An event is copied from the element its pointer names.
LEMMA CopyKeeps ==
  ASSUME PollInv, OnePoller, NEW p \in Pollers, Copy(p)
  PROVE  PollInv'
<1> USE DEF PollInv
<1>1. /\ ppc[p] = "copy"
      /\ copied[p] + 1 <= Len(batch[p])
      /\ result' = [result EXCEPT ![copied[p] + 1] = pfd[batch[p][copied[p] + 1].elem]]
      /\ copied' = [copied EXCEPT ![p] = copied[p] + 1]
      /\ ppc' = [ppc EXCEPT ![p] = IF copied'[p] = Len(batch[p]) THEN "shift" ELSE "copy"]
      /\ UNCHANGED <<made, query, free, dead, pfd, interest, pending, rdlist, upc, batch>>
  BY DEF Copy, Copied, Goto, rings, kernel
<1>2. PollerHeld(p) /\ copied[p] \in Nat /\ batch[p] \in Seq(Events)
  BY DEF PollTypes, Events
<1>3. PICK n \in Nat : n = Len(batch[p])
  BY <1>2, LenProperties
<1>4. PICK j \in 1..n : j = copied[p] + 1
  BY <1>1, <1>2, <1>3
<1>5. n <= Nalloc /\ DOMAIN batch[p] = 1..n /\ j \in 1..Nalloc
  BY <1>2, <1>3, LenProperties, PollsetAssumption DEF PollerHeld
<1>6. \A i \in 1..n : batch[p][i] \in Events
  BY <1>2, <1>3, ElementOfSeq
<1>7. ~(j <= copied[p])
  BY <1>2, <1>4
<1>8. InFlight(batch[p][j])
  BY <1>2, <1>5, <1>7 DEF PollerHeld
<1>9. /\ result' \in [1..Nalloc -> Fds \cup {NoFd}]
      /\ result'[j] = batch[p][j].fd
      /\ \A i \in 1..Nalloc : i # j => result'[i] = result[i]
  <2>1. pfd[batch[p][j].elem] = batch[p][j].fd /\ batch[p][j].fd \in Fds
    BY <1>6, <1>8 DEF InFlight, Events
  <2>2. QED
    BY <1>1, <1>4, <1>5, <2>1 DEF PollTypes
<1>10. copied'[p] = j /\ ppc'[p] = IF j = n THEN "shift" ELSE "copy"
  BY <1>1, <1>3, <1>4 DEF PollTypes
<1>11. PollerHeld(p)'
  <2>1. ASSUME NEW i \in 1..n
        PROVE  IF i <= j THEN result'[i] = batch[p][i].fd ELSE InFlight(batch[p][i])'
    <3>1. CASE i = j
      BY <1>9, <3>1
    <3>2. CASE i < j
      <4>1. i <= copied[p] /\ i \in 1..Nalloc /\ i # j
        BY <1>2, <1>4, <1>5, <3>2, PollsetAssumption
      <4>2. QED
        BY <1>2, <1>5, <1>9, <3>2, <4>1 DEF PollerHeld
    <3>3. CASE i > j
      <4>1. ~(i <= copied[p])
        BY <1>2, <1>4, <3>3
      <4>2. InFlight(batch[p][i])
        BY <1>2, <1>5, <4>1 DEF PollerHeld
      <4>3. QED
        BY <1>1, <3>3, <4>2 DEF InFlight
    <3>4. QED
      BY <3>1, <3>2, <3>3
  <2>2. batch'[p] = batch[p] /\ ppc[p] = "copy"
    BY <1>1
  <2>3. QED
    BY <1>2, <1>3, <1>4, <1>5, <1>10, <2>1, <2>2 DEF PollerHeld, InFlight
<1>12. (\A q \in Pollers : PollerHeld(q))'
  BY <1>11 DEF OnePoller
<1>13. PollTypes'
  <2>1. copied' \in [Pollers -> Nat] /\ ppc' \in [Pollers -> {"out", "copy", "shift", "handed"}]
    BY <1>1, <1>2 DEF PollTypes
  <2>2. QED
    BY <1>1, <1>9, <2>1 DEF PollTypes
<1>14. Distinct' /\ Apart' /\ Complete' /\ WatchedInQuery' /\ ReadyKnown' /\ Leaving'
  BY <1>1 DEF Distinct, Apart, Complete, WatchedInQuery, ReadyKnown, Leaving
<1>15. QED
  BY <1>12, <1>13, <1>14

\* The dead ring is appended to the free ring: nobody has an event of its
\* elements any more.
LEMMA ShiftKeeps ==
  ASSUME PollInv, OnePoller, NEW p \in Pollers, Shift(p)
  PROVE  PollInv'
<1> USE DEF PollInv
<1>1. /\ ppc[p] = "shift"
      /\ free' = free \o dead /\ dead' = <<>>
      /\ ppc' = [ppc EXCEPT ![p] = IF batch[p] # <<>> THEN "handed" ELSE "out"]
      /\ UNCHANGED <<made, query, pfd, interest, pending, rdlist, upc, batch, copied, result>>
  BY DEF Shift, Goto, kernel
<1>2. ToSet(dead') = {} /\ IsInjective(dead') /\ dead' \in Seq(Elems)
  BY <1>1 DEF ToSet, IsInjective
<1>3. /\ free' \in Seq(Elems) /\ ToSet(free') = ToSet(free) \cup ToSet(dead)
      /\ IsInjective(free')
  <2>1. ToSet(free) \cap ToSet(dead) = {}
    BY DEF Apart
  <2>2. QED
    BY <1>1, <2>1, JoinList DEF PollTypes, Distinct
<1>4. PollTypes'
  BY <1>1, <1>2, <1>3 DEF PollTypes
<1>5. Distinct' /\ Apart' /\ Complete'
  BY <1>1, <1>2, <1>3 DEF Distinct, Apart, Complete
<1>6. WatchedInQuery' /\ ReadyKnown' /\ Leaving'
  BY <1>1 DEF WatchedInQuery, ReadyKnown, Leaving
<1>7. PollerHeld(p)'
  <2>1. PollerHeld(p) /\ copied[p] = Len(batch[p]) /\ batch[p] \in Seq(Events)
    BY <1>1 DEF PollerHeld, PollTypes, Events
  <2>2. Len(batch[p]) \in Nat /\ DOMAIN batch[p] = 1..Len(batch[p])
    BY <2>1, LenProperties
  <2>3. \A i \in DOMAIN batch[p] : i <= copied[p] /\ result[i] = batch[p][i].fd
    BY <2>1, <2>2 DEF PollerHeld
  <2>4. ppc'[p] = IF batch[p] # <<>> THEN "handed" ELSE "out"
    BY <1>1 DEF PollTypes
  <2>5. QED
    BY <1>1, <2>1, <2>2, <2>3, <2>4 DEF PollerHeld
<1>8. (\A q \in Pollers : PollerHeld(q))'
  BY <1>7 DEF OnePoller
<1>9. QED
  BY <1>4, <1>5, <1>6, <1>8

\* The caller reads what it was told of, and polls again.
LEMMA ServeKeeps ==
  ASSUME PollInv, OnePoller, NEW p \in Pollers, Serve(p)
  PROVE  PollInv'
<1> USE DEF PollInv
<1>1. /\ batch' = [batch EXCEPT ![p] = <<>>]
      /\ ppc' = [ppc EXCEPT ![p] = "out"]
      /\ copied' = [copied EXCEPT ![p] = 0]
      /\ UNCHANGED <<made, query, free, dead, pfd, interest, upc, result>>
  BY DEF Serve, Goto, rings
<1>2. batch'[p] = <<>> /\ ppc'[p] = "out" /\ copied'[p] = 0 /\ Len(batch'[p]) = 0 /\ DOMAIN batch'[p] = {}
  BY <1>1 DEF PollTypes
<1>3. (\A q \in Pollers : PollerHeld(q))'
  BY <1>2, PollsetAssumption DEF OnePoller, PollerHeld
<1>4. rdlist' \in Seq(Fds) /\ ReadyKnown'
  <2>1. CASE UNCHANGED <<pending, rdlist>>
    BY <1>1, <2>1 DEF PollTypes, ReadyKnown
  <2>2. CASE pending' = pending \ {result[1]} /\ Unready(result[1])
    <3>1. /\ rdlist' \in Seq(Fds) /\ IsInjective(rdlist')
          /\ ToSet(rdlist') = ToSet(rdlist) \ {result[1]}
      BY <2>2, UnreadyList DEF PollTypes, ReadyKnown
    <3>2. QED
      BY <1>1, <2>2, <3>1 DEF ReadyKnown
  <2>3. QED
    BY <2>1, <2>2 DEF Serve
<1>5. PollTypes'
  <2>1. <<>> \in Seq(Events)
    BY EmptySeq
  <2>2. batch' \in [Pollers -> Seq(Events)]
    BY <1>1, <2>1 DEF PollTypes, Events
  <2>3. copied' \in [Pollers -> Nat] /\ ppc' \in [Pollers -> {"out", "copy", "shift", "handed"}]
    BY <1>1 DEF PollTypes
  <2>4. QED
    BY <1>1, <1>4, <2>2, <2>3 DEF PollTypes, Events
<1>6. Distinct' /\ Apart' /\ Complete' /\ WatchedInQuery' /\ Leaving'
  BY <1>1 DEF Distinct, Apart, Complete, WatchedInQuery, Leaving
<1>7. QED
  BY <1>3, <1>4, <1>5, <1>6

LEMMA PollNext == PollInv /\ OnePoller /\ [Next]_vars => PollInv'
<1> SUFFICES ASSUME PollInv, OnePoller, [Next]_vars
             PROVE  PollInv'
  OBVIOUS
<1>1. CASE UNCHANGED vars
  <2>1. UNCHANGED <<made, query, free, dead, pfd, interest, pending, rdlist, upc>>
        /\ UNCHANGED <<ppc, batch, copied, result>>
    BY <1>1 DEF vars, rings, kernel, pollVars
  <2>2. PollTypes' /\ Distinct' /\ Apart' /\ Complete'
    BY <2>1 DEF PollInv, PollTypes, Distinct, Apart, Complete
  <2>3. WatchedInQuery' /\ ReadyKnown' /\ Leaving'
    BY <2>1 DEF PollInv, WatchedInQuery, ReadyKnown, Leaving
  <2>4. (\A p \in Pollers : PollerHeld(p))'
    BY <2>1, PollersKept DEF pollVars
  <2>5. QED
    BY <2>2, <2>3, <2>4 DEF PollInv
<1>2. ASSUME NEW fd \in Fds,
             Add(fd) \/ RemoveDel(fd) \/ RemoveRing(fd) \/ Close(fd) \/ Arrive(fd)
      PROVE  PollInv'
  BY <1>2, AddKeeps, ForgetKeeps, RemoveRingKeeps, ArriveKeeps
<1>3. ASSUME NEW p \in Pollers, Poll(p)
      PROVE  PollInv'
  BY <1>3, WaitKeeps, CopyKeeps, ShiftKeeps, ServeKeeps DEF Poll
<1>4. QED
  BY <1>1, <1>2, <1>3 DEF Next

-----------------------------------------------------------------------------
(* What follows from it.                                                   *)

LEMMA RingsFollow == PollInv => RingsPartition
<1> SUFFICES ASSUME PollInv PROVE RingsPartition
  OBVIOUS
<1>1. /\ query \in Seq(Elems) /\ dead \in Seq(Elems) /\ free \in Seq(Elems)
      /\ ToSet(query) \cap ToSet(dead) = {}
      /\ IsInjective(query) /\ IsInjective(dead) /\ IsInjective(free)
  BY DEF PollInv, PollTypes, Apart, Distinct
<1>2. PICK r \in Seq(Elems) :
        /\ r = query \o dead
        /\ ToSet(r) = ToSet(query) \cup ToSet(dead)
        /\ IsInjective(r)
  BY <1>1, JoinList
<1>3. ToSet(r) \cap ToSet(free) = {}
  BY <1>2 DEF PollInv, Apart
<1>4. ToSet(r \o free) = ToSet(r) \cup ToSet(free) /\ IsInjective(r \o free)
  <2>1. free \in Seq(Elems) /\ IsInjective(free) /\ IsInjective(r)
    BY <1>1, <1>2
  <2>2. QED
    BY <1>3, <2>1, JoinList
<1>5. QED
  BY <1>2, <1>4 DEF RingsPartition, InRing, PollInv, Complete

LEMMA ReportFollows == PollInv => ReportTrue
<1> SUFFICES ASSUME PollInv PROVE ReportTrue
  OBVIOUS
<1>1. WatchedInQuery
  BY DEF PollInv
<1>2. ASSUME NEW p \in Pollers, ppc[p] = "handed"
      PROVE  Handed(p) = [i \in DOMAIN batch[p] |-> batch[p][i].fd]
  <2>1. PollerHeld(p) /\ batch[p] \in Seq(Events) /\ result \in [1..Nalloc -> Fds \cup {NoFd}]
    BY DEF PollInv, PollTypes, Events
  <2>2. PICK n \in Nat : n = Len(batch[p]) /\ DOMAIN batch[p] = 1..n
    BY <2>1, LenProperties
  <2>3. copied[p] = n /\ n <= Nalloc
    BY <1>2, <2>1, <2>2 DEF PollerHeld
  <2>4. \A i \in 1..n : i \in 1..Nalloc /\ result[i] = batch[p][i].fd
    BY <2>1, <2>2, <2>3, PollsetAssumption DEF PollerHeld
  <2>5. \A i \in 1..n : result[i] \in Fds \cup {NoFd}
    BY <2>1, <2>4
  <2> DEFINE told == [i \in 1..n |-> batch[p][i].fd]
  <2>6. told \in Seq(Fds \cup {NoFd}) /\ Len(told) = n
    BY <2>4, <2>5, IsASeq
  <2>7. /\ SubSeq(result, 1, n) \in Seq(Fds \cup {NoFd})
        /\ Len(SubSeq(result, 1, n)) = n
        /\ \A i \in 1..n : SubSeq(result, 1, n)[i] = result[i]
    <3>1. /\ SubSeq(result, 1, n) \in Seq(Fds \cup {NoFd})
          /\ Len(SubSeq(result, 1, n)) = IF 1 <= n THEN n - 1 + 1 ELSE 0
          /\ \A i \in 1..(n - 1 + 1) : SubSeq(result, 1, n)[i] = result[1 + i - 1]
      BY <2>5, SubSeqProperties
    <3>2. QED
      BY <3>1
  <2>8. \A i \in 1..n : told[i] = SubSeq(result, 1, n)[i]
    BY <2>4, <2>7
  <2> HIDE DEF told
  <2>9. told = SubSeq(result, 1, n)
    BY <2>6, <2>7, <2>8, SeqEqual
  <2>10. QED
    BY <2>2, <2>3, <2>9 DEF Handed, told
<1>3. QED
  BY <1>1, <1>2 DEF ReportTrue

(* In whatever order descriptors are added, removed, closed and added      *)
(* again while a poll is under way (ce_epoll.c), every element is in one   *)
(* ring and once, the element of a registered descriptor is in the query   *)
(* ring and holds it, and a poll hands its caller the descriptors the      *)
(* kernel reported: for any number of descriptors and elements, and any    *)
(* size of the event array, as long as one thread polls the set.           *)
THEOREM PollsetHolds ==
  ASSUME \A p, q \in Pollers : p = q
  PROVE  Spec => []PollsetSound
<1>1. OnePoller
  BY DEF OnePoller
<1>2. PollInv => PollsetSound
  BY RingsFollow, ReportFollows DEF PollsetSound
<1>3. PollInv /\ [Next]_vars => PollInv'
  BY <1>1, PollNext
<1>4. QED
  BY <1>2, <1>3, PollInit, PTL DEF Spec
=============================================================================
