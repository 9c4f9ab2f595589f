------------------------------ MODULE Pollset ------------------------------
(***************************************************************************)
(* The poll set of ce_epoll.c, created with CE_POLLSET_THREADSAFE and      *)
(* without CE_POLLSET_NOCOPY, as its users create it.  Every registered    *)
(* descriptor has an element; the kernel is given the element's address.   *)
(* Elements move between the query, the dead and the free ring.  The user  *)
(* thread of a descriptor adds, removes and closes it; several such        *)
(* threads run beside the pollers.  The kernel's epoll instance is the     *)
(* interest table and its ready list, delivered from the front and         *)
(* rotated, as level-triggered epoll does.                                 *)
(***************************************************************************)
EXTENDS Naturals, Sequences, SequencesExt, FiniteSets

CONSTANTS
  Fds,        \* descriptors; each is used by one user thread
  MaxElems,   \* elements the pool can provide (a bound of the model)
  Pollers,    \* threads that call ce_pollset_poll
  Nalloc,     \* events one call of epoll_wait may return
  NoFd        \* no descriptor

ASSUME PollsetAssumption ==
  Nalloc \in Nat \ {0} /\ MaxElems \in Nat \ {0} /\ NoFd \notin Fds

NoElem == 0

VARIABLES
  made,                \* elements allocated so far; they are 1..made
  query, free, dead,   \* the three rings, first element first
  pfd,                 \* the descriptor an element holds a copy of
  interest,            \* the kernel's table: the element a descriptor is registered with
  pending,             \* descriptors with input waiting
  rdlist,              \* the kernel's ready list
  upc,                 \* the user thread of a descriptor: idle, or between the two halves of remove
  ppc,                 \* a poller: out, copy, shift, handed
  batch,               \* the events epoll_wait returned: element and, as a history, descriptor
  copied,              \* j, the number of events a poller has copied
  result               \* result_set, shared by all pollers

rings    == <<made, query, free, dead, pfd>>
kernel   == <<interest, pending, rdlist>>
pollVars == <<ppc, batch, copied, result>>
vars     == <<rings, kernel, upc, pollVars>>

InRing(r) == ToSet(r)

\* A descriptor is on the ready list once at most.
PlacesOf(fd) == {i \in DOMAIN rdlist : rdlist[i] = fd}
Unready(fd) ==
  \/ PlacesOf(fd) = {} /\ UNCHANGED rdlist
  \/ \E i \in PlacesOf(fd) : rdlist' = RemoveAt(rdlist, i)

Init ==
  /\ made = 0
  /\ query = <<>> /\ free = <<>> /\ dead = <<>>
  /\ pfd = [e \in 1..MaxElems |-> NoFd]
  /\ interest = [fd \in Fds |-> NoElem]
  /\ pending = {}
  /\ rdlist = <<>>
  /\ upc = [fd \in Fds |-> "idle"]
  /\ ppc = [p \in Pollers |-> "out"]
  /\ batch = [p \in Pollers |-> <<>>]
  /\ copied = [p \in Pollers |-> 0]
  /\ result = [i \in 1..Nalloc |-> NoFd]

-----------------------------------------------------------------------------
(* The user thread of a descriptor. *)

\* The element impl_pollset_add takes: the first free one, otherwise a new one.
Take(e) ==
  /\ e = IF free # <<>> THEN Head(free) ELSE made + 1
  /\ made' = IF free # <<>> THEN made ELSE made + 1
FreeLeft == IF free # <<>> THEN Tail(free) ELSE free

\* impl_pollset_add.  The whole call runs under the ring lock, epoll_ctl
\* included; it fails for a registered descriptor and may fail for want of
\* memory, and then the element goes back to the free ring.
Added(fd, e) ==
  /\ interest[fd] = NoElem
  /\ interest' = [interest EXCEPT ![fd] = e]
  /\ rdlist' = IF fd \in pending THEN Append(rdlist, fd) ELSE rdlist
  /\ query' = Append(query, e)
  /\ free' = FreeLeft

\* Mutant: the element of a failed add is forgotten.
NotAddedLeaks(e) ==
  /\ free' = FreeLeft
  /\ UNCHANGED <<interest, rdlist, query>>

NotAdded(e) ==
  /\ free' = Append(FreeLeft, e)
  /\ UNCHANGED <<interest, rdlist, query>>

Add(fd) ==
  /\ upc[fd] = "idle"
  /\ \E e \in 1..MaxElems :
       /\ Take(e)
       /\ pfd' = [pfd EXCEPT ![e] = fd]
       /\ Added(fd, e) \/ NotAdded(e)
  /\ UNCHANGED <<dead, pending, upc, pollVars>>

\* impl_pollset_remove, first half: EPOLL_CTL_DEL, without the lock.  When the
\* kernel does not know the descriptor the code goes on all the same.
RemoveDel(fd) ==
  /\ upc[fd] = "idle"
  /\ interest' = [interest EXCEPT ![fd] = NoElem]
  /\ Unready(fd)
  /\ upc' = [upc EXCEPT ![fd] = "ring"]
  /\ UNCHANGED <<rings, pending, pollVars>>

\* impl_pollset_remove, second half: under the lock, the first element of the
\* query ring that holds the descriptor moves to the dead ring.
Held(fd) == {i \in DOMAIN query : pfd[query[i]] = fd}

\* Mutant: a removed element is free at once.
RemoveRingFrees(fd) ==
  /\ upc[fd] = "ring"
  /\ upc' = [upc EXCEPT ![fd] = "idle"]
  /\ \/ Held(fd) = {} /\ UNCHANGED <<query, free>>
     \/ \E i \in Held(fd) :
          /\ \A j \in Held(fd) : i <= j
          /\ query' = RemoveAt(query, i) /\ free' = Append(free, query[i])
  /\ UNCHANGED <<made, dead, pfd, kernel, pollVars>>

RemoveRing(fd) ==
  /\ upc[fd] = "ring"
  /\ upc' = [upc EXCEPT ![fd] = "idle"]
  /\ \/ Held(fd) = {} /\ UNCHANGED <<query, dead>>
     \/ \E i \in Held(fd) :
          /\ \A j \in Held(fd) : i <= j
          /\ query' = RemoveAt(query, i) /\ dead' = Append(dead, query[i])
  /\ UNCHANGED <<made, free, pfd, kernel, pollVars>>

\* The descriptor is closed while registered: the kernel forgets it, its
\* element stays in the query ring until a later remove of the descriptor.
Close(fd) ==
  /\ upc[fd] = "idle"
  /\ interest[fd] # NoElem
  /\ interest' = [interest EXCEPT ![fd] = NoElem]
  /\ pending' = pending \ {fd}
  /\ Unready(fd)
  /\ UNCHANGED <<rings, upc, pollVars>>

\* Input arrives for a descriptor.
Arrive(fd) ==
  /\ fd \notin pending
  /\ pending' = pending \cup {fd}
  /\ rdlist' = IF interest[fd] # NoElem THEN Append(rdlist, fd) ELSE rdlist
  /\ UNCHANGED <<rings, interest, upc, pollVars>>

-----------------------------------------------------------------------------
(* A poller. *)

Goto(p, l) == ppc' = [ppc EXCEPT ![p] = l]
Fetched == IF Len(rdlist) < Nalloc THEN Len(rdlist) ELSE Nalloc

\* impl_pollset_poll: epoll_wait returns at most nalloc events.  A wait that
\* times out or fails goes straight to the shift.
Wait(p) ==
  /\ ppc[p] = "out"
  /\ batch' = [batch EXCEPT ![p] =
       [i \in 1..Fetched |-> [elem |-> interest[rdlist[i]], fd |-> rdlist[i]]]]
  /\ rdlist' = SubSeq(rdlist, Fetched + 1, Len(rdlist)) \o SubSeq(rdlist, 1, Fetched)
  /\ copied' = [copied EXCEPT ![p] = 0]
  /\ Goto(p, IF Fetched > 0 THEN "copy" ELSE "shift")
  /\ UNCHANGED <<rings, interest, pending, upc, result>>

\* impl_pollset_poll: one event is copied to result_set from the element its
\* pointer names, without the lock.
Copied(p, last) ==
  LET j == copied[p] + 1 IN
  /\ j <= last
  /\ result' = [result EXCEPT ![j] = pfd[batch[p][j].elem]]
  /\ copied' = [copied EXCEPT ![p] = j]

\* Mutant: the loop stops before the last event.
CopyShort(p) ==
  /\ ppc[p] = "copy"
  /\ \/ Copied(p, Len(batch[p]) - 1)
     \/ copied[p] + 1 = Len(batch[p]) /\ UNCHANGED <<copied, result>>
  /\ Goto(p, IF copied'[p] >= Len(batch[p]) - 1 THEN "shift" ELSE "copy")
  /\ UNCHANGED <<rings, kernel, upc, batch>>

Copy(p) ==
  /\ ppc[p] = "copy"
  /\ Copied(p, Len(batch[p]))
  /\ Goto(p, IF copied'[p] = Len(batch[p]) THEN "shift" ELSE "copy")
  /\ UNCHANGED <<rings, kernel, upc, batch>>

\* impl_pollset_poll: under the lock the dead ring is appended to the free
\* ring; the caller gets the events.
Shift(p) ==
  /\ ppc[p] = "shift"
  /\ free' = free \o dead
  /\ dead' = <<>>
  /\ Goto(p, IF batch[p] # <<>> THEN "handed" ELSE "out")
  /\ UNCHANGED <<made, query, pfd, kernel, upc, batch, copied, result>>

\* What the caller was given: the first num entries of result_set.
Handed(p) == SubSeq(result, 1, copied[p])

\* fsm_thread_fun reads the first descriptor it was given, unless FIONREAD finds nothing
\* to read, and polls again.
Serve(p) ==
  /\ ppc[p] = "handed"
  /\ \/ pending' = pending \ {result[1]} /\ Unready(result[1])
     \/ UNCHANGED <<pending, rdlist>>
  /\ batch' = [batch EXCEPT ![p] = <<>>]
  /\ Goto(p, "out")
  /\ copied' = [copied EXCEPT ![p] = 0]
  /\ UNCHANGED <<rings, interest, upc, result>>

Poll(p) == Wait(p) \/ Copy(p) \/ Shift(p) \/ Serve(p)

Next ==
  \/ \E fd \in Fds : Add(fd) \/ RemoveDel(fd) \/ RemoveRing(fd) \/ Close(fd) \/ Arrive(fd)
  \/ \E p \in Pollers : Poll(p)

Spec == Init /\ [][Next]_vars

\* A polling thread goes on polling; nothing is assumed of the users.
FairSpec == Spec /\ \A p \in Pollers : WF_vars(Poll(p))

-----------------------------------------------------------------------------
(* Every element ever allocated is in exactly one ring and once: add,      *)
(* remove and the shift never lose one and never link one twice.           *)
RingsPartition ==
  /\ IsInjective(query \o dead \o free)
  /\ InRing(query \o dead \o free) = 1..made

(* What the kernel points to may be dereferenced: the element of a         *)
(* registered descriptor is in the query ring and holds that descriptor,   *)
(* in whatever order descriptors are removed, closed and added again.      *)
WatchedInQuery ==
  \A fd \in Fds : interest[fd] # NoElem =>
    interest[fd] \in InRing(query) /\ pfd[interest[fd]] = fd

(* impl_pollset_poll hands its caller the descriptors the kernel reported, *)
(* although they are read through element pointers while other threads     *)
(* remove and add: an element with an event in flight is not reused, and   *)
(* what the kernel still points to is there.                               *)
ReportTrue ==
  /\ WatchedInQuery
  /\ \A p \in Pollers : ppc[p] = "handed" =>
       Handed(p) = [i \in DOMAIN batch[p] |-> batch[p][i].fd]

(* A registered descriptor with input is reported sooner or later, unless  *)
(* it is read, removed or closed first: a busy descriptor does not starve  *)
(* another one, even when a poll returns fewer events than are ready.      *)
ReadyReported ==
  \A fd \in Fds :
    fd \in InRing(rdlist) ~>
      \/ fd \notin InRing(rdlist)
      \/ \E p \in Pollers : ppc[p] = "handed" /\ fd \in InRing(Handed(p))

(* The rings hold every element once, and what a poll hands out is what    *)
(* the kernel reported.                                                    *)
PollsetSound == RingsPartition /\ ReportTrue
=============================================================================
