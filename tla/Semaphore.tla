----------------------------- MODULE Semaphore -----------------------------
(***************************************************************************)
(* The named semaphore of ce_sem.c with initial value 1, used as a lock    *)
(* between processes that all call ce_sem_create.  System V semaphore sets *)
(* are external; semop queues the processes that wait.                     *)
(***************************************************************************)
EXTENDS Naturals, FiniteSets, Sequences

CONSTANTS
  Users,      \* processes
  MaxSets,    \* semaphore sets ever created (a bound of the model)
  MaxCrashes  \* crashes (a bound of the model)

Gone == 0

VARIABLES
  sets,     \* sets created so far; they are 1..sets
  named,    \* the set under the key, or Gone
  value,    \* the value of each set
  exists,   \* the sets not removed
  at,       \* where a process is
  sem,      \* ce_sem_t.sem_id of a process; Gone stands for -1
  waiting,  \* the processes semop has put to sleep, longest first
  crashes

semVars == <<sets, named, value, exists, at, sem, waiting, crashes>>

Init ==
  /\ sets = 0 /\ named = Gone /\ exists = {}
  /\ value = [s \in 1..MaxSets |-> 0]
  /\ at = [u \in Users |-> "out"]
  /\ sem = [u \in Users |-> Gone]
  /\ waiting = <<>> /\ crashes = 0

Step(u, from, to) == at[u] = from /\ at' = [at EXCEPT ![u] = to]

-----------------------------------------------------------------------------
\* ce_sem_create: semget with IPC_EXCL.
Make(u) ==
  /\ Step(u, "out", "zero")
  /\ named = Gone /\ sets < MaxSets
  /\ sets' = sets + 1 /\ named' = sets' /\ exists' = exists \cup {sets'}
  /\ sem' = [sem EXCEPT ![u] = sets']
  /\ UNCHANGED <<value, waiting, crashes>>

Exists(u) ==
  /\ Step(u, "out", "open")
  /\ named # Gone
  /\ UNCHANGED <<sets, named, value, exists, sem, waiting, crashes>>

\* SETVAL to 0, then one up by semop.  When the set is gone either fails and
\* the call reports an error.
Zero(u) ==
  /\ IF sem[u] \in exists
       THEN Step(u, "zero", "up") /\ value' = [value EXCEPT ![sem[u]] = 0]
       ELSE Step(u, "zero", "out") /\ UNCHANGED value
  /\ UNCHANGED <<sets, named, exists, sem, waiting, crashes>>

Up(u) ==
  /\ IF sem[u] \in exists
       THEN Step(u, "up", "ready") /\ value' = [value EXCEPT ![sem[u]] = @ + 1]
       ELSE Step(u, "up", "out") /\ UNCHANGED value
  /\ UNCHANGED <<sets, named, exists, sem, waiting, crashes>>

\* Mutant: a set that exists is initialised again.
OpenAgain(u) ==
  /\ Step(u, "open", "zero")
  /\ sem' = [sem EXCEPT ![u] = named]
  /\ UNCHANGED <<sets, named, value, exists, waiting, crashes>>

\* The set existed: it is opened as it is.  When it was removed meanwhile the
\* call succeeds with the identifier -1.
Open(u) ==
  /\ Step(u, "open", "ready")
  /\ sem' = [sem EXCEPT ![u] = named]
  /\ UNCHANGED <<sets, named, value, exists, waiting, crashes>>

-----------------------------------------------------------------------------
\* ce_sem_lock: semop -1 takes the value or sleeps; on a set that is gone it
\* reports an error.  ce_sem_trylock does not sleep.
Lock(u) ==
  /\ IF sem[u] \notin exists
       THEN Step(u, "ready", "out") /\ UNCHANGED <<value, waiting>>
       ELSE IF value[sem[u]] > 0
         THEN /\ Step(u, "ready", "holds") /\ UNCHANGED waiting
              /\ value' = [value EXCEPT ![sem[u]] = @ - 1]
         ELSE /\ Step(u, "ready", "waits") /\ UNCHANGED value
              /\ waiting' = Append(waiting, u)
  /\ UNCHANGED <<sets, named, exists, sem, crashes>>

TryLock(u) ==
  /\ Step(u, "ready", "holds")
  /\ sem[u] \in exists /\ value[sem[u]] > 0
  /\ value' = [value EXCEPT ![sem[u]] = @ - 1]
  /\ UNCHANGED <<sets, named, exists, sem, waiting, crashes>>

\* A sleeper is woken: by a value, in its turn, or by the removal of the set.
First(u) ==
  \A i, j \in DOMAIN waiting : waiting[i] = u /\ sem[waiting[j]] = sem[u] => i <= j

Wake(u) ==
  /\ at[u] = "waits"
  /\ waiting' = SelectSeq(waiting, LAMBDA v : v # u)
  /\ \/ /\ sem[u] \notin exists
        /\ Step(u, "waits", "out") /\ UNCHANGED value
     \/ /\ sem[u] \in exists /\ value[sem[u]] > 0 /\ First(u)
        /\ Step(u, "waits", "holds")
        /\ value' = [value EXCEPT ![sem[u]] = @ - 1]
  /\ UNCHANGED <<sets, named, exists, sem, crashes>>

\* Mutant: unlocking does nothing.
UnlockNot(u) ==
  /\ Step(u, "holds", "ready")
  /\ UNCHANGED <<value, sets, named, exists, sem, waiting, crashes>>

\* ce_sem_unlock.
Unlock(u) ==
  /\ Step(u, "holds", "ready")
  /\ value' = IF sem[u] \in exists THEN [value EXCEPT ![sem[u]] = @ + 1] ELSE value
  /\ UNCHANGED <<sets, named, exists, sem, waiting, crashes>>

\* ce_sem_destroy, called by a process when nobody holds or is about to
\* hold the lock: the library leaves that to its callers.
Destroy(u) ==
  /\ Step(u, "ready", "out")
  /\ sem[u] \in exists
  /\ \A v \in Users \ {u} : at[v] # "holds"
  /\ exists' = exists \ {sem[u]}
  /\ named' = IF named = sem[u] THEN Gone ELSE named
  /\ UNCHANGED <<sets, value, sem, waiting, crashes>>

\* A process dies outside the critical section and outside ce_sem_create.
Crash(u) ==
  /\ crashes < MaxCrashes
  /\ at[u] \in {"open", "ready", "waits"}
  /\ at' = [at EXCEPT ![u] = "out"]
  /\ waiting' = SelectSeq(waiting, LAMBDA v : v # u)
  /\ crashes' = crashes + 1
  /\ UNCHANGED <<sets, named, value, exists, sem>>

Progress(u) == Zero(u) \/ Up(u) \/ Wake(u) \/ Unlock(u)

Next ==
  \E u \in Users :
    \/ Make(u) \/ Exists(u) \/ Open(u) \/ Lock(u) \/ TryLock(u) \/ Destroy(u) \/ Crash(u)
    \/ Progress(u)

Spec == Init /\ [][Next]_semVars

\* A process that has made the set goes on to give it its value, one that has
\* the lock leaves it, and one that is woken runs.
FairSpec == Spec /\ \A u \in Users : SF_semVars(Wake(u)) /\ WF_semVars(Progress(u))

-----------------------------------------------------------------------------
(* The semaphore is a lock: of the processes that create or open it, in    *)
(* whatever order, while others remove it and make it again, at most one   *)
(* holds it.  The one unit of a set is never doubled and never lost: it is *)
(* in its value, with its holder, or still to be given by its creator, so  *)
(* that a process does not wait for nobody.                                *)
SemExclusion ==
  /\ Cardinality({u \in Users : at[u] = "holds"}) <= 1
  /\ \A s \in exists :
       value[s] + Cardinality({u \in Users : sem[u] = s /\ at[u] \in {"zero", "up", "holds"}}) = 1

(* A process that waits gets the lock or is told that it is gone: the      *)
(* value a set is made with is never lost.                                 *)
WaiterServed == \A u \in Users : at[u] = "waits" ~> at[u] # "waits"
=============================================================================
