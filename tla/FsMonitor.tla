----------------------------- MODULE FsMonitor -----------------------------
(***************************************************************************)
(* The file system monitor of ce_fs_monitor.c: user threads register and   *)
(* unregister watched paths, a thread of the monitor reads inotify events  *)
(* in batches and calls the handler of the path.  Every look-up holds the  *)
(* monitor's lock only while it searches, so the list may change before    *)
(* what was found is used.  A path is registered by one user thread.       *)
(* inotify is external: a path keeps its watch descriptor, named by the    *)
(* path itself, since the code never removes a watch.                      *)
(***************************************************************************)
EXTENDS Naturals, Sequences, SequencesExt, FiniteSets

CONSTANTS
  Paths,      \* watched paths
  Files,      \* names an event may carry
  Begins,     \* the pairs of Files whose first begins the second, <<f, f>> among them
  BufEvents,  \* events one read of MAX_BUF_SIZE bytes returns
  MaxRegs,    \* registrations (a bound of the model)
  MaxEvents,  \* events (a bound of the model)
  Nothing     \* no file name, no object

VARIABLES
  objs,     \* the list of watched objects: path and registration
  upc,      \* the user thread of a path: idle, add, or del
  found,    \* the object unregister found
  regs,     \* registrations so far
  watched,  \* paths that have an inotify watch
  queue,    \* the inotify queue: path and file of each event
  batch,    \* events read and not yet looked at
  pre,      \* pre_event_name
  calling,  \* the object whose handler runs, or Nothing
  raised    \* events so far

userVars  == <<objs, upc, found, regs, watched>>
eventVars == <<queue, batch, pre, calling, raised>>
vars == <<userVars, eventVars>>

Objects(p) == {i \in DOMAIN objs : objs[i].path = p}
FirstOf(p) == objs[CHOOSE i \in Objects(p) : \A j \in Objects(p) : i <= j]

Init ==
  /\ objs = <<>> /\ queue = <<>> /\ batch = <<>>
  /\ upc = [p \in Paths |-> "idle"]
  /\ found = [p \in Paths |-> Nothing]
  /\ regs = 0 /\ raised = 0
  /\ watched = {}
  /\ pre = Nothing /\ calling = Nothing

-----------------------------------------------------------------------------
\* ce_register_fs_monitor_object: the look-up.  A path that is listed is done.
RegisterLook(p) ==
  /\ upc[p] = "idle" /\ regs < MaxRegs
  /\ Objects(p) = {}
  /\ upc' = [upc EXCEPT ![p] = "add"]
  /\ UNCHANGED <<objs, found, regs, watched, eventVars>>

\* The rest of it, under the lock: the watch is added and the object linked;
\* when inotify refuses the watch nothing is linked.
RegisterAdd(p) ==
  /\ upc[p] = "add"
  /\ regs' = regs + 1
  /\ upc' = [upc EXCEPT ![p] = "idle"]
  /\ \/ /\ watched' = watched \cup {p}
        /\ objs' = Append(objs, [path |-> p, reg |-> regs'])
     \/ UNCHANGED <<objs, watched>>
  /\ UNCHANGED <<found, eventVars>>

\* ce_unregister_fs_monitor_object: the look-up, then the removal.
UnregisterLook(p) ==
  /\ upc[p] = "idle"
  /\ Objects(p) # {}
  /\ found' = [found EXCEPT ![p] = FirstOf(p)]
  /\ upc' = [upc EXCEPT ![p] = "del"]
  /\ UNCHANGED <<objs, regs, watched, eventVars>>

UnregisterDel(p) ==
  /\ upc[p] = "del"
  /\ objs' = SelectSeq(objs, LAMBDA o : o # found[p])
  /\ found' = [found EXCEPT ![p] = Nothing]
  /\ upc' = [upc EXCEPT ![p] = "idle"]
  /\ UNCHANGED <<regs, watched, eventVars>>

-----------------------------------------------------------------------------
\* inotify queues an event of a watched path; one equal to the last is merged.
Raise(p, f) ==
  /\ p \in watched /\ raised < MaxEvents
  /\ queue # <<>> => Last(queue) # [path |-> p, file |-> f]
  /\ queue' = Append(queue, [path |-> p, file |-> f])
  /\ raised' = raised + 1
  /\ UNCHANGED <<userVars, batch, pre, calling>>

\* fsm_thread_fun: poll and FIONREAD find events, one read takes what fits.
Read ==
  /\ batch = <<>> /\ calling = Nothing /\ queue # <<>>
  /\ LET n == IF Len(queue) < BufEvents THEN Len(queue) ELSE BufEvents IN
       /\ batch' = SubSeq(queue, 1, n)
       /\ queue' = SubSeq(queue, n + 1, Len(queue))
  /\ UNCHANGED <<userVars, pre, calling, raised>>

\* The comparison with the name of the previous event: equal as far as this
\* event's name goes.
Repeats(f) == pre # Nothing /\ <<f, pre>> \in Begins

\* Mutant: the offset is advanced only past the events handled.
LookAtStays ==
  /\ batch # <<>> /\ calling = Nothing
  /\ LET e == Head(batch)
         call == ~Repeats(e.file) /\ Objects(e.path) # {}
     IN
     /\ calling' = IF call THEN FirstOf(e.path) ELSE Nothing
     /\ pre' = e.file
     /\ batch' = IF call THEN Tail(batch) ELSE batch
  /\ UNCHANGED <<userVars, queue, raised>>

\* fsm_thread_fun and handle_event up to the call: one event of the batch.
LookAt ==
  /\ batch # <<>> /\ calling = Nothing
  /\ LET e == Head(batch)
         call == ~Repeats(e.file) /\ Objects(e.path) # {}
     IN
     /\ calling' = IF call THEN FirstOf(e.path) ELSE Nothing
     /\ pre' = e.file
  /\ batch' = Tail(batch)
  /\ UNCHANGED <<userVars, queue, raised>>

\* The handler returns.
Return ==
  /\ calling # Nothing
  /\ calling' = Nothing
  /\ UNCHANGED <<userVars, queue, batch, pre, raised>>

Thread == Read \/ LookAt \/ Return

Next ==
  \/ \E p \in Paths :
       \/ RegisterLook(p) \/ RegisterAdd(p) \/ UnregisterLook(p) \/ UnregisterDel(p)
       \/ \E f \in Files : Raise(p, f)
  \/ Thread

Spec == Init /\ [][Next]_vars

\* The monitor's thread goes on; handlers return.  Users may stop anywhere.
FairSpec == Spec /\ WF_vars(Thread)

-----------------------------------------------------------------------------
(* Every event is taken from the queue and looked at, however handlers are *)
(* registered and unregistered meanwhile.                                  *)
EventsDrained == []<>(queue = <<>> /\ batch = <<>> /\ calling = Nothing)
=============================================================================
