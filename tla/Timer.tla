------------------------------- MODULE Timer -------------------------------
(***************************************************************************)
(* A timer of ce_timer.c with heartbeat callbacks: its owner starts and    *)
(* stops it, its thread registers with the heartbeat monitor, arms a       *)
(* clean-up handler and then sleeps and triggers in turn.  The thread is   *)
(* cancelled asynchronously, so it may end at any instruction.  When       *)
(* select fails, as it does when a signal is delivered to the thread, the  *)
(* thread frees the record and goes on reading it: what the clean-up       *)
(* handler, and the owner's stop, then do is undefined, and the model      *)
(* follows neither further.                                                *)
(***************************************************************************)
EXTENDS Naturals

VARIABLES
  owner,     \* out, starting, running, cancelled
  ds,        \* timer_ds: none, live or freed
  tidSet,    \* timer_ds->tid holds the thread
  thread,    \* where the thread is
  cancel,    \* a cancellation is pending
  beating    \* the heartbeat monitor has the thread registered

timerVars == <<owner, ds, tidSet, thread, cancel, beating>>

Loop   == {"beat", "select", "trigger"}      \* the clean-up handler is armed
Early  == {"enter", "registered"}            \* cancellable, not armed
Alive  == Loop \cup Early \cup {"born", "cleanup"}

Init ==
  /\ owner = "out" /\ ds = "none" /\ thread = "none"
  /\ tidSet = FALSE /\ cancel = FALSE /\ beating = FALSE

-----------------------------------------------------------------------------
\* ce_timer_start_with_beat, ce_timer_run: the record is allocated and the
\* thread created; when that fails the record is freed again.
Start ==
  /\ owner = "out"
  /\ \/ owner' = "starting" /\ ds' = "live" /\ thread' = "born"
     \/ UNCHANGED owner /\ ds' = "freed" /\ thread' = "none"
  /\ tidSet' = FALSE /\ cancel' = FALSE /\ beating' = FALSE

\* The end of it: the thread's id is stored, after the thread has begun.
Started ==
  /\ owner = "starting"
  /\ owner' = "running" /\ tidSet' = TRUE
  /\ UNCHANGED <<ds, thread, cancel, beating>>

\* ce_timer_stop: cancel, then join and free.
Stop ==
  /\ owner = "running" /\ ds = "live"
  /\ owner' = "cancelled" /\ cancel' = TRUE
  /\ UNCHANGED <<ds, tidSet, thread, beating>>

\* Mutant: the record is freed without waiting for the thread.
JoinNot ==
  /\ owner = "cancelled"
  /\ owner' = "out" /\ ds' = "freed"
  /\ UNCHANGED <<tidSet, thread, cancel, beating>>

Join ==
  /\ owner = "cancelled" /\ thread = "ended" /\ ds = "live"
  /\ owner' = "out" /\ ds' = "freed"
  /\ UNCHANGED <<tidSet, thread, cancel, beating>>

-----------------------------------------------------------------------------
\* ce_run_timer_wrap.
Go(from, to) ==
  /\ thread = from /\ thread' = to
  /\ UNCHANGED <<owner, tidSet, cancel>>

Enter    == Go("born", "enter") /\ UNCHANGED <<ds, beating>>
Register == Go("enter", "registered") /\ beating' = TRUE /\ UNCHANGED ds
Arm      == Go("registered", "beat") /\ UNCHANGED <<ds, beating>>
Beat     == Go("beat", "select") /\ UNCHANGED <<ds, beating>>
Elapse   == Go("select", "trigger") /\ UNCHANGED <<ds, beating>>
Trigger  == Go("trigger", "beat") /\ UNCHANGED <<ds, beating>>

\* select fails: the thread frees the record and leaves the loop.
Interrupted == Go("select", "broke") /\ ds' = "freed" /\ UNCHANGED beating

\* timer_thrd_cleanup.
Unregister == Go("cleanup", "ended") /\ beating' = FALSE /\ UNCHANGED ds

\* A pending cancellation takes effect: through the handler once it is armed.
Cancelled ==
  /\ cancel
  /\ \/ thread \in Early /\ thread' = "ended"
     \/ thread \in Loop /\ thread' = "cleanup"
  /\ UNCHANGED <<owner, ds, tidSet, cancel, beating>>

Thread ==
  \/ Enter \/ Register \/ Arm \/ Beat \/ Elapse \/ Trigger
  \/ Interrupted \/ Unregister \/ Cancelled

Next == Start \/ Started \/ Stop \/ Join \/ Thread

Spec == Init /\ [][Next]_timerVars

-----------------------------------------------------------------------------
(* As long as select has not failed the thread never reads the record      *)
(* after it is freed: stop frees it only when the thread, its clean-up     *)
(* handler included, has ended, wherever the cancellation met it; and the  *)
(* identifier the handler reads in it, which the owner stores after the    *)
(* thread has begun, is there.                                             *)
RecordOutlivesThread ==
  /\ thread \in Alive => ds = "live"
  /\ thread = "cleanup" => tidSet
=============================================================================
