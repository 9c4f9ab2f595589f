----------------------------- MODULE ThreadExit -----------------------------
(***************************************************************************)
(* The end of an ipc context: destory_ipc_context asks the timeout thread  *)
(* to exit, waits for its answer through thread_exit_stat, and then        *)
(* publishes what is left, detaches the region and destroys the pools.     *)
(* The thread looks at the request once in each round, after its sleep.    *)
(***************************************************************************)
EXTENDS Naturals

VARIABLES
  stat,      \* thread_exit_stat
  stop,      \* is_thread_stop
  main,      \* where destory_ipc_context is
  loop,      \* where timeout_write_thread_fn is
  region,    \* the region is attached
  pool       \* the pool that holds the context and the thread record

exitVars == <<stat, stop, main, loop, region, pool>>

Init ==
  /\ stat = "THD_NO_EXIT" /\ stop = FALSE
  /\ main = "run" /\ loop = "test"
  /\ region = TRUE /\ pool = TRUE

-----------------------------------------------------------------------------
At(from, to) == main = from /\ main' = to

\* CE_WAIT_THREAD_EXIT.
Ask ==
  /\ At("run", "wait") /\ stat' = "THD_EXIT"
  /\ UNCHANGED <<stop, loop, region, pool>>

Answered ==
  /\ At("wait", "publish") /\ stat = "THD_EXITED"
  /\ UNCHANGED <<stat, stop, loop, region, pool>>

\* exit_pub_dbk, then ce_shm_free, then the pools.
PublishRest ==
  /\ At("publish", "detach")
  /\ UNCHANGED <<stat, stop, loop, region, pool>>

Detach ==
  /\ At("detach", "pools") /\ region' = FALSE
  /\ UNCHANGED <<stat, stop, loop, pool>>

Pools ==
  /\ At("pools", "done") /\ pool' = FALSE
  /\ UNCHANGED <<stat, stop, loop, region>>

-----------------------------------------------------------------------------
In(from, to) == loop = from /\ loop' = to

\* The loop condition.
Test ==
  /\ In("test", IF stop THEN "cleanup" ELSE "check")
  /\ UNCHANGED <<stat, stop, main, region, pool>>

\* check_and_pub_timeout_dbk works on the region; then sleep(5).
Check ==
  /\ In("check", "asked")
  /\ UNCHANGED <<stat, stop, main, region, pool>>

\* After the sleep: a request is answered, exit_fun called before, and the
\* loop left; otherwise another round.
Asked ==
  /\ In("asked", IF stat = "THD_EXIT" THEN "exited" ELSE "test")
  /\ UNCHANGED <<stat, stop, main, region, pool>>

\* Mutant: the loop is left without an answer.
ExitedSilent ==
  /\ In("exited", "cleanup")
  /\ UNCHANGED <<stat, stop, main, region, pool>>

Exited ==
  /\ In("exited", "cleanup") /\ stat' = "THD_EXITED"
  /\ UNCHANGED <<stop, main, region, pool>>

\* ipc_wr_thrd_reg_cleanup writes is_thread_stop into the context.
Cleanup ==
  /\ In("cleanup", "ended") /\ stop' = TRUE
  /\ UNCHANGED <<stat, main, region, pool>>

Main   == Ask \/ Answered \/ PublishRest \/ Detach \/ Pools
Thread == Test \/ Check \/ Asked \/ Exited \/ Cleanup
Next   == Main \/ Thread

Spec == Init /\ [][Next]_exitVars

\* The thread's sleeps end; a caller that has begun to destroy goes on.
FairSpec == Spec /\ WF_exitVars(Thread) /\ WF_exitVars(main # "run" /\ Main)

-----------------------------------------------------------------------------
(* The timeout thread works on the region only while it is attached, and   *)
(* never beside the publication of what is left.                           *)
RegionWhileAttached == loop = "check" => region /\ main \in {"run", "wait"}

(* A context that is being destroyed is destroyed, since the request is    *)
(* seen, and until then the timeout thread has the region it works on.     *)
DestroyEnds == []RegionWhileAttached /\ (main = "wait" ~> main = "done")

(* "Releases the ipc context, its thread included" (ce_ipc_shm.c:676):     *)
(* when the pools are gone the thread, which keeps its record and the      *)
(* context in them, has ended.                                             *)
ThreadGoneFirst == ~pool => loop = "ended"
=============================================================================
