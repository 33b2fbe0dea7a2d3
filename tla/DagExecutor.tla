---------------------------- MODULE DagExecutor ----------------------------
(***************************************************************************)
(* The DAG execution engine (dag/executor.rs) over the store: one loop per *)
(* started run, one tokio task ("thread" below) per task execution, the    *)
(* commands that create, start, extend and cancel runs, and the subagent   *)
(* executor's semaphore, which all runs share.  An action is one           *)
(* lock-held block of the code, or one await.                              *)
(*                                                                         *)
(* Abstracted: UI events, log lines, the dependency outputs pasted into a  *)
(* prompt, back-off durations.                                             *)
(***************************************************************************)
EXTENDS Notifier

CONSTANTS
    MaxConcurrent,   \* permits of the subagent executor's semaphore
    MaxCrashes,      \* bound: how often the process may die and restart
    MayPanic         \* whether the body of an execution may panic

ASSUME ExecutorAssumption ==
    /\ MaxConcurrent \in Nat \ {0}
    /\ MaxCrashes \in Nat
    /\ MayPanic \in BOOLEAN

VARIABLES
    pc,           \* pc[r]: where the loop of run r is
    batch,        \* batch[r]: what is left of the runnable snapshot
    cur,          \* cur[t]: task t is the one its loop is handling
    snapAttempt,  \* the attempt column as the snapshot of t read it
    verdict,      \* final status the loop of r decided on
    thread,       \* thread[t]: where the execution of t is
    crashes

loopVars == <<pc, batch, cur, snapAttempt, verdict>>
vars == <<storeVars, notifierVars, loopVars, thread, crashes>>

LoopStates ==
    {"none", "start", "fetch", "term", "live", "sleep", "next", "mark", "agent",
     "join", "decide", "final", "announce", "sent", "done", "lost"}
ThreadStates ==
    {"none", "spawned", "executing", "ok", "error", "timeout", "publish", "backoff"}

TypeOK ==
    /\ StoreTypeOK
    /\ NotifierTypeOK
    /\ pc          \in [Runs -> LoopStates]
    /\ batch       \in [Runs -> SUBSET Tasks]
    /\ cur         \in [Tasks -> BOOLEAN]
    /\ snapAttempt \in [Tasks -> Nat]
    /\ verdict     \in [Runs -> Verdicts]
    /\ thread      \in [Tasks -> ThreadStates]
    /\ crashes     \in Nat

Init ==
    /\ StoreInit
    /\ NotifierInit
    /\ pc          = [r \in Runs |-> "none"]
    /\ batch       = [r \in Runs |-> {}]
    /\ cur         = [t \in Tasks |-> FALSE]
    /\ snapAttempt = [t \in Tasks |-> 0]
    /\ verdict     = [r \in Runs |-> "completed"]
    /\ thread      = [t \in Tasks |-> "none"]
    /\ crashes     = 0

Goto(r, l) == pc' = [pc EXCEPT ![r] = l]

Executing == {t \in Tasks : thread[t] = "executing"}
can_accept == Cardinality(Executing) < MaxConcurrent
ThreadsOf(r) == {t \in Tasks : RunOf[t] = r /\ thread[t] # "none"}

-----------------------------------------------------------------------------
(* Commands *)

Create(r) ==
    /\ create_run(r)
    /\ UNCHANGED <<loopVars, thread, notifierVars, crashes>>

(* start_run spawns the loop and returns.  Every caller starts the run it  *)
(* has just created, once; a run created without a window is never started.*)
Start(r) ==
    /\ pc[r] = "none"
    /\ runStatus[r] # "absent"
    /\ Goto(r, "start")
    /\ UNCHANGED <<storeVars, batch, cur, snapAttempt, verdict, thread, notifierVars, crashes>>

AddTask(t) ==
    /\ add_task_to_run(t)
    /\ UNCHANGED <<loopVars, thread, notifierVars, crashes>>

Cancel(r) ==
    /\ cancel_run(r)
    /\ UNCHANGED <<loopVars, thread, notifierVars, crashes>>

-----------------------------------------------------------------------------
(* The execution loop of run r *)

MarkRunRunning(r) ==
    /\ pc[r] = "start"
    /\ update_run_status(r, "running")
    /\ Goto(r, "fetch")
    /\ UNCHANGED <<batch, cur, snapAttempt, verdict, thread, notifierVars, crashes>>

(* Snapshot of the runnable rows, attempt column included. *)
FetchRunnable(r) ==
    LET runnable == get_runnable_tasks(r) IN
    /\ pc[r] = "fetch"
    /\ batch' = [batch EXCEPT ![r] = runnable]
    /\ snapAttempt' = [t \in Tasks |-> IF t \in runnable THEN attempt[t] ELSE snapAttempt[t]]
    /\ Goto(r, IF runnable = {} THEN "term" ELSE "next")
    /\ UNCHANGED <<storeVars, cur, verdict, thread, notifierVars, crashes>>

CheckTerminal(r) ==
    /\ pc[r] = "term"
    /\ Goto(r, IF all_tasks_terminal(r) THEN "decide" ELSE "live")
    /\ UNCHANGED <<storeVars, batch, cur, snapAttempt, verdict, thread, notifierVars, crashes>>

(* Mutant: the deadlock test is left out. *)
CheckLive_always(r) ==
    /\ pc[r] = "live"
    /\ Goto(r, "sleep")
    /\ UNCHANGED <<storeVars, batch, cur, snapAttempt, verdict, thread, notifierVars, crashes>>

(* A fresh read of the rows: wait if some task runs or retries, otherwise  *)
(* the "DAG deadlock" error, which start_run turns into a failed run.      *)
CheckLive(r) ==
    /\ pc[r] = "live"
    /\ IF \E t \in TasksOf(r) : taskStatus[t] \in {"running", "retrying"}
       THEN Goto(r, "sleep") /\ UNCHANGED verdict
       ELSE Goto(r, "final") /\ verdict' = [verdict EXCEPT ![r] = "failed"]
    /\ UNCHANGED <<storeVars, batch, cur, snapAttempt, thread, notifierVars, crashes>>

Sleep(r) ==
    /\ pc[r] = "sleep"
    /\ Goto(r, "fetch")
    /\ UNCHANGED <<storeVars, batch, cur, snapAttempt, verdict, thread, notifierVars, crashes>>

(* The next task of the snapshot, once can_accept() says there is a permit. *)
TakeTask(r, t) ==
    /\ pc[r] = "next"
    /\ t \in batch[r]
    /\ can_accept
    /\ batch' = [batch EXCEPT ![r] = @ \ {t}]
    /\ cur'   = [cur EXCEPT ![t] = TRUE]
    /\ Goto(r, "mark")
    /\ UNCHANGED <<storeVars, snapAttempt, verdict, thread, notifierVars, crashes>>

(* The row is marked running whatever its status has become meanwhile. *)
MarkTaskRunning(r, t) ==
    /\ pc[r] = "mark"
    /\ RunOf[t] = r /\ cur[t]
    /\ update_task_status(t, "running")
    /\ Goto(r, "agent")
    /\ UNCHANGED <<batch, cur, snapAttempt, verdict, thread, notifierVars, crashes>>

SpawnThread(r, t) ==
    /\ pc[r] = "agent"
    /\ RunOf[t] = r /\ cur[t]
    /\ thread' = [thread EXCEPT ![t] = "spawned"]
    /\ cur'    = [cur EXCEPT ![t] = FALSE]
    /\ Goto(r, "next")
    /\ UNCHANGED <<storeVars, batch, snapAttempt, verdict, notifierVars, crashes>>

AgentMissing(r, t) ==
    /\ pc[r] = "agent"
    /\ RunOf[t] = r /\ cur[t]
    /\ update_task_status(t, "failed")
    /\ cur' = [cur EXCEPT ![t] = FALSE]
    /\ Goto(r, "next")
    /\ UNCHANGED <<batch, snapAttempt, verdict, thread, notifierVars, crashes>>

BatchSpawned(r) ==
    /\ pc[r] = "next"
    /\ batch[r] = {}
    /\ Goto(r, "join")
    /\ UNCHANGED <<storeVars, batch, cur, snapAttempt, verdict, thread, notifierVars, crashes>>

(* Mutant: the handles are not awaited. *)
Join_nowait(r) ==
    /\ pc[r] = "join"
    /\ Goto(r, "fetch")
    /\ UNCHANGED <<storeVars, batch, cur, snapAttempt, verdict, thread, notifierVars, crashes>>

(* All handles of the round are awaited before the next fetch. *)
Join(r) ==
    /\ pc[r] = "join"
    /\ ThreadsOf(r) = {}
    /\ Goto(r, "fetch")
    /\ UNCHANGED <<storeVars, batch, cur, snapAttempt, verdict, thread, notifierVars, crashes>>

Decide(r) ==
    /\ pc[r] = "decide"
    /\ verdict' = [verdict EXCEPT ![r] = IF has_failed_tasks(r) THEN "failed" ELSE "completed"]
    /\ Goto(r, "final")
    /\ UNCHANGED <<storeVars, batch, cur, snapAttempt, thread, notifierVars, crashes>>

(* The final status replaces whatever the run's status is by now. *)
RecordVerdict(r) ==
    /\ pc[r] = "final"
    /\ update_run_status(r, verdict[r])
    /\ Goto(r, "announce")
    /\ UNCHANGED <<batch, cur, snapAttempt, verdict, thread, notifierVars, crashes>>

(* Mutant: the mark is set whether or not there was a target. *)
Announce_always(r) ==
    /\ pc[r] = "announce"
    /\ broadcast(r, verdict[r])
    /\ Goto(r, "sent")
    /\ UNCHANGED <<storeVars, batch, cur, snapAttempt, verdict, thread, crashes>>

(* Without a target nothing is marked and the heartbeat is left to catch up *)
Announce(r) ==
    /\ pc[r] = "announce"
    /\ broadcast(r, verdict[r])
    /\ Goto(r, IF targets THEN "sent" ELSE "done")
    /\ UNCHANGED <<storeVars, batch, cur, snapAttempt, verdict, thread, crashes>>

MarkSent(r) ==
    /\ pc[r] = "sent"
    /\ mark_notification_sent(r)
    /\ Goto(r, "done")
    /\ UNCHANGED <<batch, cur, snapAttempt, verdict, thread, notifierVars, crashes>>

-----------------------------------------------------------------------------
(* The spawned execution of task t *)

Become(t, s) == thread' = [thread EXCEPT ![t] = s]

(* try_acquire: a permit, or at once the "Concurrency limit" error. *)
Acquire(t) ==
    /\ thread[t] = "spawned"
    /\ Become(t, IF can_accept THEN "executing" ELSE "error")
    /\ UNCHANGED <<storeVars, loopVars, notifierVars, crashes>>

(* The agent answers, fails, or the 600 s limit drops the execution.  The  *)
(* permit is returned in each case.                                        *)
Finish(t) ==
    /\ thread[t] = "executing"
    /\ \E result \in {"ok", "error", "timeout"} : Become(t, result)
    /\ UNCHANGED <<storeVars, loopVars, notifierVars, crashes>>

(* A panic in the execution ends the spawned task; nothing is recorded and *)
(* the join only logs it.                                                  *)
Panic(t) ==
    /\ MayPanic
    /\ thread[t] = "executing"
    /\ Become(t, "none")
    /\ UNCHANGED <<storeVars, loopVars, notifierVars, crashes>>

RecordTimeout(t) ==
    /\ thread[t] = "timeout"
    /\ update_task_status(t, "failed")
    /\ Become(t, "none")
    /\ UNCHANGED <<loopVars, notifierVars, crashes>>

RecordSuccess(t) ==
    /\ thread[t] = "ok"
    /\ update_task_status(t, "completed")
    /\ Become(t, "publish")
    /\ UNCHANGED <<loopVars, notifierVars, crashes>>

(* The result is offered to the shared workspace, which may refuse it. *)
Publish(t) ==
    /\ thread[t] = "publish"
    /\ Become(t, "none")
    /\ UNCHANGED <<storeVars, loopVars, notifierVars, crashes>>

(* Mutant: off by one once more. *)
RetryAllowed_once_more(t) == snapAttempt[t] <= MaxRetries[t] + 1

(* The retry test uses the attempt of the snapshot. *)
RetryAllowed(t) == snapAttempt[t] <= MaxRetries[t]

RecordRetry(t) ==
    /\ thread[t] = "error"
    /\ RetryAllowed(t)
    /\ update_task_status(t, "retrying")
    /\ Become(t, "backoff")
    /\ UNCHANGED <<loopVars, notifierVars, crashes>>

RecordFailure(t) ==
    /\ thread[t] = "error"
    /\ ~RetryAllowed(t)
    /\ update_task_status(t, "failed")
    /\ Become(t, "none")
    /\ UNCHANGED <<loopVars, notifierVars, crashes>>

(* After the back-off the row is pending again, whatever it was. *)
BackoffEnds(t) ==
    /\ thread[t] = "backoff"
    /\ update_task_status(t, "pending")
    /\ Become(t, "none")
    /\ UNCHANGED <<loopVars, notifierVars, crashes>>

-----------------------------------------------------------------------------
(* The process dies; the rows stay.  Nothing looks for unfinished runs at  *)
(* start-up, so no loop is ever spawned again for a run that existed.      *)
Crash ==
    /\ crashes < MaxCrashes
    /\ crashes' = crashes + 1
    /\ pc'      = [r \in Runs |-> IF runStatus[r] = "absent" THEN "none" ELSE "lost"]
    /\ batch'   = [r \in Runs |-> {}]
    /\ cur'     = [t \in Tasks |-> FALSE]
    /\ thread'  = [t \in Tasks |-> "none"]
    /\ UNCHANGED <<storeVars, snapAttempt, verdict, notifierVars>>

LoopStep(r) ==
    \/ MarkRunRunning(r) \/ FetchRunnable(r) \/ CheckTerminal(r) \/ CheckLive(r)
    \/ Sleep(r) \/ BatchSpawned(r) \/ Join(r) \/ Decide(r) \/ RecordVerdict(r)
    \/ Announce(r) \/ MarkSent(r)
    \/ \E t \in Tasks : \/ TakeTask(r, t) \/ MarkTaskRunning(r, t)
                        \/ SpawnThread(r, t) \/ AgentMissing(r, t)

ThreadStep(t) ==
    \/ Acquire(t) \/ Finish(t) \/ Panic(t) \/ RecordTimeout(t) \/ RecordSuccess(t)
    \/ Publish(t) \/ RecordRetry(t) \/ RecordFailure(t) \/ BackoffEnds(t)

Reconfigure ==
    /\ SetTargets
    /\ UNCHANGED <<loopVars, thread, crashes>>

Command ==
    \/ Reconfigure
    \/ \E r \in Runs : Create(r) \/ Start(r) \/ Cancel(r)
    \/ \E t \in Tasks : AddTask(t)

Next ==
    \/ Command
    \/ \E r \in Runs : LoopStep(r)
    \/ \E t \in Tasks : ThreadStep(t)
    \/ Crash

Spec == Init /\ [][Next]_vars

=============================================================================
