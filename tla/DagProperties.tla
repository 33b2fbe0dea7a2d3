--------------------------- MODULE DagProperties ---------------------------
(***************************************************************************)
(* What must hold of the DAG executor, the inductive invariant behind it,  *)
(* and the mapping to DagPromise.                                          *)
(***************************************************************************)
EXTENDS DagExecutor

(***************************************************************************)
(* Safety                                                                  *)
(***************************************************************************)

(* A task is started (its attempt counter moves) only when every task it   *)
(* has an edge to has completed and that task's execution is over, its     *)
(* result offered to the workspace.  The decision is made on a snapshot    *)
(* taken rounds of awaits before the start; nothing re-checks it.          *)
StartsAfterDependencies ==
    [][\A t \in Tasks : attempt'[t] # attempt[t] =>
          \A d \in edges[t] : taskStatus[d] = "completed" /\ thread[d] = "none"]_vars

(* A recorded outcome stands: no cancel, retry, late result or re-start    *)
(* changes the status of a task that has completed or failed, although     *)
(* update_task_status itself would.                                        *)
OutcomeIsFinal ==
    [][\A t \in Tasks : taskStatus[t] \in {"completed", "failed"} =>
          taskStatus'[t] = taskStatus[t]]_vars

(* A task runs at most max_retries + 2 times: the retry test reads the     *)
(* attempt number from before the start it belongs to.  Cancels that race  *)
(* with a back-off do not add executions.                                  *)
AttemptsBounded == \A t \in Tasks : attempt[t] <= MaxRetries[t] + 2

(* Rounds do not overlap: while the loop decides what to do next, and once *)
(* it has announced the run, no execution of that run is in flight to      *)
(* change the rows under it.                                               *)
RoundsDoNotOverlap ==
    \A r \in Runs : pc[r] \notin {"next", "mark", "agent", "join"} => ThreadsOf(r) = {}

(* A run reported completed has no failed, blocked or running task among   *)
(* those it was created with, nor one that was added later and has ever    *)
(* been started: a task added too late is not begun and left.              *)
CompletedRunIsDone ==
    \A r \in Runs : runStatus[r] = "completed" =>
        \A t \in Tasks : RunOf[t] = r /\ (t \in Defined \/ attempt[t] > 0) =>
            taskStatus[t] \in {"completed", "cancelled"}

(***************************************************************************)
(* The inductive invariant.  A task is with its loop (in the batch, or the *)
(* current one), or with a thread, or with nobody; never with two.         *)
(***************************************************************************)

Ready(t) == \A d \in edges[t] : taskStatus[d] = "completed" /\ thread[d] = "none"

BatchInv ==
    \A r \in Runs : \A t \in batch[r] :
        /\ RunOf[t] = r
        /\ pc[r] \in {"next", "mark", "agent"}
        /\ ~cur[t]
        /\ thread[t] = "none"
        /\ taskStatus[t] \in {"pending", "blocked", "cancelled"}
        /\ attempt[t] = snapAttempt[t]
        /\ snapAttempt[t] <= MaxRetries[t] + 1
        /\ Ready(t)

CurInv ==
    \A t \in Tasks : cur[t] =>
        /\ pc[RunOf[t]] \in {"mark", "agent"}
        /\ thread[t] = "none"
        /\ \A u \in Tasks : cur[u] /\ RunOf[u] = RunOf[t] => u = t
        /\ snapAttempt[t] <= MaxRetries[t] + 1
        /\ pc[RunOf[t]] = "mark" =>
              /\ taskStatus[t] \in {"pending", "blocked", "cancelled"}
              /\ attempt[t] = snapAttempt[t]
              /\ Ready(t)
        /\ pc[RunOf[t]] = "agent" =>
              /\ taskStatus[t] \in {"running", "cancelled"}
              /\ attempt[t] = snapAttempt[t] + 1

ThreadInv ==
    \A t \in Tasks : thread[t] # "none" =>
        /\ pc[RunOf[t]] \in {"next", "mark", "agent", "join"}
        /\ attempt[t] = snapAttempt[t] + 1
        /\ snapAttempt[t] <= MaxRetries[t] + 1
        /\ thread[t] \in {"spawned", "executing", "ok", "error", "timeout"}
              => taskStatus[t] \in {"running", "cancelled"}
        /\ thread[t] = "backoff" => /\ taskStatus[t] \in {"retrying", "cancelled"}
                                    /\ snapAttempt[t] <= MaxRetries[t]
        /\ thread[t] = "publish" => taskStatus[t] = "completed"

RowInv ==
    \A t \in Tasks :
        /\ \A d \in edges[t] : RunOf[d] = RunOf[t]
        /\ runStatus[RunOf[t]] = "absent" => taskStatus[t] = "absent"
        /\ attempt[t] <= MaxRetries[t] + 2
        /\ taskStatus[t] \in {"absent", "pending", "blocked"} => attempt[t] <= MaxRetries[t] + 1
        /\ taskStatus[t] = "absent" => attempt[t] = 0

IInv == TypeOK /\ BatchInv /\ CurInv /\ ThreadInv /\ RowInv

(***************************************************************************)
(* The executor implements DagPromise                                      *)
(***************************************************************************)

(* In the hands of an execution: marked by the loop and about to be        *)
(* spawned, or spawned and not yet over.                                   *)
InExecution(t) == thread[t] # "none" \/ (cur[t] /\ pc[RunOf[t]] = "agent")

promiseState ==
    [t \in Tasks |->
        IF taskStatus[t] \in {"absent", "completed", "failed"} THEN taskStatus[t]
        ELSE IF InExecution(t) THEN "active" ELSE "idle"]

Promise == INSTANCE DagPromise WITH state <- promiseState, needs <- edges

(* Every step of the executor is a step of the promise, or invisible to it.*)
ImplementsPromise == Promise!Spec

(***************************************************************************)
(* Liveness                                                                *)
(***************************************************************************)

(* tokio runs every spawned task and timer; an execution ends within its   *)
(* timeout.  Commands and crashes are not owed.                            *)
Fairness ==
    /\ \A r \in Runs : WF_vars(LoopStep(r))
    /\ \A t \in Tasks : WF_vars(ThreadStep(t))

FairSpec == Spec /\ Fairness

(* The body of the execution of t panicked: its row says running, and      *)
(* nobody is left to change it.                                            *)
Abandoned(t) == taskStatus[t] = "running" /\ thread[t] = "none" /\ ~cur[t]

(* At every moment a started run that has not come to its end, announced,  *)
(* will, whatever is cancelled or added meanwhile, even when failed or     *)
(* cyclic dependencies leave tasks that can never run: unless the process  *)
(* dies, or a task whose execution panicked is left running for ever.      *)
StartedRunEnds ==
    \A r \in Runs : pc[r] # "none" ~>
        pc[r] \in {"done", "lost"} \/ \E t \in TasksOf(r) : Abandoned(t)

(***************************************************************************)
(* What comments and documentation say, and the code does otherwise        *)
(***************************************************************************)

(* dag/executor.rs: "Cancel a running DAG": a cancelled run does not turn   *)
(* into a completed or failed one.                                         *)
CancelledRunStays ==
    [][\A r \in Runs : runStatus[r] = "cancelled" =>
          runStatus'[r] \notin {"completed", "failed"}]_vars

=============================================================================
