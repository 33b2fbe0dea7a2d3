------------------------------ MODULE DagStore ------------------------------
(***************************************************************************)
(* The SQLite store of DAG runs (dag/store.rs).  Every caller holds the    *)
(* std Mutex around the connection while it calls a method, so each method *)
(* is one atomic step; this module gives its effect on the rows.  Rows are *)
(* never deleted and survive a crash of the process.                       *)
(*                                                                         *)
(* Abstracted: names, timestamps, task texts and the history table (an     *)
(* append-only log nothing reads back); SQLite errors.                     *)
(***************************************************************************)
EXTENDS Integers, FiniteSets

CONSTANTS
    Runs,          \* run ids
    Tasks,         \* task ids, of all runs
    RunOf,         \* RunOf[t]: the run task t belongs to (dag_tasks.run_id)
    Defined,       \* tasks of the definitions create_run is given
    DependsOn,     \* DependsOn[t]: the tasks named by depends_on of t
    MaxRetries     \* MaxRetries[t]: max_retries of t

(***************************************************************************)
(* A key may name a task of the same run that does not exist yet, or never *)
(* will: a task of Tasks \ Defined exists only once it is added.           *)
(***************************************************************************)
ASSUME StoreAssumption ==
    /\ RunOf \in [Tasks -> Runs]
    /\ Defined \subseteq Tasks
    /\ DependsOn \in [Tasks -> SUBSET Tasks]
    /\ \A t \in Tasks : \A d \in DependsOn[t] : RunOf[d] = RunOf[t]
    /\ MaxRetries \in [Tasks -> Nat]

VARIABLES
    runStatus,     \* dag_runs.status, "absent" before the row exists
    taskStatus,    \* dag_tasks.status, "absent" before the row exists
    attempt,       \* dag_tasks.attempt
    edges,         \* edges[t]: the rows (t, _) of dag_task_deps
    notified       \* dag_runs.notification_sent

storeVars == <<runStatus, taskStatus, attempt, edges, notified>>

RunStatuses  == {"absent", "pending", "running", "completed", "failed", "cancelled"}
TaskStatuses == {"absent", "pending", "blocked", "running", "retrying",
                 "completed", "failed", "cancelled"}
Terminal     == {"completed", "failed", "cancelled"}

StoreTypeOK ==
    /\ runStatus  \in [Runs -> RunStatuses]
    /\ taskStatus \in [Tasks -> TaskStatuses]
    /\ attempt    \in [Tasks -> Nat]
    /\ edges      \in [Tasks -> SUBSET Tasks]
    /\ notified   \in [Runs -> BOOLEAN]

StoreInit ==
    /\ runStatus  = [r \in Runs |-> "absent"]
    /\ taskStatus = [t \in Tasks |-> "absent"]
    /\ attempt    = [t \in Tasks |-> 0]
    /\ edges      = [t \in Tasks |-> {}]
    /\ notified   = [r \in Runs |-> FALSE]

-----------------------------------------------------------------------------
(* Queries *)

TasksOf(r) == {t \in Tasks : RunOf[t] = r /\ taskStatus[t] # "absent"}

(* Mutants: a failed dependency counts as done; failed tasks are taken up  *)
(* again.                                                                  *)
runnable_deps_terminal(r) ==
    {t \in TasksOf(r) : /\ taskStatus[t] \in {"pending", "blocked"}
                        /\ \A d \in edges[t] : taskStatus[d] \in Terminal}
runnable_failed_too(r) ==
    {t \in TasksOf(r) : /\ taskStatus[t] \in {"pending", "blocked", "failed"}
                        /\ \A d \in edges[t] : taskStatus[d] = "completed"}

get_runnable_tasks(r) ==
    {t \in TasksOf(r) : /\ taskStatus[t] \in {"pending", "blocked"}
                        /\ \A d \in edges[t] : taskStatus[d] = "completed"}

all_tasks_terminal(r) == \A t \in TasksOf(r) : taskStatus[t] \in Terminal

(* Mutant: a run has failed only if all its tasks have. *)
has_failed_all(r) == \A t \in TasksOf(r) : taskStatus[t] = "failed"

has_failed_tasks(r) == \E t \in TasksOf(r) : taskStatus[t] = "failed"

(* Mutant: only failures are caught up. *)
get_unsent_failed == {r \in Runs : runStatus[r] = "failed" /\ ~notified[r]}

get_unsent_completed_runs ==
    {r \in Runs : runStatus[r] \in {"completed", "failed"} /\ ~notified[r]}

-----------------------------------------------------------------------------
(* Updates *)

(* Mutant: a status no reader knows. *)
initial_status_ready(t) == IF DependsOn[t] = {} THEN "ready" ELSE "blocked"

initial_status(t) == IF DependsOn[t] = {} THEN "pending" ELSE "blocked"

(* One IMMEDIATE transaction: the run, its tasks, and the edges between    *)
(* them; a key that names no task of the definition leaves no edge.        *)
create_run(r) ==
    LET new == {t \in Defined : RunOf[t] = r} IN
    /\ runStatus[r] = "absent"
    /\ runStatus'  = [runStatus EXCEPT ![r] = "pending"]
    /\ taskStatus' = [t \in Tasks |-> IF t \in new THEN initial_status(t)
                                                   ELSE taskStatus[t]]
    /\ edges'      = [t \in Tasks |-> IF t \in new THEN DependsOn[t] \cap new
                                                   ELSE edges[t]]
    /\ UNCHANGED <<attempt, notified>>

(* A task joins the run whatever the run's status is; an edge is made to   *)
(* each named task that exists by now, itself included, the other names    *)
(* are dropped.                                                            *)
add_task_to_run(t) ==
    /\ runStatus[RunOf[t]] # "absent"
    /\ taskStatus[t] = "absent"
    /\ t \notin Defined
    /\ taskStatus' = [taskStatus EXCEPT ![t] = initial_status(t)]
    /\ edges'      = [edges EXCEPT ![t] = DependsOn[t] \cap ({t} \cup TasksOf(RunOf[t]))]
    /\ UNCHANGED <<runStatus, attempt, notified>>

(* No guard on the status being replaced. *)
update_run_status(r, s) ==
    /\ runStatus' = [runStatus EXCEPT ![r] = s]
    /\ UNCHANGED <<taskStatus, attempt, edges, notified>>

(* No guard on the status being replaced; "running" counts an attempt. *)
update_task_status(t, s) ==
    /\ taskStatus' = [taskStatus EXCEPT ![t] = s]
    /\ attempt'    = IF s = "running" THEN [attempt EXCEPT ![t] = @ + 1] ELSE attempt
    /\ UNCHANGED <<runStatus, edges, notified>>

(* Mutant: the tasks are cancelled whatever their status. *)
cancel_all_tasks(r) ==
    /\ runStatus[r] # "absent"
    /\ taskStatus' = [t \in Tasks |-> IF t \in TasksOf(r) THEN "cancelled" ELSE taskStatus[t]]
    /\ runStatus'  = [runStatus EXCEPT ![r] = "cancelled"]
    /\ UNCHANGED <<attempt, edges, notified>>

(* cancel_run of the executor: cancel_pending_tasks and the run's status   *)
(* under one lock.                                                         *)
cancel_run(r) ==
    /\ runStatus[r] # "absent"
    /\ taskStatus' = [t \in Tasks |-> IF t \in TasksOf(r) /\ taskStatus[t] \notin Terminal
                                      THEN "cancelled" ELSE taskStatus[t]]
    /\ runStatus'  = [runStatus EXCEPT ![r] = "cancelled"]
    /\ UNCHANGED <<attempt, edges, notified>>

(* Mutant: no row matches. *)
mark_nothing(r) == r \in Runs /\ UNCHANGED storeVars

mark_notification_sent(r) ==
    /\ notified' = [notified EXCEPT ![r] = TRUE]
    /\ UNCHANGED <<runStatus, taskStatus, attempt, edges>>

=============================================================================
