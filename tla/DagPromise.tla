----------------------------- MODULE DagPromise -----------------------------
(***************************************************************************)
(* What the DAG executor promises about the tasks of its runs, with no     *)
(* loop, no snapshot, no store rows and no cancellation in sight: a task   *)
(* is worked on only once everything it needs has completed, by one        *)
(* execution at a time, and an outcome, once reached, stands.  (dag/mod.rs,*)
(* the module comment and the comment of depends_on.)                      *)
(***************************************************************************)
CONSTANT Tasks

VARIABLES
    state,   \* where each task is
    needs    \* the tasks it waits for, fixed when it enters

vars == <<state, needs>>

States == {"absent", "idle", "active", "completed", "failed"}

Init ==
    /\ state = [t \in Tasks |-> "absent"]
    /\ needs = [t \in Tasks |-> {}]

(* Some tasks enter, each with the tasks it will wait for. *)
Enter ==
    \E S \in SUBSET {t \in Tasks : state[t] = "absent"} :
        /\ state' = [t \in Tasks |-> IF t \in S THEN "idle" ELSE state[t]]
        /\ needs' \in [Tasks -> SUBSET Tasks]
        /\ \A t \in Tasks \ S : needs'[t] = needs[t]

Begin(t) ==
    /\ state[t] = "idle"
    /\ \A d \in needs[t] : state[d] = "completed"
    /\ state' = [state EXCEPT ![t] = "active"]
    /\ UNCHANGED needs

(* An execution ends with an outcome, or to be tried again. *)
End(t) ==
    /\ state[t] = "active"
    /\ \E s \in {"completed", "failed", "idle"} : state' = [state EXCEPT ![t] = s]
    /\ UNCHANGED needs

(* The process restarts: executions are gone, outcomes are not. *)
Restart ==
    /\ state' = [t \in Tasks |-> IF state[t] = "active" THEN "idle" ELSE state[t]]
    /\ UNCHANGED needs

Next ==
    \/ Enter
    \/ \E t \in Tasks : Begin(t) \/ End(t)
    \/ Restart

Spec == Init /\ [][Next]_vars

=============================================================================
