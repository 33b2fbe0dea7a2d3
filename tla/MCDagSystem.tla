---------------------------- MODULE MCDagSystem ----------------------------
(* Instances of the DAG executor with the heartbeat for TLC. *)
EXTENDS DagSystem

CONSTANTS r1, a, l1, l2, c1, c2

(* One run of one task. *)
OneRun     == {r1}
OneTask    == {a}
TheRunOf   == [t \in Tasks |-> r1]
NoDeps     == [t \in Tasks |-> {}]
NoRetry    == [t \in Tasks |-> 0]

(* Bound: a second caller is followed, and what a start and a stop leave   *)
(* behind that crossed, while a target is configured, before there is a    *)
(* run and before the process has died.                                    *)
TwoCallers == hbpc[c2] # "idle" \/ crossed # "never"

BoundedNext ==
    /\ SysNext
    /\ TwoCallers' => targets' /\ crashes' = 0 /\ \A r \in Runs : runStatus'[r] = "absent"

BoundedSpec == SysInit /\ [][BoundedNext]_sysVars /\ SysFairness
=============================================================================
