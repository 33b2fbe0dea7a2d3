------------------------------- MODULE MCDag -------------------------------
(* Instances of the DAG executor for TLC. *)
EXTENDS DagProperties

CONSTANTS r1, a, b, c, d

(* A run of a and b, where b waits for a and names c, which is not in the  *)
(* definition; c may be added at any moment and waits for a too, so that b *)
(* and c may be ready together.  A fourth task waits for itself and may be *)
(* added as well.  b may be retried once.                                  *)
OneRun      == {r1}
ForkTasks   == {a, b, c, d}
ForkRunOf   == [t \in ForkTasks |-> r1]
ForkDefined == {a, b}
ForkDeps    == [t \in ForkTasks |-> CASE t = a -> {} [] t = b -> {a, c} [] t = c -> {a} [] t = d -> {d}]
ForkRetry   == [t \in ForkTasks |-> IF t = b THEN 1 ELSE 0]

(* Two tasks side by side, neither retried. *)
SideTasks  == {a, b}
SideRunOf  == [t \in SideTasks |-> r1]
SideDeps   == [t \in SideTasks |-> {}]
SideRetry  == [t \in SideTasks |-> 0]
=============================================================================
