--------------------------- MODULE MCOrchestrate ---------------------------
(* Instances of orchestrations for TLC. *)
EXTENDS Orchestrate

CONSTANTS o1, o2, a, b, c, d, e, x

(* Two orchestrations call one agent.  In the first two subtasks run in    *)
(* parallel; in the second, which an execution has asked for, d waits for  *)
(* c and can never start when c panics, and e waits for itself.            *)
TwoOrchs == {o1, o2}
Five     == {a, b, c, d, e}
FiveOrch == [s \in Five |-> IF s \in {a, b} THEN o1 ELSE o2]
OneAgent == {x}
AllX     == [s \in Subtasks |-> x]
FiveDeps == [s \in Five |-> CASE s = d -> {c} [] s = e -> {e} [] OTHER -> {}]
=============================================================================
