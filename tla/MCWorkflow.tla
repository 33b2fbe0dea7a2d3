----------------------------- MODULE MCWorkflow -----------------------------
(* An instance of Workflow for TLC: a run of two parallel steps and two    *)
(* that wait for them, one with a condition and one a loop with retries;   *)
(* a run of two serial steps, the first of which may abort it, and one     *)
(* that waits for a name no step has; and a run without a step, so that    *)
(* two finished runs fight for one place while the third is going.         *)
EXTENDS Workflow, TLC

CONSTANTS r1, r2, r3, a, b, c, d, x, y, z, nobody

ThreeRuns == {r1, r2, r3}
SevenSteps == {a, b, c, d, x, y, z}
SevenRunOf == [s \in SevenSteps |-> IF s \in {x, y, z} THEN r2 ELSE r1]
SevenPosition == a :> 1 @@ b :> 2 @@ c :> 3 @@ d :> 4 @@ x :> 1 @@ y :> 2 @@ z :> 3
SevenNeeds == [s \in SevenSteps |-> CASE s = c -> {a} [] s = d -> {a, b} [] s = z -> {nobody} [] OTHER -> {}]
SevenPolicy == [s \in SevenSteps |-> CASE s \in {a, d} -> "retry" [] s \in {b, x} -> "abort" [] OTHER -> "skip"]
OneRetry == [s \in SevenSteps |-> IF s \in {a, d} THEN 1 ELSE 0]
=============================================================================
