----------------------------- MODULE MCToolLoop -----------------------------
(* Instances of ToolLoop for TLC. *)
EXTENDS ToolLoop, TLC

CONSTANTS a, b

TwoTurns == {a, b}
P(gui, route) == [gui |-> gui, route |-> route]
Each(p) == [t \in TwoTurns |-> p]
Say(text, uses) == [text |-> text, uses |-> uses]

Scene(alone, profile, answers, max, iterations, n) ==
  [alone |-> alone, profile |-> profile, answers |-> answers, limit |-> max,
   iterations |-> iterations, commands |-> n]

\* One turn after the other, with commands in between.
InTurn == {Scene(TRUE, Each(p), {Say(TRUE, 0), Say(TRUE, 1), Say(FALSE, 2)}, max, 1, 2) :
             p \in {P(TRUE, "bridge"), P(FALSE, "local")}, max \in {3, 5}}
Longer == {Scene(TRUE, Each(p), {Say(TRUE, 0), Say(FALSE, 2)}, 5, 2, 0) :
             p \in {P(TRUE, "direct"), P(FALSE, "bridge")}}
\* Two turns at once in one client, and a command.
AtOnce == {Scene(FALSE, Each(P(TRUE, "bridge")), {Say(TRUE, 0), Say(FALSE, 2)}, 5, 1, 0)}
ButOne == {Scene(FALSE, Each(P(FALSE, "local")), {Say(TRUE, 0), Say(FALSE, 1)}, 5, 1, 0)}
Meddle == {Scene(FALSE, Each(P(FALSE, "bridge")), {Say(TRUE, 0), Say(TRUE, 1)}, 3, 1, 1)}
\* A turn in each client, and the limit lowered while a compaction waits.
Lowered == {Scene(FALSE, [t \in TwoTurns |-> P(t = b, "local")], {Say(FALSE, 1)}, 5, 0, 2)}
SomeScenes == InTurn \cup Longer \cup AtOnce \cup ButOne \cup Meddle \cup Lowered

OldSession == <<UserText("saved"), Answer("saved", <<>>)>>
=============================================================================
