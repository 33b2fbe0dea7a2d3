---------------------------- MODULE MCTurnLocks ----------------------------
(* An instance of TurnLocks for TLC. *)
EXTENDS TurnLocks, TLC

CONSTANTS t1, t2, p1

TwoTurns == {t1, t2}
OneTask  == {p1}
=============================================================================
