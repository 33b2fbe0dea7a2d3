---------------------------- MODULE MCScheduler ----------------------------
(* An instance of Scheduler for TLC: a task with a cron expression, and a  *)
(* plain one that may be added, both due in the second and third minute.   *)
EXTENDS Scheduler, TLC

CONSTANTS c, p, w1, w2, user

TwoTasks == {c, p}
SomeMinutes == c :> {2, 3} @@ p :> {2, 3}
OneMinute == [t \in TwoTasks |-> 1]
=============================================================================
