----------------------------- MODULE DagSystem -----------------------------
(***************************************************************************)
(* DAG runs and their notifications together: the executor's loops tell    *)
(* the user themselves when a run ends, and the heartbeat catches up on    *)
(* what they could not.  Both go through the same dispatcher and mark the  *)
(* same column of the store.                                               *)
(***************************************************************************)
EXTENDS DagExecutor

CONSTANTS Loops, Callers

ASSUME SystemAssumption ==
    /\ Loops \cap Callers = {}
    /\ IsFiniteSet(Loops \cup Callers)

VARIABLES enabled, isRunning, handle, hbpc, mine, rows, telling

(* History: whether a start() and a stop() of the heartbeat have crossed,  *)
(* each between its two steps: never in this life of the process, or       *)
(* before the last stop() that had none to cross, or since.                *)
VARIABLE crossed

HB == INSTANCE Heartbeat

hbVars == <<enabled, isRunning, handle, hbpc, mine, rows, telling, crossed>>
execVars == <<loopVars, thread, crashes>>
sysVars == <<vars, hbVars>>

SysTypeOK ==
    /\ TypeOK
    /\ HB!HbTypeOK
    /\ crossed \in {"never", "before", "now"}

SysInit == Init /\ HB!HbInit /\ crossed = "never"

Running == Command \/ (\E r \in Runs : LoopStep(r)) \/ (\E t \in Tasks : ThreadStep(t))

(* A stop() that clears the flag while no start() holds it without a       *)
(* handle undoes an earlier crossing, if it meets none before it ends.     *)
Crosses ==
    crossed' = IF HB!Spawning' /\ HB!Stopping' THEN "now"
               ELSE IF /\ crossed = "now" /\ ~HB!Spawning
                       /\ \E c \in Callers : HB!StopClearFlag(c)
               THEN "before" ELSE crossed

SysNext ==
    \/ Running /\ UNCHANGED hbVars
    \/ HB!HbNext /\ UNCHANGED execVars /\ Crosses
    \/ Crash /\ HB!HbReset /\ crossed' = "never"

SysSpec == SysInit /\ [][SysNext]_sysVars

(* tokio runs every task and timer; the commands are owed to nobody. *)
SysFairness ==
    /\ \A r \in Runs : WF_sysVars(LoopStep(r) /\ UNCHANGED hbVars)
    /\ \A t \in Tasks : WF_sysVars(ThreadStep(t) /\ UNCHANGED hbVars)
    /\ \A p \in HB!Actors : WF_sysVars(HB!ActorStep(p) /\ UNCHANGED execVars /\ Crosses)

FairSysSpec == SysSpec /\ SysFairness

-----------------------------------------------------------------------------
(* A run that is marked as notified really was the subject of a message,   *)
(* whoever marked it and however often the process died in between.        *)
NotifiedWasTold ==
    \A r \in Runs : notified[r] => \E v \in Verdicts : deliveries[r][v] > 0

(* The executor and the catch-up scans never tell the user different       *)
(* outcomes of one run, and never one before the run has ended.            *)
MessagesAgree ==
    \A r \in Runs :
        /\ ~(deliveries[r]["completed"] > 0 /\ deliveries[r]["failed"] > 0)
        /\ (\E v \in Verdicts : deliveries[r][v] > 0) =>
               runStatus[r] \in {"completed", "failed", "cancelled"}

(* A run is announced at most once by its loop and once by each heartbeat  *)
(* loop or caller, per life of the process.                                *)
DuplicatesBounded ==
    \A r \in Runs : \A v \in Verdicts :
        deliveries[r][v] <= (1 + Cardinality(HB!Actors)) * (1 + crashes)

ManagerQuiet == \A c \in Callers : hbpc[c] \notin {"start", "setflag", "spawn", "store", "stop", "abort"}

(* When no start or stop is under way, is_running tells whether the manager*)
(* has a loop, and the handle that it has is of a loop that lives: unless a*)
(* start() and a stop() have crossed and no stop() has had its way since.  *)
(* Where none has ever crossed, no other loop lives either; a crossing may *)
(* leave one behind that nobody can abort.                                 *)
FlagTellsLoop ==
    ManagerQuiet =>
        /\ crossed # "now" => /\ isRunning <=> handle # {}
                              /\ handle \subseteq HB!Alive
        /\ crossed = "never" => HB!Alive \subseteq handle

(* With a heartbeat that keeps running, within its active hours from some  *)
(* moment on, and a target that stays configured, every run that ends is   *)
(* eventually marked as notified, unless the user cancels it first: also   *)
(* one that ended when nobody could be told, and one whose loop died       *)
(* between the final status and the message.  (After a crossing is_running *)
(* may be set with no loop at all.)                                        *)
EndedRunsAreNotified ==
    (<>[](isRunning /\ crossed # "now" /\ targets)) /\ <>[][\A l \in Loops : ~HB!SkipTick(l)]_sysVars =>
        \A r \in Runs : runStatus[r] \in {"completed", "failed"} ~>
                            notified[r] \/ runStatus[r] = "cancelled"

=============================================================================
