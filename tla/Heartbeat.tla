----------------------------- MODULE Heartbeat -----------------------------
(***************************************************************************)
(* The heartbeat manager (heartbeat.rs): a background loop that re-sends   *)
(* the notifications of finished runs nobody was told about, and the       *)
(* commands that start, stop and reconfigure it or run one tick by hand.   *)
(* Commands are async and may overlap; an action is what a command or the  *)
(* loop does between two points where another may run.                     *)
(*                                                                         *)
(* Abstracted: interval lengths, the result record of a tick, the LIMIT of *)
(* the scan, the moment before services are injected at start-up.          *)
(***************************************************************************)
EXTENDS Notifier

CONSTANTS
    Loops,         \* bound: the loop tasks that may ever be spawned
    Callers        \* concurrent callers of the commands

VARIABLES
    enabled,    \* config.enabled
    isRunning,  \* is_running
    handle,     \* the loops whose handle is in task_handle: none or one
    hbpc,       \* where each loop and each caller is
    mine,       \* mine[c]: the loop caller c has spawned
    rows,       \* what is left of the unsent runs a tick has read
    telling     \* the run a tick is sending for

hbVars == <<enabled, isRunning, handle, hbpc, mine, rows, telling>>

Actors == Loops \cup Callers

HbStates ==
    {"unborn", "check", "hours", "scan", "rows", "mark", "asleep", "gone",
     "idle", "start", "setflag", "spawn", "store", "stop", "abort"}

HbTypeOK ==
    /\ enabled   \in BOOLEAN
    /\ isRunning \in BOOLEAN
    /\ handle    \in SUBSET Loops
    /\ hbpc      \in [Actors -> HbStates]
    /\ mine      \in [Callers -> SUBSET Loops]
    /\ rows      \in [Actors -> SUBSET (Runs \X Verdicts)]
    /\ telling   \in [Actors -> SUBSET Runs]

HbInit ==
    /\ enabled   = FALSE
    /\ isRunning = FALSE
    /\ handle    = {}
    /\ hbpc      = [p \in Actors |-> IF p \in Loops THEN "unborn" ELSE "idle"]
    /\ mine      = [c \in Callers |-> {}]
    /\ rows      = [p \in Actors |-> {}]
    /\ telling   = [p \in Actors |-> {}]

Move(p, s) == hbpc' = [hbpc EXCEPT ![p] = s]

Alive == {l \in Loops : hbpc[l] \notin {"unborn", "gone"}}

(* start() has set the flag and not kept the handle of its loop yet;       *)
(* stop() has cleared the flag and not taken the handle yet.               *)
Spawning == \E c \in Callers : hbpc[c] \in {"spawn", "store"}
Stopping == \E c \in Callers : hbpc[c] = "abort"

Starting == {c \in Callers : hbpc[c] \in {"start", "setflag", "spawn"}}
MaySpawn == Cardinality({l \in Loops : hbpc[l] = "unborn"}) > Cardinality(Starting)

-----------------------------------------------------------------------------
(* Commands: start(), stop(), update_config(), trigger_now() *)

CallStart(c) ==
    /\ hbpc[c] = "idle"
    /\ MaySpawn
    /\ Move(c, "start")
    /\ UNCHANGED <<enabled, isRunning, handle, mine, rows, telling>>

CallStop(c) ==
    /\ hbpc[c] = "idle"
    /\ Move(c, "stop")
    /\ UNCHANGED <<enabled, isRunning, handle, mine, rows, telling>>

(* The new config is in place when the lock is released; only then is the  *)
(* loop started or stopped.                                                *)
CallUpdateConfig(c) ==
    /\ hbpc[c] = "idle"
    /\ \E on \in BOOLEAN :
          /\ on => MaySpawn
          /\ enabled' = on
          /\ Move(c, IF on = enabled THEN "idle" ELSE IF on THEN "start" ELSE "stop")
    /\ UNCHANGED <<isRunning, handle, mine, rows, telling>>

CallTrigger(c) ==
    /\ hbpc[c] = "idle"
    /\ Move(c, "scan")
    /\ UNCHANGED <<enabled, isRunning, handle, mine, rows, telling>>

(* start(): under the config lock, give up when disabled ... *)
StartCheck(c) ==
    /\ hbpc[c] = "start"
    /\ Move(c, IF enabled THEN "setflag" ELSE "idle")
    /\ UNCHANGED <<enabled, isRunning, handle, mine, rows, telling>>

(* Mutant: the flag is not looked at. *)
StartSetFlag_blind(c) ==
    /\ hbpc[c] = "setflag"
    /\ isRunning' = TRUE
    /\ Move(c, "spawn")
    /\ UNCHANGED <<enabled, handle, mine, rows, telling>>

(* ... under the flag's lock, give up when already running ... *)
StartSetFlag(c) ==
    /\ hbpc[c] = "setflag"
    /\ isRunning' = TRUE
    /\ Move(c, IF isRunning THEN "idle" ELSE "spawn")
    /\ UNCHANGED <<enabled, handle, mine, rows, telling>>

(* ... with no lock held, spawn the loop, and then keep its handle. *)
StartSpawn(c, l) ==
    /\ hbpc[c] = "spawn"
    /\ hbpc[l] = "unborn"
    /\ hbpc' = [hbpc EXCEPT ![c] = "store", ![l] = "check"]
    /\ mine' = [mine EXCEPT ![c] = {l}]
    /\ UNCHANGED <<enabled, isRunning, handle, rows, telling>>

StartStoreHandle(c) ==
    /\ hbpc[c] = "store"
    /\ handle' = mine[c]
    /\ mine'   = [mine EXCEPT ![c] = {}]
    /\ Move(c, "idle")
    /\ UNCHANGED <<enabled, isRunning, rows, telling>>

StopClearFlag(c) ==
    /\ hbpc[c] = "stop"
    /\ isRunning' = FALSE
    /\ Move(c, "abort")
    /\ UNCHANGED <<enabled, handle, mine, rows, telling>>

(* The loop whose handle is kept, if any, is dropped where it waits. *)
StopAbort(c) ==
    /\ hbpc[c] = "abort"
    /\ hbpc'    = [p \in Actors |-> IF p \in handle THEN "gone"
                                    ELSE IF p = c THEN "idle" ELSE hbpc[p]]
    /\ rows'    = [p \in Actors |-> IF p \in handle THEN {} ELSE rows[p]]
    /\ telling' = [p \in Actors |-> IF p \in handle THEN {} ELSE telling[p]]
    /\ handle'  = {}
    /\ UNCHANGED <<enabled, isRunning, mine>>

-----------------------------------------------------------------------------
(* The loop *)

LoopCheck(l) ==
    /\ hbpc[l] = "check"
    /\ Move(l, IF isRunning THEN "hours" ELSE "gone")
    /\ UNCHANGED <<enabled, isRunning, handle, mine, rows, telling>>

LoopHours(l) ==
    /\ hbpc[l] = "hours"
    /\ Move(l, "scan")
    /\ UNCHANGED <<enabled, isRunning, handle, mine, rows, telling>>

(* Outside the active hours a tick is skipped.                             *)
SkipTick(l) ==
    /\ hbpc[l] = "hours"
    /\ Move(l, "asleep")
    /\ UNCHANGED <<enabled, isRunning, handle, mine, rows, telling>>

LoopWake(l) ==
    /\ hbpc[l] = "asleep"
    /\ Move(l, "check")
    /\ UNCHANGED <<enabled, isRunning, handle, mine, rows, telling>>

-----------------------------------------------------------------------------
(* One tick (perform_heartbeat), by the loop or by trigger_now *)

Scan(p) ==
    /\ hbpc[p] = "scan"
    /\ rows' = [rows EXCEPT ![p] = {<<r, runStatus[r]>> : r \in get_unsent_completed_runs}]
    /\ Move(p, "rows")
    /\ UNCHANGED <<storeVars, notifierVars, enabled, isRunning, handle, mine, telling>>

(* Mutant: failures are reported as completions. *)
Tell_completed(p, r, v) ==
    /\ hbpc[p] = "rows"
    /\ <<r, v>> \in rows[p]
    /\ rows' = [rows EXCEPT ![p] = @ \ {<<r, v>>}]
    /\ broadcast(r, "completed")
    /\ Move(p, IF targets THEN "mark" ELSE "rows")
    /\ telling' = [telling EXCEPT ![p] = IF targets THEN {r} ELSE {}]
    /\ UNCHANGED <<storeVars, enabled, isRunning, handle, mine>>

(* The message carries the status the scan has read. *)
Tell(p, r, v) ==
    /\ hbpc[p] = "rows"
    /\ <<r, v>> \in rows[p]
    /\ rows' = [rows EXCEPT ![p] = @ \ {<<r, v>>}]
    /\ broadcast(r, v)
    /\ Move(p, IF targets THEN "mark" ELSE "rows")
    /\ telling' = [telling EXCEPT ![p] = IF targets THEN {r} ELSE {}]
    /\ UNCHANGED <<storeVars, enabled, isRunning, handle, mine>>

Mark(p, r) ==
    /\ hbpc[p] = "mark"
    /\ r \in telling[p]
    /\ mark_notification_sent(r)
    /\ telling' = [telling EXCEPT ![p] = {}]
    /\ Move(p, "rows")
    /\ UNCHANGED <<notifierVars, enabled, isRunning, handle, mine, rows>>

TickDone(p) ==
    /\ hbpc[p] = "rows"
    /\ rows[p] = {}
    /\ Move(p, IF p \in Loops THEN "asleep" ELSE "idle")
    /\ UNCHANGED <<storeVars, notifierVars, enabled, isRunning, handle, mine, rows, telling>>

-----------------------------------------------------------------------------
Tick(p) ==
    \/ Scan(p) \/ TickDone(p)
    \/ \E r \in Runs : Mark(p, r) \/ \E v \in Verdicts : Tell(p, r, v)

LoopOwn(l) == LoopCheck(l) \/ LoopHours(l) \/ SkipTick(l) \/ LoopWake(l)

CallerOwn(c) ==
    \/ StartCheck(c) \/ StartSetFlag(c) \/ (\E l \in Loops : StartSpawn(c, l))
    \/ StartStoreHandle(c) \/ StopClearFlag(c) \/ StopAbort(c)

Call(c) == CallStart(c) \/ CallStop(c) \/ CallUpdateConfig(c) \/ CallTrigger(c)

(* What one actor does by itself once it is under way. *)
ActorStep(p) ==
    \/ Tick(p)
    \/ /\ \/ p \in Loops /\ LoopOwn(p)
          \/ p \in Callers /\ CallerOwn(p)
       /\ UNCHANGED <<storeVars, notifierVars>>

HbNext ==
    \/ \E p \in Actors : ActorStep(p)
    \/ \E c \in Callers : Call(c) /\ UNCHANGED <<storeVars, notifierVars>>

(* The process restarts: a new manager, disabled, as at start-up. *)
HbReset ==
    /\ enabled'   = FALSE
    /\ isRunning' = FALSE
    /\ handle'    = {}
    /\ hbpc'      = [p \in Actors |-> IF p \in Callers THEN "idle"
                                      ELSE IF hbpc[p] = "unborn" THEN "unborn" ELSE "gone"]
    /\ mine'      = [c \in Callers |-> {}]
    /\ rows'      = [p \in Actors |-> {}]
    /\ telling'   = [p \in Actors |-> {}]

=============================================================================
