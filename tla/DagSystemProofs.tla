--------------------------- MODULE DagSystemProofs ---------------------------
(***************************************************************************)
(* Proofs about DAG runs and their notifications together: the invariant   *)
(* of the executor survives the heartbeat, what the user is told of a run, *)
(* by whomever, is what became of it, and nobody tells it twice.           *)
(***************************************************************************)
EXTENDS DagSystem, DagProofs, FiniteSetTheorems

(* Run r is over, and v is how its loop had it recorded. *)
Concluded(r, v) == pc[r] \in Ended /\ runStatus[r] \in Terminal /\ verdict[r] = v

Told(r) == \E v \in Verdicts : deliveries[r][v] > 0

(* The recorded status of a finished run is its loop's verdict until the   *)
(* user cancels it.                                                        *)
OutcomeInv ==
    \A r \in Runs :
        /\ runStatus[r] \in Verdicts => Concluded(r, runStatus[r])
        /\ pc[r] \in {"announce", "sent", "done"} => runStatus[r] \in Terminal

(* What was sent, and what a tick has read and not sent yet, is the verdict*)
(* of a run that is over.                                                  *)
MessageInv ==
    /\ \A r \in Runs : \A v \in Verdicts : deliveries[r][v] > 0 => Concluded(r, v)
    /\ \A p \in HB!Actors : \A r \in Runs : \A v \in Verdicts :
          <<r, v>> \in rows[p] => Concluded(r, v)

(* Whoever has marked a run, or is about to, has sent the message.         *)
ToldInv ==
    /\ \A r \in Runs : notified[r] \/ pc[r] = "sent" => Told(r)
    /\ \A p \in HB!Actors : \A r \in telling[p] : Told(r)

SysInv == IInv /\ HB!HbTypeOK /\ ExistInv /\ OutcomeInv /\ MessageInv /\ ToldInv

-----------------------------------------------------------------------------
(* The heartbeat alone *)

(* One message more for the run it is about, or none. *)
LEMMA BroadcastCounts ==
  ASSUME NotifierTypeOK, NEW r \in Runs, NEW v \in Verdicts, broadcast(r, v)
  PROVE  /\ NotifierTypeOK'
         /\ \A q \in Runs : \A w \in Verdicts :
               /\ deliveries[q][w] \in Nat
               /\ \/ deliveries'[q][w] = deliveries[q][w]
                  \/ /\ q = r /\ w = v /\ targets
                     /\ deliveries'[q][w] = deliveries[q][w] + 1
         /\ targets => deliveries'[r][v] > 0
<1>1. CASE targets
  <2>1. deliveries' = [deliveries EXCEPT ![r][v] = @ + 1]
    BY <1>1 DEF broadcast
  <2>2. \A q \in Runs : \A w \in Verdicts :
           /\ deliveries[q][w] \in Nat
           /\ deliveries'[q][w] = IF q = r /\ w = v THEN deliveries[q][w] + 1 ELSE deliveries[q][w]
    BY <2>1 DEF NotifierTypeOK
  <2>3. deliveries' \in [Runs -> [Verdicts -> Nat]] /\ targets' \in BOOLEAN
    BY <2>1 DEF NotifierTypeOK, broadcast
  <2>4. QED  BY <1>1, <2>2, <2>3 DEF NotifierTypeOK
<1>2. CASE ~targets
  BY <1>2 DEF broadcast, NotifierTypeOK
<1>3. QED  BY <1>1, <1>2

(* A tick reads what to tell, tells it, marks it; every other step of the  *)
(* manager leaves the rows alone and adds nothing to what is to be told.   *)
Quietly ==
    /\ UNCHANGED <<storeVars, notifierVars>>
    /\ \A p \in HB!Actors : rows'[p] \subseteq rows[p] /\ telling'[p] \subseteq telling[p]

(* The steps of the manager that concern neither the store nor a tick. *)
LEMMA OwnIsQuiet ==
  ASSUME HB!HbTypeOK, UNCHANGED <<storeVars, notifierVars>>,
         \/ \E c \in Callers : HB!Call(c) \/ HB!CallerOwn(c)
         \/ \E l \in Loops : HB!LoopOwn(l)
  PROVE  HB!HbTypeOK' /\ Quietly
<1> USE DEF HB!HbTypeOK, HB!HbStates, HB!Actors, HB!Move, Quietly
<1>1. ASSUME NEW c \in Callers, HB!Call(c) PROVE HB!HbTypeOK' /\ Quietly
  BY <1>1 DEF HB!Call, HB!CallStart, HB!CallStop, HB!CallUpdateConfig, HB!CallTrigger
<1>2. ASSUME NEW l \in Loops, HB!LoopOwn(l) PROVE HB!HbTypeOK' /\ Quietly
  BY <1>2 DEF HB!LoopOwn, HB!LoopCheck, HB!LoopHours, HB!SkipTick, HB!LoopWake
<1>3. ASSUME NEW c \in Callers, HB!CallerOwn(c) PROVE HB!HbTypeOK' /\ Quietly
  <2>1. CASE HB!StartCheck(c) \/ HB!StartSetFlag(c)
    BY <2>1 DEF HB!StartCheck, HB!StartSetFlag
  <2>2. ASSUME NEW l \in Loops, HB!StartSpawn(c, l) PROVE HB!HbTypeOK' /\ Quietly
    BY <2>2 DEF HB!StartSpawn
  <2>3. CASE HB!StartStoreHandle(c) \/ HB!StopClearFlag(c)
    BY <2>3 DEF HB!StartStoreHandle, HB!StopClearFlag
  <2>4. CASE HB!StopAbort(c)
    BY <2>4 DEF HB!StopAbort
  <2>5. QED  BY <1>3, <2>1, <2>2, <2>3, <2>4 DEF HB!CallerOwn
<1>4. QED  BY <1>1, <1>2, <1>3

(* Reading what is unsent: nothing is read that is not so. *)
LEMMA ScanReads ==
  ASSUME HB!HbTypeOK, NEW p \in HB!Actors, HB!Scan(p)
  PROVE  /\ HB!HbTypeOK'
         /\ UNCHANGED <<storeVars, notifierVars, telling>>
         /\ \A q \in HB!Actors : \A r \in Runs : \A v \in Verdicts :
               <<r, v>> \in rows'[q] =>
                  <<r, v>> \in rows[q] \/ (q = p /\ runStatus[r] = v /\ ~notified[r])
<1> DEFINE unsent == {<<r, runStatus[r]>> : r \in HB!get_unsent_completed_runs}
<1>1. rows' = [rows EXCEPT ![p] = unsent]
  BY DEF HB!Scan
<1>2. unsent \in SUBSET (Runs \X Verdicts)
  BY DEF HB!get_unsent_completed_runs, Verdicts
<1>3. \A r \in Runs : \A v \in Verdicts :
         <<r, v>> \in unsent => runStatus[r] = v /\ ~notified[r]
  BY DEF HB!get_unsent_completed_runs
<1> HIDE DEF unsent
<1>4. HB!HbTypeOK'
  BY <1>1, <1>2 DEF HB!Scan, HB!HbTypeOK, HB!HbStates, HB!Actors, HB!Move, Verdicts, HB!Verdicts
<1>5. UNCHANGED <<storeVars, notifierVars, telling>>
  BY DEF HB!Scan, HB!storeVars, storeVars, HB!notifierVars, notifierVars
<1>6. \A q \in HB!Actors : \A r \in Runs : \A v \in Verdicts :
         <<r, v>> \in rows'[q] =>
            <<r, v>> \in rows[q] \/ (q = p /\ runStatus[r] = v /\ ~notified[r])
  BY <1>1, <1>3 DEF HB!HbTypeOK
<1>7. QED  BY <1>4, <1>5, <1>6

(* One row of the tick is sent, if anybody can be told. *)
LEMMA TellSends ==
  ASSUME HB!HbTypeOK, NotifierTypeOK, NEW p \in HB!Actors, NEW r \in Runs, NEW v \in Verdicts,
         HB!Tell(p, r, v)
  PROVE  /\ HB!HbTypeOK'
         /\ UNCHANGED storeVars
         /\ <<r, v>> \in rows[p] /\ broadcast(r, v)
         /\ \A q \in HB!Actors : rows'[q] \subseteq rows[q]
         /\ \A q \in HB!Actors : \A s \in telling'[q] : s \in telling[q] \/ (s = r /\ targets)
<1>1. broadcast(r, v) /\ <<r, v>> \in rows[p] /\ UNCHANGED storeVars
  BY DEF HB!Tell, HB!broadcast, broadcast, HB!storeVars, storeVars
<1>2. /\ rows' = [rows EXCEPT ![p] = @ \ {<<r, v>>}]
      /\ telling' = [telling EXCEPT ![p] = IF targets THEN {r} ELSE {}]
      /\ hbpc' = [hbpc EXCEPT ![p] = IF targets THEN "mark" ELSE "rows"]
      /\ UNCHANGED <<enabled, isRunning, handle, mine>>
  BY DEF HB!Tell, HB!Move
<1>3. HB!HbTypeOK'
  BY <1>2 DEF HB!HbTypeOK, HB!HbStates, HB!Actors
<1>4. \A q \in HB!Actors : rows'[q] \subseteq rows[q]
  BY <1>2 DEF HB!HbTypeOK
<1>5. \A q \in HB!Actors : \A s \in telling'[q] : s \in telling[q] \/ (s = r /\ targets)
  BY <1>2 DEF HB!HbTypeOK
<1>6. QED  BY <1>1, <1>3, <1>4, <1>5

(* The run that was told of is marked. *)
LEMMA MarkMarks ==
  ASSUME HB!HbTypeOK, NEW p \in HB!Actors, NEW r \in Runs, HB!Mark(p, r)
  PROVE  /\ HB!HbTypeOK'
         /\ UNCHANGED <<runStatus, taskStatus, attempt, edges, notifierVars, rows>>
         /\ r \in telling[p] /\ notified' = [notified EXCEPT ![r] = TRUE]
         /\ \A q \in HB!Actors : telling'[q] \subseteq telling[q]
<1>1. /\ UNCHANGED <<runStatus, taskStatus, attempt, edges, notifierVars, rows>>
      /\ r \in telling[p] /\ notified' = [notified EXCEPT ![r] = TRUE]
  BY DEF HB!Mark, HB!mark_notification_sent, HB!notifierVars, notifierVars
<1>2. /\ telling' = [telling EXCEPT ![p] = {}]
      /\ hbpc' = [hbpc EXCEPT ![p] = "rows"]
      /\ UNCHANGED <<enabled, isRunning, handle, mine, rows>>
  BY DEF HB!Mark, HB!Move
<1>3. HB!HbTypeOK' /\ \A q \in HB!Actors : telling'[q] \subseteq telling[q]
  BY <1>2 DEF HB!HbTypeOK, HB!HbStates, HB!Actors
<1>4. QED  BY <1>1, <1>3

LEMMA TickDoneIsQuiet ==
  ASSUME HB!HbTypeOK, NEW p \in HB!Actors, HB!TickDone(p)
  PROVE  HB!HbTypeOK' /\ Quietly
  BY DEF HB!TickDone, HB!storeVars, storeVars, HB!notifierVars, notifierVars, HB!HbTypeOK,
         HB!HbStates, HB!Actors, HB!Move, Quietly

(* Whatever the manager does is one of these. *)
LEMMA HbSteps ==
  ASSUME HB!HbTypeOK, HB!HbNext
  PROVE  \/ HB!HbTypeOK' /\ Quietly
         \/ \E p \in HB!Actors : HB!Scan(p)
         \/ \E p \in HB!Actors : \E r \in Runs : \E v \in Verdicts : HB!Tell(p, r, v)
         \/ \E p \in HB!Actors : \E r \in Runs : HB!Mark(p, r)
<1>1. ASSUME NEW c \in Callers, HB!Call(c), UNCHANGED <<storeVars, notifierVars>>
      PROVE  HB!HbTypeOK' /\ Quietly
  BY <1>1, OwnIsQuiet
<1>2. ASSUME NEW p \in HB!Actors, HB!ActorStep(p), ~HB!Tick(p)
      PROVE  HB!HbTypeOK' /\ Quietly
  <2>1. /\ (p \in Loops /\ HB!LoopOwn(p)) \/ (p \in Callers /\ HB!CallerOwn(p))
        /\ UNCHANGED <<storeVars, notifierVars>>
    BY <1>2 DEF HB!ActorStep, HB!storeVars, storeVars, HB!notifierVars, notifierVars
  <2>2. QED  BY <2>1, OwnIsQuiet
<1>3. ASSUME NEW p \in HB!Actors, HB!TickDone(p) PROVE HB!HbTypeOK' /\ Quietly
  BY <1>3, TickDoneIsQuiet
<1>4. \/ \E p \in HB!Actors : HB!ActorStep(p)
      \/ \E c \in Callers : HB!Call(c) /\ UNCHANGED <<storeVars, notifierVars>>
  BY DEF HB!HbNext, HB!storeVars, storeVars, HB!notifierVars, notifierVars
<1>5. QED  BY <1>1, <1>2, <1>3, <1>4 DEF HB!Tick, HB!Verdicts, Verdicts

-----------------------------------------------------------------------------
(* The executor alone *)

(* A run that is over stays over, and its verdict stands. *)
LEMMA ConcludedStands ==
  ASSUME IInv, ExistInv, [Next]_vars, NEW r \in Runs, NEW v \in Verdicts, Concluded(r, v)
  PROVE  Concluded(r, v)'
<1> USE DEF IInv, TypeOK, StoreTypeOK, NotifierTypeOK, Concluded, Ended, Terminal
<1>1. CASE UNCHANGED vars
  BY <1>1 DEF vars, storeVars, loopVars
<1>2. CASE Command
  BY <1>2 DEF Command, Reconfigure, SetTargets, Create, create_run, Start, Goto, Cancel,
              cancel_run, AddTask, add_task_to_run, storeVars, loopVars
<1>3. ASSUME NEW q \in Runs, LoopStep(q) PROVE Concluded(r, v)'
  BY <1>3 DEF LoopStep, storeVars, Goto, MarkRunRunning, FetchRunnable, CheckTerminal, CheckLive,
              Sleep, BatchSpawned, Join, Decide, RecordVerdict, Announce, MarkSent, TakeTask,
              MarkTaskRunning, SpawnThread, AgentMissing, update_run_status, update_task_status,
              mark_notification_sent
<1>4. ASSUME NEW t \in Tasks, ThreadStep(t) PROVE Concluded(r, v)'
  BY <1>4 DEF ThreadStep, storeVars, loopVars, Acquire, Finish, Panic, RecordTimeout, RecordSuccess,
              Publish, RecordRetry, RecordFailure, BackoffEnds, update_task_status
<1>5. CASE Crash
  BY <1>5 DEF Crash, storeVars
<1>6. QED  BY <1>1, <1>2, <1>3, <1>4, <1>5 DEF Next

(* Only RecordVerdict gives a run its final status, from its verdict.      *)
LEMMA OutcomeStep == IInv /\ ExistInv /\ OutcomeInv /\ [Next]_vars => OutcomeInv'
<1> SUFFICES ASSUME IInv, ExistInv, OutcomeInv, [Next]_vars, NEW r \in Runs
             PROVE  /\ runStatus'[r] \in Verdicts => Concluded(r, runStatus[r])'
                    /\ pc'[r] \in {"announce", "sent", "done"} => runStatus'[r] \in Terminal
  BY DEF OutcomeInv, Verdicts
<1> USE DEF IInv, TypeOK, StoreTypeOK, ExistInv, OutcomeInv, Concluded, Ended, Terminal, Verdicts
<1>1. CASE UNCHANGED vars
  BY <1>1 DEF vars, storeVars, loopVars
<1>2. CASE Command
  BY <1>2 DEF Command, Reconfigure, SetTargets, Create, create_run, Start, Goto, Cancel,
              cancel_run, AddTask, add_task_to_run, storeVars, loopVars
<1>3. ASSUME NEW q \in Runs, LoopStep(q)
      PROVE  q # r => pc'[r] = pc[r] /\ verdict'[r] = verdict[r] /\ runStatus'[r] = runStatus[r]
  BY <1>3 DEF LoopStep, storeVars, Goto, MarkRunRunning, FetchRunnable, CheckTerminal, CheckLive,
              Sleep, BatchSpawned, Join, Decide, RecordVerdict, Announce, MarkSent, TakeTask,
              MarkTaskRunning, SpawnThread, AgentMissing, update_run_status, update_task_status,
              mark_notification_sent
<1>4. CASE LoopStep(r)
  BY <1>4 DEF LoopStep, storeVars, Goto, MarkRunRunning, FetchRunnable, CheckTerminal, CheckLive,
              Sleep, BatchSpawned, Join, Decide, RecordVerdict, Announce, MarkSent, TakeTask,
              MarkTaskRunning, SpawnThread, AgentMissing, update_run_status, update_task_status,
              mark_notification_sent
<1>5. ASSUME NEW t \in Tasks, ThreadStep(t) PROVE UNCHANGED <<pc, verdict, runStatus>>
  BY <1>5 DEF ThreadStep, storeVars, loopVars, Acquire, Finish, Panic, RecordTimeout, RecordSuccess,
              Publish, RecordRetry, RecordFailure, BackoffEnds, update_task_status
<1>6. CASE Crash
  BY <1>6 DEF Crash, storeVars
<1>7. QED  BY <1>1, <1>2, <1>3, <1>4, <1>5, <1>6 DEF Next

(* What the executor tells is the verdict of its run, and it marks only    *)
(* the run it has told of.                                                 *)
LEMMA ExecutorTells ==
  ASSUME IInv, OutcomeInv, [Next]_vars
  PROVE  /\ \A r \in Runs : \A v \in Verdicts :
               /\ deliveries'[r][v] >= deliveries[r][v]
               /\ deliveries'[r][v] # deliveries[r][v] => Concluded(r, v)
         /\ \A r \in Runs :
               /\ notified'[r] => notified[r] \/ pc[r] = "sent"
               /\ pc'[r] = "sent" => pc[r] = "sent" \/ Told(r)'
<1> USE DEF IInv, TypeOK, StoreTypeOK, NotifierTypeOK
<1> DEFINE Sends == \A r \in Runs : \A v \in Verdicts :
                       /\ deliveries'[r][v] >= deliveries[r][v]
                       /\ deliveries'[r][v] # deliveries[r][v] => Concluded(r, v)
           Marks == \A r \in Runs : /\ notified'[r] => notified[r] \/ pc[r] = "sent"
                                    /\ pc'[r] = "sent" => pc[r] = "sent" \/ Told(r)'
<1>0. UNCHANGED deliveries => Sends
  OBVIOUS
<1> HIDE DEF Sends
<1> SUFFICES Sends /\ Marks
  BY DEF Sends
<1>1. CASE UNCHANGED vars
  BY <1>0, <1>1 DEF vars, storeVars, notifierVars, loopVars
<1>2. CASE Command
  BY <1>0, <1>2 DEF Command, Reconfigure, SetTargets, Create, create_run, Start, Goto, Cancel,
              cancel_run, AddTask, add_task_to_run, storeVars, notifierVars, loopVars
<1>3. ASSUME NEW q \in Runs, LoopStep(q), ~Announce(q)
      PROVE  Sends /\ Marks
  BY <1>0, <1>3 DEF LoopStep, storeVars, notifierVars, Goto, MarkRunRunning, FetchRunnable,
              CheckTerminal, CheckLive, Sleep, BatchSpawned, Join, Decide, RecordVerdict, MarkSent, TakeTask,
              MarkTaskRunning, SpawnThread, AgentMissing, update_run_status, update_task_status,
              mark_notification_sent
<1>4. ASSUME NEW q \in Runs, Announce(q)
      PROVE  Sends /\ Marks
  <2>1. verdict[q] \in Verdicts /\ broadcast(q, verdict[q]) /\ Concluded(q, verdict[q])
    BY <1>4 DEF Announce, OutcomeInv, Concluded, Ended
  <2>2. /\ \A r \in Runs : pc'[r] = "sent" => pc[r] = "sent" \/ (r = q /\ targets)
        /\ UNCHANGED notified
    BY <1>4 DEF Announce, Goto, storeVars
  <2>3. Sends
    BY <2>1, BroadcastCounts DEF Sends
  <2>4. targets => Told(q)'
    BY <2>1, BroadcastCounts DEF Told
  <2>5. \A r \in Runs : notified'[r] => notified[r] \/ pc[r] = "sent"
    BY <2>2
  <2>6. \A r \in Runs : pc'[r] = "sent" => pc[r] = "sent" \/ Told(r)'
    BY ONLY <2>2, <2>4 DEF Told
  <2>7. QED  BY ONLY <2>3, <2>5, <2>6 DEF Told
<1>5. ASSUME NEW t \in Tasks, ThreadStep(t) PROVE Sends /\ Marks
  BY <1>0, <1>5 DEF ThreadStep, storeVars, notifierVars, loopVars, Acquire, Finish, Panic,
              RecordTimeout, RecordSuccess, Publish, RecordRetry, RecordFailure, BackoffEnds, update_task_status
<1>6. CASE Crash
  BY <1>0, <1>6 DEF Crash, storeVars, notifierVars
<1> HIDE DEF Marks, IInv
<1>7. QED  BY <1>1, <1>2, <1>3, <1>4, <1>5, <1>6 DEF Next

-----------------------------------------------------------------------------
(* Both together *)

LEMMA SysInitInv == SysInit => SysInv
<1> SUFFICES ASSUME SysInit PROVE SysInv
  OBVIOUS
<1> USE DEF SysInit, Init, StoreInit, NotifierInit, HB!HbInit
<1>1. IInv
  BY InitInv
<1>2. HB!HbTypeOK
  BY DEF HB!HbTypeOK, HB!HbStates, HB!Actors
<1>3. ExistInv /\ OutcomeInv
  BY DEF ExistInv, OutcomeInv, Verdicts
<1>4. MessageInv /\ ToldInv
  BY DEF MessageInv, ToldInv
<1>5. QED  BY <1>1, <1>2, <1>3, <1>4 DEF SysInv

(* A step of the executor, or of all at once when the process dies, with   *)
(* no tick reading or about to mark more than before.                      *)
LEMMA ExecutorKeeps ==
  ASSUME SysInv, [Next]_vars, HB!HbTypeOK',
         \A p \in HB!Actors : rows'[p] \subseteq rows[p] /\ telling'[p] \subseteq telling[p]
  PROVE  SysInv'
<1> USE DEF SysInv
<1>1. IInv' /\ ExistInv' /\ OutcomeInv'
  BY NextInv, ExistStep, OutcomeStep
<1>2. MessageInv'
  <2>1. ASSUME NEW r \in Runs, NEW v \in Verdicts, deliveries'[r][v] > 0 PROVE Concluded(r, v)'
    BY <2>1, ExecutorTells, ConcludedStands DEF MessageInv
  <2>2. ASSUME NEW p \in HB!Actors, NEW r \in Runs, NEW v \in Verdicts, <<r, v>> \in rows'[p]
        PROVE  Concluded(r, v)'
    BY <2>2, ConcludedStands DEF MessageInv
  <2>3. QED  BY <2>1, <2>2 DEF MessageInv
<1>3. ToldInv'
  <2>1. ASSUME NEW r \in Runs, Told(r) PROVE Told(r)'
    BY <2>1, ExecutorTells, <1>1 DEF Told, IInv, TypeOK, NotifierTypeOK
  <2>2. ASSUME NEW r \in Runs, notified'[r] \/ pc'[r] = "sent" PROVE Told(r)'
    BY <2>1, <2>2, ExecutorTells DEF ToldInv
  <2>3. ASSUME NEW p \in HB!Actors, NEW r \in telling'[p] PROVE Told(r)'
    BY <2>1, <2>3 DEF ToldInv, HB!HbTypeOK
  <2>4. QED  BY <2>2, <2>3 DEF ToldInv
<1>4. QED  BY <1>1, <1>2, <1>3

(* A step of the heartbeat: it marks and tells, and nothing else of the    *)
(* executor's invariant hangs on that.                                     *)
LEMMA HeartbeatTouches ==
  ASSUME IInv, ExistInv, OutcomeInv, NotifierTypeOK', notified' \in [Runs -> BOOLEAN],
         UNCHANGED <<runStatus, taskStatus, attempt, edges, execVars>>
  PROVE  /\ IInv' /\ ExistInv' /\ OutcomeInv'
         /\ \A r \in Runs : \A v \in Verdicts : Concluded(r, v) => Concluded(r, v)'
<1> USE DEF execVars, loopVars
<1>1. TypeOK'
  BY DEF IInv, TypeOK, StoreTypeOK
<1>2. BatchInv' /\ CurInv'
  BY DEF IInv, BatchInv, CurInv, Ready
<1>3. ThreadInv' /\ RowInv'
  BY DEF IInv, ThreadInv, RowInv
<1>4. ExistInv' /\ OutcomeInv'
  BY DEF ExistInv, Asked, OutcomeInv, Concluded
<1>5. QED  BY <1>1, <1>2, <1>3, <1>4 DEF IInv, Concluded

LEMMA HeartbeatKeeps ==
  ASSUME SysInv, HB!HbNext, UNCHANGED execVars
  PROVE  SysInv'
<1> USE DEF SysInv
<1>0. NotifierTypeOK /\ notified \in [Runs -> BOOLEAN]
  BY DEF IInv, TypeOK, StoreTypeOK
<1>1. CASE HB!HbTypeOK' /\ Quietly
  <2>1. UNCHANGED <<runStatus, taskStatus, attempt, edges, notified, targets, deliveries, pc>>
    BY <1>1 DEF Quietly, storeVars, notifierVars, execVars, loopVars
  <2>2. NotifierTypeOK' /\ notified' \in [Runs -> BOOLEAN]
    BY <1>0, <2>1 DEF NotifierTypeOK
  <2>3. /\ IInv' /\ ExistInv' /\ OutcomeInv'
        /\ \A r \in Runs : \A v \in Verdicts : Concluded(r, v) => Concluded(r, v)'
    BY <2>1, <2>2, HeartbeatTouches
  <2>4. MessageInv'
    BY <1>1, <2>1, <2>3 DEF MessageInv, Quietly
  <2>5. ToldInv'
    BY <1>1, <2>1 DEF ToldInv, Told, Quietly
  <2>6. QED  BY <1>1, <2>3, <2>4, <2>5
<1>2. ASSUME NEW p \in HB!Actors, HB!Scan(p) PROVE SysInv'
  <2>1. /\ HB!HbTypeOK'
        /\ UNCHANGED <<runStatus, taskStatus, attempt, edges, notified, targets, deliveries, pc,
                      telling>>
        /\ \A q \in HB!Actors : \A r \in Runs : \A v \in Verdicts :
              <<r, v>> \in rows'[q] => <<r, v>> \in rows[q] \/ runStatus[r] = v
    BY <1>2, ScanReads DEF storeVars, notifierVars, execVars, loopVars
  <2>2. NotifierTypeOK' /\ notified' \in [Runs -> BOOLEAN]
    BY <1>0, <2>1 DEF NotifierTypeOK
  <2>3. /\ IInv' /\ ExistInv' /\ OutcomeInv'
        /\ \A r \in Runs : \A v \in Verdicts : Concluded(r, v) => Concluded(r, v)'
    BY <2>1, <2>2, HeartbeatTouches
  <2>4. MessageInv'
    BY <2>1, <2>3 DEF MessageInv, OutcomeInv
  <2>5. ToldInv'
    BY <2>1 DEF ToldInv, Told
  <2>6. QED  BY <2>1, <2>3, <2>4, <2>5
<1>3. ASSUME NEW p \in HB!Actors, NEW r \in Runs, NEW v \in Verdicts, HB!Tell(p, r, v)
      PROVE  SysInv'
  <2>1. /\ HB!HbTypeOK'
        /\ UNCHANGED <<runStatus, taskStatus, attempt, edges, notified, pc>>
        /\ <<r, v>> \in rows[p] /\ broadcast(r, v)
        /\ \A q \in HB!Actors : rows'[q] \subseteq rows[q]
        /\ \A q \in HB!Actors : \A s \in telling'[q] : s \in telling[q] \/ (s = r /\ targets)
    BY <1>0, <1>3, TellSends DEF storeVars, execVars, loopVars
  <2>2. /\ NotifierTypeOK'
        /\ \A q \in Runs : \A w \in Verdicts :
              /\ deliveries'[q][w] >= deliveries[q][w]
              /\ deliveries'[q][w] # deliveries[q][w] => q = r /\ w = v
        /\ targets => deliveries'[r][v] > 0
    BY <1>0, <2>1, BroadcastCounts
  <2>3. /\ IInv' /\ ExistInv' /\ OutcomeInv'
        /\ \A q \in Runs : \A w \in Verdicts : Concluded(q, w) => Concluded(q, w)'
    BY <1>0, <2>1, <2>2, HeartbeatTouches
  <2>4. MessageInv'
    BY <2>1, <2>2, <2>3 DEF MessageInv
  <2>5. \A q \in Runs : Told(q) \/ (q = r /\ targets) => Told(q)'
    BY <1>0, <2>2 DEF Told, NotifierTypeOK
  <2>6. ToldInv'
    BY <2>1, <2>5 DEF ToldInv, HB!HbTypeOK
  <2>7. QED  BY <2>1, <2>3, <2>4, <2>6
<1>4. ASSUME NEW p \in HB!Actors, NEW r \in Runs, HB!Mark(p, r) PROVE SysInv'
  <2>1. /\ HB!HbTypeOK'
        /\ UNCHANGED <<runStatus, taskStatus, attempt, edges, targets, deliveries, rows, pc>>
        /\ r \in telling[p] /\ notified' = [notified EXCEPT ![r] = TRUE]
        /\ \A q \in HB!Actors : telling'[q] \subseteq telling[q]
    BY <1>4, MarkMarks DEF notifierVars, execVars, loopVars
  <2>2. NotifierTypeOK' /\ notified' \in [Runs -> BOOLEAN]
    BY <1>0, <2>1 DEF NotifierTypeOK
  <2>3. /\ IInv' /\ ExistInv' /\ OutcomeInv'
        /\ \A q \in Runs : \A w \in Verdicts : Concluded(q, w) => Concluded(q, w)'
    BY <2>1, <2>2, HeartbeatTouches
  <2>4. MessageInv'
    BY <2>1, <2>3 DEF MessageInv
  <2>5. ToldInv'
    BY <1>0, <2>1 DEF ToldInv, Told
  <2>6. QED  BY <2>1, <2>3, <2>4, <2>5
<1>5. QED  BY <1>1, <1>2, <1>3, <1>4, HbSteps

LEMMA SysStep == SysInv /\ [SysNext]_sysVars => SysInv'
<1> SUFFICES ASSUME SysInv, [SysNext]_sysVars PROVE SysInv'
  OBVIOUS
<1>1. CASE Running /\ UNCHANGED hbVars
  <2>1. HB!HbTypeOK'
    BY <1>1 DEF SysInv, hbVars, HB!HbTypeOK
  <2>2. [Next]_vars
    BY <1>1 DEF Running, Next
  <2>3. QED  BY <1>1, <2>1, <2>2, ExecutorKeeps DEF hbVars
<1>2. CASE HB!HbNext /\ UNCHANGED execVars
  BY <1>2, HeartbeatKeeps
<1>3. CASE Crash /\ HB!HbReset
  <2>1. /\ HB!HbTypeOK'
        /\ \A p \in HB!Actors : rows'[p] = {} /\ telling'[p] = {}
    BY <1>3 DEF HB!HbReset, SysInv, HB!HbTypeOK, HB!HbStates, HB!Actors
  <2>2. QED  BY <1>3, <2>1, ExecutorKeeps DEF Next
<1>4. CASE UNCHANGED sysVars
  <2>1. UNCHANGED vars /\ UNCHANGED hbVars
    BY <1>4 DEF sysVars
  <2>2. HB!HbTypeOK'
    BY <2>1 DEF SysInv, hbVars, HB!HbTypeOK
  <2>3. QED  BY <2>1, <2>2, ExecutorKeeps DEF hbVars
<1>5. QED  BY <1>1, <1>2, <1>3, <1>4 DEF SysNext

-----------------------------------------------------------------------------
(* The executor and the heartbeat keep their types, and the executor its   *)
(* whole invariant (attempt bound, separate rounds, ready tasks only),     *)
(* although the heartbeat writes to the store and the dispatcher between   *)
(* any two of its steps.                                                   *)
THEOREM SysInvariance == SysSpec => []SysInv
  BY SysInitInv, SysStep, PTL DEF SysSpec

CrossedOK == crossed \in {"never", "before", "now"}

(* The two components keep the types of all they share.                    *)
THEOREM SysTypeCorrect == SysSpec => []SysTypeOK
<1>1. SysInit => CrossedOK
  BY DEF SysInit, CrossedOK
<1>2. CrossedOK /\ [SysNext]_sysVars => CrossedOK'
  BY DEF SysNext, Crosses, sysVars, hbVars, CrossedOK
<1>3. SysInv /\ CrossedOK => SysTypeOK
  BY DEF SysInv, IInv, SysTypeOK, CrossedOK
<1>4. QED  BY <1>1, <1>2, <1>3, SysInvariance, PTL DEF SysSpec

(* A run that is marked as notified was the subject of a message: by its   *)
(* loop or a tick, each of which sends and marks in two steps, with the    *)
(* other, a stop of the heartbeat or a crash in between.                   *)
THEOREM MarkedMeansTold == SysSpec => []NotifiedWasTold
<1>1. SysInv => NotifiedWasTold
  BY DEF SysInv, ToldInv, Told, NotifiedWasTold
<1>2. QED  BY <1>1, SysInvariance, PTL

(* No two messages about a run disagree, and none comes before its end,    *)
(* although a tick sends what it has read of the row earlier, and the user *)
(* may cancel the run, or the process die, between the two.                *)
THEOREM OneOutcomeIsTold == SysSpec => []MessagesAgree
<1>1. SysInv => MessagesAgree
  <2> SUFFICES ASSUME SysInv, NEW r \in Runs
               PROVE  /\ ~(deliveries[r]["completed"] > 0 /\ deliveries[r]["failed"] > 0)
                      /\ (\E v \in Verdicts : deliveries[r][v] > 0) =>
                             runStatus[r] \in {"completed", "failed", "cancelled"}
    BY DEF MessagesAgree
  <2>1. \A v \in Verdicts : deliveries[r][v] > 0 => runStatus[r] \in Terminal /\ verdict[r] = v
    BY DEF SysInv, MessageInv, Concluded
  <2>2. QED  BY <2>1 DEF Verdicts, Terminal
<1>2. QED  BY <1>1, SysInvariance, PTL

-----------------------------------------------------------------------------
(* The heartbeat's flag, handle and loops *)

InStart(c) == hbpc[c] \in {"spawn", "store"}
Keeping(c) == hbpc[c] = "store"

(* What a caller has spawned it keeps in mine until it stores the handle.  *)
MineInv ==
    /\ \A c \in Callers : Keeping(c) <=> mine[c] # {}
    /\ \A c \in Callers : \A l, m \in mine[c] : l = m
    /\ \A l, m \in handle : l = m

(* While no start and stop have crossed since the last undisturbed stop:   *)
(* one start at a time has the flag and no handle yet; a stop that has not *)
(* taken the handle finds the flag cleared; otherwise flag and handle      *)
(* agree.  Nothing that is kept is dead while the flag is set.             *)
AgreeInv ==
    crossed # "now" =>
        /\ ~(HB!Spawning /\ HB!Stopping)
        /\ \A c, d \in Callers : InStart(c) /\ InStart(d) => c = d
        /\ HB!Spawning => isRunning /\ handle = {}
        /\ HB!Stopping => ~isRunning
        /\ ~HB!Spawning /\ ~HB!Stopping => (isRunning <=> handle # {})
        /\ isRunning => /\ handle \subseteq HB!Alive
                        /\ \A c \in Callers : mine[c] \subseteq HB!Alive

(* Where none has ever crossed, every live loop is kept by somebody.       *)
KeptInv ==
    crossed = "never" => \A l \in HB!Alive : l \in handle \/ \E c \in Callers : l \in mine[c]

FlagInv == CrossedOK /\ MineInv /\ AgreeInv /\ KeptInv

(* The steps that touch neither the flag nor what is kept, move nobody in  *)
(* or out of the two steps of a start or a stop, and let a loop end only   *)
(* when the flag is cleared.                                               *)
LEMMA ElsewhereFlags ==
  ASSUME HB!HbTypeOK, FlagInv, Crosses,
         ~\E c \in Callers : HB!StopClearFlag(c),
         UNCHANGED <<isRunning, handle, mine>>,
         \A c \in Callers : (InStart(c)' <=> InStart(c)) /\ (Keeping(c)' <=> Keeping(c)),
         (HB!Stopping' <=> HB!Stopping),
         HB!Alive' \subseteq HB!Alive,
         isRunning => HB!Alive' = HB!Alive
  PROVE  FlagInv'
<1>1. (HB!Spawning' <=> HB!Spawning)
  BY DEF HB!Spawning, InStart
<1>2. crossed' = IF HB!Spawning /\ HB!Stopping THEN "now" ELSE crossed
  BY <1>1 DEF Crosses
<1>3. crossed' = crossed
  BY <1>2 DEF FlagInv, AgreeInv
<1>4. MineInv'
  BY DEF FlagInv, MineInv
<1>5. AgreeInv'
  BY <1>1, <1>3 DEF FlagInv, AgreeInv
<1>6. KeptInv'
  BY <1>3 DEF FlagInv, KeptInv
<1>7. QED  BY <1>3, <1>4, <1>5, <1>6 DEF FlagInv, CrossedOK

(* One actor moves between places outside those two steps. *)
LEMMA MovesFlags ==
  ASSUME HB!HbTypeOK, FlagInv, Crosses, NEW p \in HB!Actors, NEW s \in HB!HbStates,
         hbpc' = [hbpc EXCEPT ![p] = s],
         UNCHANGED <<isRunning, handle, mine>>,
         p \in Callers => {hbpc[p], s} \cap {"spawn", "store", "abort"} = {},
         p \in Loops => /\ hbpc[p] # "unborn" /\ hbpc[p] # "gone" /\ s # "unborn"
                        /\ isRunning => s # "gone"
  PROVE  FlagInv'
<1> USE SystemAssumption DEF HB!HbTypeOK, HB!Actors
<1>1. \A q \in HB!Actors : hbpc'[q] = IF q = p THEN s ELSE hbpc[q]
  OBVIOUS
<1>2. ~\E c \in Callers : HB!StopClearFlag(c)
  <2> SUFFICES ASSUME NEW c \in Callers, HB!StopClearFlag(c) PROVE FALSE
    OBVIOUS
  <2>1. hbpc[c] = "stop" /\ hbpc'[c] = "abort"
    BY DEF HB!StopClearFlag, HB!Move
  <2>2. QED  BY <1>1, <2>1
<1>3. \A c \in Callers : (InStart(c)' <=> InStart(c)) /\ (Keeping(c)' <=> Keeping(c))
  <2> SUFFICES ASSUME NEW c \in Callers
               PROVE  (InStart(c)' <=> InStart(c)) /\ (Keeping(c)' <=> Keeping(c))
    OBVIOUS
  <2>1. CASE c = p
    BY <1>1, <2>1 DEF InStart, Keeping
  <2>2. CASE c # p
    BY <1>1, <2>2 DEF InStart, Keeping
  <2>3. QED  BY <2>1, <2>2
<1>4. (HB!Stopping' <=> HB!Stopping)
  BY <1>1 DEF HB!Stopping
<1>5. HB!Alive' \subseteq HB!Alive /\ (isRunning => HB!Alive' = HB!Alive)
  BY <1>1 DEF HB!Alive
<1>6. QED  BY <1>2, <1>3, <1>4, <1>5, ElsewhereFlags

(* start() takes the flag, spawns the loop, keeps its handle. *)
LEMMA StartFlags ==
  ASSUME HB!HbTypeOK, FlagInv, Crosses, NEW c \in Callers,
         \/ HB!StartSetFlag(c) \/ HB!StartStoreHandle(c) \/ \E l \in Loops : HB!StartSpawn(c, l)
  PROVE  FlagInv'
<1> USE SystemAssumption DEF HB!HbTypeOK, HB!Actors, HB!Move
<1>0. \A d \in Callers : ~HB!StopClearFlag(d)
  BY DEF HB!StartSetFlag, HB!StartStoreHandle, HB!StartSpawn, HB!StopClearFlag
<1>1. crossed' = IF HB!Spawning' /\ HB!Stopping' THEN "now" ELSE crossed
  BY <1>0 DEF Crosses
<1>2. CASE HB!StartSetFlag(c)
  <2>1. /\ hbpc[c] = "setflag" /\ isRunning' = TRUE
        /\ hbpc' = [hbpc EXCEPT ![c] = IF isRunning THEN "idle" ELSE "spawn"]
        /\ UNCHANGED <<handle, mine>>
    BY <1>2 DEF HB!StartSetFlag
  <2>2. (HB!Stopping' <=> HB!Stopping) /\ HB!Alive' = HB!Alive
    BY <2>1 DEF HB!Stopping, HB!Alive
  <2>3. MineInv'
    BY <2>1 DEF FlagInv, MineInv, Keeping
  <2>4. CASE isRunning
    <3>1. \A d \in Callers : (InStart(d)' <=> InStart(d))
      BY <2>1, <2>4 DEF InStart
    <3>2. (HB!Spawning' <=> HB!Spawning)
      BY <3>1 DEF HB!Spawning, InStart
    <3>3. crossed' = crossed
      BY <1>1, <2>2, <3>2 DEF FlagInv, AgreeInv
    <3>4. AgreeInv' /\ KeptInv'
      BY <2>1, <2>2, <2>4, <3>1, <3>2, <3>3 DEF FlagInv, AgreeInv, KeptInv
    <3>5. QED  BY <2>3, <3>3, <3>4 DEF FlagInv, CrossedOK
  <2>5. CASE ~isRunning
    <3>1. \A d \in Callers : InStart(d)' <=> d = c \/ InStart(d)
      BY <2>1, <2>5 DEF InStart
    <3>2. HB!Spawning'
      BY <3>1 DEF HB!Spawning, InStart
    <3>3. crossed' = IF HB!Stopping THEN "now" ELSE crossed
      BY <1>1, <2>2, <3>2
    <3>4. ASSUME crossed' # "now"
          PROVE  /\ crossed' = crossed /\ ~HB!Stopping /\ ~HB!Spawning /\ handle = {}
                 /\ \A d \in Callers : ~InStart(d) /\ mine[d] = {}
      BY <2>5, <3>3, <3>4 DEF FlagInv, AgreeInv, MineInv, HB!Spawning, InStart, Keeping
    <3>5. AgreeInv'
      BY <2>1, <2>2, <3>1, <3>2, <3>4 DEF AgreeInv
    <3>6. KeptInv'
      BY <2>1, <2>2, <3>3, <3>4 DEF FlagInv, KeptInv
    <3>7. QED  BY <2>3, <3>3, <3>5, <3>6 DEF FlagInv, CrossedOK
  <2>6. QED  BY <2>4, <2>5
<1>3. ASSUME NEW l \in Loops, HB!StartSpawn(c, l) PROVE FlagInv'
  <2>1. /\ hbpc[c] = "spawn" /\ hbpc[l] = "unborn"
        /\ hbpc' = [hbpc EXCEPT ![c] = "store", ![l] = "check"]
        /\ mine' = [mine EXCEPT ![c] = {l}]
        /\ UNCHANGED <<isRunning, handle>>
    BY <1>3 DEF HB!StartSpawn
  <2>2. /\ \A d \in Callers : hbpc'[d] = IF d = c THEN "store" ELSE hbpc[d]
        /\ \A m \in Loops : hbpc'[m] = IF m = l THEN "check" ELSE hbpc[m]
        /\ \A d \in Callers : mine'[d] = IF d = c THEN {l} ELSE mine[d]
    BY <2>1
  <2>3. (HB!Stopping' <=> HB!Stopping) /\ (HB!Spawning' <=> HB!Spawning) /\ HB!Alive' = HB!Alive \cup {l}
    BY <2>1, <2>2 DEF HB!Stopping, HB!Spawning, HB!Alive
  <2>4. crossed' = crossed
    BY <1>1, <2>3 DEF FlagInv, AgreeInv
  <2>5. MineInv'
    BY <2>1, <2>2 DEF FlagInv, MineInv, Keeping
  <2>6. \A d \in Callers : (InStart(d)' <=> InStart(d))
    BY <2>1, <2>2 DEF InStart
  <2>7. AgreeInv'
    BY <2>1, <2>2, <2>3, <2>4, <2>6 DEF FlagInv, AgreeInv
  <2>8. mine[c] = {}
    BY <2>1 DEF FlagInv, MineInv, Keeping
  <2>9. KeptInv'
    BY <2>1, <2>2, <2>3, <2>4, <2>8 DEF FlagInv, KeptInv
  <2>10. QED  BY <2>4, <2>5, <2>7, <2>9 DEF FlagInv, CrossedOK
<1>4. CASE HB!StartStoreHandle(c)
  <2>1. /\ hbpc[c] = "store" /\ handle' = mine[c]
        /\ mine' = [mine EXCEPT ![c] = {}] /\ hbpc' = [hbpc EXCEPT ![c] = "idle"]
        /\ UNCHANGED isRunning
    BY <1>4 DEF HB!StartStoreHandle
  <2>2. /\ (HB!Stopping' <=> HB!Stopping) /\ HB!Alive' = HB!Alive
        /\ \A d \in Callers : InStart(d)' <=> InStart(d) /\ d # c
        /\ \A d \in Callers : mine'[d] = IF d = c THEN {} ELSE mine[d]
    BY <2>1 DEF HB!Stopping, HB!Alive, InStart
  <2>3. HB!Spawning /\ mine[c] # {}
    BY <2>1 DEF HB!Spawning, FlagInv, MineInv, Keeping
  <2>4. crossed' = crossed \/ crossed' = "now"
    BY <1>1
  <2>5. \A d \in Callers : /\ Keeping(d)' <=> mine'[d] # {}
                           /\ \A m, n \in mine'[d] : m = n
    BY <2>1, <2>2 DEF FlagInv, MineInv, Keeping
  <2>6. \A m, n \in mine[c] : m = n
    BY <2>1 DEF FlagInv, MineInv, Keeping
  <2>7. MineInv'
    BY <2>1, <2>5, <2>6 DEF MineInv
  <2>8. AgreeInv'
    <3> SUFFICES ASSUME crossed' # "now" PROVE AgreeInv'
      BY DEF AgreeInv
    <3>1. /\ ~HB!Stopping /\ isRunning
          /\ \A d \in Callers : InStart(d) => d = c
          /\ \A d \in Callers : mine[d] \subseteq HB!Alive
      BY <2>1, <2>3, <2>4 DEF FlagInv, AgreeInv, InStart
    <3>2. ~HB!Spawning'
      BY <2>2, <3>1 DEF HB!Spawning, InStart
    <3>3. QED  BY <2>1, <2>2, <2>3, <3>1, <3>2, <2>4 DEF AgreeInv
  <2>9. KeptInv'
    <3>1. crossed' = "never" => handle = {} /\ crossed = "never"
      BY <2>3, <2>4 DEF FlagInv, AgreeInv
    <3>2. QED  BY <2>1, <2>2, <3>1 DEF FlagInv, KeptInv
  <2>10. QED  BY <2>4, <2>7, <2>8, <2>9 DEF FlagInv, CrossedOK
<1>5. QED  BY <1>2, <1>3, <1>4

(* stop() clears the flag and then drops the loop it finds. *)
LEMMA StopFlags ==
  ASSUME HB!HbTypeOK, FlagInv, Crosses, NEW c \in Callers, HB!StopClearFlag(c) \/ HB!StopAbort(c)
  PROVE  FlagInv'
<1> USE SystemAssumption DEF HB!HbTypeOK, HB!Actors, HB!Move
<1>1. CASE HB!StopClearFlag(c)
  <2>1. /\ hbpc[c] = "stop" /\ isRunning' = FALSE
        /\ hbpc' = [hbpc EXCEPT ![c] = "abort"]
        /\ UNCHANGED <<handle, mine>>
    BY <1>1 DEF HB!StopClearFlag
  <2>2. /\ HB!Stopping' /\ HB!Alive' = HB!Alive /\ (HB!Spawning' <=> HB!Spawning)
        /\ \A d \in Callers : (InStart(d)' <=> InStart(d))
    BY <2>1 DEF HB!Stopping, HB!Alive, HB!Spawning, InStart
  <2>3. crossed' = IF HB!Spawning THEN "now" ELSE IF crossed = "now" THEN "before" ELSE crossed
    BY <1>1, <2>2 DEF Crosses
  <2>4. MineInv'
    BY <2>1 DEF FlagInv, MineInv, Keeping
  <2>5. crossed' # "now" => \A d \in Callers : ~InStart(d)
    BY <2>3 DEF HB!Spawning, InStart
  <2>6. AgreeInv'
    BY <2>1, <2>2, <2>3, <2>5 DEF AgreeInv
  <2>7. KeptInv'
    BY <2>1, <2>2, <2>3 DEF FlagInv, KeptInv
  <2>8. QED  BY <2>3, <2>4, <2>6, <2>7 DEF FlagInv, CrossedOK
<1>2. CASE HB!StopAbort(c)
  <2>1. /\ hbpc[c] = "abort" /\ handle' = {}
        /\ hbpc' = [p \in HB!Actors |-> IF p \in handle THEN "gone"
                                        ELSE IF p = c THEN "idle" ELSE hbpc[p]]
        /\ UNCHANGED <<isRunning, mine>>
    BY <1>2 DEF HB!StopAbort
  <2>2. /\ \A d \in Callers : hbpc'[d] = IF d = c THEN "idle" ELSE hbpc[d]
        /\ \A l \in Loops : hbpc'[l] = IF l \in handle THEN "gone" ELSE hbpc[l]
    BY <2>1
  <2>3. /\ HB!Stopping /\ HB!Alive' = HB!Alive \ handle
        /\ \A d \in Callers : (InStart(d)' <=> InStart(d)) /\ (Keeping(d)' <=> Keeping(d))
    BY <2>1, <2>2 DEF HB!Stopping, HB!Alive, InStart, Keeping
  <2>4. (HB!Spawning' <=> HB!Spawning) /\ (HB!Stopping' => HB!Stopping)
    BY <2>3 DEF HB!Spawning, InStart
  <2>5. ~\E d \in Callers : HB!StopClearFlag(d)
    BY <2>2 DEF HB!StopClearFlag
  <2>6. crossed' = crossed
    BY <2>3, <2>4, <2>5 DEF Crosses, FlagInv, AgreeInv
  <2>7. MineInv'
    BY <2>1, <2>3 DEF FlagInv, MineInv
  <2>8. AgreeInv'
    BY <2>1, <2>3, <2>4, <2>6 DEF FlagInv, AgreeInv
  <2>9. KeptInv'
    BY <2>1, <2>3, <2>6 DEF FlagInv, KeptInv
  <2>10. QED  BY <2>6, <2>7, <2>8, <2>9 DEF FlagInv, CrossedOK
<1>3. QED  BY <1>1, <1>2

(* Whatever the manager does. *)
LEMMA FlagStep ==
  ASSUME HB!HbTypeOK, FlagInv, Crosses, HB!HbNext
  PROVE  FlagInv'
<1> USE SystemAssumption
<1>1. ASSUME NEW c \in Callers, HB!Call(c) \/ HB!StartCheck(c) PROVE FlagInv'
  <2>1. /\ UNCHANGED <<isRunning, handle, mine>>
        /\ hbpc[c] \in {"idle", "start"}
        /\ \E s \in {"idle", "start", "stop", "scan", "setflag"} : hbpc' = [hbpc EXCEPT ![c] = s]
    BY <1>1 DEF HB!Call, HB!CallStart, HB!CallStop, HB!CallUpdateConfig, HB!CallTrigger,
                HB!StartCheck, HB!Move
  <2>2. QED  BY <2>1, MovesFlags DEF HB!Actors, HB!HbStates
<1>2. ASSUME NEW p \in HB!Actors, HB!Tick(p) PROVE FlagInv'
  <2>1. /\ UNCHANGED <<isRunning, handle, mine>>
        /\ hbpc[p] \in {"scan", "rows", "mark"}
        /\ \E s \in {"rows", "mark", "asleep", "idle"} : hbpc' = [hbpc EXCEPT ![p] = s]
    BY <1>2 DEF HB!Tick, HB!Scan, HB!TickDone, HB!Mark, HB!Tell, HB!Move
  <2>2. PICK s \in {"rows", "mark", "asleep", "idle"} : hbpc' = [hbpc EXCEPT ![p] = s]
    BY <2>1
  <2>3. s \in HB!HbStates /\ s \notin {"spawn", "store", "abort", "unborn", "gone"}
    BY DEF HB!HbStates
  <2>4. /\ p \in Callers => {hbpc[p], s} \cap {"spawn", "store", "abort"} = {}
        /\ p \in Loops => /\ hbpc[p] # "unborn" /\ hbpc[p] # "gone" /\ s # "unborn"
                           /\ isRunning => s # "gone"
    BY <2>1, <2>3
  <2>5. QED  BY <2>1, <2>2, <2>3, <2>4, MovesFlags
<1>3. ASSUME NEW l \in Loops, HB!LoopOwn(l) PROVE FlagInv'
  <2>1. /\ UNCHANGED <<isRunning, handle, mine>>
        /\ hbpc[l] \in {"check", "hours", "asleep"}
        /\ \E s \in {"hours", "gone", "scan", "asleep", "check"} :
              hbpc' = [hbpc EXCEPT ![l] = s] /\ (isRunning => s # "gone")
    BY <1>3 DEF HB!LoopOwn, HB!LoopCheck, HB!LoopHours, HB!SkipTick, HB!LoopWake, HB!Move
  <2>2. QED  BY <2>1, MovesFlags DEF HB!Actors, HB!HbStates
<1>4. QED
  BY <1>1, <1>2, <1>3, StartFlags, StopFlags DEF HB!HbNext, HB!ActorStep, HB!CallerOwn

(* With any number of callers: when no command is under way, is_running    *)
(* says whether there is a loop, and the handle is of one that lives,      *)
(* unless a start() and a stop() crossed and no undisturbed stop() has     *)
(* come since; where none ever crossed no other loop lives.  The two set   *)
(* and clear flag and handle under separate locks.                         *)
THEOREM FlagsTellLoops == SysSpec => []FlagTellsLoop
<1>1. SysInit => FlagInv
  BY SystemAssumption DEF SysInit, HB!HbInit, HB!Actors, HB!Alive, HB!Spawning, HB!Stopping,
     FlagInv, CrossedOK, MineInv, AgreeInv, KeptInv, InStart, Keeping
<1>2. SysInv /\ FlagInv /\ [SysNext]_sysVars => FlagInv'
  <2> SUFFICES ASSUME SysInv, FlagInv, [SysNext]_sysVars PROVE FlagInv'
    OBVIOUS
  <2>1. CASE UNCHANGED hbVars
    BY <2>1 DEF hbVars, FlagInv, CrossedOK, MineInv, AgreeInv, KeptInv, InStart, Keeping, HB!Alive,
       HB!Spawning, HB!Stopping
  <2>2. CASE HB!HbNext /\ Crosses
    BY <2>2, FlagStep DEF SysInv
  <2>3. CASE HB!HbReset /\ crossed' = "never"
    BY <2>3, SystemAssumption DEF HB!HbReset, HB!Actors, HB!Alive, HB!Spawning, HB!Stopping,
       FlagInv, CrossedOK, MineInv, AgreeInv, KeptInv, InStart, Keeping
  <2>4. QED  BY <2>1, <2>2, <2>3 DEF SysNext, sysVars
<1>3. FlagInv => FlagTellsLoop
  <2> SUFFICES ASSUME FlagInv, ManagerQuiet PROVE FlagTellsLoop
    BY DEF FlagTellsLoop
  <2>1. ~HB!Spawning /\ ~HB!Stopping /\ \A c \in Callers : mine[c] = {}
    BY DEF ManagerQuiet, HB!Spawning, HB!Stopping, FlagInv, MineInv, Keeping
  <2>2. crossed # "now" => (isRunning <=> handle # {}) /\ handle \subseteq HB!Alive
    BY <2>1 DEF FlagInv, AgreeInv
  <2>3. crossed = "never" => HB!Alive \subseteq handle
    BY <2>1 DEF FlagInv, KeptInv
  <2>4. QED  BY <2>2, <2>3 DEF FlagTellsLoop
<1>4. QED  BY <1>1, <1>2, <1>3, SysInvariance, PTL DEF SysSpec

-----------------------------------------------------------------------------
(* How often the user is told *)

(* Between sending and marking a tick is concerned with one run.           *)
TellingInv ==
    \A p \in HB!Actors : \A r \in telling[p] : hbpc[p] = "mark" /\ telling[p] = {r}

(* Who may tell of run r once more in this life of the process: a tick has *)
(* it among its rows, or may yet read it as unsent; the run's own loop has *)
(* not announced it.                                                       *)
MayTell(r) ==
    {p \in HB!Actors : /\ hbpc[p] # "gone"
                       /\ \/ \E v \in Verdicts : <<r, v>> \in rows[p]
                          \/ ~notified[r] /\ r \notin telling[p]}

LoopMayTell(r) == IF pc[r] \in {"sent", "done", "lost"} THEN 0 ELSE 1

(* Messages sent and messages still to be feared.                          *)
BudgetInv ==
    \A r \in Runs : \A v \in Verdicts :
        deliveries[r][v] + Cardinality(MayTell(r)) + LoopMayTell(r)
            <= (1 + Cardinality(HB!Actors)) * (1 + crashes)

(* Announcing a run uses up what its loop may tell. *)
LEMMA LoopSpends ==
  ASSUME IInv, Running \/ UNCHANGED vars
  PROVE  /\ \A r \in Runs : \A v \in Verdicts :
               deliveries'[r][v] + LoopMayTell(r)' <= deliveries[r][v] + LoopMayTell(r)
         /\ \A r \in Runs : notified[r] => notified'[r]
         /\ UNCHANGED crashes
<1> USE DEF IInv, TypeOK, StoreTypeOK, NotifierTypeOK
<1> DEFINE Spends == \A r \in Runs : \A v \in Verdicts :
                        deliveries'[r][v] + LoopMayTell(r)' <= deliveries[r][v] + LoopMayTell(r)
           Keeps == (\A r \in Runs : notified[r] => notified'[r]) /\ UNCHANGED crashes
           Over(r) == pc[r] \in {"sent", "done", "lost"}
<1>0. UNCHANGED deliveries /\ (\A r \in Runs : Over(r) => Over(r)') => Spends
  BY DEF LoopMayTell
<1> HIDE DEF Spends
<1> SUFFICES Spends /\ Keeps
  BY DEF Spends
<1>1. CASE UNCHANGED vars
  BY <1>0, <1>1 DEF vars, storeVars, notifierVars, loopVars
<1>2. CASE Command
  BY <1>0, <1>2 DEF Command, Reconfigure, SetTargets, Create, create_run, Start, Goto, Cancel,
              cancel_run, AddTask, add_task_to_run, storeVars, notifierVars, loopVars
<1>3. ASSUME NEW q \in Runs, LoopStep(q), ~Announce(q)
      PROVE  Spends /\ Keeps
  BY <1>0, <1>3 DEF LoopStep, storeVars, notifierVars, Goto, MarkRunRunning, FetchRunnable,
              CheckTerminal, CheckLive, Sleep, BatchSpawned, Join, Decide, RecordVerdict, MarkSent,
              TakeTask, MarkTaskRunning, SpawnThread, AgentMissing, update_run_status,
              update_task_status, mark_notification_sent
<1>4. ASSUME NEW q \in Runs, Announce(q)
      PROVE  Spends /\ Keeps
  <2>1. verdict[q] \in Verdicts /\ broadcast(q, verdict[q])
    BY <1>4 DEF Announce
  <2>2. pc[q] = "announce" /\ pc' = [pc EXCEPT ![q] = IF targets THEN "sent" ELSE "done"]
    BY <1>4 DEF Announce, Goto
  <2>3. ASSUME NEW r \in Runs, NEW v \in Verdicts
        PROVE  deliveries'[r][v] + LoopMayTell(r)' <= deliveries[r][v] + LoopMayTell(r)
    <3>1. /\ deliveries[r][v] \in Nat
          /\ \/ deliveries'[r][v] = deliveries[r][v]
             \/ r = q /\ targets /\ deliveries'[r][v] = deliveries[r][v] + 1
      BY <2>1, BroadcastCounts
    <3>2. CASE r = q
      BY <2>2, <3>1, <3>2 DEF LoopMayTell
    <3>3. CASE r # q
      BY <2>2, <3>1, <3>3 DEF LoopMayTell
    <3>4. QED  BY <3>2, <3>3
  <2>4. Keeps
    BY <1>4 DEF Announce, storeVars
  <2>5. QED  BY <2>3, <2>4 DEF Spends
<1>5. ASSUME NEW t \in Tasks, ThreadStep(t) PROVE Spends /\ Keeps
  BY <1>0, <1>5 DEF ThreadStep, storeVars, notifierVars, loopVars, Acquire, Finish, Panic,
              RecordTimeout, RecordSuccess, Publish, RecordRetry, RecordFailure, BackoffEnds,
              update_task_status
<1> HIDE DEF Keeps, IInv
<1>6. QED  BY <1>1, <1>2, <1>3, <1>4, <1>5 DEF Running

(* Commands and loops between ticks: a tick that has sent is left alone or *)
(* dropped for good.                                                       *)
LEMMA OwnTelling ==
  ASSUME HB!HbTypeOK,
         \/ \E c \in Callers : HB!Call(c) \/ HB!CallerOwn(c)
         \/ \E l \in Loops : HB!LoopOwn(l),
         NEW p \in HB!Actors
  PROVE  /\ hbpc[p] = "gone" => hbpc'[p] = "gone"
         /\ hbpc'[p] # "gone" => telling'[p] = telling[p] /\ (hbpc[p] = "mark" => hbpc'[p] = "mark")
         /\ hbpc'[p] = "gone" => \/ telling'[p] = {}
                                 \/ telling'[p] = telling[p] /\ hbpc[p] # "mark"
<1> DEFINE Kept ==
       /\ hbpc[p] = "gone" => hbpc'[p] = "gone"
       /\ hbpc'[p] # "gone" => telling'[p] = telling[p] /\ (hbpc[p] = "mark" => hbpc'[p] = "mark")
       /\ hbpc'[p] = "gone" => \/ telling'[p] = {}
                               \/ telling'[p] = telling[p] /\ hbpc[p] # "mark"
<1> USE DEF HB!HbTypeOK, HB!Actors, HB!Move
<1>1. ASSUME NEW c \in Callers, HB!Call(c) PROVE Kept
  BY <1>1 DEF HB!Call, HB!CallStart, HB!CallStop, HB!CallUpdateConfig, HB!CallTrigger
<1>2. ASSUME NEW l \in Loops, HB!LoopOwn(l) PROVE Kept
  BY <1>2 DEF HB!LoopOwn, HB!LoopCheck, HB!LoopHours, HB!SkipTick, HB!LoopWake
<1>3. ASSUME NEW c \in Callers, HB!CallerOwn(c) PROVE Kept
  <2>1. CASE HB!StartCheck(c) \/ HB!StartSetFlag(c) \/ HB!StartStoreHandle(c) \/ HB!StopClearFlag(c)
    BY <2>1 DEF HB!StartCheck, HB!StartSetFlag, HB!StartStoreHandle, HB!StopClearFlag
  <2>2. ASSUME NEW l \in Loops, HB!StartSpawn(c, l) PROVE Kept
    BY <2>2 DEF HB!StartSpawn
  <2>3. CASE HB!StopAbort(c)
    BY <2>3 DEF HB!StopAbort
  <2>4. QED  BY <1>3, <2>1, <2>2, <2>3 DEF HB!CallerOwn
<1>4. QED  BY <1>1, <1>2, <1>3

(* A step of the heartbeat sends nothing and lets nobody tell who might    *)
(* not have, or it sends one message and its tick is done with the run.    *)
Frugal ==
    /\ TellingInv'
    /\ \A r \in Runs : \A v \in Verdicts :
          \/ deliveries'[r][v] = deliveries[r][v] /\ MayTell(r)' \subseteq MayTell(r)
          \/ /\ deliveries'[r][v] = deliveries[r][v] + 1
             /\ \E p \in MayTell(r) : MayTell(r)' \subseteq MayTell(r) \ {p}

LEMMA OwnIsFrugal ==
  ASSUME HB!HbTypeOK, TellingInv, UNCHANGED <<storeVars, notifierVars>>,
         \/ \E c \in Callers : HB!Call(c) \/ HB!CallerOwn(c)
         \/ \E l \in Loops : HB!LoopOwn(l)
  PROVE  Frugal
<1>1. \A p \in HB!Actors :
         /\ rows'[p] \subseteq rows[p] /\ telling'[p] \subseteq telling[p]
         /\ hbpc[p] = "gone" => hbpc'[p] = "gone"
         /\ hbpc'[p] # "gone" => telling'[p] = telling[p] /\ (hbpc[p] = "mark" => hbpc'[p] = "mark")
         /\ hbpc'[p] = "gone" => \/ telling'[p] = {}
                                 \/ telling'[p] = telling[p] /\ hbpc[p] # "mark"
  BY OwnIsQuiet, OwnTelling DEF Quietly
<1>2. TellingInv'
  BY <1>1 DEF TellingInv
<1>3. \A r \in Runs : MayTell(r)' \subseteq MayTell(r)
  BY <1>1 DEF MayTell, storeVars
<1>4. QED  BY <1>2, <1>3 DEF Frugal, notifierVars

LEMMA ScanIsFrugal ==
  ASSUME HB!HbTypeOK, TellingInv, NEW p \in HB!Actors, HB!Scan(p)
  PROVE  Frugal
<1>1. /\ UNCHANGED <<notified, deliveries, telling>>
      /\ \A q \in HB!Actors : \A r \in Runs : \A v \in Verdicts :
            <<r, v>> \in rows'[q] =>
               <<r, v>> \in rows[q] \/ (q = p /\ runStatus[r] = v /\ ~notified[r])
  BY ScanReads DEF storeVars, notifierVars
<1>2. hbpc[p] = "scan" /\ hbpc' = [hbpc EXCEPT ![p] = "rows"]
  BY DEF HB!Scan, HB!Move
<1>3. telling[p] = {}
  BY <1>2 DEF TellingInv, HB!HbTypeOK
<1>4. TellingInv'
  BY <1>1, <1>2, <1>3 DEF TellingInv, HB!HbTypeOK
<1>5. \A r \in Runs : MayTell(r)' \subseteq MayTell(r)
  BY <1>1, <1>2, <1>3 DEF MayTell, HB!HbTypeOK
<1>6. QED  BY <1>1, <1>4, <1>5 DEF Frugal

LEMMA MarkIsFrugal ==
  ASSUME HB!HbTypeOK, notified \in [Runs -> BOOLEAN], TellingInv,
         NEW p \in HB!Actors, NEW q \in Runs, HB!Mark(p, q)
  PROVE  Frugal
<1>1. /\ UNCHANGED <<deliveries, rows>>
      /\ hbpc[p] = "mark" /\ hbpc' = [hbpc EXCEPT ![p] = "rows"]
      /\ telling[p] = {q} /\ telling' = [telling EXCEPT ![p] = {}]
      /\ notified' = [notified EXCEPT ![q] = TRUE]
  BY DEF HB!Mark, HB!Move, HB!mark_notification_sent, HB!notifierVars, TellingInv
<1>2. TellingInv'
  BY <1>1 DEF TellingInv, HB!HbTypeOK
<1>3. \A r \in Runs : MayTell(r)' \subseteq MayTell(r)
  BY <1>1 DEF MayTell, HB!HbTypeOK
<1>4. QED  BY <1>1, <1>2, <1>3 DEF Frugal

LEMMA TickDoneIsFrugal ==
  ASSUME HB!HbTypeOK, TellingInv, NEW p \in HB!Actors, HB!TickDone(p)
  PROVE  Frugal
<1>1. /\ UNCHANGED <<notified, deliveries, rows, telling>>
      /\ hbpc[p] = "rows"
      /\ \E s \in {"asleep", "idle"} : hbpc' = [hbpc EXCEPT ![p] = s]
  BY DEF HB!TickDone, HB!Move, HB!storeVars, HB!notifierVars
<1>2. TellingInv'
  BY <1>1 DEF TellingInv, HB!HbTypeOK
<1>3. \A r \in Runs : MayTell(r)' \subseteq MayTell(r)
  BY <1>1 DEF MayTell, HB!HbTypeOK
<1>4. QED  BY <1>1, <1>2, <1>3 DEF Frugal

(* The rows of a tick name a run once, with its verdict: having sent one,  *)
(* the tick does not have the run any more, and will find it marked.       *)
LEMMA TellIsFrugal ==
  ASSUME SysInv, TellingInv, NEW p \in HB!Actors, NEW q \in Runs, NEW w \in Verdicts,
         HB!Tell(p, q, w)
  PROVE  Frugal
<1>0. HB!HbTypeOK /\ NotifierTypeOK
  BY DEF SysInv, IInv, TypeOK
<1>1. /\ hbpc[p] = "rows" /\ <<q, w>> \in rows[p] /\ broadcast(q, w) /\ UNCHANGED notified
      /\ rows' = [rows EXCEPT ![p] = @ \ {<<q, w>>}]
      /\ telling' = [telling EXCEPT ![p] = IF targets THEN {q} ELSE {}]
      /\ hbpc' = [hbpc EXCEPT ![p] = IF targets THEN "mark" ELSE "rows"]
  BY DEF HB!Tell, HB!Move, HB!broadcast, broadcast, HB!storeVars
<1>2. telling[p] = {}
  BY <1>0, <1>1 DEF TellingInv, HB!HbTypeOK
<1>3. TellingInv'
  BY <1>0, <1>1 DEF TellingInv, HB!HbTypeOK
<1>4. \A r \in Runs : MayTell(r)' \subseteq MayTell(r)
  BY <1>0, <1>1, <1>2 DEF MayTell, HB!HbTypeOK
<1>5. \A v \in Verdicts : <<q, v>> \in rows[p] => v = w
  BY <1>1 DEF SysInv, MessageInv, Concluded
<1>6. p \in MayTell(q) /\ (targets => p \notin MayTell(q)')
  BY <1>0, <1>1, <1>5 DEF MayTell, HB!HbTypeOK
<1>7. \A r \in Runs : \A v \in Verdicts :
         \/ deliveries'[r][v] = deliveries[r][v]
         \/ r = q /\ targets /\ deliveries'[r][v] = deliveries[r][v] + 1
  BY <1>0, <1>1, BroadcastCounts
<1>8. QED  BY <1>3, <1>4, <1>6, <1>7 DEF Frugal

LEMMA HeartbeatIsFrugal ==
  ASSUME SysInv, TellingInv, HB!HbNext
  PROVE  Frugal
<1>0. HB!HbTypeOK /\ notified \in [Runs -> BOOLEAN]
  BY DEF SysInv, IInv, TypeOK, StoreTypeOK
<1>1. ASSUME NEW c \in Callers, HB!Call(c), UNCHANGED <<storeVars, notifierVars>> PROVE Frugal
  BY <1>0, <1>1, OwnIsFrugal
<1>2. ASSUME NEW p \in HB!Actors, HB!ActorStep(p), ~HB!Tick(p) PROVE Frugal
  <2>1. /\ (p \in Loops /\ HB!LoopOwn(p)) \/ (p \in Callers /\ HB!CallerOwn(p))
        /\ UNCHANGED <<storeVars, notifierVars>>
    BY <1>2 DEF HB!ActorStep, HB!storeVars, storeVars, HB!notifierVars, notifierVars
  <2>2. QED  BY <1>0, <2>1, OwnIsFrugal
<1>3. ASSUME NEW p \in HB!Actors, HB!Tick(p) PROVE Frugal
  BY <1>0, <1>3, ScanIsFrugal, MarkIsFrugal, TickDoneIsFrugal, TellIsFrugal
     DEF HB!Tick, HB!Verdicts, Verdicts
<1>4. \/ \E p \in HB!Actors : HB!ActorStep(p)
      \/ \E c \in Callers : HB!Call(c) /\ UNCHANGED <<storeVars, notifierVars>>
  BY DEF HB!HbNext, HB!storeVars, storeVars, HB!notifierVars, notifierVars
<1>5. QED  BY <1>1, <1>2, <1>3, <1>4

(* Everybody who may tell of a run is one of the actors. *)
LEMMA MayTellFinite ==
  ASSUME NEW r \in Runs
  PROVE  /\ Cardinality(HB!Actors) \in Nat
         /\ IsFiniteSet(MayTell(r)) /\ Cardinality(MayTell(r)) \in Nat
         /\ Cardinality(MayTell(r)) <= Cardinality(HB!Actors)
         /\ IsFiniteSet(MayTell(r)') /\ Cardinality(MayTell(r)') \in Nat
         /\ Cardinality(MayTell(r)') <= Cardinality(HB!Actors)
<1>1. IsFiniteSet(HB!Actors)
  BY SystemAssumption DEF HB!Actors
<1>2. MayTell(r) \subseteq HB!Actors /\ MayTell(r)' \subseteq HB!Actors
  BY DEF MayTell, HB!Actors
<1>3. QED  BY <1>1, <1>2, FS_Subset, FS_CardinalityType

LEMMA BudgetStep == SysInv /\ TellingInv /\ BudgetInv /\ [SysNext]_sysVars => TellingInv' /\ BudgetInv'
<1> SUFFICES ASSUME SysInv, TellingInv, BudgetInv, [SysNext]_sysVars
             PROVE  TellingInv' /\ BudgetInv'
  OBVIOUS
<1> DEFINE N == Cardinality(HB!Actors)
<1>0. IInv /\ NotifierTypeOK /\ NotifierTypeOK' /\ crashes \in Nat /\ crashes' \in Nat
  BY SysStep DEF SysInv, IInv, TypeOK
<1>1. CASE (Running \/ UNCHANGED vars) /\ UNCHANGED hbVars
  <2>1. TellingInv'
    BY <1>1 DEF TellingInv, hbVars
  <2>2. ASSUME NEW r \in Runs, NEW v \in Verdicts
        PROVE  deliveries'[r][v] + Cardinality(MayTell(r)') + LoopMayTell(r)'
                  <= (1 + N) * (1 + crashes')
    <3>1. MayTell(r)' \subseteq MayTell(r)
      BY <1>0, <1>1, LoopSpends DEF MayTell, hbVars
    <3>2. Cardinality(MayTell(r)') <= Cardinality(MayTell(r))
      BY <3>1, MayTellFinite, FS_Subset
    <3>3. /\ deliveries'[r][v] + LoopMayTell(r)' <= deliveries[r][v] + LoopMayTell(r)
          /\ crashes' = crashes
      BY <1>0, <1>1, LoopSpends
    <3>4. deliveries[r][v] + Cardinality(MayTell(r)) + LoopMayTell(r) <= (1 + N) * (1 + crashes)
      BY DEF BudgetInv
    <3>5. /\ deliveries[r][v] \in Nat /\ deliveries'[r][v] \in Nat
          /\ LoopMayTell(r) \in Nat /\ LoopMayTell(r)' \in Nat
      BY <1>0 DEF NotifierTypeOK, LoopMayTell
    <3>6. (1 + N) * (1 + crashes) \in Nat
      BY <1>0, MayTellFinite
    <3>7. QED  BY <3>2, <3>3, <3>4, <3>5, <3>6, MayTellFinite
  <2>3. QED  BY <2>1, <2>2 DEF BudgetInv
<1>2. CASE HB!HbNext /\ UNCHANGED execVars
  <2>1. Frugal
    BY <1>2, HeartbeatIsFrugal
  <2>2. ASSUME NEW r \in Runs, NEW v \in Verdicts
        PROVE  deliveries'[r][v] + Cardinality(MayTell(r)') + LoopMayTell(r)'
                  <= (1 + N) * (1 + crashes')
    <3>1. deliveries'[r][v] + Cardinality(MayTell(r)') <= deliveries[r][v] + Cardinality(MayTell(r))
      <4>1. CASE deliveries'[r][v] = deliveries[r][v] /\ MayTell(r)' \subseteq MayTell(r)
        BY <1>0, <4>1, MayTellFinite, FS_Subset DEF NotifierTypeOK
      <4>2. ASSUME NEW p \in MayTell(r), MayTell(r)' \subseteq MayTell(r) \ {p},
                   deliveries'[r][v] = deliveries[r][v] + 1
            PROVE  deliveries'[r][v] + Cardinality(MayTell(r)')
                      <= deliveries[r][v] + Cardinality(MayTell(r))
        <5>1. /\ IsFiniteSet(MayTell(r) \ {p})
              /\ Cardinality(MayTell(r) \ {p}) = Cardinality(MayTell(r)) - 1
          BY MayTellFinite, FS_RemoveElement
        <5>2. Cardinality(MayTell(r)') <= Cardinality(MayTell(r)) - 1
          BY <4>2, <5>1, FS_Subset
        <5>3. QED  BY <1>0, <4>2, <5>2, MayTellFinite DEF NotifierTypeOK
      <4>3. QED  BY <2>1, <4>1, <4>2 DEF Frugal
    <3>2. LoopMayTell(r)' = LoopMayTell(r) /\ crashes' = crashes
      BY <1>2 DEF LoopMayTell, execVars, loopVars
    <3>3. QED  BY <1>0, <3>1, <3>2, MayTellFinite DEF BudgetInv, NotifierTypeOK, LoopMayTell
  <2>3. QED  BY <2>1, <2>2 DEF BudgetInv, Frugal
<1>3. CASE Crash /\ HB!HbReset
  <2>1. TellingInv'
    BY <1>3 DEF TellingInv, HB!HbReset, HB!Actors
  <2>2. ASSUME NEW r \in Runs, NEW v \in Verdicts
        PROVE  deliveries'[r][v] + Cardinality(MayTell(r)') + LoopMayTell(r)'
                  <= (1 + N) * (1 + crashes')
    <3>1. deliveries'[r][v] = deliveries[r][v] /\ crashes' = crashes + 1
      BY <1>3 DEF Crash, notifierVars
    <3>2. deliveries[r][v] <= (1 + N) * (1 + crashes)
      <4>1. LoopMayTell(r) \in Nat /\ deliveries[r][v] \in Nat
        BY <1>0 DEF LoopMayTell, NotifierTypeOK
      <4>2. (1 + N) * (1 + crashes) \in Nat
        BY <1>0, MayTellFinite
      <4>3. QED  BY <4>1, <4>2, MayTellFinite DEF BudgetInv
    <3>3. (1 + N) * (1 + crashes') = (1 + N) * (1 + crashes) + (1 + N)
      BY <1>0, <3>1, MayTellFinite
    <3>4. LoopMayTell(r)' \in {0, 1}
      BY DEF LoopMayTell
    <3>5. QED  BY <1>0, <3>1, <3>2, <3>3, <3>4, MayTellFinite DEF NotifierTypeOK
  <2>3. QED  BY <2>1, <2>2 DEF BudgetInv
<1>4. QED  BY <1>1, <1>2, <1>3 DEF SysNext, sysVars

(* A run is announced at most once by its loop and once by each heartbeat  *)
(* loop or caller per life of the process: the mark comes after the        *)
(* message, so until it is there each of them may read the run as unsent,  *)
(* but none a second time.                                                 *)
THEOREM DuplicatesAreBounded == SysSpec => []DuplicatesBounded
<1>1. SysInit => TellingInv /\ BudgetInv
  <2> SUFFICES ASSUME SysInit PROVE TellingInv /\ BudgetInv
    OBVIOUS
  <2>1. TellingInv
    BY DEF SysInit, HB!HbInit, TellingInv
  <2>2. crashes = 0 /\ (\A r \in Runs : LoopMayTell(r) = 1)
        /\ \A r \in Runs : \A v \in Verdicts : deliveries[r][v] = 0
    BY DEF SysInit, Init, NotifierInit, LoopMayTell
  <2>3. QED  BY <2>1, <2>2, MayTellFinite DEF BudgetInv
<1>2. SysInv /\ BudgetInv => DuplicatesBounded
  <2> SUFFICES ASSUME SysInv, BudgetInv, NEW r \in Runs, NEW v \in Verdicts
               PROVE  deliveries[r][v] <= (1 + Cardinality(HB!Actors)) * (1 + crashes)
    BY DEF DuplicatesBounded
  <2>1. /\ deliveries[r][v] \in Nat /\ LoopMayTell(r) \in Nat /\ crashes \in Nat
    BY DEF SysInv, IInv, TypeOK, NotifierTypeOK, LoopMayTell
  <2>2. (1 + Cardinality(HB!Actors)) * (1 + crashes) \in Nat
    BY <2>1, MayTellFinite
  <2>3. QED  BY <2>1, <2>2, MayTellFinite DEF BudgetInv
<1>3. QED  BY <1>1, <1>2, BudgetStep, SysInvariance, PTL DEF SysSpec

=============================================================================
