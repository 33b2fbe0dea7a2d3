----------------------------- MODULE DagProofs -----------------------------
(***************************************************************************)
(* Proofs about the DAG executor, for every set of runs and tasks, every   *)
(* dependency relation, retry limit and number of permits, with panics and *)
(* any number of crashes: the invariant IInv is inductive; the safety      *)
(* properties and the refinement of DagPromise follow from it; and a run   *)
(* reported completed is done.                                             *)
(***************************************************************************)
EXTENDS DagProperties, TLAPS

(* The initial state satisfies the invariant: nothing exists yet. *)
LEMMA InitInv == Init => IInv
  BY StoreAssumption
  DEF Init, StoreInit, NotifierInit, IInv, TypeOK, StoreTypeOK, NotifierTypeOK, BatchInv,
      CurInv, ThreadInv, RowInv, RunStatuses, TaskStatuses, LoopStates, ThreadStates, Verdicts

(* create_run writes only rows that did not exist *)
LEMMA CreateInv ==
  ASSUME IInv, NEW r \in Runs, Create(r)
  PROVE  IInv'
<1> USE StoreAssumption DEF IInv, Create, create_run, initial_status, storeVars, notifierVars, loopVars
<1>1. TypeOK'
  BY DEF TypeOK, StoreTypeOK, NotifierTypeOK, RunStatuses, TaskStatuses
<1>2. BatchInv'
  BY DEF TypeOK, StoreTypeOK, BatchInv, RowInv, Ready
<1>3. CurInv'
  BY DEF TypeOK, StoreTypeOK, CurInv, RowInv, Ready
<1>4. ThreadInv'
  BY DEF ThreadInv, RowInv
<1>5. RowInv'
  BY DEF TypeOK, StoreTypeOK, RowInv
<1>6. QED  BY <1>1, <1>2, <1>3, <1>4, <1>5

(* spawning the loop *)
LEMMA StartInv ==
  ASSUME IInv, NEW r \in Runs, Start(r)
  PROVE  IInv'
<1> USE StoreAssumption DEF IInv, Start, Goto, storeVars, notifierVars, loopVars
<1>1. TypeOK'
  BY DEF TypeOK, StoreTypeOK, NotifierTypeOK, LoopStates
<1>2. BatchInv'
  BY DEF BatchInv, Ready
<1>3. CurInv'
  BY DEF CurInv, Ready
<1>4. ThreadInv'
  BY DEF ThreadInv
<1>5. RowInv'
  BY DEF RowInv
<1>6. QED  BY <1>1, <1>2, <1>3, <1>4, <1>5

(* a new row, with edges inside its run *)
LEMMA AddTaskInv ==
  ASSUME IInv, NEW t \in Tasks, AddTask(t)
  PROVE  IInv'
<1> USE StoreAssumption DEF IInv, AddTask, add_task_to_run, initial_status, TasksOf, storeVars, notifierVars, loopVars
<1>1. TypeOK'
  BY DEF TypeOK, StoreTypeOK, NotifierTypeOK, TaskStatuses
<1>2. BatchInv'
  BY DEF BatchInv, Ready
<1>3. CurInv'
  BY DEF CurInv, Ready
<1>4. ThreadInv'
  BY DEF ThreadInv
<1>5. RowInv'
  BY DEF RowInv
<1>6. QED  BY <1>1, <1>2, <1>3, <1>4, <1>5

(* a cancel keeps completed and failed rows *)
LEMMA CancelInv ==
  ASSUME IInv, NEW r \in Runs, Cancel(r)
  PROVE  IInv'
<1> USE StoreAssumption DEF IInv, Cancel, cancel_run, TasksOf, Terminal, storeVars, notifierVars, loopVars
<1>1. TypeOK'
  BY DEF TypeOK, StoreTypeOK, NotifierTypeOK, RunStatuses, TaskStatuses
<1>2. BatchInv'
  BY DEF TypeOK, StoreTypeOK, BatchInv, Ready
<1>3. CurInv'
  BY DEF TypeOK, StoreTypeOK, CurInv, Ready
<1>4. ThreadInv'
  BY DEF ThreadInv
<1>5. RowInv'
  BY DEF RowInv
<1>6. QED  BY <1>1, <1>2, <1>3, <1>4, <1>5

(* targets are not part of the rest *)
LEMMA ReconfigureInv ==
  ASSUME IInv, Reconfigure
  PROVE  IInv'
<1> USE StoreAssumption DEF IInv, Reconfigure, SetTargets, storeVars, notifierVars, loopVars
<1>1. TypeOK'
  BY DEF TypeOK, StoreTypeOK, NotifierTypeOK
<1>2. BatchInv'
  BY DEF BatchInv, Ready
<1>3. CurInv'
  BY DEF CurInv, Ready
<1>4. ThreadInv'
  BY DEF ThreadInv
<1>5. RowInv'
  BY DEF RowInv
<1>6. QED  BY <1>1, <1>2, <1>3, <1>4, <1>5

(* run status only *)
LEMMA MarkRunRunningInv ==
  ASSUME IInv, NEW r \in Runs, MarkRunRunning(r)
  PROVE  IInv'
<1> USE StoreAssumption DEF IInv, MarkRunRunning, update_run_status, Goto, storeVars, notifierVars, loopVars
<1>1. TypeOK'
  BY DEF TypeOK, StoreTypeOK, NotifierTypeOK, RunStatuses, LoopStates
<1>2. BatchInv'
  BY DEF BatchInv, Ready
<1>3. CurInv'
  BY DEF CurInv, Ready
<1>4. ThreadInv'
  BY DEF ThreadInv
<1>5. RowInv'
  BY DEF RowInv
<1>6. QED  BY <1>1, <1>2, <1>3, <1>4, <1>5

(* the snapshot is taken while no execution of the run is alive *)
LEMMA FetchInv ==
  ASSUME IInv, NEW r \in Runs, FetchRunnable(r)
  PROVE  IInv'
<1> USE StoreAssumption DEF IInv, FetchRunnable, Goto, get_runnable_tasks, TasksOf, storeVars, notifierVars, loopVars
<1>1. TypeOK'
  BY DEF TypeOK, StoreTypeOK, NotifierTypeOK, LoopStates
<1>2. BatchInv'
  BY DEF TypeOK, StoreTypeOK, BatchInv, CurInv, ThreadInv, RowInv, Ready
<1>3. CurInv'
  BY DEF CurInv, Ready
<1>4. ThreadInv'
  BY DEF ThreadInv
<1>5. RowInv'
  BY DEF RowInv
<1>6. QED  BY <1>1, <1>2, <1>3, <1>4, <1>5

(* a read *)
LEMMA CheckTerminalInv ==
  ASSUME IInv, NEW r \in Runs, CheckTerminal(r)
  PROVE  IInv'
<1> USE StoreAssumption DEF IInv, CheckTerminal, Goto, storeVars, notifierVars, loopVars
<1>1. TypeOK'
  BY DEF TypeOK, StoreTypeOK, NotifierTypeOK, LoopStates
<1>2. BatchInv'
  BY DEF BatchInv, Ready
<1>3. CurInv'
  BY DEF CurInv, Ready
<1>4. ThreadInv'
  BY DEF ThreadInv
<1>5. RowInv'
  BY DEF RowInv
<1>6. QED  BY <1>1, <1>2, <1>3, <1>4, <1>5

(* a read, and the verdict *)
LEMMA CheckLiveInv ==
  ASSUME IInv, NEW r \in Runs, CheckLive(r)
  PROVE  IInv'
<1> USE StoreAssumption DEF IInv, CheckLive, Goto, storeVars, notifierVars, loopVars
<1>1. TypeOK'
  BY DEF TypeOK, StoreTypeOK, NotifierTypeOK, LoopStates, Verdicts
<1>2. BatchInv'
  BY DEF TypeOK, BatchInv, CurInv, Ready
<1>3. CurInv'
  BY DEF TypeOK, CurInv, Ready
<1>4. ThreadInv'
  BY DEF TypeOK, ThreadInv
<1>5. RowInv'
  BY DEF RowInv
<1>6. QED  BY <1>1, <1>2, <1>3, <1>4, <1>5

(* a pause *)
LEMMA SleepInv ==
  ASSUME IInv, NEW r \in Runs, Sleep(r)
  PROVE  IInv'
<1> USE StoreAssumption DEF IInv, Sleep, Goto, storeVars, notifierVars, loopVars
<1>1. TypeOK'
  BY DEF TypeOK, StoreTypeOK, NotifierTypeOK, LoopStates
<1>2. BatchInv'
  BY DEF BatchInv, Ready
<1>3. CurInv'
  BY DEF CurInv, Ready
<1>4. ThreadInv'
  BY DEF ThreadInv
<1>5. RowInv'
  BY DEF RowInv
<1>6. QED  BY <1>1, <1>2, <1>3, <1>4, <1>5

(* from the batch to the hand *)
LEMMA TakeTaskInv ==
  ASSUME IInv, NEW r \in Runs, NEW t \in Tasks, TakeTask(r, t)
  PROVE  IInv'
<1> USE StoreAssumption DEF IInv, TakeTask, Goto, storeVars, notifierVars, loopVars
<1>1. TypeOK'
  BY DEF TypeOK, StoreTypeOK, NotifierTypeOK, LoopStates
<1>2. BatchInv'
  BY DEF TypeOK, BatchInv, Ready
<1>3. CurInv'
  BY DEF TypeOK, BatchInv, CurInv, Ready
<1>4. ThreadInv'
  BY DEF ThreadInv
<1>5. RowInv'
  BY DEF RowInv
<1>6. QED  BY <1>1, <1>2, <1>3, <1>4, <1>5

(* the row of a ready task is written, the attempt counted *)
LEMMA MarkTaskRunningInv ==
  ASSUME IInv, NEW r \in Runs, NEW t \in Tasks, MarkTaskRunning(r, t)
  PROVE  IInv'
<1> USE StoreAssumption DEF IInv, MarkTaskRunning, update_task_status, Goto, storeVars, notifierVars, loopVars
<1>1. TypeOK'
  BY DEF TypeOK, StoreTypeOK, NotifierTypeOK, LoopStates, TaskStatuses
<1>2. BatchInv'
  BY DEF BatchInv, CurInv, Ready
<1>3. CurInv'
  BY DEF TypeOK, StoreTypeOK, BatchInv, CurInv, Ready
<1>4. ThreadInv'
  BY DEF CurInv, ThreadInv
<1>5. RowInv'
  <2>1. /\ taskStatus' = [taskStatus EXCEPT ![t] = "running"]
        /\ attempt' = [attempt EXCEPT ![t] = @ + 1]
        /\ UNCHANGED <<edges, runStatus>>
    OBVIOUS
  <2>2. /\ attempt[t] <= MaxRetries[t] + 1 /\ MaxRetries[t] \in Nat /\ attempt[t] \in Nat
        /\ taskStatus[t] # "absent"
    BY DEF TypeOK, StoreTypeOK, CurInv
  <2>3. runStatus[RunOf[t]] # "absent"
    BY <2>2 DEF RowInv
  <2> HIDE DEF MarkTaskRunning
  <2>4. QED  BY <2>1, <2>2, <2>3 DEF TypeOK, StoreTypeOK, RowInv
<1>6. QED  BY <1>1, <1>2, <1>3, <1>4, <1>5

(* from the hand to a thread *)
LEMMA SpawnThreadInv ==
  ASSUME IInv, NEW r \in Runs, NEW t \in Tasks, SpawnThread(r, t)
  PROVE  IInv'
<1> USE StoreAssumption DEF IInv, SpawnThread, Goto, storeVars, notifierVars, loopVars
<1>1. TypeOK'
  BY DEF TypeOK, StoreTypeOK, NotifierTypeOK, LoopStates, ThreadStates
<1>2. BatchInv'
  BY DEF BatchInv, CurInv, Ready
<1>3. CurInv'
  BY DEF TypeOK, CurInv, Ready
<1>4. ThreadInv'
  BY DEF CurInv, ThreadInv
<1>5. RowInv'
  BY DEF RowInv
<1>6. QED  BY <1>1, <1>2, <1>3, <1>4, <1>5

(* the loop itself records a failure *)
LEMMA AgentMissingInv ==
  ASSUME IInv, NEW r \in Runs, NEW t \in Tasks, AgentMissing(r, t)
  PROVE  IInv'
<1> USE StoreAssumption DEF IInv, AgentMissing, update_task_status, Goto, storeVars, notifierVars, loopVars
<1>1. TypeOK'
  BY DEF TypeOK, StoreTypeOK, NotifierTypeOK, LoopStates, TaskStatuses
<1>2. BatchInv'
  BY DEF BatchInv, CurInv, Ready
<1>3. CurInv'
  BY DEF TypeOK, CurInv, Ready
<1>4. ThreadInv'
  BY DEF CurInv, ThreadInv
<1>5. RowInv'
  BY DEF CurInv, RowInv
<1>6. QED  BY <1>1, <1>2, <1>3, <1>4, <1>5

(* an empty batch *)
LEMMA BatchSpawnedInv ==
  ASSUME IInv, NEW r \in Runs, BatchSpawned(r)
  PROVE  IInv'
<1> USE StoreAssumption DEF IInv, BatchSpawned, Goto, storeVars, notifierVars, loopVars
<1>1. TypeOK'
  BY DEF TypeOK, StoreTypeOK, NotifierTypeOK, LoopStates
<1>2. BatchInv'
  BY DEF BatchInv, Ready
<1>3. CurInv'
  BY DEF CurInv, Ready
<1>4. ThreadInv'
  BY DEF ThreadInv
<1>5. RowInv'
  BY DEF RowInv
<1>6. QED  BY <1>1, <1>2, <1>3, <1>4, <1>5

(* no thread is left *)
LEMMA JoinInv ==
  ASSUME IInv, NEW r \in Runs, Join(r)
  PROVE  IInv'
<1> USE StoreAssumption DEF IInv, Join, Goto, ThreadsOf, storeVars, notifierVars, loopVars
<1>1. TypeOK'
  BY DEF TypeOK, StoreTypeOK, NotifierTypeOK, LoopStates
<1>2. BatchInv'
  BY DEF BatchInv, Ready
<1>3. CurInv'
  BY DEF CurInv, Ready
<1>4. ThreadInv'
  BY DEF ThreadInv
<1>5. RowInv'
  BY DEF RowInv
<1>6. QED  BY <1>1, <1>2, <1>3, <1>4, <1>5

(* a read, and the verdict *)
LEMMA DecideInv ==
  ASSUME IInv, NEW r \in Runs, Decide(r)
  PROVE  IInv'
<1> USE StoreAssumption DEF IInv, Decide, Goto, storeVars, notifierVars, loopVars
<1>1. TypeOK'
  BY DEF TypeOK, StoreTypeOK, NotifierTypeOK, LoopStates, Verdicts
<1>2. BatchInv'
  BY DEF BatchInv, Ready
<1>3. CurInv'
  BY DEF CurInv, Ready
<1>4. ThreadInv'
  BY DEF ThreadInv
<1>5. RowInv'
  BY DEF RowInv
<1>6. QED  BY <1>1, <1>2, <1>3, <1>4, <1>5

(* run status only *)
LEMMA RecordVerdictInv ==
  ASSUME IInv, NEW r \in Runs, RecordVerdict(r)
  PROVE  IInv'
<1> USE StoreAssumption DEF IInv, RecordVerdict, update_run_status, Goto, storeVars, notifierVars, loopVars
<1>1. TypeOK'
  BY DEF TypeOK, StoreTypeOK, NotifierTypeOK, LoopStates, RunStatuses, Verdicts
<1>2. BatchInv'
  BY DEF BatchInv, Ready
<1>3. CurInv'
  BY DEF CurInv, Ready
<1>4. ThreadInv'
  BY DEF ThreadInv
<1>5. RowInv'
  BY DEF TypeOK, RowInv, Verdicts
<1>6. QED  BY <1>1, <1>2, <1>3, <1>4, <1>5

(* a message *)
LEMMA AnnounceInv ==
  ASSUME IInv, NEW r \in Runs, Announce(r)
  PROVE  IInv'
<1> USE StoreAssumption DEF IInv, Announce, broadcast, Goto, storeVars, notifierVars, loopVars
<1>1. TypeOK'
  BY DEF TypeOK, StoreTypeOK, NotifierTypeOK, LoopStates, Verdicts
<1>2. BatchInv'
  BY DEF BatchInv, Ready
<1>3. CurInv'
  BY DEF CurInv, Ready
<1>4. ThreadInv'
  BY DEF ThreadInv
<1>5. RowInv'
  BY DEF RowInv
<1>6. QED  BY <1>1, <1>2, <1>3, <1>4, <1>5

(* the mark *)
LEMMA MarkSentInv ==
  ASSUME IInv, NEW r \in Runs, MarkSent(r)
  PROVE  IInv'
<1> USE StoreAssumption DEF IInv, MarkSent, mark_notification_sent, Goto, storeVars, notifierVars, loopVars
<1>1. TypeOK'
  BY DEF TypeOK, StoreTypeOK, NotifierTypeOK, LoopStates
<1>2. BatchInv'
  BY DEF BatchInv, Ready
<1>3. CurInv'
  BY DEF CurInv, Ready
<1>4. ThreadInv'
  BY DEF ThreadInv
<1>5. RowInv'
  BY DEF RowInv
<1>6. QED  BY <1>1, <1>2, <1>3, <1>4, <1>5

(* a permit or an error *)
LEMMA AcquireInv ==
  ASSUME IInv, NEW t \in Tasks, Acquire(t)
  PROVE  IInv'
<1> USE StoreAssumption DEF IInv, Acquire, Become, storeVars, notifierVars, loopVars
<1>1. TypeOK'
  BY DEF TypeOK, StoreTypeOK, NotifierTypeOK, ThreadStates
<1>2. BatchInv'
  BY DEF BatchInv, Ready
<1>3. CurInv'
  BY DEF CurInv, Ready
<1>4. ThreadInv'
  BY DEF ThreadInv
<1>5. RowInv'
  BY DEF RowInv
<1>6. QED  BY <1>1, <1>2, <1>3, <1>4, <1>5

(* the result is in hand *)
LEMMA FinishInv ==
  ASSUME IInv, NEW t \in Tasks, Finish(t)
  PROVE  IInv'
<1> USE StoreAssumption DEF IInv, Finish, Become, storeVars, notifierVars, loopVars
<1>1. TypeOK'
  BY DEF TypeOK, StoreTypeOK, NotifierTypeOK, ThreadStates
<1>2. BatchInv'
  BY DEF BatchInv, Ready
<1>3. CurInv'
  BY DEF CurInv, Ready
<1>4. ThreadInv'
  BY DEF ThreadInv
<1>5. RowInv'
  BY DEF RowInv
<1>6. QED  BY <1>1, <1>2, <1>3, <1>4, <1>5

(* the thread is gone *)
LEMMA PanicInv ==
  ASSUME IInv, NEW t \in Tasks, Panic(t)
  PROVE  IInv'
<1> USE StoreAssumption DEF IInv, Panic, Become, storeVars, notifierVars, loopVars
<1>1. TypeOK'
  BY DEF TypeOK, StoreTypeOK, NotifierTypeOK, ThreadStates
<1>2. BatchInv'
  BY DEF BatchInv, Ready
<1>3. CurInv'
  BY DEF CurInv, Ready
<1>4. ThreadInv'
  BY DEF ThreadInv
<1>5. RowInv'
  BY DEF RowInv
<1>6. QED  BY <1>1, <1>2, <1>3, <1>4, <1>5

(* an outcome for a row in execution *)
LEMMA RecordTimeoutInv ==
  ASSUME IInv, NEW t \in Tasks, RecordTimeout(t)
  PROVE  IInv'
<1> USE StoreAssumption DEF IInv, RecordTimeout, update_task_status, Become, storeVars, notifierVars, loopVars
<1>1. TypeOK'
  BY DEF TypeOK, StoreTypeOK, NotifierTypeOK, ThreadStates, TaskStatuses
<1>2. BatchInv'
  BY DEF BatchInv, Ready
<1>3. CurInv'
  BY DEF CurInv, Ready
<1>4. ThreadInv'
  BY DEF TypeOK, ThreadInv
<1>5. RowInv'
  BY DEF ThreadInv, RowInv
<1>6. QED  BY <1>1, <1>2, <1>3, <1>4, <1>5

(* an outcome for a row in execution *)
LEMMA RecordSuccessInv ==
  ASSUME IInv, NEW t \in Tasks, RecordSuccess(t)
  PROVE  IInv'
<1> USE StoreAssumption DEF IInv, RecordSuccess, update_task_status, Become, storeVars, notifierVars, loopVars
<1>1. TypeOK'
  BY DEF TypeOK, StoreTypeOK, NotifierTypeOK, ThreadStates, TaskStatuses
<1>2. BatchInv'
  BY DEF BatchInv, Ready
<1>3. CurInv'
  BY DEF CurInv, Ready
<1>4. ThreadInv'
  BY DEF TypeOK, StoreTypeOK, ThreadInv
<1>5. RowInv'
  BY DEF ThreadInv, RowInv
<1>6. QED  BY <1>1, <1>2, <1>3, <1>4, <1>5

(* the thread is over *)
LEMMA PublishInv ==
  ASSUME IInv, NEW t \in Tasks, Publish(t)
  PROVE  IInv'
<1> USE StoreAssumption DEF IInv, Publish, Become, storeVars, notifierVars, loopVars
<1>1. TypeOK'
  BY DEF TypeOK, StoreTypeOK, NotifierTypeOK, ThreadStates
<1>2. BatchInv'
  BY DEF BatchInv, Ready
<1>3. CurInv'
  BY DEF CurInv, Ready
<1>4. ThreadInv'
  BY DEF ThreadInv
<1>5. RowInv'
  BY DEF RowInv
<1>6. QED  BY <1>1, <1>2, <1>3, <1>4, <1>5

(* within the limit *)
LEMMA RecordRetryInv ==
  ASSUME IInv, NEW t \in Tasks, RecordRetry(t)
  PROVE  IInv'
<1> USE StoreAssumption DEF IInv, RecordRetry, RetryAllowed, update_task_status, Become, storeVars, notifierVars, loopVars
<1>1. TypeOK'
  BY DEF TypeOK, StoreTypeOK, NotifierTypeOK, ThreadStates, TaskStatuses
<1>2. BatchInv'
  BY DEF BatchInv, Ready
<1>3. CurInv'
  BY DEF CurInv, Ready
<1>4. ThreadInv'
  BY DEF TypeOK, StoreTypeOK, ThreadInv
<1>5. RowInv'
  BY DEF ThreadInv, RowInv
<1>6. QED  BY <1>1, <1>2, <1>3, <1>4, <1>5

(* an outcome for a row in execution *)
LEMMA RecordFailureInv ==
  ASSUME IInv, NEW t \in Tasks, RecordFailure(t)
  PROVE  IInv'
<1> USE StoreAssumption DEF IInv, RecordFailure, update_task_status, Become, storeVars, notifierVars, loopVars
<1>1. TypeOK'
  BY DEF TypeOK, StoreTypeOK, NotifierTypeOK, ThreadStates, TaskStatuses
<1>2. BatchInv'
  BY DEF BatchInv, Ready
<1>3. CurInv'
  BY DEF CurInv, Ready
<1>4. ThreadInv'
  BY DEF TypeOK, ThreadInv
<1>5. RowInv'
  BY DEF ThreadInv, RowInv
<1>6. QED  BY <1>1, <1>2, <1>3, <1>4, <1>5

(* pending again, with an attempt to spare *)
LEMMA BackoffEndsInv ==
  ASSUME IInv, NEW t \in Tasks, BackoffEnds(t)
  PROVE  IInv'
<1> USE StoreAssumption DEF IInv, BackoffEnds, update_task_status, Become, storeVars, notifierVars, loopVars
<1>1. TypeOK'
  BY DEF TypeOK, StoreTypeOK, NotifierTypeOK, ThreadStates, TaskStatuses
<1>2. BatchInv'
  BY DEF BatchInv, Ready
<1>3. CurInv'
  BY DEF CurInv, Ready
<1>4. ThreadInv'
  BY DEF TypeOK, ThreadInv
<1>5. RowInv'
  <2>1. /\ taskStatus' = [taskStatus EXCEPT ![t] = "pending"]
        /\ UNCHANGED <<attempt, edges, runStatus>>
    OBVIOUS
  <2>2. /\ attempt[t] <= MaxRetries[t] + 1
        /\ taskStatus[t] # "absent"
    <3>1. /\ snapAttempt[t] <= MaxRetries[t] /\ attempt[t] = snapAttempt[t] + 1
          /\ taskStatus[t] \in {"retrying", "cancelled"}
      BY DEF ThreadInv
    <3>2. snapAttempt[t] \in Nat /\ MaxRetries[t] \in Nat
      BY DEF TypeOK
    <3>3. QED  BY ONLY <3>1, <3>2
  <2>3. runStatus[RunOf[t]] # "absent"
    BY <2>2 DEF RowInv
  <2> HIDE DEF BackoffEnds
  <2>4. QED  BY <2>1, <2>2, <2>3 DEF TypeOK, StoreTypeOK, RowInv
<1>6. QED  BY <1>1, <1>2, <1>3, <1>4, <1>5

(* only the rows are left *)
LEMMA CrashInv ==
  ASSUME IInv, Crash
  PROVE  IInv'
<1> USE StoreAssumption DEF IInv, Crash, storeVars, notifierVars, loopVars
<1>1. TypeOK'
  BY DEF TypeOK, StoreTypeOK, NotifierTypeOK, LoopStates, ThreadStates
<1>2. BatchInv'
  BY DEF BatchInv
<1>3. CurInv'
  BY DEF CurInv
<1>4. ThreadInv'
  BY DEF ThreadInv
<1>5. RowInv'
  BY DEF RowInv
<1>6. QED  BY <1>1, <1>2, <1>3, <1>4, <1>5

-----------------------------------------------------------------------------
(* What follows from the inductive invariant. *)

(* Every step preserves the invariant, whoever takes it. *)
LEMMA NextInv == IInv /\ [Next]_vars => IInv'
<1> SUFFICES ASSUME IInv, [Next]_vars PROVE IInv'
  OBVIOUS
<1>1. CASE UNCHANGED vars
  BY <1>1 DEF vars, storeVars, notifierVars, loopVars, IInv, TypeOK, StoreTypeOK,
              NotifierTypeOK, BatchInv, CurInv, ThreadInv, RowInv, Ready
<1>2. CASE Command
  BY <1>2, ReconfigureInv, CreateInv, StartInv, CancelInv, AddTaskInv DEF Command
<1>3. ASSUME NEW r \in Runs, LoopStep(r) PROVE IInv'
  BY <1>3, MarkRunRunningInv, FetchInv, CheckTerminalInv, CheckLiveInv, SleepInv, BatchSpawnedInv, JoinInv, DecideInv, RecordVerdictInv, AnnounceInv, MarkSentInv,
     TakeTaskInv, MarkTaskRunningInv, SpawnThreadInv, AgentMissingInv DEF LoopStep
<1>4. ASSUME NEW t \in Tasks, ThreadStep(t) PROVE IInv'
  BY <1>4, AcquireInv, FinishInv, PanicInv, RecordTimeoutInv, RecordSuccessInv,
     PublishInv, RecordRetryInv, RecordFailureInv, BackoffEndsInv DEF ThreadStep
<1>5. QED  BY <1>1, <1>2, <1>3, <1>4, CrashInv DEF Next

(* The invariant holds in every reachable state. *)
THEOREM Invariance == Spec => []IInv
<1>1. Init => IInv  BY InitInv
<1>2. IInv /\ [Next]_vars => IInv'  BY NextInv
<1>3. QED  BY <1>1, <1>2, PTL DEF Spec

(* Type correctness of the executor, the store's rows included: the        *)
(* unguarded status updates write only what their readers can parse.       *)
THEOREM TypeCorrect == Spec => []TypeOK
<1>1. IInv => TypeOK  BY DEF IInv
<1>2. QED  BY <1>1, Invariance, PTL

(* A task runs at most max_retries + 2 times, whatever cancels, panics,    *)
(* lost permits and crashes there are, for every number of tasks and runs. *)
THEOREM AttemptsAreBounded == Spec => []AttemptsBounded
<1>1. IInv => AttemptsBounded  BY DEF IInv, RowInv, AttemptsBounded
<1>2. QED  BY <1>1, Invariance, PTL

(* No execution of a run is in flight while its loop reads the rows to     *)
(* choose the next round, or decides and announces the run's end.          *)
THEOREM RoundsAreSeparate == Spec => []RoundsDoNotOverlap
<1>1. IInv => RoundsDoNotOverlap
  BY DEF IInv, ThreadInv, RoundsDoNotOverlap, ThreadsOf
<1>2. QED  BY <1>1, Invariance, PTL

-----------------------------------------------------------------------------
(* Only the loop's write of "running" counts an attempt. *)
LEMMA AttemptKept ==
  ASSUME TypeOK, Next, ~ \E r \in Runs, t \in Tasks : MarkTaskRunning(r, t)
  PROVE  attempt' = attempt
<1>1. CASE Command
  BY <1>1 DEF Command, Reconfigure, SetTargets, storeVars, Create, create_run, Start, Cancel,
              cancel_run, AddTask, add_task_to_run
<1>2. ASSUME NEW r \in Runs, LoopStep(r) PROVE attempt' = attempt
  BY <1>2 DEF LoopStep, storeVars, MarkRunRunning, FetchRunnable, CheckTerminal, CheckLive, Sleep,
              BatchSpawned, Join, Decide, RecordVerdict, Announce, MarkSent, TakeTask,
              SpawnThread, AgentMissing, update_run_status, update_task_status,
              mark_notification_sent
<1>3. ASSUME NEW t \in Tasks, ThreadStep(t) PROVE attempt' = attempt
  BY <1>3 DEF ThreadStep, storeVars, Acquire, Finish, Panic, RecordTimeout, RecordSuccess,
              Publish, RecordRetry, RecordFailure, BackoffEnds, update_task_status
<1>4. CASE Crash
  BY <1>4 DEF Crash, storeVars
<1>5. QED  BY <1>1, <1>2, <1>3, <1>4 DEF Next

(* The snapshot a start relies on, old as it may be, is still right about  *)
(* the dependencies: a task starts only once everything it has an edge to  *)
(* has completed and its execution is over.                                *)
THEOREM StartsWait == Spec => StartsAfterDependencies
<1> DEFINE A == \A t \in Tasks : attempt'[t] # attempt[t] =>
                   \A d \in edges[t] : taskStatus[d] = "completed" /\ thread[d] = "none"
<1>1. ASSUME IInv, NEW r \in Runs, NEW t \in Tasks, MarkTaskRunning(r, t) PROVE A
  <2>1. \A u \in Tasks : attempt'[u] # attempt[u] => u = t
    BY <1>1 DEF MarkTaskRunning, update_task_status, IInv, TypeOK, StoreTypeOK
  <2>2. Ready(t)
    BY <1>1 DEF MarkTaskRunning, IInv, CurInv
  <2>3. QED  BY <2>1, <2>2 DEF Ready
<1>2. IInv /\ [Next]_vars => [A]_vars
  <2> SUFFICES ASSUME IInv, Next PROVE A
    BY DEF vars
  <2>1. CASE \E r \in Runs, t \in Tasks : MarkTaskRunning(r, t)
    BY <2>1, <1>1
  <2>2. CASE ~ \E r \in Runs, t \in Tasks : MarkTaskRunning(r, t)
    BY <2>2, AttemptKept DEF IInv
  <2>3. QED  BY <2>1, <2>2
<1>3. QED  BY <1>2, Invariance, PTL DEF Spec, StartsAfterDependencies

-----------------------------------------------------------------------------
(* The steps of the promise, seen from the executor *)

(* A task is in no execution unless its row is in the status of one; a row *)
(* that is still to be started or was never created is in none.            *)
LEMMA NotInExecution ==
  ASSUME IInv, NEW t \in Tasks,
         taskStatus[t] \in {"absent", "pending", "blocked"}
  PROVE  ~InExecution(t)
<1>1. thread[t] = "none"
  BY DEF IInv, TypeOK, ThreadStates, ThreadInv
<1>2. cur[t] => pc[RunOf[t]] # "agent"
  BY DEF IInv, TypeOK, CurInv
<1>3. QED  BY <1>1, <1>2 DEF InExecution

(* create_run lets the tasks of the definition enter *)
LEMMA CreateEnters ==
  ASSUME IInv, NEW r \in Runs, Create(r)
  PROVE  Promise!Enter
<1> DEFINE new == {t \in Defined : RunOf[t] = r}
<1>1. /\ new \subseteq Tasks
      /\ \A t \in new : taskStatus[t] = "absent"
  BY StoreAssumption DEF Create, create_run, IInv, RowInv
<1>2. new \in SUBSET {t \in Tasks : promiseState[t] = "absent"}
  BY <1>1 DEF promiseState
<1>3. /\ taskStatus' = [t \in Tasks |-> IF t \in new THEN initial_status(t) ELSE taskStatus[t]]
      /\ edges' = [t \in Tasks |-> IF t \in new THEN DependsOn[t] \cap new ELSE edges[t]]
      /\ thread' = thread /\ cur' = cur /\ pc' = pc
  BY DEF Create, create_run, loopVars
<1>4. \A t \in new : ~InExecution(t)
  BY <1>1, NotInExecution
<1>5. promiseState' = [t \in Tasks |-> IF t \in new THEN "idle" ELSE promiseState[t]]
  BY <1>1, <1>3, <1>4 DEF promiseState, InExecution, initial_status
<1>6. edges' \in [Tasks -> SUBSET Tasks] /\ \A t \in Tasks \ new : edges'[t] = edges[t]
  BY <1>1, <1>3, StoreAssumption DEF IInv, TypeOK, StoreTypeOK
<1>7. QED  BY <1>2, <1>5, <1>6 DEF Promise!Enter

(* so does an added task *)
LEMMA AddTaskEnters ==
  ASSUME IInv, NEW t \in Tasks, AddTask(t)
  PROVE  Promise!Enter
<1>1. {t} \in SUBSET {u \in Tasks : promiseState[u] = "absent"}
  BY DEF promiseState, AddTask, add_task_to_run
<1>2. ~InExecution(t)
  BY NotInExecution DEF AddTask, add_task_to_run
<1>3. promiseState' = [u \in Tasks |-> IF u \in {t} THEN "idle" ELSE promiseState[u]]
  BY <1>2 DEF AddTask, add_task_to_run, loopVars, promiseState, InExecution, initial_status,
              IInv, TypeOK, StoreTypeOK
<1>4. edges' \in [Tasks -> SUBSET Tasks] /\ \A u \in Tasks \ {t} : edges'[u] = edges[u]
  BY StoreAssumption DEF AddTask, add_task_to_run, TasksOf, IInv, TypeOK, StoreTypeOK
<1>5. QED  BY <1>1, <1>3, <1>4 DEF Promise!Enter

(* a cancel is invisible: the task is as idle, or as active, as before *)
LEMMA CancelIsQuiet ==
  ASSUME IInv, NEW r \in Runs, Cancel(r)
  PROVE  UNCHANGED Promise!vars
<1>1. promiseState' = promiseState
  BY DEF Cancel, cancel_run, TasksOf, Terminal, loopVars, promiseState, InExecution,
         IInv, TypeOK, StoreTypeOK
<1>2. QED  BY <1>1 DEF Cancel, cancel_run, Promise!vars

(* the loop's own steps are, but for the two below *)
LEMMA LoopIsQuiet ==
  ASSUME IInv, NEW r \in Runs,
         \/ Start(r) \/ MarkRunRunning(r) \/ FetchRunnable(r) \/ CheckTerminal(r) \/ CheckLive(r)
         \/ Sleep(r) \/ BatchSpawned(r) \/ Join(r) \/ Decide(r) \/ RecordVerdict(r)
         \/ Announce(r) \/ MarkSent(r)
         \/ \E t \in Tasks : TakeTask(r, t) \/ SpawnThread(r, t)
  PROVE  UNCHANGED Promise!vars
<1>1. CASE \E t \in Tasks : TakeTask(r, t)
  <2>1. PICK t \in Tasks : TakeTask(r, t)  BY <1>1
  <2>2. promiseState' = promiseState
    BY <2>1, StoreAssumption
    DEF TakeTask, Goto, storeVars, promiseState, InExecution, IInv, TypeOK, CurInv, BatchInv
  <2>3. QED  BY <2>1, <2>2 DEF TakeTask, storeVars, Promise!vars
<1>2. CASE \E t \in Tasks : SpawnThread(r, t)
  <2>1. PICK t \in Tasks : SpawnThread(r, t)  BY <1>2
  <2>2. promiseState' = promiseState
    BY <2>1, StoreAssumption
    DEF SpawnThread, Goto, storeVars, promiseState, InExecution, IInv, TypeOK, CurInv
  <2>3. QED  BY <2>1, <2>2 DEF SpawnThread, storeVars, Promise!vars
<1>3. ASSUME UNCHANGED <<taskStatus, edges, thread, cur>>,
             pc[r] # "agent", NEW l, l # "agent", Goto(r, l)
      PROVE  UNCHANGED Promise!vars
  <2>1. \A t \in Tasks : InExecution(t)' <=> InExecution(t)
    BY <1>3, StoreAssumption DEF Goto, InExecution, IInv, TypeOK
  <2>2. QED  BY <1>3, <2>1 DEF promiseState, Promise!vars
<1>4. CASE Start(r) \/ MarkRunRunning(r) \/ CheckTerminal(r) \/ CheckLive(r)
           \/ Sleep(r) \/ BatchSpawned(r) \/ Join(r)
  BY <1>3, <1>4 DEF Start, MarkRunRunning, update_run_status, CheckTerminal, CheckLive, Sleep,
                    BatchSpawned, Join, storeVars
<1>5. CASE FetchRunnable(r) \/ Decide(r) \/ RecordVerdict(r) \/ Announce(r) \/ MarkSent(r)
  BY <1>3, <1>5 DEF FetchRunnable, Decide, RecordVerdict, update_run_status, Announce, MarkSent,
                    mark_notification_sent, storeVars
<1>6. QED  BY <1>1, <1>2, <1>4, <1>5

(* the write of "running" begins the task *)
LEMMA MarkBegins ==
  ASSUME IInv, NEW r \in Runs, NEW t \in Tasks, MarkTaskRunning(r, t)
  PROVE  Promise!Begin(t)
<1>1. /\ taskStatus[t] \in {"pending", "blocked", "cancelled"}
      /\ thread[t] = "none" /\ pc[RunOf[t]] = "mark" /\ Ready(t)
  BY DEF MarkTaskRunning, IInv, CurInv
<1>2. promiseState[t] = "idle"
  BY <1>1 DEF promiseState, InExecution
<1>3. \A d \in edges[t] : promiseState[d] = "completed"
  BY <1>1 DEF Ready, promiseState, IInv, TypeOK, StoreTypeOK
<1>4. ~InExecution(t) /\ InExecution(t)' /\ taskStatus'[t] = "running"
  BY <1>1, StoreAssumption
  DEF MarkTaskRunning, update_task_status, Goto, InExecution, IInv, TypeOK, StoreTypeOK
<1>5. ASSUME NEW u \in Tasks \ {t}
      PROVE  taskStatus'[u] = taskStatus[u] /\ InExecution(u)' = InExecution(u)
  <2>1. RunOf[u] = r => ~cur[u]
    BY DEF MarkTaskRunning, IInv, CurInv
  <2>2. QED
    BY <2>1, StoreAssumption
    DEF MarkTaskRunning, update_task_status, Goto, InExecution, IInv, TypeOK, StoreTypeOK
<1>6. promiseState' = [promiseState EXCEPT ![t] = "active"]
  BY <1>4, <1>5 DEF promiseState
<1>7. QED
  BY <1>2, <1>3, <1>6 DEF Promise!Begin, MarkTaskRunning, update_task_status

(* a missing agent ends it at once *)
LEMMA AgentMissingEnds ==
  ASSUME IInv, NEW r \in Runs, NEW t \in Tasks, AgentMissing(r, t)
  PROVE  Promise!End(t)
<1>1. promiseState[t] = "active"
  BY DEF AgentMissing, promiseState, InExecution, IInv, CurInv
<1>2. taskStatus'[t] = "failed"
  BY DEF AgentMissing, update_task_status, IInv, TypeOK, StoreTypeOK
<1>3. ASSUME NEW u \in Tasks \ {t}
      PROVE  taskStatus'[u] = taskStatus[u] /\ InExecution(u)' = InExecution(u)
  <2>1. RunOf[u] = r => ~cur[u]
    BY DEF AgentMissing, IInv, CurInv
  <2>2. QED
    BY <2>1, StoreAssumption
    DEF AgentMissing, update_task_status, Goto, InExecution, IInv, TypeOK, StoreTypeOK
<1>4. promiseState' = [promiseState EXCEPT ![t] = "failed"]
  BY <1>2, <1>3 DEF promiseState
<1>5. QED  BY <1>1, <1>4 DEF Promise!End, AgentMissing, update_task_status

(* an execution ends once, with an outcome or to be tried again; only the  *)
(* row and the thread of the task change                                   *)
LEMMA ThreadEnds ==
  ASSUME IInv, NEW t \in Tasks, ThreadStep(t)
  PROVE  Promise!End(t) \/ UNCHANGED Promise!vars
<1> USE DEF Become, loopVars, storeVars, update_task_status
<1>1. ASSUME NEW u \in Tasks \ {t}
      PROVE  taskStatus'[u] = taskStatus[u] /\ InExecution(u)' = InExecution(u)
  <2>1. taskStatus'[u] = taskStatus[u] /\ thread'[u] = thread[u]
    BY DEF ThreadStep, Acquire, Finish, Panic, RecordTimeout, RecordSuccess, Publish,
           RecordRetry, RecordFailure, BackoffEnds, IInv, TypeOK, StoreTypeOK
  <2>2. UNCHANGED <<cur, pc>>
    BY DEF ThreadStep, Acquire, Finish, Panic, RecordTimeout, RecordSuccess, Publish,
           RecordRetry, RecordFailure, BackoffEnds
  <2>3. QED  BY <2>1, <2>2 DEF InExecution
<1>2. UNCHANGED edges
  BY DEF ThreadStep, Acquire, Finish, Panic, RecordTimeout, RecordSuccess, Publish,
         RecordRetry, RecordFailure, BackoffEnds
<1>3. ~cur[t]
  BY DEF ThreadStep, Acquire, Finish, Panic, RecordTimeout, RecordSuccess, Publish,
         RecordRetry, RecordFailure, BackoffEnds, IInv, CurInv
<1>4. \A s : promiseState'[t] = s => promiseState' = [promiseState EXCEPT ![t] = s]
  BY <1>1 DEF promiseState
<1>5. promiseState = [promiseState EXCEPT ![t] = promiseState[t]]
  BY DEF promiseState
<1> HIDE DEF Become, loopVars, storeVars, update_task_status
<1>6. CASE Acquire(t) \/ Finish(t) \/ Publish(t) \/ RecordRetry(t)
  <2>1. promiseState'[t] = promiseState[t]
    <3>1. thread[t] # "none" /\ thread[t] # "backoff"
      BY <1>6 DEF Acquire, Finish, Publish, RecordRetry
    <3>2. CASE Publish(t)
      BY <3>2 DEF Publish, Become, storeVars, promiseState, IInv, ThreadInv
    <3>3. CASE Acquire(t) \/ Finish(t) \/ RecordRetry(t)
      <4>1. thread'[t] # "none"
        BY <3>3 DEF Acquire, Finish, RecordRetry, Become, IInv, TypeOK
      <4>2. InExecution(t) /\ InExecution(t)'
        BY <3>1, <4>1 DEF InExecution
      <4>3. taskStatus[t] \in {"running", "cancelled"}
        BY <3>3 DEF Acquire, Finish, RecordRetry, IInv, ThreadInv
      <4>4. taskStatus'[t] \in {"running", "cancelled", "retrying"}
        BY <3>3, <4>3 DEF Acquire, Finish, RecordRetry, update_task_status, storeVars, IInv,
                          TypeOK, StoreTypeOK
      <4>5. QED  BY <4>2, <4>3, <4>4 DEF promiseState
    <3>4. QED  BY <1>6, <3>2, <3>3
  <2>2. QED  BY <1>2, <1>4, <1>5, <2>1 DEF Promise!vars
<1>7. CASE RecordSuccess(t) \/ RecordTimeout(t) \/ RecordFailure(t)
  <2>1. InExecution(t) /\ taskStatus[t] \in {"running", "cancelled"}
    BY <1>7 DEF RecordSuccess, RecordTimeout, RecordFailure, InExecution, IInv, ThreadInv
  <2>2. taskStatus'[t] \in {"completed", "failed"}
    BY <1>7 DEF RecordSuccess, RecordTimeout, RecordFailure, update_task_status, IInv, TypeOK,
                StoreTypeOK
  <2>3. promiseState[t] = "active" /\ promiseState'[t] \in {"completed", "failed"}
    BY <2>1, <2>2 DEF promiseState
  <2>4. QED  BY <1>2, <1>4, <2>3 DEF Promise!End
<1>8. CASE Panic(t) \/ BackoffEnds(t)
  <2>1. InExecution(t) /\ taskStatus[t] \in {"running", "retrying", "cancelled"}
    BY <1>8 DEF Panic, BackoffEnds, InExecution, IInv, ThreadInv
  <2>2. taskStatus'[t] \in {"running", "retrying", "cancelled", "pending"} /\ ~InExecution(t)'
    BY <1>3, <1>8, <2>1 DEF Panic, BackoffEnds, Become, update_task_status, loopVars, storeVars,
                      InExecution, IInv, TypeOK, StoreTypeOK
  <2>3. promiseState[t] = "active" /\ promiseState'[t] = "idle"
    BY <2>1, <2>2 DEF promiseState
  <2>4. QED  BY <1>2, <1>4, <2>3 DEF Promise!End
<1>9. QED  BY <1>6, <1>7, <1>8 DEF ThreadStep

(* a crash ends all executions and keeps the outcomes *)
LEMMA CrashRestarts ==
  ASSUME IInv, Crash
  PROVE  Promise!Restart
  BY DEF Crash, storeVars, Promise!Restart, promiseState, InExecution

(* Every step of the executor is one of the promise, or none. *)
LEMMA PromiseStep == IInv /\ [Next]_vars => [Promise!Next]_(Promise!vars)
<1> SUFFICES ASSUME IInv, [Next]_vars PROVE Promise!Next \/ UNCHANGED Promise!vars
  OBVIOUS
<1>1. CASE UNCHANGED vars
  BY <1>1 DEF vars, storeVars, loopVars, promiseState, InExecution, Promise!vars
<1>2. CASE Command
  <2>1. CASE Reconfigure
    BY <2>1 DEF Reconfigure, SetTargets, storeVars, loopVars, promiseState, InExecution,
                Promise!vars
  <2>2. QED
    BY <1>2, <2>1, CreateEnters, AddTaskEnters, CancelIsQuiet, LoopIsQuiet DEF Command, Promise!Next
<1>3. ASSUME NEW r \in Runs, LoopStep(r) PROVE Promise!Next \/ UNCHANGED Promise!vars
  BY <1>3, LoopIsQuiet, MarkBegins, AgentMissingEnds DEF LoopStep, Promise!Next
<1>4. ASSUME NEW t \in Tasks, ThreadStep(t) PROVE Promise!Next \/ UNCHANGED Promise!vars
  BY <1>4, ThreadEnds DEF Promise!Next
<1>5. QED  BY <1>1, <1>2, <1>3, <1>4, CrashRestarts DEF Next, Promise!Next

(* The executor, with its snapshots, retries, cancels, panics and crashes, *)
(* implements the promise: work begins after dependencies, once at a time, *)
(* and outcomes stand.                                                     *)
THEOREM Refinement == Spec => ImplementsPromise
<1>1. Init => Promise!Init
  BY DEF Init, StoreInit, Promise!Init, promiseState
<1>2. QED
  BY <1>1, Invariance, PromiseStep, PTL DEF Spec, ImplementsPromise, Promise!Spec

(* The outcome of a task, once recorded, is never overwritten, although no *)
(* write of a status looks at the one it replaces: the promise says so.    *)
THEOREM OutcomesStand == Spec => OutcomeIsFinal
<1> DEFINE A == \A t \in Tasks : taskStatus[t] \in {"completed", "failed"} =>
                   taskStatus'[t] = taskStatus[t]
<1>1. ASSUME IInv, [Promise!Next]_(Promise!vars) PROVE A
  <2> SUFFICES ASSUME NEW t \in Tasks, taskStatus[t] \in {"completed", "failed"}
               PROVE  taskStatus'[t] = taskStatus[t]
    OBVIOUS
  <2>1. promiseState[t] = taskStatus[t]
    BY DEF promiseState
  <2>2. DOMAIN promiseState = Tasks
    BY DEF promiseState
  <2>3. promiseState'[t] = promiseState[t]
    BY <1>1, <2>1, <2>2 DEF Promise!Next, Promise!Enter, Promise!Begin, Promise!End, Promise!Restart,
                      Promise!vars
  <2>4. QED  BY <2>1, <2>3 DEF promiseState
<1>2. QED  BY <1>1, PromiseStep, Invariance, PTL DEF Spec, OutcomeIsFinal

-----------------------------------------------------------------------------
(***************************************************************************)
(* A run reported completed is done: from the loop's last look at the rows,*)
(* through the verdict, to the recorded status, nobody undoes what it saw, *)
(* although it holds no lock in between.                                   *)
(***************************************************************************)
(* The tasks the run was created with, and those added that were started. *)
Asked(r) == {t \in Tasks : RunOf[t] = r /\ (t \in Defined \/ attempt[t] > 0)}
AllOf(r, S) == \A t \in Asked(r) : taskStatus[t] \in S

Ended  == {"announce", "sent", "done", "lost"}
Ending == {"decide", "final"} \cup Ended

(* The rows of a run that has a row are there. *)
ExistInv ==
    \A r \in Runs :
        /\ pc[r] # "none" => runStatus[r] # "absent"
        /\ runStatus[r] # "absent" => \A t \in Defined : RunOf[t] = r => taskStatus[t] # "absent"

(* What the loop has seen of the rows still holds when it acts on it. *)
EndInv ==
    \A r \in Runs :
        /\ runStatus[r] = "completed" => pc[r] \in Ended
        /\ pc[r] = "decide" => AllOf(r, Terminal)
        /\ pc[r] = "final" /\ verdict[r] = "completed" => AllOf(r, {"completed", "cancelled"})
        /\ runStatus[r] = "completed" => AllOf(r, {"completed", "cancelled"})

(* Rows are never taken away, and a loop belongs to a run that exists. *)
LEMMA ExistStep == IInv /\ ExistInv /\ [Next]_vars => ExistInv'
<1> SUFFICES ASSUME IInv, ExistInv, [Next]_vars PROVE ExistInv'
  OBVIOUS
<1> USE StoreAssumption DEF IInv, TypeOK, StoreTypeOK, ExistInv
<1>1. CASE UNCHANGED vars
  BY <1>1 DEF vars, storeVars, loopVars
<1>2. CASE Command
  BY <1>2 DEF Command, Reconfigure, SetTargets, Create, create_run, initial_status, Start, Goto,
              Cancel, cancel_run, AddTask, add_task_to_run, storeVars, loopVars
<1>3. ASSUME NEW r \in Runs, LoopStep(r) PROVE ExistInv'
  <2>1. /\ pc[r] # "none" /\ \E l : Goto(r, l)
        /\ \A q \in Runs : runStatus'[q] = "absent" => runStatus[q] = "absent"
        /\ \A q \in Runs : runStatus[q] = "absent" /\ q # r => runStatus'[q] = "absent"
    BY <1>3 DEF LoopStep, storeVars, Goto, MarkRunRunning, FetchRunnable, CheckTerminal, CheckLive,
                Sleep, BatchSpawned, Join, Decide, RecordVerdict, Announce, MarkSent, TakeTask,
                MarkTaskRunning, SpawnThread, AgentMissing, update_run_status, update_task_status,
                mark_notification_sent, Verdicts
  <2>2. \A t \in Tasks : taskStatus'[t] = "absent" => taskStatus[t] = "absent"
    BY <1>3 DEF LoopStep, storeVars, Goto, MarkRunRunning, FetchRunnable, CheckTerminal, CheckLive,
                Sleep, BatchSpawned, Join, Decide, RecordVerdict, Announce, MarkSent, TakeTask,
                MarkTaskRunning, SpawnThread, AgentMissing, update_run_status, update_task_status,
                mark_notification_sent
  <2>3. QED  BY <2>1, <2>2 DEF Goto
<1>4. ASSUME NEW t \in Tasks, ThreadStep(t) PROVE ExistInv'
  BY <1>4 DEF ThreadStep, storeVars, loopVars, Acquire, Finish, Panic, RecordTimeout,
              RecordSuccess, Publish, RecordRetry, RecordFailure, BackoffEnds, update_task_status
<1>5. CASE Crash
  BY <1>5 DEF Crash, storeVars
<1>6. QED  BY <1>1, <1>2, <1>3, <1>4, <1>5 DEF Next

(* While a run ends, none of its tasks is started. *)
LEMMA AskedStand ==
  ASSUME IInv, [Next]_vars, NEW r \in Runs, pc[r] \in Ending
  PROVE  Asked(r)' \subseteq Asked(r)
<1> SUFFICES ASSUME NEW t \in Tasks, RunOf[t] = r PROVE attempt'[t] = attempt[t]
  BY DEF Asked
<1> USE StoreAssumption DEF IInv, TypeOK, StoreTypeOK, Ending, Ended
<1>1. CASE UNCHANGED vars
  BY <1>1 DEF vars, storeVars
<1>2. CASE Command
  BY <1>2 DEF Command, Reconfigure, SetTargets, Create, create_run, Start, Cancel, cancel_run,
              AddTask, add_task_to_run, storeVars
<1>3. ASSUME NEW q \in Runs, LoopStep(q) PROVE attempt'[t] = attempt[t]
  BY <1>3 DEF LoopStep, storeVars, MarkRunRunning, FetchRunnable, CheckTerminal, CheckLive,
              Sleep, BatchSpawned, Join, Decide, RecordVerdict, Announce, MarkSent, TakeTask,
              MarkTaskRunning, SpawnThread, AgentMissing, update_run_status, update_task_status,
              mark_notification_sent
<1>4. ASSUME NEW u \in Tasks, ThreadStep(u) PROVE attempt'[t] = attempt[t]
  BY <1>4 DEF ThreadStep, storeVars, Acquire, Finish, Panic, RecordTimeout, RecordSuccess,
              Publish, RecordRetry, RecordFailure, BackoffEnds, update_task_status
<1>5. CASE Crash
  BY <1>5 DEF Crash, storeVars
<1>6. QED  BY <1>1, <1>2, <1>3, <1>4, <1>5 DEF Next

(* While a run ends, no execution or loop step writes its rows, and a      *)
(* cancel leaves a row that has an outcome.                                *)
LEMMA RowsStand ==
  ASSUME IInv, ExistInv, [Next]_vars, NEW r \in Runs, pc[r] \in Ending,
         NEW t \in Asked(r), taskStatus[t] \in Terminal
  PROVE  taskStatus'[t] = taskStatus[t]
<1> USE StoreAssumption DEF IInv, TypeOK, StoreTypeOK, Asked, Ending, Ended
<1>1. CASE UNCHANGED vars
  BY <1>1 DEF vars, storeVars
<1>2. CASE Command
  BY <1>2 DEF Command, Reconfigure, SetTargets, Create, create_run, Start, Cancel, cancel_run,
              AddTask, add_task_to_run, storeVars, Terminal, ExistInv
<1>3. ASSUME NEW q \in Runs, LoopStep(q) PROVE taskStatus'[t] = taskStatus[t]
  BY <1>3 DEF LoopStep, storeVars, MarkRunRunning, FetchRunnable, CheckTerminal, CheckLive,
              Sleep, BatchSpawned, Join, Decide, RecordVerdict, Announce, MarkSent, TakeTask,
              MarkTaskRunning, SpawnThread, AgentMissing, update_run_status, update_task_status,
              mark_notification_sent
<1>4. ASSUME NEW u \in Tasks, ThreadStep(u) PROVE taskStatus'[t] = taskStatus[t]
  <2>1. u # t
    <3>1. thread[u] # "none"
      BY <1>4 DEF ThreadStep, Acquire, Finish, Panic, RecordTimeout, RecordSuccess, Publish,
                  RecordRetry, RecordFailure, BackoffEnds
    <3>2. QED  BY <3>1 DEF ThreadInv
  <2>2. QED
    BY <1>4, <2>1 DEF ThreadStep, storeVars, Acquire, Finish, Panic, RecordTimeout, RecordSuccess,
              Publish, RecordRetry, RecordFailure, BackoffEnds, update_task_status
<1>5. CASE Crash
  BY <1>5 DEF Crash, storeVars
<1>6. QED  BY <1>1, <1>2, <1>3, <1>4, <1>5 DEF Next

(* What was true of all its rows stays true while a run ends. *)
LEMMA AllStand ==
  ASSUME IInv, ExistInv, [Next]_vars, NEW r \in Runs, pc[r] \in Ending,
         NEW S, S \subseteq Terminal, AllOf(r, S)
  PROVE  AllOf(r, S)'
  BY RowsStand, AskedStand DEF AllOf

(* How the loop of a run comes to where it is. *)
LEMMA EndSteps ==
  ASSUME IInv, [Next]_vars, NEW r \in Runs
  PROVE  /\ pc'[r] = "decide" =>
              \/ pc[r] = "decide"
              \/ /\ pc[r] = "term" /\ all_tasks_terminal(r)
                 /\ UNCHANGED <<taskStatus, attempt, runStatus>>
         /\ pc'[r] = "final" /\ verdict'[r] = "completed" =>
              \/ pc[r] = "final" /\ verdict[r] = "completed"
              \/ /\ pc[r] = "decide" /\ ~has_failed_tasks(r)
                 /\ UNCHANGED <<taskStatus, attempt, runStatus>>
         /\ runStatus'[r] = "completed" =>
              \/ runStatus[r] = "completed" /\ (pc[r] \in Ended => pc'[r] \in Ended)
              \/ pc[r] = "final" /\ verdict[r] = "completed" /\ pc'[r] \in Ended
<1> USE StoreAssumption DEF IInv, TypeOK, StoreTypeOK, Ended
<1>1. CASE UNCHANGED vars
  BY <1>1 DEF vars, storeVars, loopVars
<1>2. CASE Command
  BY <1>2 DEF Command, Reconfigure, SetTargets, Create, create_run, Start, Goto, Cancel,
              cancel_run, AddTask, add_task_to_run, storeVars, loopVars
<1>3. ASSUME NEW q \in Runs, LoopStep(q)
      PROVE  q # r => pc'[r] = pc[r] /\ verdict'[r] = verdict[r] /\ runStatus'[r] = runStatus[r]
  BY <1>3 DEF LoopStep, storeVars, Goto, MarkRunRunning, FetchRunnable, CheckTerminal, CheckLive,
              Sleep, BatchSpawned, Join, Decide, RecordVerdict, Announce, MarkSent, TakeTask,
              MarkTaskRunning, SpawnThread, AgentMissing, update_run_status, update_task_status,
              mark_notification_sent
<1>4. CASE LoopStep(r)
  BY <1>4 DEF LoopStep, storeVars, Goto, MarkRunRunning, FetchRunnable, CheckTerminal, CheckLive,
              Sleep, BatchSpawned, Join, Decide, RecordVerdict, Announce, MarkSent, TakeTask,
              MarkTaskRunning, SpawnThread, AgentMissing, update_run_status, update_task_status,
              mark_notification_sent
<1>5. ASSUME NEW u \in Tasks, ThreadStep(u)
      PROVE  UNCHANGED <<pc, verdict, runStatus>>
  BY <1>5 DEF ThreadStep, storeVars, loopVars, Acquire, Finish, Panic, RecordTimeout, RecordSuccess,
              Publish, RecordRetry, RecordFailure, BackoffEnds, update_task_status
<1>6. CASE Crash
  BY <1>6 DEF Crash, storeVars
<1>7. QED  BY <1>1, <1>2, <1>3, <1>4, <1>5, <1>6 DEF Next

(* What the two queries of the loop tell of the tasks asked for.           *)
LEMMA SeenTerminal ==
  ASSUME IInv, ExistInv, NEW r \in Runs, pc[r] # "none"
  PROVE  /\ all_tasks_terminal(r) => AllOf(r, Terminal)
         /\ AllOf(r, Terminal) /\ ~has_failed_tasks(r) => AllOf(r, {"completed", "cancelled"})
<1>1. \A t \in Asked(r) : t \in TasksOf(r)
  BY StoreAssumption DEF IInv, TypeOK, StoreTypeOK, RowInv, ExistInv, Asked, TasksOf
<1>2. QED  BY <1>1 DEF all_tasks_terminal, has_failed_tasks, AllOf, Terminal

(* What the loop saw holds when it acts on it, and ever after. *)
LEMMA EndStep == IInv /\ ExistInv /\ EndInv /\ [Next]_vars => EndInv'
<1> SUFFICES ASSUME IInv, ExistInv, EndInv, [Next]_vars, NEW r \in Runs
             PROVE  /\ runStatus'[r] = "completed" => pc'[r] \in Ended
                    /\ pc'[r] = "decide" => AllOf(r, Terminal)'
                    /\ pc'[r] = "final" /\ verdict'[r] = "completed"
                          => AllOf(r, {"completed", "cancelled"})'
                    /\ runStatus'[r] = "completed" => AllOf(r, {"completed", "cancelled"})'
  BY DEF EndInv
<1>1. runStatus'[r] = "completed" => pc'[r] \in Ended
  BY EndSteps DEF EndInv
<1>2. ASSUME pc'[r] = "decide" PROVE AllOf(r, Terminal)'
  <2>1. CASE pc[r] = "decide"
    BY <2>1, AllStand DEF EndInv, Ending
  <2>2. CASE pc[r] = "term" /\ all_tasks_terminal(r) /\ UNCHANGED <<taskStatus, attempt, runStatus>>
    BY <2>2, SeenTerminal DEF AllOf, Asked
  <2>3. QED  BY <1>2, <2>1, <2>2, EndSteps
<1>3. ASSUME pc'[r] = "final", verdict'[r] = "completed"
      PROVE  AllOf(r, {"completed", "cancelled"})'
  <2>1. CASE pc[r] = "final" /\ verdict[r] = "completed"
    BY <2>1, AllStand DEF EndInv, Ending, Terminal
  <2>2. CASE pc[r] = "decide" /\ ~has_failed_tasks(r) /\ UNCHANGED <<taskStatus, attempt, runStatus>>
    BY <2>2, SeenTerminal DEF EndInv, AllOf, Asked
  <2>3. QED  BY <1>3, <2>1, <2>2, EndSteps
<1>4. ASSUME runStatus'[r] = "completed" PROVE AllOf(r, {"completed", "cancelled"})'
  <2>1. CASE runStatus[r] = "completed"
    BY <2>1, AllStand DEF EndInv, Ending, Ended, Terminal
  <2>2. CASE pc[r] = "final" /\ verdict[r] = "completed"
    BY <2>2, AllStand DEF EndInv, Ending, Terminal
  <2>3. QED  BY <1>4, <2>1, <2>2, EndSteps
<1>5. QED  BY <1>1, <1>2, <1>3, <1>4

(* A run reported completed has none of the tasks it was created with, or  *)
(* has ever started, failed, blocked or running, whatever was cancelled or added, or died,   *)
(* between the loop's last look at the rows and its report.                *)
THEOREM CompletedRunsAreDone == Spec => []CompletedRunIsDone
<1>1. Init => ExistInv /\ EndInv
  BY DEF Init, StoreInit, ExistInv, EndInv
<1>2. EndInv => CompletedRunIsDone
  BY StoreAssumption DEF EndInv, AllOf, Asked, CompletedRunIsDone
<1>3. QED  BY <1>1, <1>2, Invariance, ExistStep, EndStep, PTL DEF Spec
=============================================================================
