------------------------------ MODULE Workflow ------------------------------
(***************************************************************************)
(* The workflow executor (agent_engine/workflow_executor.rs) and the       *)
(* registry of its runs (commands/autonomous_agent_cmds.rs).               *)
(*                                                                         *)
(* A run goes in rounds.  A round takes the steps whose dependencies have  *)
(* completed or were skipped: first those marked parallel, all at once,    *)
(* then the others one by one in the order of the specification.  A round  *)
(* without such a step ends the run, and what is still pending has failed. *)
(***************************************************************************)
EXTENDS Naturals, FiniteSets

CONSTANTS
  Runs, Steps,
  RunOf,        \* the run a step belongs to
  Position,     \* its place in the specification
  Needs,        \* depends_on; names need not be those of steps
  Parallel,     \* the steps marked parallel
  Conditional,  \* the steps with a condition
  Looping,      \* the steps with loop_over
  Policy,       \* on_failure.action
  MaxRetries,   \* on_failure.max_retries
  MaxLoopSize,  \* MAX_LOOP_SIZE
  MaxFinished   \* MAX_FINISHED_AGENT_RUNS

StepsOf(r) == {s \in Steps : RunOf[s] = r}

\* run_agent takes any specification the user gives: cyclic ones and unknown
\* names too.  Only step ids are assumed unique.
ASSUME WorkflowAssumption ==
  /\ IsFiniteSet(Steps) /\ IsFiniteSet(Runs)
  /\ RunOf \in [Steps -> Runs]
  /\ Position \in [Steps -> Nat]
  /\ Parallel \subseteq Steps
  /\ Policy \in [Steps -> {"retry", "skip", "abort"}]
  /\ MaxRetries \in [Steps -> Nat]
  /\ MaxLoopSize \in Nat
  /\ MaxFinished \in Nat

VARIABLES
  phase,   \* where the run is
  rounds,  \* completed rounds
  queue,   \* the serial steps still to come in this round
  batch,   \* the steps at work: the parallel ones, then one by one
  step,    \* step_statuses
  work,    \* what a step at work has come to
  left,    \* the items it still has to do, one but for a loop
  tries,   \* the retries of the current item
  lost,    \* any_failed: an item of the loop was given up
  error,   \* final_error is set
  shown,   \* the registry: the status of a run, or "absent"
  since    \* the registry: started_at

vars == <<phase, rounds, queue, batch, step, work, left, tries, lost, error, shown, since>>
runVars == <<phase, rounds, queue, batch>>
itemVars == <<left, tries, lost>>
registry == <<shown, since>>

(* Mutant: a failed step satisfies its dependents too. *)
Satisfied_failed(s) == \A d \in Needs[s] : d \in Steps /\ RunOf[d] = RunOf[s] /\ step[d] # "Pending"

Satisfied(s) == \A d \in Needs[s] : d \in Steps /\ RunOf[d] = RunOf[s] /\ step[d] \in {"Completed", "Skipped"}
Pending(r) == {s \in StepsOf(r) : step[s] = "Pending"}
Ready(r)   == {s \in Pending(r) : Satisfied(s)}
Loops(s)   == s \in Looping \ Parallel   \* a parallel step ignores loop_over
Finished   == {"completed", "failed"}

Init ==
  /\ phase = [r \in Runs |-> "new"]
  /\ rounds = [r \in Runs |-> 0]
  /\ queue = [r \in Runs |-> {}]
  /\ batch = [r \in Runs |-> {}]
  /\ step = [s \in Steps |-> "Pending"]
  /\ work = [s \in Steps |-> "off"]
  /\ left = [s \in Steps |-> 0]
  /\ tries = [s \in Steps |-> 0]
  /\ lost = [s \in Steps |-> FALSE]
  /\ error = [r \in Runs |-> FALSE]
  /\ shown = [r \in Runs |-> "absent"]
  /\ since = [r \in Runs |-> 0]

-----------------------------------------------------------------------------
(* The registry *)

Over(ended) == IF Cardinality(ended) > MaxFinished THEN Cardinality(ended) - MaxFinished ELSE 0

(* Mutant: the oldest entries go, finished or not. *)
register_any(r, status, started) ==
  LET now   == [shown EXCEPT ![r] = status]
      ended == {x \in Runs : now[x] # "absent"}
  IN  /\ since' = [since EXCEPT ![r] = started]
      /\ \E gone \in SUBSET ended :
           /\ Cardinality(gone) = Over(ended)
           /\ \A x \in gone : \A y \in ended \ gone : since'[x] <= since'[y]
           /\ shown' = [x \in Runs |-> IF x \in gone THEN "absent" ELSE now[x]]

\* insert and update, with the eviction of the oldest finished runs
register(r, status, started) ==
  LET now   == [shown EXCEPT ![r] = status]
      ended == {x \in Runs : now[x] \in Finished}
  IN  /\ since' = [since EXCEPT ![r] = started]
      /\ \E gone \in SUBSET ended :
           /\ Cardinality(gone) = Over(ended)
           /\ \A x \in gone : \A y \in ended \ gone : since'[x] <= since'[y]
           /\ shown' = [x \in Runs |-> IF x \in gone THEN "absent" ELSE now[x]]

Turn == Cardinality({r \in Runs : phase[r] # "new"}) + 1   \* the time of a start

run_agent(r) ==
  /\ phase[r] = "new"
  /\ phase' = [phase EXCEPT ![r] = "head"]
  /\ register(r, "running", Turn)
  /\ UNCHANGED <<rounds, queue, batch, step, work, itemVars, error>>

Delegate(r) ==
  /\ phase[r] = "new"
  /\ phase' = [phase EXCEPT ![r] = "delegating"]
  /\ register(r, "delegated", Turn)
  /\ UNCHANGED <<rounds, queue, batch, step, work, itemVars, error>>

\* Accepted by the remote engine, nobody follows the run any more; refused,
\* it is entered as failed, without a start time.
Delegated(r) ==
  /\ phase[r] = "delegating"
  /\ \/ phase' = [phase EXCEPT ![r] = "remote"] /\ UNCHANGED registry
     \/ phase' = [phase EXCEPT ![r] = "refused"] /\ register(r, "failed", 0)
  /\ UNCHANGED <<rounds, queue, batch, step, work, itemVars, error>>

-----------------------------------------------------------------------------
(* Rounds *)

(* Mutant: one round. *)
MaxRounds_one(r) == 1

MaxRounds(r)  == Cardinality(StepsOf(r)) + 1
RoundsOver(r) == rounds[r] >= MaxRounds(r)

StartRound(r) ==
  /\ phase[r] = "head" /\ ~RoundsOver(r)
  /\ Ready(r) # {}
  /\ LET parallel == Ready(r) \cap Parallel
     IN  /\ batch' = [batch EXCEPT ![r] = parallel]
         /\ queue' = [queue EXCEPT ![r] = Ready(r) \ parallel]
         /\ work' = [s \in Steps |-> IF s \in parallel THEN "run" ELSE work[s]]
         /\ left' = [s \in Steps |-> IF s \in parallel THEN 1 ELSE left[s]]
  /\ phase' = [phase EXCEPT ![r] = "parallel"]
  /\ UNCHANGED <<rounds, step, tries, lost, error, registry>>

(* Mutant: only a run with nothing left to do ends. *)
EndRun_done(r) ==
  /\ phase[r] = "head" /\ Pending(r) = {}
  /\ phase' = [phase EXCEPT ![r] = "ending"]
  /\ UNCHANGED <<rounds, queue, batch, step, work, itemVars, error, registry>>

\* Nothing is ready: all is done, or what is left can never be.
EndRun(r) ==
  /\ phase[r] = "head" /\ (RoundsOver(r) \/ Ready(r) = {})
  /\ LET blocked == IF RoundsOver(r) THEN {} ELSE Pending(r)
     IN  /\ step' = [s \in Steps |-> IF s \in blocked THEN "Failed" ELSE step[s]]
         /\ error' = [error EXCEPT ![r] = @ \/ blocked # {}]
  /\ phase' = [phase EXCEPT ![r] = "ending"]
  /\ UNCHANGED <<rounds, queue, batch, work, itemVars, registry>>

Outcome(s) == CASE work[s] = "ok" -> "Completed" [] work[s] = "skip" -> "Skipped" [] OTHER -> "Failed"
AtWork(s)  == work[s] = "run"
Aborts(s)  == Outcome(s) = "Failed" /\ Policy[s] = "abort"

(* Mutant: the first of the batch to end ends the wait. *)
JoinParallel_first(r) ==
  /\ phase[r] = "parallel"
  /\ batch[r] = {} \/ \E s \in batch[r] : ~AtWork(s)
  /\ LET ended == {s \in batch[r] : ~AtWork(s)}
     IN  /\ step' = [s \in Steps |-> IF s \in ended THEN Outcome(s) ELSE step[s]]
         /\ work' = [s \in Steps |-> IF s \in ended THEN "off" ELSE work[s]]
         /\ error' = [error EXCEPT ![r] = @ \/ \E s \in ended : Aborts(s)]
  /\ batch' = [batch EXCEPT ![r] = {}]
  /\ phase' = [phase EXCEPT ![r] = "serial"]
  /\ UNCHANGED <<rounds, queue, itemVars, registry>>

(* Mutant: a parallel group aborts the run only if all of it failed. *)
JoinParallel_all(r) ==
  /\ phase[r] = "parallel"
  /\ \A s \in batch[r] : ~AtWork(s)
  /\ step' = [s \in Steps |-> IF s \in batch[r] THEN Outcome(s) ELSE step[s]]
  /\ work' = [s \in Steps |-> IF s \in batch[r] THEN "off" ELSE work[s]]
  /\ error' = [error EXCEPT ![r] = @ \/ (batch[r] # {} /\ \A s \in batch[r] : Aborts(s))]
  /\ batch' = [batch EXCEPT ![r] = {}]
  /\ phase' = [phase EXCEPT ![r] = "serial"]
  /\ UNCHANGED <<rounds, queue, itemVars, registry>>

\* All handles of the parallel steps have been awaited.
JoinParallel(r) ==
  /\ phase[r] = "parallel"
  /\ \A s \in batch[r] : ~AtWork(s)
  /\ step' = [s \in Steps |-> IF s \in batch[r] THEN Outcome(s) ELSE step[s]]
  /\ work' = [s \in Steps |-> IF s \in batch[r] THEN "off" ELSE work[s]]
  /\ error' = [error EXCEPT ![r] = @ \/ \E s \in batch[r] : Aborts(s)]
  /\ batch' = [batch EXCEPT ![r] = {}]
  /\ phase' = [phase EXCEPT ![r] = "serial"]
  /\ UNCHANGED <<rounds, queue, itemVars, registry>>

IsFirst(s, q) == s \in q /\ \A x \in q : Position[s] <= Position[x]

\* The condition is evaluated and the list of a loop is looked up first.
StartSerial(r) ==
  /\ phase[r] = "serial" /\ batch[r] = {}
  /\ \E s \in queue[r] :
       /\ IsFirst(s, queue[r])
       /\ queue' = [queue EXCEPT ![r] = @ \ {s}]
       /\ batch' = [batch EXCEPT ![r] = {s}]
       /\ \/ s \in Conditional /\ work' = [work EXCEPT ![s] = "skip"] /\ UNCHANGED itemVars
          \/ Loops(s) /\ work' = [work EXCEPT ![s] = "bad"] /\ UNCHANGED itemVars
          \/ \E n \in IF Loops(s) THEN 0..MaxLoopSize ELSE {1} :
               /\ work' = [work EXCEPT ![s] = IF n = 0 THEN "ok" ELSE "run"]
               /\ left' = [left EXCEPT ![s] = n]
               /\ UNCHANGED <<tries, lost>>
  /\ UNCHANGED <<phase, rounds, step, error, registry>>

\* A failed step with the policy abort ends the round at once.
EndSerial(r) ==
  /\ phase[r] = "serial"
  /\ \E s \in batch[r] :
       /\ ~AtWork(s)
       /\ step' = [step EXCEPT ![s] = Outcome(s)]
       /\ work' = [work EXCEPT ![s] = "off"]
       /\ error' = [error EXCEPT ![r] = @ \/ Aborts(s)]
       /\ queue' = [queue EXCEPT ![r] = IF Aborts(s) THEN {} ELSE @]
  /\ batch' = [batch EXCEPT ![r] = {}]
  /\ UNCHANGED <<phase, rounds, itemVars, registry>>

(* Mutant: the next round begins in any case. *)
EndRound_always(r) ==
  /\ phase[r] = "serial" /\ batch[r] = {} /\ queue[r] = {}
  /\ phase' = [phase EXCEPT ![r] = "head"] /\ rounds' = [rounds EXCEPT ![r] = @ + 1]
  /\ UNCHANGED <<queue, batch, step, work, itemVars, error, registry>>

EndRound(r) ==
  /\ phase[r] = "serial" /\ batch[r] = {} /\ queue[r] = {}
  /\ \/ ~error[r] /\ phase' = [phase EXCEPT ![r] = "head"] /\ rounds' = [rounds EXCEPT ![r] = @ + 1]
     \/ error[r] /\ phase' = [phase EXCEPT ![r] = "ending"] /\ UNCHANGED rounds
  /\ UNCHANGED <<queue, batch, step, work, itemVars, error, registry>>

FinalStatus(r) ==
  IF error[r] \/ \E s \in StepsOf(r) : step[s] = "Failed" THEN "failed" ELSE "completed"

StoreFinal(r) ==
  /\ phase[r] = "ending"
  /\ phase' = [phase EXCEPT ![r] = "done"]
  /\ register(r, FinalStatus(r), since[r])
  /\ UNCHANGED <<rounds, queue, batch, step, work, itemVars, error>>

-----------------------------------------------------------------------------
(* One step at work: an invocation of its capability, for an item *)

NextItem(s, given_up) ==
  /\ left' = [left EXCEPT ![s] = @ - 1]
  /\ tries' = [tries EXCEPT ![s] = 0]
  /\ lost' = [lost EXCEPT ![s] = @ \/ given_up]
  /\ work' = [work EXCEPT ![s] = IF left[s] > 1 THEN "run" ELSE IF lost[s] \/ given_up THEN "bad" ELSE "ok"]

StopWith(s, w) == work' = [work EXCEPT ![s] = w] /\ UNCHANGED itemVars

Retry(s) ==
  /\ Policy[s] = "retry" /\ tries[s] < MaxRetries[s]
  /\ tries' = [tries EXCEPT ![s] = @ + 1]
  /\ UNCHANGED <<work, left, lost>>

GiveUp(s) ==
  \/ Policy[s] = "abort" /\ StopWith(s, "bad")
  \/ Policy[s] = "skip" /\ (IF Loops(s) THEN NextItem(s, FALSE) ELSE StopWith(s, "skip"))
  \/ /\ Policy[s] = "retry" /\ tries[s] = MaxRetries[s]
     /\ IF Loops(s) THEN NextItem(s, TRUE) ELSE StopWith(s, "bad")

Invoke(s) ==
  /\ AtWork(s)
  /\ NextItem(s, FALSE) \/ Retry(s) \/ GiveUp(s)
  /\ UNCHANGED <<runVars, step, error, registry>>

\* A panic is an error of the join for a parallel step, and the end of the
\* executor's task for a serial one: nobody will write the registry.
Panic(s) ==
  /\ AtWork(s)
  /\ \/ phase[RunOf[s]] = "parallel" /\ StopWith(s, "bad") /\ UNCHANGED <<phase, batch, queue>>
     \/ /\ phase[RunOf[s]] = "serial" /\ StopWith(s, "off")
        /\ phase' = [phase EXCEPT ![RunOf[s]] = "dead"]
        /\ batch' = [batch EXCEPT ![RunOf[s]] = {}]
        /\ queue' = [queue EXCEPT ![RunOf[s]] = {}]
  /\ UNCHANGED <<rounds, step, error, registry>>

-----------------------------------------------------------------------------
RunStep(r) ==
  \/ Delegated(r) \/ StartRound(r) \/ EndRun(r) \/ JoinParallel(r)
  \/ StartSerial(r) \/ EndSerial(r) \/ EndRound(r) \/ StoreFinal(r)

Next ==
  \/ \E r \in Runs : run_agent(r) \/ Delegate(r) \/ RunStep(r)
  \/ \E s \in Steps : Invoke(s) \/ Panic(s)

Spec == Init /\ [][Next]_vars
FairSpec == Spec /\ (\A r \in Runs : WF_vars(RunStep(r))) /\ (\A s \in Steps : WF_vars(Invoke(s)))

-----------------------------------------------------------------------------
(* Properties *)

StepStatus == {"Pending", "Completed", "Skipped", "Failed"}
Phases == {"new", "head", "parallel", "serial", "ending", "done", "dead", "delegating", "remote", "refused"}

(* Every variable keeps its type. *)
TypeOK ==
  /\ phase \in [Runs -> Phases]
  /\ rounds \in [Runs -> Nat]
  /\ queue \in [Runs -> SUBSET Steps] /\ batch \in [Runs -> SUBSET Steps]
  /\ step \in [Steps -> StepStatus]
  /\ work \in [Steps -> {"off", "run", "ok", "skip", "bad"}]
  /\ left \in [Steps -> Nat] /\ tries \in [Steps -> Nat]
  /\ lost \in [Steps -> BOOLEAN]
  /\ error \in [Runs -> BOOLEAN]
  /\ shown \in [Runs -> Finished \cup {"absent", "running", "delegated"}]
  /\ since \in [Runs -> Nat]

-----------------------------------------------------------------------------
(* The invariant behind the properties *)

Good(s)    == step[s] \in {"Completed", "Skipped"}
NeedsMet(s) == \A d \in Needs[s] : d \in StepsOf(RunOf[s]) /\ Good(d)
Aborted(r) == \E s \in StepsOf(r) : step[s] = "Failed" /\ Policy[s] = "abort"
Ended(r)   == Cardinality(StepsOf(r) \ Pending(r))
InRound    == {"parallel", "serial"}

\* Who is in the round: still without an outcome, and nobody else at work.
PlaceInv ==
  /\ \A r \in Runs :
       /\ batch[r] \subseteq Pending(r) /\ queue[r] \subseteq Pending(r)
       /\ batch[r] \cap queue[r] = {}
       /\ phase[r] \notin InRound => batch[r] = {} /\ queue[r] = {}
       /\ phase[r] = "serial" => \A s, t \in batch[r] : s = t
  /\ \A s \in Steps :
       /\ work[s] # "off" => s \in batch[RunOf[s]]
       /\ work[s] = "run" => left[s] > 0

\* A step in the round has had its dependencies since the round began.
NeedsInv == \A r \in Runs : \A s \in batch[r] \cup queue[r] : NeedsMet(s)

\* Every round ends with one step more that has an outcome.
RoundInv ==
  \A r \in Runs :
    /\ phase[r] = "new" => rounds[r] = 0
    /\ phase[r] \in {"head", "parallel", "serial"} => rounds[r] <= Ended(r)
    /\ phase[r] \in InRound /\ batch[r] \cup queue[r] = {} => rounds[r] < Ended(r)

\* Why a run has an error, and what is true when it ends.
ErrorInv ==
  \A r \in Runs :
    /\ error[r] => \E s \in StepsOf(r) : step[s] = "Failed"
    /\ error[r] /\ phase[r] \in InRound => Aborted(r)
    /\ error[r] => phase[r] \notin {"new", "head"}
    /\ phase[r] \in {"ending", "done"} => Pending(r) = {} \/ Aborted(r)

\* What the registry shows of a run, at each place.
ShownInv ==
  /\ \A r \in Runs :
       /\ phase[r] = "new" => shown[r] = "absent"
       /\ phase[r] \in {"head", "parallel", "serial", "ending", "dead"} => shown[r] = "running"
       /\ phase[r] \in {"delegating", "remote"} => shown[r] = "delegated"
       /\ phase[r] = "refused" => shown[r] \in {"failed", "absent"}
       /\ phase[r] = "done" /\ shown[r] # "absent" =>
            \/ shown[r] = "failed" /\ \E s \in StepsOf(r) : step[s] = "Failed"
            \/ shown[r] = "completed" /\ \A s \in StepsOf(r) : Good(s)
  /\ Cardinality({r \in Runs : shown[r] \in Finished}) <= MaxFinished

(* The inductive invariant.                                                *)
WInv == TypeOK /\ PlaceInv /\ NeedsInv /\ RoundInv /\ ErrorInv /\ ShownInv

-----------------------------------------------------------------------------
(* A step starts to work only when every step it names exists in its run   *)
(* and has completed or was skipped, and an outcome, once given, stands.   *)
DependenciesFirst ==
  [][\A s \in Steps :
       /\ work[s] = "off" /\ work'[s] # "off" =>
            \A d \in Needs[s] : d \in StepsOf(RunOf[s]) /\ step[d] \in {"Completed", "Skipped"}
       /\ step[s] # "Pending" => step'[s] = step[s]]_vars

(* The status shown is true: a completed run has completed or skipped each *)
(* of its steps, as the number of rounds never cuts one off, and a run     *)
(* that went to its end and failed has a failed step.                      *)
StatusIsTrue ==
  \A r \in Runs :
    /\ shown[r] = "completed" => \A s \in StepsOf(r) : step[s] \in {"Completed", "Skipped"}
    /\ phase[r] = "done" /\ shown[r] = "failed" => \E s \in StepsOf(r) : step[s] = "Failed"

(* When a run has ended nothing of it is at work, and if no step with the  *)
(* policy abort has failed, every step has an outcome.                     *)
EndedIsOver ==
  \A r \in Runs : phase[r] \in {"ending", "done"} =>
    /\ \A s \in StepsOf(r) : work[s] = "off"
    /\ \/ Pending(r) = {}
       \/ \E s \in StepsOf(r) : step[s] = "Failed" /\ Policy[s] = "abort"

(* Once a step with the policy abort has failed, alone or in a parallel    *)
(* group whose other steps go on, no step is taken into a round of its run *)
(* any more; and if it was a serial one, nothing of the run is at work or  *)
(* comes to be.  The steps that waited for the parallel group in the same  *)
(* round are still done.                                                   *)
AbortStopsRun ==
  [][\A s \in Steps : step[s] = "Failed" /\ Policy[s] = "abort" =>
       LET r == RunOf[s]
       IN  /\ batch'[r] \cup queue'[r] \subseteq batch[r] \cup queue[r]
           /\ s \notin Parallel => batch'[r] \cup queue'[r] = {}]_vars

(* A run disappears from the registry, local or delegated, only when it is *)
(* over and as many finished runs as the registry keeps remain that did    *)
(* not start before it.  (One whose end comes late may so disappear as it  *)
(* ends, and nobody ever reads its result.)                                *)
OnlyOldResultsVanish ==
  [][\A r \in Runs : shown[r] # "absent" /\ shown'[r] = "absent" =>
       /\ phase'[r] \in {"done", "refused"}
       /\ Cardinality({x \in Runs : shown'[x] \in Finished /\ since'[x] >= since'[r]}) = MaxFinished]_vars

(* Every local run ends, unless a serial step panics.                      *)
RunsEnd == \A r \in Runs : phase[r] = "head" ~> phase[r] \in {"done", "dead"}
=============================================================================
