---------------------------- MODULE Orchestrate ----------------------------
(***************************************************************************)
(* nexibot_orchestrate (commands/agent_cmds.rs): an orchestration runs its *)
(* subtasks in rounds, those whose dependencies have a result in parallel, *)
(* and each subtask passes the circuit breaker, takes a slot of the        *)
(* orchestration manager, runs in the subagent executor, and reports back  *)
(* to all three.  The breaker, the manager, the executor and the shared    *)
(* workspace are shared by all orchestrations; each is locked for one      *)
(* action at a time.                                                       *)
(*                                                                         *)
(* Abstracted: outputs and error texts; worktrees (no caller asks for one);*)
(* ids of one request are distinct; parents (every spawn is a root).       *)
(***************************************************************************)
EXTENDS CircuitBreaker, FiniteSets

CONSTANTS
    Orchs,         \* orchestrations
    Subtasks,      \* subtasks, of all orchestrations
    OrchOf,        \* OrchOf[s]
    AgentOf,       \* AgentOf[s]
    Deps,          \* Deps[s]: depends_on; may name what is not in its orchestration
    Nested,        \* orchestrations asked for by an execution with a timeout
    MaxActive,     \* max_concurrent of the orchestration manager
    MaxPermits     \* permits of the subagent executor

ASSUME OrchestrateAssumption ==
    /\ IsFiniteSet(Subtasks)
    /\ OrchOf \in [Subtasks -> Orchs]
    /\ AgentOf \in [Subtasks -> Agents]
    /\ Deps \in [Subtasks -> SUBSET Subtasks]
    /\ Nested \subseteq Orchs
    /\ MaxActive \in Nat /\ MaxPermits \in Nat

VARIABLES
    orc,         \* orc[o]: where the call of execute_orchestration is
    remaining,   \* remaining[o]
    rounds,      \* rounds[o]: how many have been started
    step,        \* step[s]: where execute_single_subtask is
    success,     \* success[s]: exec_result.success, until the subtask returns
    completed,   \* completed[s]: the entry in completed_ids
    active,      \* subtasks with a record in active_spawns
    workspace,   \* subtasks whose result is in the shared workspace
    known        \* agents the configuration has now

callVars == <<orc, remaining, rounds, step, success, completed, active, workspace, known>>
vars == <<breakerVars, callVars>>

SubtasksOf(o) == {s \in Subtasks : OrchOf[s] = o}
Panicked == {s \in Subtasks : step[s] = "panicked"}

TypeOK ==
    /\ BreakerTypeOK
    /\ orc       \in [Orchs -> {"idle", "round", "join", "clear", "done", "dropped"}]
    /\ remaining \in [Orchs -> SUBSET Subtasks]
    /\ rounds    \in [Orchs -> Nat]
    /\ step      \in [Subtasks -> {"waiting", "allow", "lookup", "spawn", "execute", "running",
                                   "mark", "record", "put", "finished", "panicked"}]
    /\ success   \in [Subtasks -> BOOLEAN]
    /\ completed \in [Subtasks -> {"none", "result", "deadlock"}]
    /\ active    \subseteq Subtasks
    /\ workspace \subseteq Subtasks
    /\ known     \subseteq Agents

Init ==
    /\ BreakerInit
    /\ orc       = [o \in Orchs |-> "idle"]
    /\ remaining = [o \in Orchs |-> SubtasksOf(o)]
    /\ rounds    = [o \in Orchs |-> 0]
    /\ step      = [s \in Subtasks |-> "waiting"]
    /\ success   = [s \in Subtasks |-> FALSE]
    /\ completed = [s \in Subtasks |-> "none"]
    /\ active    = {}
    /\ workspace = {}
    /\ known     = Agents

-----------------------------------------------------------------------------
(* The orchestration *)

GotoO(o, l) == orc' = [orc EXCEPT ![o] = l]

Begin(o) ==
    /\ orc[o] = "idle"
    /\ GotoO(o, "round")
    /\ UNCHANGED <<breakerVars, remaining, rounds, step, success, completed, active, workspace, known>>

(* Mutant: a dependency that has been started is enough. *)
ReadyOf_started(o) == {s \in remaining[o] : Deps[s] \cap remaining[o] = {}}

(* A dependency is satisfied by any entry, a failure too. *)
ReadyOf(o) ==
    {s \in remaining[o] : \A d \in Deps[s] : OrchOf[d] = o /\ completed[d] # "none"}

(* Mutant: off by two. *)
RoundsOver_early(o) == remaining[o] = {} \/ rounds[o] > Cardinality(SubtasksOf(o)) - 2

(* At most subtasks.len() + 1 rounds. *)
RoundsOver(o) == remaining[o] = {} \/ rounds[o] > Cardinality(SubtasksOf(o))

StartRound(o) ==
    /\ orc[o] = "round"
    /\ ~RoundsOver(o)
    /\ ReadyOf(o) # {}
    /\ rounds'    = [rounds EXCEPT ![o] = @ + 1]
    /\ remaining' = [remaining EXCEPT ![o] = @ \ ReadyOf(o)]
    /\ step'      = [s \in Subtasks |-> IF s \in ReadyOf(o) THEN "allow" ELSE step[s]]
    /\ GotoO(o, "join")
    /\ UNCHANGED <<breakerVars, success, completed, active, workspace, known>>

(* Nothing can start: the rest gets the "Dependency deadlock" result. *)
Deadlock(o) ==
    /\ orc[o] = "round"
    /\ ~RoundsOver(o)
    /\ ReadyOf(o) = {}
    /\ completed' = [s \in Subtasks |-> IF s \in remaining[o] THEN "deadlock" ELSE completed[s]]
    /\ GotoO(o, "clear")
    /\ UNCHANGED <<breakerVars, remaining, rounds, step, success, active, workspace, known>>

AllRounds(o) ==
    /\ orc[o] = "round"
    /\ RoundsOver(o)
    /\ GotoO(o, "clear")
    /\ UNCHANGED <<breakerVars, remaining, rounds, step, success, completed, active, workspace, known>>

(* Mutant: the first answer ends the round. *)
JoinRound_first(o) ==
    /\ orc[o] = "join"
    /\ \E s \in SubtasksOf(o) : step[s] \in {"finished", "panicked"} /\ completed[s] = "none"
    /\ completed' = [s \in Subtasks |-> IF OrchOf[s] = o /\ step[s] = "finished"
                                        THEN "result" ELSE completed[s]]
    /\ GotoO(o, "round")
    /\ UNCHANGED <<breakerVars, remaining, rounds, step, success, active, workspace, known>>

(* Mutant: a panicked subtask is waited for. *)
JoinRound_answers(o) ==
    /\ orc[o] = "join"
    /\ \A s \in SubtasksOf(o) : step[s] \in {"waiting", "finished"}
    /\ completed' = [s \in Subtasks |-> IF OrchOf[s] = o /\ step[s] = "finished"
                                        THEN "result" ELSE completed[s]]
    /\ GotoO(o, "round")
    /\ UNCHANGED <<breakerVars, remaining, rounds, step, success, active, workspace, known>>

(* All handles of the round are awaited; a panicked subtask leaves no entry*)
JoinRound(o) ==
    /\ orc[o] = "join"
    /\ \A s \in SubtasksOf(o) : step[s] \in {"waiting", "finished", "panicked"}
    /\ completed' = [s \in Subtasks |-> IF OrchOf[s] = o /\ step[s] = "finished"
                                        THEN "result" ELSE completed[s]]
    /\ GotoO(o, "round")
    /\ UNCHANGED <<breakerVars, remaining, rounds, step, success, active, workspace, known>>

ClearWorkspace(o) ==
    /\ orc[o] = "clear"
    /\ workspace' = workspace \ SubtasksOf(o)
    /\ GotoO(o, "done")
    /\ UNCHANGED <<breakerVars, remaining, rounds, step, success, completed, active, known>>

(* The execution that asked for the orchestration times out and drops it   *)
(* where it waits; the subtasks it has spawned go on.                      *)
Drop(o) ==
    /\ o \in Nested
    /\ orc[o] \in {"join", "clear"}
    /\ GotoO(o, "dropped")
    /\ UNCHANGED <<breakerVars, remaining, rounds, step, success, completed, active, workspace, known>>

-----------------------------------------------------------------------------
(* One subtask *)

GotoS(s, l) == step' = [step EXCEPT ![s] = l]

AllowCall(s) ==
    /\ step[s] = "allow"
    /\ \/ Admit(AgentOf[s]) /\ GotoS(s, "lookup")
       \/ Blocked(AgentOf[s]) /\ GotoS(s, "finished") /\ UNCHANGED breakerVars
    /\ UNCHANGED <<orc, remaining, rounds, success, completed, active, workspace, known>>

(* An agent that is not configured: the breaker hears nothing of it. *)
Lookup(s) ==
    /\ step[s] = "lookup"
    /\ GotoS(s, IF AgentOf[s] \in known THEN "spawn" ELSE "finished")
    /\ UNCHANGED <<breakerVars, orc, remaining, rounds, success, completed, active, workspace, known>>

SlotFree == Cardinality(active) < MaxActive

(* spawn_subagent and mark_running under one lock; nor does the breaker    *)
(* hear of a refused spawn.                                                *)
Spawn(s) ==
    /\ step[s] = "spawn"
    /\ IF SlotFree THEN active' = active \cup {s} /\ GotoS(s, "execute")
                   ELSE UNCHANGED active /\ GotoS(s, "finished")
    /\ UNCHANGED <<breakerVars, orc, remaining, rounds, success, completed, workspace, known>>

(* A permit at once or the "Concurrency limit" error.  DAG runs take       *)
(* permits too.                                                            *)
Acquire(s) ==
    /\ step[s] = "execute"
    /\ \/ /\ Cardinality({u \in Subtasks : step[u] = "running"}) < MaxPermits
          /\ GotoS(s, "running")
       \/ GotoS(s, "mark")
    /\ UNCHANGED <<breakerVars, orc, remaining, rounds, success, completed, active, workspace, known>>

Answer(s) ==
    /\ step[s] = "running"
    /\ \E ok \in BOOLEAN : success' = [success EXCEPT ![s] = ok]
    /\ GotoS(s, "mark")
    /\ UNCHANGED <<breakerVars, orc, remaining, rounds, completed, active, workspace, known>>

(* The task dies in the execution: the permit comes back, the record in    *)
(* active_spawns stays.                                                    *)
Panic(s) ==
    /\ step[s] = "running"
    /\ GotoS(s, "panicked")
    /\ UNCHANGED <<breakerVars, orc, remaining, rounds, success, completed, active, workspace, known>>

(* Mutant: failed spawns keep their record. *)
MarkEnded_success(s) ==
    /\ step[s] = "mark"
    /\ active' = IF success[s] THEN active \ {s} ELSE active
    /\ GotoS(s, "record")
    /\ UNCHANGED <<breakerVars, orc, remaining, rounds, success, completed, workspace, known>>

(* mark_completed or mark_failed *)
MarkEnded(s) ==
    /\ step[s] = "mark"
    /\ active' = active \ {s}
    /\ GotoS(s, "record")
    /\ UNCHANGED <<breakerVars, orc, remaining, rounds, success, completed, workspace, known>>

Record(s) ==
    /\ step[s] = "record"
    /\ IF success[s] THEN record_success(AgentOf[s]) ELSE record_failure(AgentOf[s])
    /\ GotoS(s, "put")
    /\ UNCHANGED <<orc, remaining, rounds, success, completed, active, workspace, known>>

(* The workspace may refuse the value.  The subtask returns. *)
Put(s) ==
    /\ step[s] = "put"
    /\ workspace' \in {workspace, workspace \cup {s}}
    /\ GotoS(s, "finished")
    /\ success' = [success EXCEPT ![s] = FALSE]
    /\ UNCHANGED <<breakerVars, orc, remaining, rounds, completed, active, known>>

-----------------------------------------------------------------------------
(* The configuration is reloaded with other agents. *)
ReloadAgents ==
    /\ \E S \in SUBSET Agents : known' = S
    /\ UNCHANGED <<breakerVars, orc, remaining, rounds, step, success, completed, active, workspace>>

OrchStep(o) == StartRound(o) \/ Deadlock(o) \/ AllRounds(o) \/ JoinRound(o) \/ ClearWorkspace(o)

SubtaskStep(s) ==
    \/ AllowCall(s) \/ Lookup(s) \/ Spawn(s) \/ Acquire(s) \/ Answer(s) \/ Panic(s)
    \/ MarkEnded(s) \/ Record(s) \/ Put(s)

Next ==
    \/ \E o \in Orchs : Begin(o) \/ OrchStep(o) \/ Drop(o)
    \/ \E s \in Subtasks : SubtaskStep(s)
    \/ \E a \in Agents : Cool(a) /\ UNCHANGED callVars
    \/ ReloadAgents

Spec == Init /\ [][Next]_vars

(* tokio runs every spawned task, and an execution ends within its timeout.*)
Fairness ==
    /\ \A o \in Orchs : WF_vars(OrchStep(o))
    /\ \A s \in Subtasks : WF_vars(SubtaskStep(s))

FairSpec == Spec /\ Fairness

-----------------------------------------------------------------------------
(* A subtask starts only when every dependency has ended and left a result *)
(* in this very orchestration, however the rounds of several               *)
(* orchestrations interleave.                                              *)
DependenciesFirst ==
    [][\A s \in Subtasks : step[s] = "waiting" /\ step'[s] # "waiting" =>
          \A d \in Deps[s] : OrchOf[d] = OrchOf[s] /\ step[d] = "finished"]_vars

(* The manager's records are those of the subtasks between spawn and mark, *)
(* and of the ones that panicked there, whose slot is lost for good; so    *)
(* there are never more executions than max_concurrent.                    *)
SlotsAccountedFor ==
    /\ active = {s \in Subtasks : step[s] \in {"execute", "running", "mark"}} \cup Panicked
    /\ Cardinality(active) <= MaxActive

(* An orchestration that has returned has an answer for every subtask that *)
(* did not panic; and "Dependency deadlock" is said only of subtasks that  *)
(* could not start: some dependency is foreign, panicked, or in the same   *)
(* state.                                                                  *)
ResultsComplete ==
    \A s \in Subtasks :
        /\ orc[OrchOf[s]] = "done" => completed[s] # "none" \/ step[s] = "panicked"
        /\ completed[s] = "deadlock" =>
              \E d \in Deps[s] : \/ OrchOf[d] # OrchOf[s]
                                 \/ step[d] = "panicked"
                                 \/ completed[d] = "deadlock"

(* Nothing of an orchestration that has returned is in the workspace, and  *)
(* nothing is put there later by a subtask that outlives it.               *)
WorkspaceCleared ==
    \A s \in Subtasks : orc[OrchOf[s]] = "done" =>
        s \notin workspace /\ step[s] \in {"waiting", "finished", "panicked"}

(* An orchestration returns, or is dropped by who asked for it, whatever   *)
(* panics, dependency cycles, open breakers and missing agents it meets.   *)
OrchestrationReturns == \A o \in Orchs : orc[o] = "round" ~> orc[o] \in {"done", "dropped"}

-----------------------------------------------------------------------------
(* The inductive invariant behind these. *)

Moving  == {"allow", "lookup", "spawn", "execute", "running", "mark", "record", "put"}
Resting == {"waiting", "finished", "panicked"}

(* Each round takes at least one of the remaining subtasks, so the number  *)
(* of rounds never runs out before they do.                                *)
RemainingInv ==
    \A o \in Orchs :
        /\ remaining[o] = {s \in SubtasksOf(o) : step[s] = "waiting"}
        /\ rounds[o] + Cardinality(remaining[o]) <= Cardinality(SubtasksOf(o))

(* Subtasks move only while their orchestration joins or is dropped; what  *)
(* rests at the other times is waiting without an entry, finished with     *)
(* one, or panicked.                                                       *)
PhaseInv ==
    \A s \in Subtasks :
        /\ orc[OrchOf[s]] \in {"idle", "round", "clear", "done"} => step[s] \in Resting
        /\ orc[OrchOf[s]] = "idle" => step[s] = "waiting"
        /\ completed[s] = "result" => step[s] = "finished"
        /\ completed[s] = "deadlock" => /\ step[s] = "waiting"
                                        /\ orc[OrchOf[s]] \in {"clear", "done", "dropped"}
        /\ orc[OrchOf[s]] \in {"round", "clear", "done"} /\ step[s] = "finished"
              => completed[s] = "result"
        /\ orc[OrchOf[s]] \in {"clear", "done"} /\ step[s] = "waiting"
              => completed[s] = "deadlock"
        /\ orc[OrchOf[s]] = "done" => s \notin workspace

OInv ==
    /\ TypeOK
    /\ BreakerConsistent
    /\ SlotsAccountedFor
    /\ RemainingInv
    /\ PhaseInv
    /\ ResultsComplete

-----------------------------------------------------------------------------
(* circuit_breaker.rs: probe_in_flight "Blocks subsequent calls until the  *)
(* probe resolves": while calls are blocked for its sake, a call to the    *)
(* agent is on its way.                                                    *)
ProbeOnItsWay ==
    \A a \in Agents : probe_in_flight[a] =>
        \E s \in Subtasks : AgentOf[s] = a
            /\ step[s] \in {"lookup", "spawn", "execute", "running", "mark", "record"}

=============================================================================
