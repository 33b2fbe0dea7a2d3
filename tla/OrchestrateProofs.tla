------------------------- MODULE OrchestrateProofs -------------------------
(***************************************************************************)
(* Proofs about orchestrations, for every set of orchestrations, subtasks  *)
(* and agents, every dependency relation and every limit: the invariant    *)
(* OInv is inductive, and the safety properties follow from it.            *)
(***************************************************************************)
EXTENDS Orchestrate, FiniteSetTheorems, TLAPS

(* The operations of a breaker, in any order, keep it consistent. *)
LEMMA BreakerOps ==
  ASSUME BreakerTypeOK, BreakerConsistent, NEW a \in Agents,
         \/ Admit(a) \/ record_success(a) \/ record_failure(a) \/ Cool(a)
         \/ UNCHANGED breakerVars
  PROVE  BreakerTypeOK' /\ BreakerConsistent'
<1> USE BreakerAssumption DEF BreakerTypeOK, BreakerConsistent, breakerVars
<1>1. CASE Admit(a)
  BY <1>1 DEF Admit
<1>2. CASE record_success(a)
  <2>1. /\ state'[a] = "Closed" /\ failure_count'[a] = 0
        /\ \A b \in Agents \ {a} : state'[b] = state[b] /\ failure_count'[b] = failure_count[b]
    BY <1>2 DEF record_success
  <2>2. /\ probe_in_flight'[a] <=> (probe_in_flight[a] /\ state[a] # "HalfOpen")
        /\ \A b \in Agents \ {a} : probe_in_flight'[b] = probe_in_flight[b]
    BY <1>2 DEF record_success
  <2>3. ~probe_in_flight'[a]
    BY <2>2
  <2>4. BreakerTypeOK'
    BY <1>2 DEF record_success
  <2>5. QED  BY <2>1, <2>2, <2>3, <2>4
<1>3. CASE record_failure(a)
  <2>1. /\ failure_count' = [failure_count EXCEPT ![a] = @ + 1]
        /\ failure_count'[a] = failure_count[a] + 1
        /\ \A b \in Agents \ {a} : failure_count'[b] = failure_count[b]
    BY <1>3 DEF record_failure
  <2>2. /\ state'[a] = IF state[a] = "Closed" /\ failure_count'[a] < Threshold
                       THEN "Closed" ELSE "Open"
        /\ \A b \in Agents \ {a} : state'[b] = state[b]
    BY <1>3 DEF record_failure
  <2>3. /\ probe_in_flight'[a] <=> (probe_in_flight[a] /\ state[a] # "HalfOpen")
        /\ \A b \in Agents \ {a} : probe_in_flight'[b] = probe_in_flight[b]
    BY <1>3 DEF record_failure
  <2>4. ~probe_in_flight'[a]
    BY <2>3
  <2>5. state'[a] = "Closed" <=> failure_count'[a] < Threshold
    BY <2>1, <2>2
  <2>6. BreakerTypeOK'
    BY <1>3, <2>1 DEF record_failure
  <2>7. state'[a] # "HalfOpen"
    BY <2>2
  <2>8. QED  BY <2>1, <2>2, <2>3, <2>4, <2>5, <2>6, <2>7
<1>4. CASE Cool(a)
  BY <1>4 DEF Cool
<1>5. QED  BY <1>1, <1>2, <1>3, <1>4

(* Nothing exists in the initial state. *)
LEMMA InitOInv == Init => OInv
<1> SUFFICES ASSUME Init PROVE OInv
  OBVIOUS
<1> USE OrchestrateAssumption, BreakerAssumption DEF Init, BreakerInit
<1>1. TypeOK
  BY DEF TypeOK, BreakerTypeOK, SubtasksOf
<1>2. BreakerConsistent
  <2>1. \A a \in Agents : state[a] = "Closed" /\ failure_count[a] = 0
    OBVIOUS
  <2>2. \A a \in Agents : ~probe_in_flight[a]
    OBVIOUS
  <2>3. 0 < Threshold /\ "Closed" # "HalfOpen"
    OBVIOUS
  <2>4. QED  BY ONLY <2>1, <2>2, <2>3 DEF BreakerConsistent
<1>3. SlotsAccountedFor
  BY FS_EmptySet DEF SlotsAccountedFor, Panicked
<1>4. RemainingInv
  <2>1. \A o \in Orchs : IsFiniteSet(SubtasksOf(o))
    BY FS_Subset DEF SubtasksOf
  <2>2. \A o \in Orchs : Cardinality(SubtasksOf(o)) \in Nat
    BY <2>1, FS_CardinalityType
  <2>3. QED  BY <2>2 DEF RemainingInv, SubtasksOf
<1>5. PhaseInv
  BY DEF PhaseInv, Resting
<1>6. ResultsComplete
  BY DEF ResultsComplete
<1>7. QED  BY <1>1, <1>2, <1>3, <1>4, <1>5, <1>6 DEF OInv

-----------------------------------------------------------------------------
(* The steps of the orchestration *)

(* the records and the subtasks in between are left alone *)
LEMMA SlotsKept ==
  ASSUME SlotsAccountedFor, UNCHANGED active,
         \A s \in Subtasks : \/ step'[s] = step[s]
                             \/ step[s] = "waiting" /\ step'[s] = "allow"
  PROVE  SlotsAccountedFor'
  BY DEF SlotsAccountedFor, Panicked

(* begin, and the moves between phases that touch no subtask *)
LEMMA BeginInv ==
  ASSUME OInv, NEW o \in Orchs, Begin(o)
  PROVE  OInv'
<1> USE OrchestrateAssumption DEF OInv, Begin, GotoO, breakerVars
<1>1. TypeOK'  BY DEF TypeOK, BreakerTypeOK
<1>2. BreakerConsistent'  BY DEF BreakerConsistent
<1>3. SlotsAccountedFor'  BY SlotsKept
<1>4. RemainingInv'  BY DEF RemainingInv, SubtasksOf
<1>5. PhaseInv'  BY DEF TypeOK, PhaseInv
<1>6. ResultsComplete'  BY DEF TypeOK, ResultsComplete
<1>7. QED  BY <1>1, <1>2, <1>3, <1>4, <1>5, <1>6

(* the round takes what it starts out of the remaining subtasks *)
LEMMA StartRoundInv ==
  ASSUME OInv, NEW o \in Orchs, StartRound(o)
  PROVE  OInv'
<1> USE OrchestrateAssumption DEF OInv, StartRound, GotoO, breakerVars
<1>0. ReadyOf(o) \subseteq remaining[o] /\ remaining[o] \subseteq SubtasksOf(o)
  BY DEF ReadyOf, RemainingInv
<1>1. TypeOK'  BY DEF TypeOK, BreakerTypeOK
<1>2. BreakerConsistent'  BY DEF BreakerConsistent
<1>3. SlotsAccountedFor'
  <2>1. \A s \in Subtasks : \/ step'[s] = step[s]
                            \/ step[s] = "waiting" /\ step'[s] = "allow"
    BY <1>0 DEF RemainingInv, TypeOK
  <2>2. QED  BY <2>1, SlotsKept
<1>4. RemainingInv'
  <2> SUFFICES ASSUME NEW p \in Orchs
               PROVE  /\ remaining'[p] = {s \in SubtasksOf(p) : step'[s] = "waiting"}
                      /\ rounds'[p] + Cardinality(remaining'[p]) <= Cardinality(SubtasksOf(p))
    BY DEF RemainingInv, SubtasksOf
  <2>1. CASE p # o
    <3>1. remaining'[p] = remaining[p] /\ rounds'[p] = rounds[p]
      BY <2>1 DEF TypeOK
    <3>2. \A s \in SubtasksOf(p) : step'[s] = step[s]
      BY <2>1, <1>0 DEF SubtasksOf
    <3>3. remaining'[p] = {s \in SubtasksOf(p) : step'[s] = "waiting"}
      BY <3>1, <3>2 DEF RemainingInv
    <3>4. rounds[p] + Cardinality(remaining[p]) <= Cardinality(SubtasksOf(p))
      BY DEF RemainingInv
    <3>5. QED  BY ONLY <3>1, <3>3, <3>4
  <2>2. CASE p = o
    <3>1. remaining'[o] = remaining[o] \ ReadyOf(o) /\ rounds'[o] = rounds[o] + 1
      BY DEF TypeOK
    <3>2. remaining'[o] = {s \in SubtasksOf(o) : step'[s] = "waiting"}
      BY <3>1, <1>0 DEF RemainingInv, SubtasksOf
    <3>3. IsFiniteSet(remaining[o])
      BY FS_Subset DEF TypeOK
    <3>4. PICK s \in ReadyOf(o) : TRUE
      OBVIOUS
    <3>5. s \in remaining[o] /\ s \notin remaining'[o] /\ remaining'[o] \subseteq remaining[o]
      BY <3>1, <3>4, <1>0
    <3>6. /\ IsFiniteSet(remaining[o] \ {s})
          /\ Cardinality(remaining[o] \ {s}) = Cardinality(remaining[o]) - 1
      BY <3>3, <3>5, FS_RemoveElement
    <3>7. IsFiniteSet(remaining'[o]) /\ Cardinality(remaining'[o]) <= Cardinality(remaining[o] \ {s})
      BY <3>5, <3>6, FS_Subset
    <3>8. /\ Cardinality(remaining'[o]) \in Nat
          /\ Cardinality(remaining[o]) \in Nat /\ rounds[o] \in Nat
      BY <3>3, <3>7, FS_CardinalityType DEF TypeOK
    <3>9. IsFiniteSet(SubtasksOf(o)) /\ Cardinality(SubtasksOf(o)) \in Nat
      BY FS_Subset, FS_CardinalityType DEF SubtasksOf
    <3>10. rounds[o] + Cardinality(remaining[o]) <= Cardinality(SubtasksOf(o))
      BY DEF RemainingInv
    <3>11. rounds'[o] + Cardinality(remaining'[o]) <= Cardinality(SubtasksOf(o))
      BY ONLY <3>1, <3>6, <3>7, <3>8, <3>9, <3>10
    <3>12. QED  BY <2>2, <3>2, <3>11
  <2>3. QED  BY <2>1, <2>2
<1>5. PhaseInv'
  BY <1>0 DEF TypeOK, PhaseInv, SubtasksOf, RemainingInv
<1>6. ResultsComplete'  BY <1>0 DEF TypeOK, ResultsComplete, SubtasksOf, RemainingInv
<1>7. QED  BY <1>1, <1>2, <1>3, <1>4, <1>5, <1>6

(* who cannot start has a dependency that never ends *)
LEMMA DeadlockInv ==
  ASSUME OInv, NEW o \in Orchs, Deadlock(o)
  PROVE  OInv'
<1> USE OrchestrateAssumption DEF OInv, Deadlock, GotoO, breakerVars
<1>0. remaining[o] = {s \in SubtasksOf(o) : step[s] = "waiting"}
  BY DEF RemainingInv
<1>1. TypeOK'  BY DEF TypeOK, BreakerTypeOK
<1>2. BreakerConsistent'  BY DEF BreakerConsistent
<1>3. SlotsAccountedFor'  BY SlotsKept
<1>4. RemainingInv'  BY DEF RemainingInv, SubtasksOf
<1>5. PhaseInv'
  BY <1>0 DEF TypeOK, PhaseInv, SubtasksOf
<1>6. ResultsComplete'
  <2> SUFFICES ASSUME NEW s \in Subtasks, completed'[s] = "deadlock"
               PROVE  \E d \in Deps[s] : \/ OrchOf[d] # OrchOf[s]
                                         \/ step[d] = "panicked"
                                         \/ completed'[d] = "deadlock"
    <3>1. \A s \in Subtasks : orc'[OrchOf[s]] = "done" => orc[OrchOf[s]] = "done"
      BY DEF TypeOK
    <3>2. \A s \in Subtasks : completed[s] # "none" => completed'[s] # "none"
      OBVIOUS
    <3>3. UNCHANGED step
      OBVIOUS
    <3>4. ASSUME NEW s \in Subtasks, completed'[s] = "deadlock" =>
                     \E d \in Deps[s] : \/ OrchOf[d] # OrchOf[s]
                                        \/ step[d] = "panicked"
                                        \/ completed'[d] = "deadlock"
          PROVE  /\ orc'[OrchOf[s]] = "done" => completed'[s] # "none" \/ step'[s] = "panicked"
                 /\ completed'[s] = "deadlock" =>
                       \E d \in Deps[s] : \/ OrchOf[d] # OrchOf[s]
                                          \/ step'[d] = "panicked"
                                          \/ completed'[d] = "deadlock"
      <4>1. orc[OrchOf[s]] = "done" => completed[s] # "none" \/ step[s] = "panicked"
        BY DEF ResultsComplete
      <4>2. QED  BY ONLY <4>1, <3>1, <3>2, <3>3, <3>4
    <3>5. QED  BY <3>4 DEF ResultsComplete
  <2>1. CASE s \notin remaining[o]
    BY <2>1 DEF ResultsComplete
  <2>2. CASE s \in remaining[o]
    <3>1. PICK d \in Deps[s] : ~(OrchOf[d] = o /\ completed[d] # "none")
      BY <2>2 DEF ReadyOf
    <3>2. OrchOf[s] = o
      BY <2>2, <1>0 DEF SubtasksOf
    <3>3. CASE OrchOf[d] = o
      <4>1. step[d] \in Resting /\ step[d] # "finished"
        BY <3>1, <3>3 DEF PhaseInv
      <4>2. step[d] = "waiting" => completed'[d] = "deadlock"
        BY <3>3, <1>0 DEF SubtasksOf
      <4>3. QED  BY <4>1, <4>2 DEF Resting
    <3>4. QED  BY <3>1, <3>2, <3>3
  <2>3. QED  BY <2>1, <2>2
<1>7. QED  BY <1>1, <1>2, <1>3, <1>4, <1>5, <1>6

(* the rounds are over only when nothing is left *)
LEMMA AllRoundsInv ==
  ASSUME OInv, NEW o \in Orchs, AllRounds(o)
  PROVE  OInv'
<1> USE OrchestrateAssumption DEF OInv, AllRounds, GotoO, breakerVars
<1>0. remaining[o] = {}
  <2>1. IsFiniteSet(remaining[o]) /\ IsFiniteSet(SubtasksOf(o))
    BY FS_Subset DEF TypeOK, SubtasksOf
  <2>2. /\ Cardinality(remaining[o]) \in Nat /\ Cardinality(SubtasksOf(o)) \in Nat
        /\ rounds[o] \in Nat
    BY <2>1, FS_CardinalityType DEF TypeOK
  <2>3. rounds[o] + Cardinality(remaining[o]) <= Cardinality(SubtasksOf(o))
    BY DEF RemainingInv
  <2>4. ~(rounds[o] > Cardinality(SubtasksOf(o)))
    BY ONLY <2>2, <2>3
  <2>5. QED  BY <2>4 DEF RoundsOver
<1>1. TypeOK'  BY DEF TypeOK, BreakerTypeOK
<1>2. BreakerConsistent'  BY DEF BreakerConsistent
<1>3. SlotsAccountedFor'  BY SlotsKept
<1>4. RemainingInv'  BY DEF RemainingInv, SubtasksOf
<1>5. PhaseInv'
  <2>1. \A s \in Subtasks : OrchOf[s] = o => step[s] # "waiting"
    BY <1>0 DEF RemainingInv, SubtasksOf
  <2>2. QED  BY <2>1 DEF TypeOK, PhaseInv
<1>6. ResultsComplete'  BY DEF TypeOK, ResultsComplete
<1>7. QED  BY <1>1, <1>2, <1>3, <1>4, <1>5, <1>6

(* entries for all that have finished *)
LEMMA JoinRoundInv ==
  ASSUME OInv, NEW o \in Orchs, JoinRound(o)
  PROVE  OInv'
<1> USE OrchestrateAssumption DEF OInv, JoinRound, GotoO, breakerVars
<1>1. TypeOK'  BY DEF TypeOK, BreakerTypeOK
<1>2. BreakerConsistent'  BY DEF BreakerConsistent
<1>3. SlotsAccountedFor'  BY SlotsKept
<1>4. RemainingInv'  BY DEF RemainingInv, SubtasksOf
<1>5. PhaseInv'  BY DEF TypeOK, PhaseInv, SubtasksOf, Resting
<1>6. ResultsComplete'  BY DEF TypeOK, ResultsComplete, PhaseInv
<1>7. QED  BY <1>1, <1>2, <1>3, <1>4, <1>5, <1>6

(* the end *)
LEMMA ClearWorkspaceInv ==
  ASSUME OInv, NEW o \in Orchs, ClearWorkspace(o)
  PROVE  OInv'
<1> USE OrchestrateAssumption DEF OInv, ClearWorkspace, GotoO, breakerVars
<1>1. TypeOK'  BY DEF TypeOK, BreakerTypeOK
<1>2. BreakerConsistent'  BY DEF BreakerConsistent
<1>3. SlotsAccountedFor'  BY SlotsKept
<1>4. RemainingInv'  BY DEF RemainingInv, SubtasksOf
<1>5. PhaseInv'  BY DEF TypeOK, PhaseInv, SubtasksOf
<1>6. ResultsComplete'  BY DEF TypeOK, ResultsComplete, PhaseInv, Resting
<1>7. QED  BY <1>1, <1>2, <1>3, <1>4, <1>5, <1>6

(* the caller gives up *)
LEMMA DropInv ==
  ASSUME OInv, NEW o \in Orchs, Drop(o)
  PROVE  OInv'
<1> USE OrchestrateAssumption DEF OInv, Drop, GotoO, breakerVars
<1>1. TypeOK'  BY DEF TypeOK, BreakerTypeOK
<1>2. BreakerConsistent'  BY DEF BreakerConsistent
<1>3. SlotsAccountedFor'  BY SlotsKept
<1>4. RemainingInv'  BY DEF RemainingInv, SubtasksOf
<1>5. PhaseInv'  BY DEF TypeOK, PhaseInv
<1>6. ResultsComplete'  BY DEF TypeOK, ResultsComplete
<1>7. QED  BY <1>1, <1>2, <1>3, <1>4, <1>5, <1>6

-----------------------------------------------------------------------------
(* The steps of a subtask *)

(* A subtask that moves on does not disturb its orchestration. *)
LEMMA MovesOn ==
  ASSUME OInv, NEW s \in Subtasks, step[s] \in Moving,
         NEW l \in (Moving \cup Resting) \ {"waiting"},
         step' = [step EXCEPT ![s] = l],
         workspace' \subseteq workspace \cup {s},
         UNCHANGED <<orc, remaining, rounds, completed>>
  PROVE  RemainingInv' /\ PhaseInv' /\ ResultsComplete'
<1> USE OrchestrateAssumption DEF OInv
<1>a. step[s] \notin Resting
  BY DEF Moving, Resting
<1>b. ~(orc[OrchOf[s]] \in {"idle", "round", "clear", "done"})
  BY <1>a DEF PhaseInv
<1>c. orc[OrchOf[s]] \in {"idle", "round", "join", "clear", "done", "dropped"}
  BY DEF TypeOK
<1>0. orc[OrchOf[s]] \in {"join", "dropped"} /\ step[s] \notin Resting
  BY <1>a, <1>b, <1>c
<1>1. RemainingInv'
  BY <1>0 DEF RemainingInv, SubtasksOf, Resting, TypeOK
<1>2. PhaseInv'
  BY <1>0 DEF PhaseInv, Resting, TypeOK
<1>3. ResultsComplete'
  BY <1>0 DEF ResultsComplete, Resting, TypeOK, PhaseInv
<1>4. QED  BY <1>1, <1>2, <1>3

(* every action of a subtask is such a move *)
LEMMA SubtaskMoves ==
  ASSUME OInv, NEW s \in Subtasks, SubtaskStep(s)
  PROVE  RemainingInv' /\ PhaseInv' /\ ResultsComplete'
<1>1. PICK l \in (Moving \cup Resting) \ {"waiting"} : step' = [step EXCEPT ![s] = l]
  BY DEF SubtaskStep, AllowCall, Lookup, Spawn, Acquire, Answer, Panic, MarkEnded, Record, Put,
         GotoS, Moving, Resting
<1>2. step[s] \in Moving
  BY DEF SubtaskStep, AllowCall, Lookup, Spawn, Acquire, Answer, Panic, MarkEnded, Record, Put,
         Moving
<1>3. workspace' \subseteq workspace \cup {s}
  BY DEF SubtaskStep, AllowCall, Lookup, Spawn, Acquire, Answer, Panic, MarkEnded, Record, Put
<1>4. UNCHANGED <<orc, remaining, rounds, completed>>
  BY DEF SubtaskStep, AllowCall, Lookup, Spawn, Acquire, Answer, Panic, MarkEnded, Record, Put
<1>5. QED  BY <1>1, <1>2, <1>3, <1>4, MovesOn

(* slots are taken and returned with the step they belong to *)
LEMMA SubtaskSlots ==
  ASSUME OInv, NEW s \in Subtasks, SubtaskStep(s)
  PROVE  SlotsAccountedFor'
<1> USE OrchestrateAssumption DEF OInv, GotoS
<1>0. IsFiniteSet(active) /\ Cardinality(active) \in Nat
  BY FS_Subset, FS_CardinalityType DEF TypeOK
<1>1. CASE AllowCall(s) \/ Lookup(s) \/ Record(s) \/ Put(s)
  <2>1. active' = active
    BY <1>1 DEF AllowCall, Lookup, Record, Put
  <2>2. {step[s], step'[s]} \subseteq {"allow", "lookup", "spawn", "record", "put", "finished"}
        /\ \A u \in Subtasks \ {s} : step'[u] = step[u]
    BY <1>1 DEF AllowCall, Lookup, Record, Put, TypeOK
  <2>3. QED  BY <2>1, <2>2 DEF SlotsAccountedFor, Panicked
<1>2. CASE Acquire(s) \/ Answer(s) \/ Panic(s)
  <2>1. active' = active
    BY <1>2 DEF Acquire, Answer, Panic
  <2>2. {step[s], step'[s]} \subseteq {"execute", "running", "mark", "panicked"}
        /\ \A u \in Subtasks \ {s} : step'[u] = step[u]
    BY <1>2 DEF Acquire, Answer, Panic, TypeOK
  <2>3. QED  BY <2>1, <2>2 DEF SlotsAccountedFor, Panicked
<1>3. CASE Spawn(s)
  <2>1. CASE SlotFree
    <3>1. active' = active \cup {s} /\ step' = [step EXCEPT ![s] = "execute"] /\ step[s] = "spawn"
      BY <1>3, <2>1 DEF Spawn
    <3>2. Cardinality(active') <= MaxActive
      <4>1. s \notin active
        BY <3>1 DEF SlotsAccountedFor, Panicked
      <4>2. Cardinality(active') = Cardinality(active) + 1
        BY <1>0, <3>1, <4>1, FS_AddElement
      <4>3. QED  BY <1>0, <2>1, <4>2 DEF SlotFree
    <3>3. QED  BY <3>1, <3>2 DEF SlotsAccountedFor, Panicked, TypeOK
  <2>2. CASE ~SlotFree
    BY <1>3, <2>2 DEF Spawn, SlotsAccountedFor, Panicked, TypeOK
  <2>3. QED  BY <2>1, <2>2
<1>4. CASE MarkEnded(s)
  <2>1. Cardinality(active') <= MaxActive
    <3>1. active' \subseteq active
      BY <1>4 DEF MarkEnded
    <3>2. IsFiniteSet(active') /\ Cardinality(active') <= Cardinality(active)
      BY <1>0, <3>1, FS_Subset
    <3>3. Cardinality(active') \in Nat
      BY <3>2, FS_CardinalityType
    <3>4. QED  BY <1>0, <3>2, <3>3 DEF SlotsAccountedFor
  <2>2. QED  BY <1>4, <2>1 DEF MarkEnded, SlotsAccountedFor, Panicked, TypeOK
<1>5. QED  BY <1>1, <1>2, <1>3, <1>4 DEF SubtaskStep

(* so the invariant survives each of them *)
LEMMA SubtaskInv ==
  ASSUME OInv, NEW s \in Subtasks, SubtaskStep(s)
  PROVE  OInv'
<1>1. BreakerTypeOK' /\ BreakerConsistent'
  <2>1. \/ Admit(AgentOf[s]) \/ record_success(AgentOf[s]) \/ record_failure(AgentOf[s])
        \/ UNCHANGED breakerVars
    BY DEF SubtaskStep, AllowCall, Lookup, Spawn, Acquire, Answer, Panic, MarkEnded, Record, Put
  <2>2. QED  BY <2>1, BreakerOps, OrchestrateAssumption DEF OInv, TypeOK
<1>2. TypeOK'
  <2> USE DEF OInv, TypeOK, GotoS
  <2>1. /\ UNCHANGED <<orc, remaining, rounds, completed, known>>
        /\ active' \subseteq Subtasks /\ workspace' \subseteq Subtasks
        /\ success' \in [Subtasks -> BOOLEAN]
    BY DEF SubtaskStep, AllowCall, Lookup, Spawn, Acquire, Answer, Panic, MarkEnded, Record, Put
  <2>2. step' \in [Subtasks -> {"waiting", "allow", "lookup", "spawn", "execute", "running",
                                "mark", "record", "put", "finished", "panicked"}]
    BY DEF SubtaskStep, AllowCall, Lookup, Spawn, Acquire, Answer, Panic, MarkEnded, Record, Put
  <2>3. QED  BY <1>1, <2>1, <2>2
<1>3. QED  BY <1>1, <1>2, SubtaskSlots, SubtaskMoves DEF OInv

-----------------------------------------------------------------------------
(* Every step preserves the invariant. *)
LEMMA NextOInv == OInv /\ [Next]_vars => OInv'
<1> SUFFICES ASSUME OInv, [Next]_vars PROVE OInv'
  OBVIOUS
<1>1. ASSUME UNCHANGED callVars, BreakerTypeOK', BreakerConsistent' PROVE OInv'
  BY <1>1 DEF callVars, OInv, TypeOK, SlotsAccountedFor, Panicked, RemainingInv, SubtasksOf,
              PhaseInv, ResultsComplete
<1>2. CASE UNCHANGED vars
  <2>1. BreakerTypeOK' /\ BreakerConsistent'
    BY <1>2 DEF vars, breakerVars, OInv, TypeOK, BreakerTypeOK, BreakerConsistent
  <2>2. QED  BY <1>1, <1>2, <2>1 DEF vars
<1>3. ASSUME NEW a \in Agents, Cool(a), UNCHANGED callVars PROVE OInv'
  BY <1>1, <1>3, BreakerOps DEF OInv, TypeOK
<1>4. CASE ReloadAgents
  <2>1. SlotsAccountedFor'
    BY <1>4, SlotsKept DEF ReloadAgents, OInv
  <2>2. TypeOK'
    BY <1>4 DEF ReloadAgents, OInv, TypeOK, BreakerTypeOK, breakerVars
  <2>3. BreakerConsistent' /\ RemainingInv' /\ PhaseInv' /\ ResultsComplete'
    BY <1>4 DEF ReloadAgents, OInv, BreakerConsistent, breakerVars, RemainingInv, SubtasksOf,
                PhaseInv, ResultsComplete
  <2>4. QED  BY <2>1, <2>2, <2>3 DEF OInv
<1>5. ASSUME NEW o \in Orchs, Begin(o) \/ OrchStep(o) \/ Drop(o) PROVE OInv'
  BY <1>5, BeginInv, StartRoundInv, DeadlockInv, AllRoundsInv, JoinRoundInv, ClearWorkspaceInv,
     DropInv DEF OrchStep
<1>6. QED  BY <1>2, <1>3, <1>4, <1>5, SubtaskInv DEF Next

(* The invariant holds in every reachable state. *)
THEOREM OInvariance == Spec => []OInv
<1>1. QED  BY InitOInv, NextOInv, PTL DEF Spec

(* Type correctness, failure counts included: they never go below zero. *)
THEOREM TypesCorrect == Spec => []TypeOK
<1>1. OInv => TypeOK  BY DEF OInv
<1>2. QED  BY <1>1, OInvariance, PTL

(* Whatever late answers and lost probes do to it, a breaker is closed     *)
(* exactly below the threshold and probing exactly in HalfOpen.            *)
THEOREM BreakersConsistent == Spec => []BreakerConsistent
<1>1. OInv => BreakerConsistent  BY DEF OInv
<1>2. QED  BY <1>1, OInvariance, PTL

(* The manager's limit holds, and a record is lost only by a panic. *)
THEOREM SlotsHold == Spec => []SlotsAccountedFor
<1>1. OInv => SlotsAccountedFor  BY DEF OInv
<1>2. QED  BY <1>1, OInvariance, PTL

(* The cut after len + 1 rounds forgets no subtask, and only subtasks that *)
(* cannot start are reported as deadlocked.                                *)
THEOREM ResultsAreComplete == Spec => []ResultsComplete
<1>1. OInv => ResultsComplete  BY DEF OInv
<1>2. QED  BY <1>1, OInvariance, PTL

(* An orchestration that has returned leaves nothing in the workspace and  *)
(* nobody who could still put something there.                             *)
THEOREM WorkspaceIsCleared == Spec => []WorkspaceCleared
<1>1. OInv => WorkspaceCleared
  BY OrchestrateAssumption DEF OInv, PhaseInv, WorkspaceCleared, Resting
<1>2. QED  BY <1>1, OInvariance, PTL

(* A subtask starts only after all its dependencies have finished.         *)
THEOREM DependenciesGoFirst == Spec => DependenciesFirst
<1> DEFINE A == \A s \in Subtasks : step[s] = "waiting" /\ step'[s] # "waiting" =>
                   \A d \in Deps[s] : OrchOf[d] = OrchOf[s] /\ step[d] = "finished"
<1>1. OInv /\ [Next]_vars => [A]_vars
  <2> SUFFICES ASSUME OInv, Next, NEW s \in Subtasks, step[s] = "waiting", step'[s] # "waiting",
                      NEW d \in Deps[s]
               PROVE  OrchOf[d] = OrchOf[s] /\ step[d] = "finished"
    OBVIOUS
  <2>1. PICK o \in Orchs : StartRound(o)
    <3>1. ASSUME NEW u \in Subtasks, SubtaskStep(u) PROVE FALSE
      BY <3>1 DEF SubtaskStep, AllowCall, Lookup, Spawn, Acquire, Answer, Panic, MarkEnded,
                  Record, Put, GotoS, OInv, TypeOK
    <3>2. QED
      BY <3>1 DEF Next, OrchStep, Begin, Drop, Deadlock, AllRounds, JoinRound, ClearWorkspace,
                  ReloadAgents, callVars
  <2>2. s \in ReadyOf(o) /\ orc[o] = "round"
    BY <2>1 DEF StartRound
  <2>3. OrchOf[s] = o /\ OrchOf[d] = o /\ completed[d] # "none"
    BY <2>2 DEF ReadyOf, OInv, RemainingInv, SubtasksOf
  <2>4. QED
    BY <2>2, <2>3, OrchestrateAssumption DEF OInv, TypeOK, PhaseInv
<1>2. QED  BY <1>1, OInvariance, PTL DEF Spec, DependenciesFirst

=============================================================================
