-------------------------- MODULE WorkflowProofs ---------------------------
(***************************************************************************)
(* Proofs about the workflow executor, for every specification a user may  *)
(* give, cyclic or not, every policy and every size of the registry: WInv  *)
(* is inductive, and the safety properties follow from it.                 *)
(***************************************************************************)
EXTENDS Workflow, FiniteSetTheorems, TLAPS

-----------------------------------------------------------------------------
(* Counting *)

(* More steps with an outcome, or as many. *)
LEMMA EndedGrows ==
  ASSUME NEW r \in Runs, \A s \in StepsOf(r) : step[s] # "Pending" => step'[s] # "Pending"
  PROVE  /\ Ended(r) \in Nat /\ Ended(r)' \in Nat
         /\ Ended(r) <= Ended(r)'
         /\ (\E s \in StepsOf(r) : step[s] = "Pending" /\ step'[s] # "Pending") => Ended(r) < Ended(r)'
<1> DEFINE E0 == StepsOf(r) \ Pending(r)
           E1 == (StepsOf(r) \ Pending(r))'
<1>1. IsFiniteSet(StepsOf(r))
  BY WorkflowAssumption, FS_Subset DEF StepsOf
<1>2. IsFiniteSet(E1) /\ E0 \subseteq E1
  BY <1>1, FS_Subset DEF StepsOf, Pending
<1>3. /\ Cardinality(E0) \in Nat /\ Cardinality(E1) \in Nat
      /\ Cardinality(E0) <= Cardinality(E1)
      /\ E0 # E1 => Cardinality(E0) < Cardinality(E1)
  BY <1>2, FS_Subset, FS_CardinalityType
<1>4. (\E s \in StepsOf(r) : step[s] = "Pending" /\ step'[s] # "Pending") => E0 # E1
  BY DEF StepsOf, Pending
<1>5. QED  BY <1>3, <1>4 DEF Ended

(* Never more than there are steps. *)
LEMMA EndedBounded ==
  ASSUME NEW r \in Runs
  PROVE  Ended(r) \in Nat /\ Cardinality(StepsOf(r)) \in Nat /\ Ended(r) <= Cardinality(StepsOf(r))
<1>1. IsFiniteSet(StepsOf(r)) /\ StepsOf(r) \ Pending(r) \subseteq StepsOf(r)
  BY WorkflowAssumption, FS_Subset DEF StepsOf
<1>2. QED  BY <1>1, FS_Subset, FS_CardinalityType DEF Ended

-----------------------------------------------------------------------------
(* The registry *)

(* An update changes its run's entry, and takes out finished runs only. *)
LEMMA RegisterEffect ==
  ASSUME TypeOK, NEW r \in Runs, NEW status \in Finished \cup {"running", "delegated"},
         NEW started \in Nat, register(r, status, started)
  PROVE  /\ shown' \in [Runs -> Finished \cup {"absent", "running", "delegated"}]
         /\ since' \in [Runs -> Nat]
         /\ \A x \in Runs \ {r} : shown'[x] = shown[x] \/ (shown[x] \in Finished /\ shown'[x] = "absent")
         /\ shown'[r] = status \/ (status \in Finished /\ shown'[r] = "absent")
         /\ Cardinality({x \in Runs : shown'[x] \in Finished}) <= MaxFinished
<1> DEFINE now   == [shown EXCEPT ![r] = status]
           ended == {x \in Runs : now[x] \in Finished}
<1>1. now \in [Runs -> Finished \cup {"absent", "running", "delegated"}]
  BY DEF TypeOK
<1>2. PICK gone \in SUBSET ended :
        /\ Cardinality(gone) = Over(ended)
        /\ shown' = [x \in Runs |-> IF x \in gone THEN "absent" ELSE now[x]]
  BY DEF register
<1>3. {x \in Runs : shown'[x] \in Finished} = ended \ gone
  BY <1>1, <1>2 DEF Finished
<1>4. IsFiniteSet(ended) /\ IsFiniteSet(gone)
  BY <1>2, WorkflowAssumption, FS_Subset
<1>5. Cardinality(ended \ gone) = Cardinality(ended) - Cardinality(gone)
  <2>1. ended \cap gone = gone  BY <1>2
  <2>2. QED  BY <2>1, <1>4, FS_Difference
<1>6. Cardinality(ended \ gone) <= MaxFinished
  BY <1>2, <1>4, <1>5, FS_CardinalityType, WorkflowAssumption DEF Over
<1>7. since' \in [Runs -> Nat]
  BY DEF register, TypeOK
<1>8. QED  BY <1>1, <1>2, <1>3, <1>6, <1>7 DEF TypeOK

(* What an update of the registry leaves true of the entries: ShownInv,    *)
(* when the run's own entry fits its new place.                            *)
LEMMA RegisterKeeps ==
  ASSUME WInv, NEW r \in Runs, NEW status \in Finished \cup {"running", "delegated"},
         NEW started \in Nat, register(r, status, started), UNCHANGED step,
         NEW p \in Phases \ {"new"}, phase' = [phase EXCEPT ![r] = p],
         p \in {"head", "parallel", "serial", "ending", "dead"} => status = "running",
         p \in {"delegating", "remote"} => status = "delegated",
         p = "refused" => status = "failed",
         p = "done" => \/ status = "failed" /\ \E s \in StepsOf(r) : step[s] = "Failed"
                       \/ status = "completed" /\ \A s \in StepsOf(r) : Good(s)
  PROVE  ShownInv'
<1>1. /\ \A x \in Runs \ {r} : shown'[x] = shown[x] \/ (shown[x] \in Finished /\ shown'[x] = "absent")
      /\ shown'[r] = status \/ (status \in Finished /\ shown'[r] = "absent")
      /\ Cardinality({x \in Runs : shown'[x] \in Finished}) <= MaxFinished
  BY RegisterEffect DEF WInv
<1>2. \A x \in Runs : phase'[x] = IF x = r THEN p ELSE phase[x]
  BY DEF WInv, TypeOK
<1>3. \A s \in Steps : Good(s)' <=> Good(s)
  BY DEF Good
<1>4. ASSUME NEW x \in Runs, x # r
      PROVE  /\ phase'[x] = "new" => shown'[x] = "absent"
             /\ phase'[x] \in {"head", "parallel", "serial", "ending", "dead"} => shown'[x] = "running"
             /\ phase'[x] \in {"delegating", "remote"} => shown'[x] = "delegated"
             /\ phase'[x] = "refused" => shown'[x] \in {"failed", "absent"}
             /\ shown'[x] = shown[x] \/ shown'[x] = "absent"
  BY <1>1, <1>2, <1>4 DEF WInv, ShownInv, Finished
<1>5. ASSUME NEW x \in Runs, x # r, phase'[x] = "done", shown'[x] # "absent"
      PROVE  \/ shown'[x] = "failed" /\ \E s \in StepsOf(x) : step'[s] = "Failed"
             \/ shown'[x] = "completed" /\ \A s \in StepsOf(x) : Good(s)'
  <2>1. shown'[x] = shown[x] /\ phase[x] = "done"
    BY <1>2, <1>4, <1>5
  <2>2. \/ shown[x] = "failed" /\ \E s \in StepsOf(x) : step[s] = "Failed"
        \/ shown[x] = "completed" /\ \A s \in StepsOf(x) : Good(s)
    BY <2>1, <1>5 DEF WInv, ShownInv
  <2>3. QED  BY <2>1, <2>2, <1>3 DEF StepsOf
<1>6. /\ p = "new" => shown'[r] = "absent"
      /\ p \in {"head", "parallel", "serial", "ending", "dead"} => shown'[r] = "running"
      /\ p \in {"delegating", "remote"} => shown'[r] = "delegated"
      /\ p = "refused" => shown'[r] \in {"failed", "absent"}
  BY <1>1 DEF Finished
<1>7. ASSUME p = "done", shown'[r] # "absent"
      PROVE  \/ shown'[r] = "failed" /\ \E s \in StepsOf(r) : step'[s] = "Failed"
             \/ shown'[r] = "completed" /\ \A s \in StepsOf(r) : Good(s)'
  BY <1>1, <1>3, <1>7 DEF StepsOf
<1>8. QED  BY <1>1, <1>2, <1>4, <1>5, <1>6, <1>7 DEF ShownInv, InRound

(* A change of one run's place that the registry and the outcomes do not  *)
(* see keeps ShownInv, as long as the run is still at work.                *)
LEMMA PlaceChanges ==
  ASSUME WInv, NEW r \in Runs, NEW p \in {"head", "parallel", "serial", "ending", "dead"},
         phase[r] \in {"head", "parallel", "serial"}, phase' = [phase EXCEPT ![r] = p], UNCHANGED registry,
         \A x \in Runs \ {r} : \A s \in StepsOf(x) : step'[s] = step[s]
  PROVE  ShownInv'
<1>1. \A x \in Runs : phase'[x] = IF x = r THEN p ELSE phase[x]
  BY DEF WInv, TypeOK
<1>2. shown' = shown /\ shown[r] = "running"
  BY DEF WInv, ShownInv, registry
<1>3. ASSUME NEW x \in Runs, x # r, phase[x] = "done", shown[x] # "absent"
      PROVE  \/ shown[x] = "failed" /\ \E s \in StepsOf(x) : step'[s] = "Failed"
             \/ shown[x] = "completed" /\ \A s \in StepsOf(x) : Good(s)'
  <2>1. \/ shown[x] = "failed" /\ \E s \in StepsOf(x) : step[s] = "Failed"
        \/ shown[x] = "completed" /\ \A s \in StepsOf(x) : Good(s)
    BY <1>3 DEF WInv, ShownInv
  <2>2. \A s \in StepsOf(x) : step'[s] = step[s]
    BY <1>3
  <2>3. QED  BY <2>1, <2>2 DEF Good
<1>4. QED  BY <1>1, <1>2, <1>3 DEF WInv, ShownInv, InRound

-----------------------------------------------------------------------------
(* One lemma for each group of actions *)

(* A run is entered, delegated or refused; its result is stored. *)
LEMMA Entering ==
  ASSUME WInv, NEW r \in Runs, run_agent(r) \/ Delegate(r) \/ Delegated(r)
  PROVE  WInv'
<1> USE DEF WInv
<1>1. PICK p \in {"head", "delegating", "remote", "refused"} :
        /\ phase' = [phase EXCEPT ![r] = p]
        /\ p \in {"head", "delegating"} => phase[r] = "new"
        /\ p \in {"remote", "refused"} => phase[r] = "delegating"
        /\ UNCHANGED registry \/ register(r, "running", Turn) \/ register(r, "delegated", Turn) \/ register(r, "failed", 0)
        /\ p = "head" => register(r, "running", Turn)
        /\ p = "delegating" => register(r, "delegated", Turn)
        /\ p = "refused" => register(r, "failed", 0)
        /\ p = "remote" => UNCHANGED registry
  BY DEF run_agent, Delegate, Delegated
<1>2. UNCHANGED <<rounds, queue, batch, step, work, left, tries, lost, error>>
  BY DEF run_agent, Delegate, Delegated, itemVars
<1>3. Turn \in Nat
  <2>1. IsFiniteSet({x \in Runs : phase[x] # "new"})
    BY WorkflowAssumption, FS_Subset
  <2>2. QED  BY <2>1, FS_CardinalityType DEF Turn
<1>4. \A x \in Runs : phase'[x] = IF x = r THEN p ELSE phase[x]
  BY <1>1 DEF TypeOK
<1>5. /\ shown' \in [Runs -> Finished \cup {"absent", "running", "delegated"}]
      /\ since' \in [Runs -> Nat]
  BY <1>1, <1>3, RegisterEffect DEF Finished, registry, TypeOK
<1>6. TypeOK'
  BY <1>1, <1>2, <1>5 DEF TypeOK, Phases
<1>7. PlaceInv'
  BY <1>1, <1>2, <1>4 DEF PlaceInv, InRound, Pending, StepsOf
<1>8. NeedsInv'
  BY <1>2 DEF NeedsInv, NeedsMet, Good, StepsOf
<1>9. RoundInv'
  <2>1. \A x \in Runs : Ended(x)' = Ended(x)
    BY <1>2 DEF Ended, Pending, StepsOf
  <2>2. \A x \in Runs : Ended(x) \in Nat
    BY EndedBounded
  <2>3. QED  BY <1>1, <1>2, <1>4, <2>1, <2>2 DEF RoundInv, InRound
<1>10. ErrorInv'
  <2>1. \A x \in Runs : Aborted(x)' = Aborted(x) /\ Pending(x)' = Pending(x)
    BY <1>2 DEF Aborted, Pending, StepsOf
  <2>2. QED  BY <1>1, <1>2, <1>4, <2>1 DEF ErrorInv, InRound, StepsOf
<1>11. ShownInv'
  <2>1. CASE p = "remote"
    <3>1. shown' = shown /\ step' = step  BY <1>1, <1>2, <2>1 DEF registry
    <3>2. QED  BY <1>1, <1>4, <2>1, <3>1 DEF ShownInv, InRound, StepsOf, Good
  <2>2. CASE p = "head"
    BY <1>1, <1>2, <1>3, <2>2, RegisterKeeps DEF Phases, Finished
  <2>3. CASE p = "delegating"
    BY <1>1, <1>2, <1>3, <2>3, RegisterKeeps DEF Phases, Finished
  <2>4. CASE p = "refused"
    BY <1>1, <1>2, <2>4, RegisterKeeps DEF Phases, Finished
  <2>5. QED  BY <2>1, <2>2, <2>3, <2>4
<1>12. QED  BY <1>6, <1>7, <1>8, <1>9, <1>10, <1>11

(* The result of a run fits its steps. *)
LEMMA Storing ==
  ASSUME WInv, NEW r \in Runs, StoreFinal(r)
  PROVE  WInv'
<1> USE DEF WInv
<1>1. /\ phase[r] = "ending" /\ phase' = [phase EXCEPT ![r] = "done"]
      /\ register(r, FinalStatus(r), since[r])
      /\ UNCHANGED <<rounds, queue, batch, step, work, left, tries, lost, error>>
  BY DEF StoreFinal, itemVars
<1>2. FinalStatus(r) \in Finished /\ since[r] \in Nat
  BY DEF FinalStatus, Finished, TypeOK
<1>3. \/ FinalStatus(r) = "failed" /\ \E s \in StepsOf(r) : step[s] = "Failed"
      \/ FinalStatus(r) = "completed" /\ \A s \in StepsOf(r) : Good(s)
  <2>1. (error[r] \/ \E s \in StepsOf(r) : step[s] = "Failed") => \E s \in StepsOf(r) : step[s] = "Failed"
    BY DEF ErrorInv
  <2>2. (\A s \in StepsOf(r) : step[s] # "Failed") => \A s \in StepsOf(r) : Good(s)
    <3>1. (\A s \in StepsOf(r) : step[s] # "Failed") => Pending(r) = {}
      BY <1>1 DEF ErrorInv, Aborted
    <3>2. QED  BY <3>1 DEF TypeOK, StepStatus, Good, Pending, StepsOf
  <2>3. QED  BY <2>1, <2>2 DEF FinalStatus
<1>4. \A x \in Runs : phase'[x] = IF x = r THEN "done" ELSE phase[x]
  BY <1>1 DEF TypeOK
<1>5. TypeOK'
  BY <1>1, <1>2, RegisterEffect DEF TypeOK, Phases
<1>6. PlaceInv'
  BY <1>1, <1>4 DEF PlaceInv, InRound, Pending, StepsOf
<1>7. NeedsInv'
  BY <1>1 DEF NeedsInv, NeedsMet, Good, StepsOf
<1>8. RoundInv'
  <2>1. \A x \in Runs : Ended(x)' = Ended(x)
    BY <1>1 DEF Ended, Pending, StepsOf
  <2>2. QED  BY <1>1, <1>4, <2>1 DEF RoundInv, InRound
<1>9. ErrorInv'
  <2>1. \A x \in Runs : Aborted(x)' = Aborted(x) /\ Pending(x)' = Pending(x)
    BY <1>1 DEF Aborted, Pending, StepsOf
  <2>2. QED  BY <1>1, <1>4, <2>1 DEF ErrorInv, InRound, StepsOf
<1>10. ShownInv'
  BY <1>1, <1>2, <1>3, RegisterKeeps DEF Phases, Finished
<1>11. QED  BY <1>5, <1>6, <1>7, <1>8, <1>9, <1>10

(* A round begins with ready steps only. *)
LEMMA StartingRound ==
  ASSUME WInv, NEW r \in Runs, StartRound(r)
  PROVE  WInv'
<1> USE DEF WInv
<1> DEFINE P == Ready(r) \cap Parallel
           S == Ready(r) \ P
<1>1. /\ phase[r] = "head" /\ Ready(r) # {}
      /\ batch' = [batch EXCEPT ![r] = P] /\ queue' = [queue EXCEPT ![r] = S]
      /\ work' = [s \in Steps |-> IF s \in P THEN "run" ELSE work[s]]
      /\ left' = [s \in Steps |-> IF s \in P THEN 1 ELSE left[s]]
      /\ phase' = [phase EXCEPT ![r] = "parallel"]
      /\ UNCHANGED <<rounds, step, tries, lost, error, shown, since>>
  BY DEF StartRound, registry
<1>2. Ready(r) \subseteq Pending(r) /\ Pending(r) \subseteq StepsOf(r) /\ StepsOf(r) \subseteq Steps
  BY DEF Ready, Pending, StepsOf
<1>3. /\ \A x \in Runs : phase'[x] = IF x = r THEN "parallel" ELSE phase[x]
      /\ \A x \in Runs : batch'[x] = IF x = r THEN P ELSE batch[x]
      /\ \A x \in Runs : queue'[x] = IF x = r THEN S ELSE queue[x]
      /\ batch[r] = {} /\ queue[r] = {}
  BY <1>1 DEF TypeOK, PlaceInv, InRound
<1>4. TypeOK'
  <2>1. /\ batch' \in [Runs -> SUBSET Steps] /\ queue' \in [Runs -> SUBSET Steps]
    BY <1>1, <1>2 DEF TypeOK
  <2>2. /\ work' \in [Steps -> {"off", "run", "ok", "skip", "bad"}] /\ left' \in [Steps -> Nat]
    BY <1>1 DEF TypeOK
  <2>3. phase' \in [Runs -> Phases]
    BY <1>1 DEF TypeOK, Phases
  <2>4. QED  BY <1>1, <2>1, <2>2, <2>3 DEF TypeOK
<1>5. PlaceInv'
  <2>1. \A x \in Runs : Pending(x)' = Pending(x)
    BY <1>1 DEF Pending, StepsOf
  <2>2. \A s \in Steps : work'[s] # "off" => s \in batch'[RunOf[s]]
    <3>1. SUFFICES ASSUME NEW s \in Steps, work'[s] # "off" PROVE s \in batch'[RunOf[s]]
      OBVIOUS
    <3>2. CASE s \in P
      BY <1>2, <1>3, <3>2, WorkflowAssumption DEF StepsOf
    <3>3. CASE s \notin P
      BY <1>1, <1>3, <3>1, <3>3, WorkflowAssumption DEF PlaceInv
    <3>4. QED  BY <3>2, <3>3
  <2>3. \A s \in Steps : work'[s] = "run" => left'[s] > 0
    BY <1>1 DEF PlaceInv
  <2>4. \A x \in Runs :
          /\ batch'[x] \subseteq Pending(x) /\ queue'[x] \subseteq Pending(x)
          /\ batch'[x] \cap queue'[x] = {}
          /\ phase'[x] \notin InRound => batch'[x] = {} /\ queue'[x] = {}
          /\ phase'[x] = "serial" => \A s, t \in batch'[x] : s = t
    BY <1>2, <1>3 DEF PlaceInv, InRound
  <2>5. QED  BY <2>1, <2>2, <2>3, <2>4 DEF PlaceInv, InRound
<1>6. NeedsInv'
  <2>1. \A s \in Steps : NeedsMet(s)' <=> NeedsMet(s)
    BY <1>1 DEF NeedsMet, Good, StepsOf
  <2>2. \A s \in Ready(r) : NeedsMet(s)
    BY DEF Ready, Satisfied, NeedsMet, Good, StepsOf, Pending
  <2>3. \A x \in Runs : batch'[x] \cup queue'[x] \subseteq Steps
    BY <1>2, <1>3 DEF TypeOK
  <2>4. QED  BY <1>3, <2>1, <2>2, <2>3 DEF NeedsInv
<1>7. RoundInv'
  <2>1. \A x \in Runs : Ended(x)' = Ended(x)
    BY <1>1 DEF Ended, Pending, StepsOf
  <2>2. batch'[r] \cup queue'[r] # {}
    BY <1>1, <1>3
  <2>3. QED  BY <1>1, <1>3, <2>1, <2>2 DEF RoundInv, InRound
<1>8. ErrorInv'
  <2>1. \A x \in Runs : Aborted(x)' = Aborted(x) /\ Pending(x)' = Pending(x)
    BY <1>1 DEF Aborted, Pending, StepsOf
  <2>2. QED  BY <1>1, <1>3, <2>1 DEF ErrorInv, InRound, StepsOf
<1>9. ShownInv'
  BY <1>1, PlaceChanges DEF registry, StepsOf
<1>10. QED  BY <1>4, <1>5, <1>6, <1>7, <1>8, <1>9

(* A run ends only when nothing is ready: its rounds always suffice. *)
LEMMA EndingRun ==
  ASSUME WInv, NEW r \in Runs, EndRun(r)
  PROVE  WInv'
<1> USE DEF WInv
<1>1. phase[r] = "head" /\ phase' = [phase EXCEPT ![r] = "ending"]
  BY DEF EndRun
<1>2. ~RoundsOver(r)
  <2>1. rounds[r] <= Ended(r) /\ rounds[r] \in Nat
    BY <1>1 DEF RoundInv, TypeOK
  <2>2. QED  BY <2>1, EndedBounded DEF RoundsOver, MaxRounds
<1>3. /\ step' = [s \in Steps |-> IF s \in Pending(r) THEN "Failed" ELSE step[s]]
      /\ error' = [error EXCEPT ![r] = @ \/ Pending(r) # {}]
      /\ UNCHANGED <<rounds, queue, batch, work, left, tries, lost, shown, since>>
  BY <1>2 DEF EndRun, itemVars, registry
<1>4. /\ \A x \in Runs : phase'[x] = IF x = r THEN "ending" ELSE phase[x]
      /\ \A x \in Runs \ {r} : error'[x] = error[x]
      /\ error'[r] <=> Pending(r) # {}
      /\ ~error[r]
  <2>1. ~error[r]
    BY <1>1 DEF ErrorInv
  <2>2. QED  BY <1>1, <1>3, <2>1 DEF TypeOK
<1>5. /\ \A x \in Runs \ {r} : \A s \in StepsOf(x) : step'[s] = step[s]
      /\ \A s \in StepsOf(r) : step'[s] = IF step[s] = "Pending" THEN "Failed" ELSE step[s]
      /\ \A x \in Runs \ {r} : Pending(x)' = Pending(x)
      /\ Pending(r)' = {}
  BY <1>3 DEF StepsOf, Pending
<1>6. TypeOK'
  BY <1>1, <1>3 DEF TypeOK, Phases, StepStatus
<1>7. PlaceInv'
  BY <1>1, <1>3, <1>4, <1>5 DEF PlaceInv, InRound
<1>8. NeedsInv'
  <2>1. \A s \in Steps : Good(s) => Good(s)'
    BY <1>3 DEF Good, Pending
  <2>2. \A s \in Steps : NeedsMet(s) => NeedsMet(s)'
    BY <2>1 DEF NeedsMet, StepsOf
  <2>3. QED  BY <1>3, <2>2 DEF NeedsInv, TypeOK
<1>9. RoundInv'
  <2>1. \A x \in Runs \ {r} : Ended(x)' = Ended(x)
    BY <1>5 DEF Ended, StepsOf
  <2>2. QED  BY <1>3, <1>4, <2>1 DEF RoundInv, InRound
<1>10. ErrorInv'
  <2>1. \A x \in Runs \ {r} : Aborted(x)' = Aborted(x)
    BY <1>5 DEF Aborted, StepsOf
  <2>2. error'[r] => \E s \in StepsOf(r) : step'[s] = "Failed"
    BY <1>4, <1>5 DEF Pending
  <2>3. ASSUME NEW x \in Runs, x # r
        PROVE  /\ error'[x] => \E s \in StepsOf(x) : step'[s] = "Failed"
               /\ error'[x] /\ phase'[x] \in InRound => Aborted(x)'
               /\ error'[x] => phase'[x] \notin {"new", "head"}
               /\ phase'[x] \in {"ending", "done"} => Pending(x)' = {} \/ Aborted(x)'
    <3>1. error'[x] = error[x] /\ phase'[x] = phase[x] /\ Pending(x)' = Pending(x)
      BY <1>4, <1>5, <2>3
    <3>2. (\E s \in StepsOf(x) : step[s] = "Failed") => \E s \in StepsOf(x) : step'[s] = "Failed"
      BY <1>5, <2>3
    <3>3. QED  BY <2>1, <2>3, <3>1, <3>2 DEF ErrorInv
  <2>4. QED  BY <1>4, <1>5, <2>2, <2>3 DEF ErrorInv, InRound, StepsOf
<1>11. ShownInv'
  BY <1>1, <1>3, <1>5, PlaceChanges DEF registry
<1>12. QED  BY <1>6, <1>7, <1>8, <1>9, <1>10, <1>11

(* The steps at work get their outcomes: what was given stands. *)
LEMMA OutcomesStand ==
  ASSUME WInv, NEW r \in Runs, step' = [s \in Steps |-> IF s \in batch[r] THEN Outcome(s) ELSE step[s]]
  PROVE  /\ step' \in [Steps -> StepStatus]
         /\ \A s \in Steps : step[s] # "Pending" => step'[s] = step[s]
         /\ \A x \in Runs \ {r} : \A s \in StepsOf(x) : step'[s] = step[s]
         /\ \A x \in Runs \ {r} : Pending(x)' = Pending(x)
         /\ Pending(r)' = Pending(r) \ batch[r]
         /\ \A s \in Steps : NeedsMet(s) => NeedsMet(s)'
         /\ \A x \in Runs : Aborted(x) => Aborted(x)'
         /\ \A x \in Runs : (\E s \in StepsOf(x) : step[s] = "Failed") => \E s \in StepsOf(x) : step'[s] = "Failed"
         /\ \A x \in Runs \ {r} : Ended(x)' = Ended(x)
         /\ Ended(r) \in Nat /\ Ended(r)' \in Nat /\ Ended(r) <= Ended(r)'
         /\ batch[r] # {} => Ended(r) < Ended(r)'
<1>1. batch[r] \subseteq Pending(r) /\ Pending(r) \subseteq StepsOf(r) /\ StepsOf(r) \subseteq Steps
  BY DEF WInv, PlaceInv, Pending, StepsOf
<1>2. \A s \in Steps : Outcome(s) \in {"Completed", "Skipped", "Failed"}
  BY DEF Outcome
<1>3. step' \in [Steps -> StepStatus]
  BY <1>2 DEF WInv, TypeOK, StepStatus
<1>4. /\ \A s \in Steps : step[s] # "Pending" => step'[s] = step[s]
      /\ \A s \in batch[r] : step[s] = "Pending" /\ step'[s] # "Pending"
      /\ \A s \in Steps : step'[s] = "Pending" <=> (step[s] = "Pending" /\ s \notin batch[r])
  BY <1>1, <1>2 DEF Pending
<1>5. /\ \A x \in Runs \ {r} : \A s \in StepsOf(x) : step'[s] = step[s]
      /\ \A x \in Runs \ {r} : Pending(x)' = Pending(x)
      /\ Pending(r)' = Pending(r) \ batch[r]
  BY <1>1, <1>4 DEF Pending, StepsOf
<1>6. /\ \A s \in Steps : NeedsMet(s) => NeedsMet(s)'
      /\ \A x \in Runs : Aborted(x) => Aborted(x)'
      /\ \A x \in Runs : (\E s \in StepsOf(x) : step[s] = "Failed") => \E s \in StepsOf(x) : step'[s] = "Failed"
  <2>1. \A s \in Steps : /\ Good(s) => Good(s)'
                         /\ step[s] = "Failed" => step'[s] = "Failed"
    BY <1>4 DEF Good
  <2>2. QED  BY <2>1 DEF NeedsMet, Aborted, StepsOf
<1>7. \A x \in Runs \ {r} : Ended(x)' = Ended(x)
  BY <1>5 DEF Ended, StepsOf
<1>8. /\ Ended(r) \in Nat /\ Ended(r)' \in Nat /\ Ended(r) <= Ended(r)'
      /\ batch[r] # {} => Ended(r) < Ended(r)'
  <2>1. \A s \in StepsOf(r) : step[s] # "Pending" => step'[s] # "Pending"
    BY <1>1, <1>4
  <2>2. batch[r] # {} => \E s \in StepsOf(r) : step[s] = "Pending" /\ step'[s] # "Pending"
    BY <1>1, <1>4
  <2>3. QED  BY <2>1, <2>2, EndedGrows
<1>9. QED  BY <1>3, <1>4, <1>5, <1>6, <1>7, <1>8

(* The whole parallel group is awaited, then the serial steps begin. *)
LEMMA Joining ==
  ASSUME WInv, NEW r \in Runs, JoinParallel(r)
  PROVE  WInv'
<1> USE DEF WInv
<1>1. /\ phase[r] = "parallel" /\ phase' = [phase EXCEPT ![r] = "serial"]
      /\ step' = [s \in Steps |-> IF s \in batch[r] THEN Outcome(s) ELSE step[s]]
      /\ work' = [s \in Steps |-> IF s \in batch[r] THEN "off" ELSE work[s]]
      /\ error' = [error EXCEPT ![r] = @ \/ \E s \in batch[r] : Aborts(s)]
      /\ batch' = [batch EXCEPT ![r] = {}]
      /\ UNCHANGED <<rounds, queue, left, tries, lost, shown, since>>
  BY DEF JoinParallel, itemVars, registry
<1>2. /\ \A x \in Runs : phase'[x] = IF x = r THEN "serial" ELSE phase[x]
      /\ \A x \in Runs : batch'[x] = IF x = r THEN {} ELSE batch[x]
      /\ \A x \in Runs \ {r} : error'[x] = error[x]
      /\ error'[r] <=> (error[r] \/ \E s \in batch[r] : Aborts(s))
      /\ \A s \in Steps : work'[s] = IF s \in batch[r] THEN "off" ELSE work[s]
  <2>1. error'[r] <=> (error[r] \/ \E s \in batch[r] : Aborts(s))
    <3>1. error'[r] = (error[r] \/ \E s \in batch[r] : Aborts(s))
      BY <1>1 DEF TypeOK
    <3>2. QED  BY <3>1
  <2>2. QED  BY <1>1, <2>1 DEF TypeOK
<1>3. batch[r] \subseteq Pending(r) /\ batch[r] \subseteq StepsOf(r) /\ batch[r] \cap queue[r] = {}
  BY DEF PlaceInv, Pending
<1>4. TypeOK'
  <2>1. error' \in [Runs -> BOOLEAN]
    BY <1>1 DEF TypeOK
  <2>2. work' \in [Steps -> {"off", "run", "ok", "skip", "bad"}] /\ batch' \in [Runs -> SUBSET Steps]
    BY <1>1 DEF TypeOK
  <2>3. phase' \in [Runs -> Phases]
    BY <1>1 DEF TypeOK, Phases
  <2>4. step' \in [Steps -> StepStatus]
    BY <1>1, OutcomesStand
  <2>5. QED  BY <1>1, <2>1, <2>2, <2>3, <2>4 DEF TypeOK
<1>5. PlaceInv'
  <2>1. Pending(r)' = Pending(r) \ batch[r] /\ \A x \in Runs \ {r} : Pending(x)' = Pending(x)
    BY <1>1, OutcomesStand
  <2>2. \A s \in Steps : work'[s] # "off" => s \in batch'[RunOf[s]]
    BY <1>2, WorkflowAssumption DEF PlaceInv
  <2>3. QED  BY <1>1, <1>2, <1>3, <2>1, <2>2 DEF PlaceInv, InRound
<1>6. NeedsInv'
  <2>1. \A s \in Steps : NeedsMet(s) => NeedsMet(s)'
    BY <1>1, OutcomesStand
  <2>2. \A x \in Runs : queue'[x] = queue[x] /\ batch'[x] \subseteq batch[x] /\ batch[x] \cup queue[x] \subseteq Steps
    BY <1>1, <1>2 DEF TypeOK
  <2>3. QED  BY <2>1, <2>2 DEF NeedsInv
<1>7. RoundInv'
  <2>1. /\ \A x \in Runs \ {r} : Ended(x)' = Ended(x)
        /\ Ended(r) \in Nat /\ Ended(r)' \in Nat /\ Ended(r) <= Ended(r)'
        /\ batch[r] # {} => Ended(r) < Ended(r)'
    BY <1>1, OutcomesStand
  <2>2. rounds[r] \in Nat /\ rounds[r] <= Ended(r) /\ (batch[r] \cup queue[r] = {} => rounds[r] < Ended(r))
    BY <1>1 DEF RoundInv, InRound, TypeOK
  <2>3. rounds[r] <= Ended(r)' /\ (queue[r] = {} => rounds[r] < Ended(r)')
    <3>1. CASE batch[r] = {}
      BY <2>1, <2>2, <3>1
    <3>2. CASE batch[r] # {}
      BY <2>1, <2>2, <3>2
    <3>3. QED  BY <3>1, <3>2
  <2>4. QED  BY <1>1, <1>2, <2>1, <2>3 DEF RoundInv, InRound
<1>8. ErrorInv'
  <2>1. /\ \A x \in Runs : Aborted(x) => Aborted(x)'
        /\ \A x \in Runs : (\E s \in StepsOf(x) : step[s] = "Failed") => \E s \in StepsOf(x) : step'[s] = "Failed"
        /\ \A x \in Runs \ {r} : Pending(x)' = Pending(x)
    BY <1>1, OutcomesStand
  <2>2. error'[r] => Aborted(r)'
    <3>1. error[r] => Aborted(r)
      BY <1>1 DEF ErrorInv, InRound
    <3>2. \A s \in batch[r] : Aborts(s) => step'[s] = "Failed" /\ Policy[s] = "abort" /\ s \in StepsOf(r)
      BY <1>1, <1>3 DEF Aborts, StepsOf
    <3>3. QED  BY <1>2, <2>1, <3>1, <3>2 DEF Aborted, StepsOf
  <2>3. Aborted(r)' => \E s \in StepsOf(r) : step'[s] = "Failed"
    BY DEF Aborted, StepsOf
  <2>4. QED  BY <1>2, <2>1, <2>2, <2>3 DEF ErrorInv, InRound, StepsOf
<1>9. ShownInv'
  <2>1. \A x \in Runs \ {r} : \A s \in StepsOf(x) : step'[s] = step[s]
    BY <1>1, OutcomesStand
  <2>2. QED  BY <1>1, <2>1, PlaceChanges DEF registry
<1>10. QED  BY <1>4, <1>5, <1>6, <1>7, <1>8, <1>9

(* A serial step ends, and the round with it if the step aborts the run. *)
LEMMA EndingSerial ==
  ASSUME WInv, NEW r \in Runs, EndSerial(r)
  PROVE  WInv'
<1> USE DEF WInv
<1>1. PICK s \in batch[r] :
        /\ step' = [step EXCEPT ![s] = Outcome(s)]
        /\ work' = [work EXCEPT ![s] = "off"]
        /\ error' = [error EXCEPT ![r] = @ \/ Aborts(s)]
        /\ queue' = [queue EXCEPT ![r] = IF Aborts(s) THEN {} ELSE @]
  BY DEF EndSerial
<1>2. /\ phase[r] = "serial" /\ batch' = [batch EXCEPT ![r] = {}]
      /\ UNCHANGED <<phase, rounds, left, tries, lost, shown, since>>
  BY DEF EndSerial, itemVars, registry
<1>3. batch[r] = {s} /\ s \in Steps /\ s \in StepsOf(r) /\ batch[r] \subseteq Pending(r)
  BY <1>2 DEF PlaceInv, Pending, StepsOf
<1>4. step' = [t \in Steps |-> IF t \in batch[r] THEN Outcome(t) ELSE step[t]]
  BY <1>1, <1>3 DEF TypeOK
<1>5. /\ \A x \in Runs : batch'[x] = IF x = r THEN {} ELSE batch[x]
      /\ \A x \in Runs \ {r} : error'[x] = error[x] /\ queue'[x] = queue[x]
      /\ error'[r] <=> (error[r] \/ Aborts(s))
      /\ queue'[r] = IF Aborts(s) THEN {} ELSE queue[r]
      /\ \A t \in Steps : work'[t] = IF t = s THEN "off" ELSE work[t]
  <2>1. error'[r] <=> (error[r] \/ Aborts(s))
    <3>1. error'[r] = (error[r] \/ Aborts(s))
      BY <1>1 DEF TypeOK
    <3>2. QED  BY <3>1
  <2>2. QED  BY <1>1, <1>2, <1>3, <2>1 DEF TypeOK
<1>6. TypeOK'
  <2>1. error' \in [Runs -> BOOLEAN]
    BY <1>1 DEF TypeOK, Aborts
  <2>2. /\ work' \in [Steps -> {"off", "run", "ok", "skip", "bad"}]
        /\ batch' \in [Runs -> SUBSET Steps] /\ queue' \in [Runs -> SUBSET Steps]
    BY <1>1, <1>2 DEF TypeOK
  <2>3. step' \in [Steps -> StepStatus]
    BY <1>4, OutcomesStand
  <2>4. QED  BY <1>2, <2>1, <2>2, <2>3 DEF TypeOK
<1>7. PlaceInv'
  <2>1. Pending(r)' = Pending(r) \ batch[r] /\ \A x \in Runs \ {r} : Pending(x)' = Pending(x)
    BY <1>4, OutcomesStand
  <2>2. \A t \in Steps : work'[t] # "off" => t \in batch'[RunOf[t]]
    BY <1>3, <1>5, WorkflowAssumption DEF PlaceInv
  <2>3. QED  BY <1>2, <1>3, <1>5, <2>1, <2>2 DEF PlaceInv, InRound
<1>8. NeedsInv'
  <2>1. \A t \in Steps : NeedsMet(t) => NeedsMet(t)'
    BY <1>4, OutcomesStand
  <2>2. \A x \in Runs : queue'[x] \subseteq queue[x] /\ batch'[x] \subseteq batch[x] /\ batch[x] \cup queue[x] \subseteq Steps
    BY <1>5 DEF TypeOK
  <2>3. QED  BY <2>1, <2>2 DEF NeedsInv
<1>9. RoundInv'
  <2>1. /\ \A x \in Runs \ {r} : Ended(x)' = Ended(x)
        /\ Ended(r) \in Nat /\ Ended(r)' \in Nat /\ Ended(r) < Ended(r)'
    BY <1>3, <1>4, OutcomesStand
  <2>2. rounds[r] \in Nat /\ rounds[r] <= Ended(r)
    BY <1>2 DEF RoundInv, InRound, TypeOK
  <2>3. QED  BY <1>2, <1>5, <2>1, <2>2 DEF RoundInv, InRound
<1>10. ErrorInv'
  <2>1. /\ \A x \in Runs : Aborted(x) => Aborted(x)'
        /\ \A x \in Runs : (\E t \in StepsOf(x) : step[t] = "Failed") => \E t \in StepsOf(x) : step'[t] = "Failed"
        /\ \A x \in Runs \ {r} : Pending(x)' = Pending(x)
    BY <1>4, OutcomesStand
  <2>2. error'[r] => Aborted(r)'
    <3>1. error[r] => Aborted(r)
      BY <1>2 DEF ErrorInv, InRound
    <3>2. Aborts(s) => step'[s] = "Failed" /\ Policy[s] = "abort"
      BY <1>3, <1>4 DEF Aborts
    <3>3. QED  BY <1>3, <1>5, <2>1, <3>1, <3>2 DEF Aborted, StepsOf
  <2>3. Aborted(r)' => \E t \in StepsOf(r) : step'[t] = "Failed"
    BY DEF Aborted, StepsOf
  <2>4. QED  BY <1>2, <1>5, <2>1, <2>2, <2>3 DEF ErrorInv, InRound, StepsOf
<1>11. ShownInv'
  <2>1. \A x \in Runs \ {r} : \A t \in StepsOf(x) : step'[t] = step[t]
    BY <1>4, OutcomesStand
  <2>2. phase' = [phase EXCEPT ![r] = "serial"]
    BY <1>2 DEF TypeOK
  <2>3. QED  BY <1>2, <2>1, <2>2, PlaceChanges DEF registry
<1>12. QED  BY <1>6, <1>7, <1>8, <1>9, <1>10, <1>11

(* A step leaves the queue to work. *)
LEMMA StartingSerial ==
  ASSUME WInv, NEW r \in Runs, StartSerial(r)
  PROVE  WInv'
<1> USE DEF WInv
<1> DEFINE Items(s) == IF Loops(s) THEN 0..MaxLoopSize ELSE {1}
<1>0. \A s \in Steps : Items(s) \subseteq Nat
  BY WorkflowAssumption
<1>1. PICK s \in queue[r] :
        /\ queue' = [queue EXCEPT ![r] = @ \ {s}]
        /\ batch' = [batch EXCEPT ![r] = {s}]
        /\ \/ work' = [work EXCEPT ![s] = "skip"] /\ UNCHANGED itemVars
           \/ work' = [work EXCEPT ![s] = "bad"] /\ UNCHANGED itemVars
           \/ \E n \in Items(s) : /\ work' = [work EXCEPT ![s] = IF n = 0 THEN "ok" ELSE "run"]
                                  /\ left' = [left EXCEPT ![s] = n]
                                  /\ UNCHANGED <<tries, lost>>
  BY Zenon DEF StartSerial
<1>2. /\ phase[r] = "serial" /\ batch[r] = {}
      /\ UNCHANGED <<phase, rounds, step, error, shown, since>>
  BY DEF StartSerial, registry
<1>3. queue[r] \subseteq Pending(r) /\ Pending(r) \subseteq Steps /\ s \in StepsOf(r) /\ s \in Steps
  BY DEF PlaceInv, Pending, StepsOf
<1>4. /\ \A x \in Runs : batch'[x] = IF x = r THEN {s} ELSE batch[x]
      /\ \A x \in Runs : queue'[x] = IF x = r THEN queue[r] \ {s} ELSE queue[x]
  BY <1>1 DEF TypeOK
<1> DEFINE Works == /\ work' \in [Steps -> {"off", "run", "ok", "skip", "bad"}] /\ left' \in [Steps -> Nat]
                    /\ tries' = tries /\ lost' = lost
                    /\ \A t \in Steps \ {s} : work'[t] = work[t] /\ left'[t] = left[t]
                    /\ work'[s] = "run" => left'[s] > 0
<1>5. Works
  <2>1. CASE UNCHANGED itemVars /\ \E w \in {"skip", "bad"} : work' = [work EXCEPT ![s] = w]
    BY <1>3, <2>1 DEF TypeOK, itemVars
  <2>2. ASSUME NEW n \in Items(s), work' = [work EXCEPT ![s] = IF n = 0 THEN "ok" ELSE "run"],
               left' = [left EXCEPT ![s] = n], UNCHANGED <<tries, lost>>
        PROVE  Works
    <3>1. n \in Nat  BY <1>0, <1>3, <2>2
    <3>2. QED  BY <1>3, <2>2, <3>1 DEF TypeOK
  <2>3. QED  BY <1>1, <2>1, <2>2
<1>6. TypeOK'
  <2>1. batch' \in [Runs -> SUBSET Steps] /\ queue' \in [Runs -> SUBSET Steps]
    BY <1>1, <1>3 DEF TypeOK
  <2>2. QED  BY <1>2, <1>5, <2>1 DEF TypeOK
<1>7. PlaceInv'
  <2>1. \A x \in Runs : Pending(x)' = Pending(x)
    BY <1>2 DEF Pending, StepsOf
  <2>2. \A t \in Steps : work'[t] # "off" => t \in batch'[RunOf[t]]
    BY <1>2, <1>3, <1>4, <1>5, WorkflowAssumption DEF PlaceInv, StepsOf
  <2>3. \A t \in Steps : work'[t] = "run" => left'[t] > 0
    BY <1>5 DEF PlaceInv
  <2>4. \A x \in Runs :
          /\ batch'[x] \subseteq Pending(x) /\ queue'[x] \subseteq Pending(x)
          /\ batch'[x] \cap queue'[x] = {}
          /\ phase[x] \notin InRound => batch'[x] = {} /\ queue'[x] = {}
          /\ phase[x] = "serial" => \A t, u \in batch'[x] : t = u
    BY <1>2, <1>3, <1>4 DEF PlaceInv, InRound
  <2>5. QED  BY <1>2, <2>1, <2>2, <2>3, <2>4 DEF PlaceInv, InRound
<1>8. NeedsInv'
  <2>1. \A t \in Steps : NeedsMet(t)' <=> NeedsMet(t)
    BY <1>2 DEF NeedsMet, Good, StepsOf
  <2>2. \A x \in Runs : batch'[x] \cup queue'[x] \subseteq batch[x] \cup queue[x] /\ batch[x] \cup queue[x] \subseteq Steps
    BY <1>4 DEF TypeOK
  <2>3. QED  BY <2>1, <2>2 DEF NeedsInv
<1>9. RoundInv'
  <2>1. \A x \in Runs : Ended(x)' = Ended(x)
    BY <1>2 DEF Ended, Pending, StepsOf
  <2>2. QED  BY <1>2, <1>4, <2>1 DEF RoundInv, InRound
<1>10. ErrorInv'
  <2>1. \A x \in Runs : Aborted(x)' = Aborted(x) /\ Pending(x)' = Pending(x)
    BY <1>2 DEF Aborted, Pending, StepsOf
  <2>2. QED  BY <1>2, <2>1 DEF ErrorInv, InRound, StepsOf
<1>11. ShownInv'
  BY <1>2 DEF ShownInv, InRound, StepsOf, Good
<1>12. QED  BY <1>6, <1>7, <1>8, <1>9, <1>10, <1>11

(* The round is over: one more step has its outcome, or the run aborts. *)
LEMMA EndingRound ==
  ASSUME WInv, NEW r \in Runs, EndRound(r)
  PROVE  WInv'
<1> USE DEF WInv
<1>1. /\ phase[r] = "serial" /\ batch[r] = {} /\ queue[r] = {}
      /\ UNCHANGED <<queue, batch, step, work, left, tries, lost, error, shown, since>>
  BY DEF EndRound, itemVars, registry
<1>2. \/ ~error[r] /\ phase' = [phase EXCEPT ![r] = "head"] /\ rounds' = [rounds EXCEPT ![r] = @ + 1]
      \/ error[r] /\ phase' = [phase EXCEPT ![r] = "ending"] /\ rounds' = rounds
  BY DEF EndRound
<1>3. /\ \A x \in Runs \ {r} : phase'[x] = phase[x] /\ rounds'[x] = rounds[x]
      /\ \/ ~error[r] /\ phase'[r] = "head" /\ rounds'[r] = rounds[r] + 1
         \/ error[r] /\ phase'[r] = "ending" /\ rounds'[r] = rounds[r]
  BY <1>2 DEF TypeOK
<1>4. TypeOK'
  BY <1>1, <1>2 DEF TypeOK, Phases
<1>5. PlaceInv'
  <2>1. \A x \in Runs : Pending(x)' = Pending(x)
    BY <1>1 DEF Pending, StepsOf
  <2>2. QED  BY <1>1, <1>3, <2>1 DEF PlaceInv, InRound
<1>6. NeedsInv'
  BY <1>1 DEF NeedsInv, NeedsMet, Good, StepsOf
<1>7. RoundInv'
  <2>1. \A x \in Runs : Ended(x)' = Ended(x) /\ Ended(x) \in Nat
    BY <1>1, EndedBounded DEF Ended, Pending, StepsOf
  <2>2. rounds[r] \in Nat /\ rounds[r] < Ended(r)
    BY <1>1 DEF RoundInv, InRound, TypeOK
  <2>3. QED  BY <1>1, <1>3, <2>1, <2>2 DEF RoundInv, InRound
<1>8. ErrorInv'
  <2>1. \A x \in Runs : Aborted(x)' = Aborted(x) /\ Pending(x)' = Pending(x)
    BY <1>1 DEF Aborted, Pending, StepsOf
  <2>2. error[r] => Aborted(r)
    BY <1>1 DEF ErrorInv, InRound
  <2>3. QED  BY <1>1, <1>3, <2>1, <2>2 DEF ErrorInv, InRound, StepsOf
<1>9. ShownInv'
  <2>1. \A x \in Runs : \A s \in StepsOf(x) : step'[s] = step[s]
    BY <1>1
  <2>2. QED  BY <1>1, <1>2, <2>1, PlaceChanges DEF registry
<1>10. QED  BY <1>4, <1>5, <1>6, <1>7, <1>8, <1>9

(* An invocation moves its own step only. *)
LEMMA Invoking ==
  ASSUME WInv, NEW s \in Steps, Invoke(s)
  PROVE  WInv'
<1> USE DEF WInv
<1>1. /\ work[s] = "run"
      /\ UNCHANGED <<phase, rounds, queue, batch, step, error, shown, since>>
  BY DEF Invoke, AtWork, runVars, registry
<1>2. left[s] > 0 /\ left[s] \in Nat /\ tries[s] \in Nat /\ s \in batch[RunOf[s]]
  BY <1>1 DEF PlaceInv, TypeOK
<1>3. /\ work' \in [Steps -> {"off", "run", "ok", "skip", "bad"}]
      /\ left' \in [Steps -> Nat] /\ tries' \in [Steps -> Nat] /\ lost' \in [Steps -> BOOLEAN]
      /\ \A t \in Steps \ {s} : work'[t] = work[t] /\ left'[t] = left[t]
      /\ work'[s] = "run" => left'[s] > 0
  <2>1. ASSUME NEW g \in BOOLEAN, NextItem(s, g)
        PROVE  /\ work' \in [Steps -> {"off", "run", "ok", "skip", "bad"}]
               /\ left' \in [Steps -> Nat] /\ tries' \in [Steps -> Nat] /\ lost' \in [Steps -> BOOLEAN]
               /\ \A t \in Steps \ {s} : work'[t] = work[t] /\ left'[t] = left[t]
               /\ work'[s] = "run" => left'[s] > 0
    <3>1. lost' \in [Steps -> BOOLEAN]
      BY <2>1 DEF NextItem, TypeOK
    <3>2. /\ left' \in [Steps -> Nat] /\ tries' \in [Steps -> Nat] /\ left'[s] = left[s] - 1
          /\ \A t \in Steps \ {s} : left'[t] = left[t]
      BY <1>2, <2>1 DEF NextItem, TypeOK
    <3>3. PICK w \in {"run", "ok", "bad"} : work' = [work EXCEPT ![s] = w] /\ (w = "run" => left[s] > 1)
      BY <2>1 DEF NextItem
    <3>4. QED  BY <1>2, <3>1, <3>2, <3>3 DEF TypeOK
  <2>2. ASSUME NEW w \in {"bad", "skip"}, StopWith(s, w)
        PROVE  /\ work' \in [Steps -> {"off", "run", "ok", "skip", "bad"}]
               /\ left' \in [Steps -> Nat] /\ tries' \in [Steps -> Nat] /\ lost' \in [Steps -> BOOLEAN]
               /\ \A t \in Steps \ {s} : work'[t] = work[t] /\ left'[t] = left[t]
               /\ work'[s] = "run" => left'[s] > 0
    BY <2>2 DEF StopWith, itemVars, TypeOK
  <2>3. CASE Retry(s)
    BY <1>2, <2>3 DEF Retry, TypeOK
  <2>4. (\E g \in BOOLEAN : NextItem(s, g)) \/ (\E w \in {"bad", "skip"} : StopWith(s, w)) \/ Retry(s)
    BY DEF Invoke, GiveUp
  <2>5. QED  BY <2>1, <2>2, <2>3, <2>4
<1>4. TypeOK'
  BY <1>1, <1>3 DEF TypeOK
<1>5. PlaceInv'
  <2>1. \A x \in Runs : Pending(x)' = Pending(x)
    BY <1>1 DEF Pending, StepsOf
  <2>2. \A t \in Steps : /\ work'[t] # "off" => t \in batch[RunOf[t]]
                         /\ work'[t] = "run" => left'[t] > 0
    BY <1>2, <1>3 DEF PlaceInv
  <2>3. QED  BY <1>1, <2>1, <2>2 DEF PlaceInv, InRound
<1>6. NeedsInv'
  BY <1>1 DEF NeedsInv, NeedsMet, Good, StepsOf
<1>7. RoundInv'
  BY <1>1 DEF RoundInv, InRound, Ended, Pending, StepsOf
<1>8. ErrorInv'
  BY <1>1 DEF ErrorInv, InRound, Aborted, Pending, StepsOf
<1>9. ShownInv'
  BY <1>1 DEF ShownInv, InRound, StepsOf, Good
<1>10. QED  BY <1>4, <1>5, <1>6, <1>7, <1>8, <1>9

(* A panic is a failed step of the group, or leaves the run as it is. *)
LEMMA Panicking ==
  ASSUME WInv, NEW s \in Steps, Panic(s)
  PROVE  WInv'
<1> USE DEF WInv
<1> DEFINE r == RunOf[s]
<1>1. /\ work[s] = "run" /\ s \in batch[r] /\ r \in Runs
      /\ UNCHANGED <<rounds, step, error, left, tries, lost, shown, since>>
  BY WorkflowAssumption DEF Panic, AtWork, StopWith, itemVars, registry, PlaceInv
<1>2. /\ \A x \in Runs : Pending(x)' = Pending(x) /\ Aborted(x)' = Aborted(x) /\ Ended(x)' = Ended(x)
      /\ \A t \in Steps : NeedsMet(t)' <=> NeedsMet(t)
  BY <1>1 DEF Pending, Aborted, Ended, StepsOf, NeedsMet, Good
<1>3. CASE phase[r] = "parallel" /\ StopWith(s, "bad") /\ UNCHANGED <<phase, batch, queue>>
  <2>1. /\ TypeOK'
        /\ \A t \in Steps : work'[t] = IF t = s THEN "bad" ELSE work[t]
    BY <1>1, <1>3 DEF StopWith, TypeOK
  <2>2. PlaceInv'
    BY <1>1, <1>2, <1>3, <2>1 DEF PlaceInv, InRound
  <2>3. NeedsInv'
    BY <1>2, <1>3 DEF NeedsInv, TypeOK
  <2>4. RoundInv' /\ ErrorInv'
    BY <1>1, <1>2, <1>3 DEF RoundInv, ErrorInv, InRound, StepsOf
  <2>5. ShownInv'
    BY <1>1, <1>3 DEF ShownInv, InRound, StepsOf, Good
  <2>6. QED  BY <2>1, <2>2, <2>3, <2>4, <2>5
<1>4. CASE /\ phase[r] = "serial" /\ StopWith(s, "off")
           /\ phase' = [phase EXCEPT ![r] = "dead"]
           /\ batch' = [batch EXCEPT ![r] = {}]
           /\ queue' = [queue EXCEPT ![r] = {}]
  <2>1. /\ TypeOK'
        /\ \A t \in Steps : work'[t] = IF t = s THEN "off" ELSE work[t]
        /\ \A x \in Runs : phase'[x] = IF x = r THEN "dead" ELSE phase[x]
        /\ \A x \in Runs : batch'[x] = IF x = r THEN {} ELSE batch[x]
        /\ \A x \in Runs : queue'[x] = IF x = r THEN {} ELSE queue[x]
    BY <1>1, <1>4 DEF StopWith, TypeOK, Phases
  <2>2. PlaceInv'
    BY <1>1, <1>2, <1>4, <2>1, WorkflowAssumption DEF PlaceInv, InRound
  <2>3. NeedsInv'
    BY <1>2, <2>1 DEF NeedsInv, TypeOK
  <2>4. RoundInv' /\ ErrorInv'
    BY <1>1, <1>2, <2>1 DEF RoundInv, ErrorInv, InRound, StepsOf
  <2>5. ShownInv'
    <3>1. \A x \in Runs : \A t \in StepsOf(x) : step'[t] = step[t]
      BY <1>1
    <3>2. QED  BY <1>1, <1>4, <3>1, PlaceChanges DEF registry
  <2>6. QED  BY <2>1, <2>2, <2>3, <2>4, <2>5
<1>5. QED  BY <1>3, <1>4 DEF Panic

-----------------------------------------------------------------------------
(* The theorems *)

LEMMA Starting == Init => WInv
<1> SUFFICES ASSUME Init PROVE WInv
  OBVIOUS
<1>1. TypeOK
  BY DEF Init, TypeOK, Phases, StepStatus, Finished
<1>2. {r \in Runs : shown[r] \in Finished} = {}
  BY DEF Init, Finished
<1>3. ShownInv
  <2>1. Cardinality({r \in Runs : shown[r] \in Finished}) <= MaxFinished
    <3> DEFINE E == {r \in Runs : shown[r] \in Finished}
    <3>1. Cardinality(E) = 0
      <4> HIDE DEF E
      <4>1. E = {}  BY <1>2 DEF E
      <4>2. QED  BY <4>1, FS_EmptySet
    <3>2. QED  BY <3>1, WorkflowAssumption
  <2>2. \A r \in Runs : phase[r] = "new" /\ shown[r] = "absent"
    BY DEF Init
  <2>3. QED  BY <2>1, <2>2 DEF ShownInv, InRound
<1>4. PlaceInv /\ NeedsInv /\ RoundInv /\ ErrorInv
  BY WorkflowAssumption DEF Init, PlaceInv, NeedsInv, RoundInv, ErrorInv, InRound
<1>5. QED  BY <1>1, <1>3, <1>4 DEF WInv

LEMMA Stepping == WInv /\ [Next]_vars => WInv'
<1> SUFFICES ASSUME WInv, [Next]_vars PROVE WInv'
  OBVIOUS
<1>1. CASE UNCHANGED vars
  <2>1. TypeOK' /\ PlaceInv' /\ NeedsInv'
    BY <1>1 DEF vars, WInv, TypeOK, PlaceInv, NeedsInv, NeedsMet, Good, Pending, StepsOf, InRound
  <2>2. RoundInv' /\ ErrorInv'
    BY <1>1 DEF vars, WInv, RoundInv, ErrorInv, Ended, Aborted, Pending, StepsOf, InRound
  <2>3. ShownInv'
    BY <1>1 DEF vars, WInv, ShownInv, StepsOf, InRound, Good
  <2>4. QED  BY <2>1, <2>2, <2>3 DEF WInv
<1>2. ASSUME NEW r \in Runs, run_agent(r) \/ Delegate(r) \/ RunStep(r) PROVE WInv'
  BY <1>2, Entering, StartingRound, EndingRun, Joining, StartingSerial, EndingSerial, EndingRound, Storing DEF RunStep
<1>3. ASSUME NEW s \in Steps, Invoke(s) \/ Panic(s) PROVE WInv'
  BY <1>3, Invoking, Panicking
<1>4. QED  BY <1>1, <1>2, <1>3 DEF Next

(* WInv holds in every reachable state. *)
THEOREM Invariance == Spec => []WInv
BY Starting, Stepping, PTL DEF Spec

(* Every variable keeps its type. *)
THEOREM TypesCorrect == Spec => []TypeOK
<1>1. WInv => TypeOK  BY DEF WInv
<1>2. QED  BY <1>1, Invariance, PTL

(* A run shown as completed has completed or skipped every step, whatever  *)
(* the specification: len + 1 rounds are enough.  A local run shown as     *)
(* failed has a failed step.                                               *)
THEOREM StatusesAreTrue == Spec => []StatusIsTrue
<1>1. ASSUME WInv, NEW r \in Runs, shown[r] = "completed"
      PROVE  \A s \in StepsOf(r) : Good(s)
  <2>1. phase[r] = "done"
    BY <1>1 DEF WInv, ShownInv, TypeOK, Phases, InRound
  <2>2. QED  BY <1>1, <2>1 DEF WInv, ShownInv
<1>2. ASSUME WInv, NEW r \in Runs, phase[r] = "done", shown[r] = "failed"
      PROVE  \E s \in StepsOf(r) : step[s] = "Failed"
  BY <1>2 DEF WInv, ShownInv
<1>3. WInv => StatusIsTrue
  BY <1>1, <1>2 DEF StatusIsTrue, Good
<1>4. QED  BY <1>3, Invariance, PTL

(* Nothing of a run that has ended is at work or, without an abort, open. *)
THEOREM EndedRunsAreOver == Spec => []EndedIsOver
<1>1. WInv => EndedIsOver
  <2>1. SUFFICES ASSUME WInv, NEW r \in Runs, phase[r] \in {"ending", "done"}
                 PROVE  /\ \A s \in StepsOf(r) : work[s] = "off"
                        /\ Pending(r) = {} \/ Aborted(r)
    BY DEF EndedIsOver, Aborted
  <2>2. batch[r] = {}
    BY <2>1 DEF WInv, PlaceInv, InRound
  <2>3. \A s \in StepsOf(r) : work[s] = "off"
    BY <2>1, <2>2 DEF WInv, PlaceInv, StepsOf
  <2>4. Pending(r) = {} \/ Aborted(r)
    BY <2>1 DEF WInv, ErrorInv
  <2>5. QED  BY <2>3, <2>4
<1>2. QED  BY <1>1, Invariance, PTL

(* The runs an update takes out have ended, and as many finished runs as   *)
(* the registry keeps remain that did not start before them.               *)
LEMMA RegisterEvicts ==
  ASSUME TypeOK, NEW r \in Runs, NEW status \in Finished \cup {"running", "delegated"},
         NEW started \in Nat, register(r, status, started),
         NEW x \in Runs, shown[x] # "absent", shown'[x] = "absent"
  PROVE  /\ IF x = r THEN status \in Finished ELSE shown[x] \in Finished
         /\ Cardinality({y \in Runs : shown'[y] \in Finished /\ since'[y] >= since'[x]}) = MaxFinished
<1> DEFINE now   == [shown EXCEPT ![r] = status]
           ended == {y \in Runs : now[y] \in Finished}
           kept  == {y \in Runs : shown'[y] \in Finished /\ since'[y] >= since'[x]}
<1>1. /\ now \in [Runs -> Finished \cup {"absent", "running", "delegated"}]
      /\ \A y \in Runs : now[y] = IF y = r THEN status ELSE shown[y]
  BY DEF TypeOK
<1>2. PICK gone \in SUBSET ended :
        /\ Cardinality(gone) = Over(ended)
        /\ \A y \in gone : \A z \in ended \ gone : since'[y] <= since'[z]
        /\ shown' = [y \in Runs |-> IF y \in gone THEN "absent" ELSE now[y]]
  BY DEF register
<1>3. x \in gone
  BY <1>1, <1>2 DEF Finished
<1>4. IF x = r THEN status \in Finished ELSE shown[x] \in Finished
  BY <1>1, <1>2, <1>3
<1>5. since' \in [Runs -> Nat]
  BY DEF register, TypeOK
<1>6. {y \in Runs : shown'[y] \in Finished} = ended \ gone
  BY <1>1, <1>2 DEF Finished
<1>7. kept = ended \ gone
  <2>1. \A y \in ended \ gone : since'[y] >= since'[x]
    BY <1>2, <1>3, <1>5
  <2>2. QED  BY <2>1, <1>6
<1>8. IsFiniteSet(ended) /\ IsFiniteSet(gone)
  BY <1>2, WorkflowAssumption, FS_Subset
<1>9. Cardinality(ended \ gone) = Cardinality(ended) - Cardinality(gone)
  <2>1. ended \cap gone = gone  BY <1>2
  <2>2. QED  BY <2>1, <1>8, FS_Difference
<1>10. Over(ended) # 0
  <2>1. Cardinality(gone) # 0
    BY <1>3, <1>8, FS_EmptySet
  <2>2. QED  BY <2>1, <1>2
<1>11. Cardinality(ended \ gone) = MaxFinished
  <2>1. Cardinality(ended) \in Nat /\ MaxFinished \in Nat
    BY <1>8, FS_CardinalityType, WorkflowAssumption
  <2>2. Over(ended) = Cardinality(ended) - MaxFinished
    BY <1>10 DEF Over
  <2>3. QED  BY <1>2, <1>9, <2>1, <2>2
<1>12. QED  BY <1>4, <1>7, <1>11

(* A run leaves the registry only when it is over and MaxFinished finished *)
(* runs stay that did not start before it.                                 *)
THEOREM ResultsAreKept == Spec => OnlyOldResultsVanish
<1> DEFINE Kept(r) == shown[r] # "absent" /\ shown'[r] = "absent" =>
             /\ phase'[r] \in {"done", "refused"}
             /\ Cardinality({x \in Runs : shown'[x] \in Finished /\ since'[x] >= since'[r]}) = MaxFinished
<1>1. ASSUME WInv, NEW r \in Runs, NEW status \in Finished \cup {"running", "delegated"}, NEW started \in Nat,
             register(r, status, started), NEW p \in Phases, phase' = [phase EXCEPT ![r] = p],
             status \in Finished => p \in {"done", "refused"}
      PROVE  \A x \in Runs : Kept(x)
  <2>1. TypeOK
    BY <1>1 DEF WInv
  <2>2. SUFFICES ASSUME NEW x \in Runs, shown[x] # "absent", shown'[x] = "absent"
                 PROVE  /\ phase'[x] \in {"done", "refused"}
                        /\ Cardinality({y \in Runs : shown'[y] \in Finished /\ since'[y] >= since'[x]}) = MaxFinished
    OBVIOUS
  <2>3. /\ IF x = r THEN status \in Finished ELSE shown[x] \in Finished
        /\ Cardinality({y \in Runs : shown'[y] \in Finished /\ since'[y] >= since'[x]}) = MaxFinished
    BY <1>1, <2>1, <2>2, RegisterEvicts
  <2>4. shown[x] \in Finished => phase[x] \in {"done", "refused"}
    BY <1>1 DEF WInv, ShownInv, TypeOK, Phases, Finished
  <2>5. phase'[x] = IF x = r THEN p ELSE phase[x]
    BY <1>1, <2>1 DEF TypeOK
  <2>6. QED  BY <1>1, <2>3, <2>4, <2>5
<1>2. ASSUME WInv, NEW r \in Runs, run_agent(r) \/ Delegate(r) PROVE \A x \in Runs : Kept(x)
  <2>1. Turn \in Nat
    <3>1. IsFiniteSet({x \in Runs : phase[x] # "new"})
      BY WorkflowAssumption, FS_Subset
    <3>2. QED  BY <3>1, FS_CardinalityType DEF Turn
  <2>2. "running" \notin Finished /\ "delegated" \notin Finished /\ "head" \in Phases /\ "delegating" \in Phases
    BY DEF Finished, Phases
  <2>3. CASE run_agent(r)
    BY <1>1, <1>2, <2>1, <2>2, <2>3 DEF run_agent
  <2>4. CASE Delegate(r)
    BY <1>1, <1>2, <2>1, <2>2, <2>4 DEF Delegate
  <2>5. QED  BY <1>2, <2>3, <2>4
<1>3. ASSUME WInv, NEW r \in Runs, Delegated(r) PROVE \A x \in Runs : Kept(x)
  <2>1. CASE UNCHANGED registry
    BY <2>1 DEF registry
  <2>2. CASE phase' = [phase EXCEPT ![r] = "refused"] /\ register(r, "failed", 0)
    <3>1. "failed" \in Finished /\ "refused" \in Phases /\ 0 \in Nat
      BY DEF Finished, Phases
    <3>2. QED  BY <1>1, <1>3, <2>2, <3>1
  <2>3. QED  BY <1>3, <2>1, <2>2 DEF Delegated
<1>4. ASSUME WInv, NEW r \in Runs, StoreFinal(r) PROVE \A x \in Runs : Kept(x)
  <2>1. FinalStatus(r) \in Finished /\ "done" \in Phases /\ since[r] \in Nat
    BY <1>4 DEF FinalStatus, Finished, Phases, WInv, TypeOK
  <2>2. QED  BY <1>1, <1>4, <2>1 DEF StoreFinal
<1>5. ASSUME NEW r \in Runs, StartRound(r) \/ EndRun(r) \/ JoinParallel(r) \/ StartSerial(r) \/ EndSerial(r) \/ EndRound(r)
      PROVE  shown' = shown
  BY <1>5 DEF StartRound, EndRun, JoinParallel, StartSerial, EndSerial, EndRound, registry
<1>6. ASSUME NEW s \in Steps, Invoke(s) \/ Panic(s) PROVE shown' = shown
  BY <1>6 DEF Invoke, Panic, registry
<1>7. WInv /\ [Next]_vars => [\A r \in Runs : Kept(r)]_vars
  <2>1. ASSUME shown' = shown PROVE \A r \in Runs : Kept(r)
    BY <2>1
  <2>2. QED  BY <1>2, <1>3, <1>4, <1>5, <1>6, <2>1 DEF Next, RunStep
<1>8. QED  BY <1>7, Invariance, PTL DEF Spec, OnlyOldResultsVanish

(* A step starts after every step it names is done, and its outcome stands. *)
THEOREM DependenciesGoFirst == Spec => DependenciesFirst
<1> DEFINE First == \A s \in Steps :
       /\ work[s] = "off" /\ work'[s] # "off" =>
            \A d \in Needs[s] : d \in StepsOf(RunOf[s]) /\ step[d] \in {"Completed", "Skipped"}
       /\ step[s] # "Pending" => step'[s] = step[s]
<1>1. WInv /\ Next => First
  <2> SUFFICES ASSUME WInv, Next PROVE First
    OBVIOUS
  <2>1. ASSUME NEW r \in Runs, run_agent(r) \/ Delegate(r) \/ Delegated(r) \/ EndRound(r) \/ StoreFinal(r)
        PROVE  First
    BY <2>1 DEF run_agent, Delegate, Delegated, EndRound, StoreFinal
  <2>2. ASSUME NEW r \in Runs, StartRound(r) PROVE First
    <3>1. /\ step' = step
          /\ \A s \in Steps : work'[s] # work[s] => s \in Ready(r)
      BY <2>2 DEF StartRound
    <3>2. \A s \in Ready(r) : \A d \in Needs[s] : d \in StepsOf(RunOf[s]) /\ step[d] \in {"Completed", "Skipped"}
      BY DEF Ready, Satisfied, StepsOf
    <3>3. QED  BY <3>1, <3>2
  <2>3. ASSUME NEW r \in Runs, EndRun(r) PROVE First
    BY <2>3 DEF EndRun, Pending
  <2>4. ASSUME NEW r \in Runs, JoinParallel(r) PROVE First
    <3>1. \A s \in Steps : step[s] # "Pending" => step'[s] = step[s]
      BY <2>4, OutcomesStand DEF JoinParallel
    <3>2. \A s \in Steps : work'[s] = "off" \/ work'[s] = work[s]
      BY <2>4 DEF JoinParallel
    <3>3. QED  BY <3>1, <3>2
  <2>5. ASSUME NEW r \in Runs, StartSerial(r) PROVE First
    <3>1. PICK s \in queue[r] : \E w : work' = [work EXCEPT ![s] = w]
      BY <2>5 DEF StartSerial
    <3>2. step' = step /\ \A t \in Steps : t # s => work'[t] = work[t]
      BY <2>5, <3>1 DEF StartSerial, WInv, TypeOK
    <3>3. NeedsMet(s)
      BY <3>1 DEF WInv, NeedsInv
    <3>4. QED  BY <3>2, <3>3 DEF NeedsMet, Good
  <2>6. ASSUME NEW r \in Runs, EndSerial(r) PROVE First
    <3>1. PICK s \in batch[r] : /\ step' = [step EXCEPT ![s] = Outcome(s)]
                                /\ work' = [work EXCEPT ![s] = "off"]
      BY <2>6 DEF EndSerial
    <3>2. step[s] = "Pending"
      BY <3>1 DEF WInv, PlaceInv, Pending
    <3>3. QED  BY <3>1, <3>2 DEF WInv, TypeOK
  <2>7. ASSUME NEW s \in Steps, Invoke(s) \/ Panic(s) PROVE First
    <3>1. step' = step /\ work[s] # "off"
      BY <2>7 DEF Invoke, Panic, AtWork
    <3>2. \E w : work' = [work EXCEPT ![s] = w]
      <4>1. work' = [work EXCEPT ![s] = work[s]] \/ \E w : work' = [work EXCEPT ![s] = w]
        BY <2>7 DEF Invoke, Panic, NextItem, Retry, GiveUp, StopWith, WInv, TypeOK
      <4>2. QED  BY <4>1
    <3>3. QED  BY <3>1, <3>2 DEF WInv, TypeOK
  <2>8. QED  BY <2>1, <2>2, <2>3, <2>4, <2>5, <2>6, <2>7 DEF Next, RunStep
<1>2. UNCHANGED vars => First
  BY DEF vars
<1>3. WInv /\ [Next]_vars => [First]_vars
  BY <1>1, <1>2
<1>4. QED  BY <1>3, Invariance, PTL DEF Spec, DependenciesFirst

-----------------------------------------------------------------------------
(* Aborts *)

(* What a failed step with the policy abort leaves behind: the run has an  *)
(* error, and if the step was a serial one nothing of the round is left.   *)
AbortInv ==
  /\ \A r \in Runs : phase[r] = "parallel" => batch[r] \subseteq Parallel
  /\ \A s \in Steps : step[s] = "Failed" /\ Policy[s] = "abort" =>
       /\ error[RunOf[s]]
       /\ s \notin Parallel => batch[RunOf[s]] = {} /\ queue[RunOf[s]] = {}

LEMMA AbortStays == WInv /\ AbortInv /\ [Next]_vars => AbortInv'
<1> SUFFICES ASSUME WInv, AbortInv, [Next]_vars PROVE AbortInv'
  OBVIOUS
<1> USE WorkflowAssumption DEF AbortInv
<1>1. CASE UNCHANGED vars
  BY <1>1 DEF vars
<1>2. ASSUME NEW r \in Runs, run_agent(r) \/ Delegate(r) \/ Delegated(r) \/ EndRound(r) \/ StoreFinal(r) PROVE AbortInv'
  BY <1>2 DEF run_agent, Delegate, Delegated, EndRound, StoreFinal, WInv, TypeOK
<1>3. ASSUME NEW r \in Runs, StartRound(r) PROVE AbortInv'
  <2>1. ~error[r]
    BY <1>3 DEF StartRound, WInv, ErrorInv
  <2>2. \A s \in Steps : step[s] = "Failed" /\ Policy[s] = "abort" => RunOf[s] # r
    BY <2>1
  <2>3. /\ step' = step /\ error' = error
        /\ \A x \in Runs \ {r} : phase'[x] = phase[x] /\ batch'[x] = batch[x] /\ queue'[x] = queue[x]
        /\ batch'[r] \subseteq Parallel
    BY <1>3 DEF StartRound, WInv, TypeOK
  <2>4. QED  BY <2>2, <2>3
<1>4. ASSUME NEW r \in Runs, EndRun(r) PROVE AbortInv'
  <2>1. batch[r] = {} /\ queue[r] = {}
    BY <1>4 DEF EndRun, WInv, PlaceInv, InRound
  <2>2. batch' = batch /\ queue' = queue
    BY <1>4 DEF EndRun
  <2>3. /\ \A x \in Runs : phase'[x] = "parallel" => phase[x] = "parallel"
        /\ \A x \in Runs : error[x] => error'[x]
        /\ \A s \in Steps : step'[s] = "Failed" => step[s] = "Failed" \/ (RunOf[s] = r /\ error'[r])
    BY <1>4 DEF EndRun, Pending, StepsOf, WInv, TypeOK
  <2>4. QED  BY <2>1, <2>2, <2>3
<1>5. ASSUME NEW r \in Runs, JoinParallel(r) PROVE AbortInv'
  <2>1. /\ \A x \in Runs : phase'[x] = "parallel" => phase[x] = "parallel"
        /\ \A x \in Runs : error[x] => error'[x]
        /\ queue' = queue /\ \A x \in Runs : batch'[x] \subseteq batch[x]
    BY <1>5 DEF JoinParallel, WInv, TypeOK
  <2>2. batch[r] \subseteq Parallel /\ \A s \in batch[r] : RunOf[s] = r
    BY <1>5 DEF JoinParallel, WInv, PlaceInv, Pending, StepsOf
  <2>3. \A s \in Steps : step'[s] = "Failed" /\ Policy[s] = "abort" =>
          step[s] = "Failed" \/ (s \in batch[r] /\ error'[r])
    BY <1>5 DEF JoinParallel, Aborts, WInv, TypeOK
  <2>4. QED  BY <2>1, <2>2, <2>3
<1>6. ASSUME NEW r \in Runs, StartSerial(r) PROVE AbortInv'
  <2>1. /\ phase' = phase /\ step' = step /\ error' = error /\ phase[r] = "serial" /\ queue[r] # {}
        /\ \A x \in Runs \ {r} : batch'[x] = batch[x] /\ queue'[x] = queue[x]
    BY <1>6 DEF StartSerial, WInv, TypeOK
  <2>2. QED  BY <2>1
<1>7. ASSUME NEW r \in Runs, EndSerial(r) PROVE AbortInv'
  <2>1. PICK t \in batch[r] :
          /\ step' = [step EXCEPT ![t] = Outcome(t)]
          /\ error' = [error EXCEPT ![r] = @ \/ Aborts(t)]
          /\ queue' = [queue EXCEPT ![r] = IF Aborts(t) THEN {} ELSE @]
    BY <1>7 DEF EndSerial
  <2>2. t \in Steps /\ RunOf[t] = r
    BY <2>1 DEF WInv, PlaceInv, Pending, StepsOf
  <2>3. /\ phase' = phase /\ phase[r] = "serial" /\ batch'[r] = {}
        /\ \A x \in Runs \ {r} : batch'[x] = batch[x] /\ queue'[x] = queue[x] /\ error'[x] = error[x]
    BY <1>7, <2>1 DEF EndSerial, WInv, TypeOK
  <2>4. \A s \in Steps \ {t} : step'[s] = step[s]
    BY <2>1 DEF WInv, TypeOK
  <2>5. (error[r] => error'[r]) /\ (queue[r] = {} => queue'[r] = {})
    BY <2>1 DEF WInv, TypeOK
  <2>6. step'[t] = "Failed" /\ Policy[t] = "abort" => error'[r] /\ queue'[r] = {}
    BY <2>1, <2>2 DEF Aborts, WInv, TypeOK
  <2>7. QED  BY <2>2, <2>3, <2>4, <2>5, <2>6
<1>8. ASSUME NEW s \in Steps, Invoke(s) \/ Panic(s) PROVE AbortInv'
  <2>1. /\ step' = step /\ error' = error
        /\ \A x \in Runs : /\ phase'[x] = "parallel" => phase[x] = "parallel"
                          /\ batch'[x] \subseteq batch[x] /\ queue'[x] \subseteq queue[x]
    <3>1. CASE Invoke(s)
      BY <3>1 DEF Invoke, runVars
    <3>2. CASE Panic(s) /\ UNCHANGED <<phase, batch, queue>>
      BY <3>2 DEF Panic
    <3>3. CASE /\ Panic(s)
               /\ phase' = [phase EXCEPT ![RunOf[s]] = "dead"]
               /\ batch' = [batch EXCEPT ![RunOf[s]] = {}]
               /\ queue' = [queue EXCEPT ![RunOf[s]] = {}]
      <4>1. \A x \in Runs : /\ phase'[x] = "dead" \/ phase'[x] = phase[x]
                            /\ batch'[x] = {} \/ batch'[x] = batch[x]
                            /\ queue'[x] = {} \/ queue'[x] = queue[x]
        BY <3>3 DEF WInv, TypeOK
      <4>2. step' = step /\ error' = error
        BY <3>3 DEF Panic
      <4>3. QED  BY <4>1, <4>2
    <3>4. QED  BY <1>8, <3>1, <3>2, <3>3 DEF Panic
  <2>2. QED  BY <2>1
<1>9. QED  BY <1>1, <1>2, <1>3, <1>4, <1>5, <1>6, <1>7, <1>8 DEF Next, RunStep

(* Once a step with the policy abort has failed no step is taken into a    *)
(* round of its run, and after a serial one nothing of it is at work.      *)
THEOREM AbortsStopRuns == Spec => AbortStopsRun
<1> DEFINE Stops == \A s \in Steps : step[s] = "Failed" /\ Policy[s] = "abort" =>
             /\ batch'[RunOf[s]] \cup queue'[RunOf[s]] \subseteq batch[RunOf[s]] \cup queue[RunOf[s]]
             /\ s \notin Parallel => batch'[RunOf[s]] \cup queue'[RunOf[s]] = {}
<1>1. Init => AbortInv
  BY WorkflowAssumption DEF Init, AbortInv
<1>2. Spec => []AbortInv
  BY <1>1, AbortStays, Invariance, PTL DEF Spec
<1>3. ASSUME WInv, AbortInv, Next PROVE Stops
  <2>1. SUFFICES ASSUME NEW x \in Runs, error[x]
                 PROVE  batch'[x] \cup queue'[x] \subseteq batch[x] \cup queue[x]
    BY <1>3, WorkflowAssumption DEF AbortInv
  <2>2. phase[x] \notin {"new", "head"}
    BY <1>3, <2>1 DEF WInv, ErrorInv
  <2>3. ASSUME NEW r \in Runs, run_agent(r) \/ Delegate(r) \/ RunStep(r)
        PROVE  batch'[x] \cup queue'[x] \subseteq batch[x] \cup queue[x]
    <3>1. CASE run_agent(r) \/ Delegate(r) \/ Delegated(r) \/ EndRun(r) \/ EndRound(r) \/ StoreFinal(r)
      BY <3>1 DEF run_agent, Delegate, Delegated, EndRun, EndRound, StoreFinal
    <3>2. CASE StartRound(r)
      BY <1>3, <2>2, <3>2 DEF StartRound, WInv, TypeOK
    <3>3. CASE JoinParallel(r) \/ EndSerial(r)
      BY <1>3, <3>3 DEF JoinParallel, EndSerial, WInv, TypeOK
    <3>4. CASE StartSerial(r)
      BY <1>3, <3>4 DEF StartSerial, WInv, TypeOK
    <3>5. QED  BY <2>3, <3>1, <3>2, <3>3, <3>4 DEF RunStep
  <2>4. ASSUME NEW s \in Steps, Invoke(s) \/ Panic(s)
        PROVE  batch'[x] \cup queue'[x] \subseteq batch[x] \cup queue[x]
    BY <1>3, <2>4 DEF Invoke, Panic, runVars, WInv, TypeOK
  <2>5. QED  BY <1>3, <2>3, <2>4 DEF Next
<1>4. WInv /\ AbortInv /\ [Next]_vars => [Stops]_vars
  BY <1>3
<1>5. [Stops]_vars => [\A s \in Steps : step[s] = "Failed" /\ Policy[s] = "abort" =>
                         LET r == RunOf[s]
                         IN  /\ batch'[r] \cup queue'[r] \subseteq batch[r] \cup queue[r]
                             /\ s \notin Parallel => batch'[r] \cup queue'[r] = {}]_vars
  OBVIOUS
<1> HIDE DEF Stops
<1>6. QED  BY <1>2, <1>4, <1>5, Invariance, PTL DEF Spec, AbortStopsRun
=============================================================================
