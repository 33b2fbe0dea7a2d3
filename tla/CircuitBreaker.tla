--------------------------- MODULE CircuitBreaker ---------------------------
(***************************************************************************)
(* The registry of circuit breakers (circuit_breaker.rs), one per agent.   *)
(* Callers hold its write lock for one method at a time.  A breaker that   *)
(* was never made, or was evicted, is one in its initial state: only       *)
(* closed breakers without failures are evicted, and each method makes the *)
(* entry anew or leaves it.                                                *)
(*                                                                         *)
(* Abstracted: time (cooled says that recovery_timeout has passed since    *)
(* the last failure; it is read and kept only until the breaker closes)    *)
(* and success_count, which nothing reads.                                 *)
(***************************************************************************)
EXTENDS Integers

CONSTANTS Agents, Threshold    \* agent ids; failure_threshold

ASSUME BreakerAssumption == Threshold \in Nat \ {0}

VARIABLES
    state,              \* state[a]
    failure_count,      \* failure_count[a]
    probe_in_flight,    \* probe_in_flight[a]
    cooled              \* cooled[a]: last_failure.elapsed() >= recovery_timeout

breakerVars == <<state, failure_count, probe_in_flight, cooled>>

BreakerTypeOK ==
    /\ state           \in [Agents -> {"Closed", "Open", "HalfOpen"}]
    /\ failure_count   \in [Agents -> Nat]
    /\ probe_in_flight \in [Agents -> BOOLEAN]
    /\ cooled          \in [Agents -> BOOLEAN]

BreakerInit ==
    /\ state           = [a \in Agents |-> "Closed"]
    /\ failure_count   = [a \in Agents |-> 0]
    /\ probe_in_flight = [a \in Agents |-> FALSE]
    /\ cooled          = [a \in Agents |-> FALSE]

(* The call goes through.  An open breaker that has cooled lets it through *)
(* as its probe.                                                           *)
Admit(a) ==
    \/ state[a] = "Closed" /\ UNCHANGED breakerVars
    \/ /\ \/ state[a] = "Open" /\ cooled[a]
          \/ state[a] = "HalfOpen" /\ ~probe_in_flight[a]
       /\ state'           = [state EXCEPT ![a] = "HalfOpen"]
       /\ probe_in_flight' = [probe_in_flight EXCEPT ![a] = TRUE]
       /\ UNCHANGED <<failure_count, cooled>>

Blocked(a) ==
    \/ state[a] = "Open" /\ ~cooled[a]
    \/ state[a] = "HalfOpen" /\ probe_in_flight[a]

(* The breaker does not know which call the answer belongs to. *)
record_success(a) ==
    /\ state'           = [state EXCEPT ![a] = "Closed"]
    /\ failure_count'   = [failure_count EXCEPT ![a] = 0]
    /\ probe_in_flight' = [probe_in_flight EXCEPT ![a] = @ /\ state[a] # "HalfOpen"]
    /\ cooled'          = [cooled EXCEPT ![a] = FALSE]

record_failure(a) ==
    /\ failure_count' = [failure_count EXCEPT ![a] = @ + 1]
    /\ cooled'        = [cooled EXCEPT ![a] = FALSE]
    /\ state'         = [state EXCEPT ![a] =
                            IF @ = "Closed" /\ failure_count'[a] < Threshold
                            THEN "Closed" ELSE "Open"]
    /\ probe_in_flight' = [probe_in_flight EXCEPT ![a] = @ /\ state[a] # "HalfOpen"]

(* The clock. *)
Cool(a) ==
    /\ state[a] = "Open" /\ ~cooled[a]
    /\ cooled' = [cooled EXCEPT ![a] = TRUE]
    /\ UNCHANGED <<state, failure_count, probe_in_flight>>

(* Late answers of calls from before the trip included, a closed breaker   *)
(* has fewer failures in a row than the threshold, any other at least as   *)
(* many, and the probe slot is taken exactly in HalfOpen: the "somehow     *)
(* Open" and free HalfOpen branches of allow_call are dead.                *)
BreakerConsistent ==
    \A a \in Agents :
        /\ state[a] = "Closed" <=> failure_count[a] < Threshold
        /\ probe_in_flight[a] <=> state[a] = "HalfOpen"

=============================================================================
