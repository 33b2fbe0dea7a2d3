------------------------------ MODULE Notifier ------------------------------
(***************************************************************************)
(* The notification dispatcher (notifications.rs) as the executor and the  *)
(* heartbeat use it: broadcast(msg) sends to every target configured at    *)
(* that moment and says whether there was any.  Whether a send then        *)
(* succeeds is not reported, and not modelled.                             *)
(***************************************************************************)
EXTENDS DagStore

VARIABLES
    targets,      \* some channel with a concrete target is configured
    deliveries    \* deliveries[r][v]: messages sent that run r ended as v

notifierVars == <<targets, deliveries>>

Verdicts == {"completed", "failed"}

NotifierTypeOK ==
    /\ targets    \in BOOLEAN
    /\ deliveries \in [Runs -> [Verdicts -> Nat]]

NotifierInit ==
    /\ targets \in BOOLEAN
    /\ deliveries = [r \in Runs |-> [v \in Verdicts |-> 0]]

(* The message goes out if somebody can be told; targets is the answer.    *)
broadcast(r, v) ==
    /\ deliveries' = IF targets THEN [deliveries EXCEPT ![r][v] = @ + 1] ELSE deliveries
    /\ UNCHANGED targets

(* The user edits the channel configuration. *)
SetTargets ==
    /\ targets' = ~targets
    /\ UNCHANGED <<storeVars, deliveries>>

=============================================================================
