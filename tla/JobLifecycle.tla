---------------------------- MODULE JobLifecycle ----------------------------
(***************************************************************************)
(* What the job queue promises about the logical occurrences of a slot,    *)
(* with no lease, token, retry or SQL in sight.  An occurrence id is the   *)
(* idempotency key a handler shows to the outside world, so what matters   *)
(* is which occurrence may still run: the current one while it is open,    *)
(* and again after an operator reopens it from dead.  An occurrence that   *)
(* completed, was cancelled or was quarantined never runs again.           *)
(***************************************************************************)
EXTENDS Naturals

CONSTANT Slots

VARIABLES
  current,  \* the latest occurrence of a slot, 0 before the first
  phase     \* what became of it

Phases == {"none", "open", "completed", "dead", "cancelled", "quarantined"}
Decided == Phases \ {"none", "open"}

Init == /\ current = [s \in Slots |-> 0]
        /\ phase = [s \in Slots |-> "none"]

\* A new occurrence replaces whatever the slot held.
Start(s) == /\ current' = [current EXCEPT ![s] = @ + 1]
            /\ phase' = [phase EXCEPT ![s] = "open"]

\* The open occurrence is decided, once.
Decide(s) == /\ phase[s] = "open"
             /\ \E outcome \in Decided :
                  phase' = [phase EXCEPT ![s] = outcome]
             /\ UNCHANGED current

\* Only a dead occurrence is opened again.
Reopen(s) == /\ phase[s] = "dead"
             /\ phase' = [phase EXCEPT ![s] = "open"]
             /\ UNCHANGED current

\* Only what completed or was cancelled is forgotten.
Forget(s) == /\ phase[s] \in {"completed", "cancelled"}
             /\ phase' = [phase EXCEPT ![s] = "none"]
             /\ UNCHANGED current

Next == \E s \in Slots : Start(s) \/ Decide(s) \/ Reopen(s) \/ Forget(s)

Spec == Init /\ [][Next]_<<current, phase>>
=============================================================================
