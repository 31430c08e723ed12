-------------------------- MODULE AtMostOnceRepair --------------------------
(***************************************************************************)
(* What a crash-safe repair promises: the repair takes effect at most once,*)
(* the incident is given at most one outcome, a success is only reported   *)
(* for a repair that took effect, and nothing is applied once the outcome  *)
(* is known.                                                               *)
(***************************************************************************)

VARIABLES
    effect,     \* has the repair changed the sandbox database?
    outcome     \* what the incident was told

Init ==
    /\ effect = "none"
    /\ outcome = "undecided"

Apply ==
    /\ effect = "none"
    /\ outcome = "undecided"
    /\ effect' = "applied"
    /\ UNCHANGED outcome

Succeed ==
    /\ effect = "applied"
    /\ outcome = "undecided"
    /\ outcome' = "succeeded"
    /\ UNCHANGED effect

Fail ==
    /\ outcome = "undecided"
    /\ outcome' = "failed"
    /\ UNCHANGED effect

Next == Apply \/ Succeed \/ Fail

Spec == Init /\ [][Next]_<<effect, outcome>>
=============================================================================
