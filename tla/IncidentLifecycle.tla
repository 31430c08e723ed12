------------------------- MODULE IncidentLifecycle -------------------------
(***************************************************************************)
(* What a reader of the checkpoint store may rely on, whatever happens to  *)
(* the process: an incident is investigated, then has one diagnosis that   *)
(* never changes, and once closed stays closed.                            *)
(***************************************************************************)

CONSTANTS
    Causes,     \* hypotheses that may be named as the root cause
    NoCause

VARIABLES
    phase,      \* "investigating", "diagnosed", "closed"
    cause       \* the durable root cause

Init ==
    /\ phase = "investigating"
    /\ cause = NoCause

Diagnose ==
    /\ phase = "investigating"
    /\ phase' = "diagnosed"
    /\ cause' \in Causes

Close ==
    /\ phase # "closed"
    /\ phase' = "closed"
    /\ UNCHANGED cause

Next == Diagnose \/ Close

Spec == Init /\ [][Next]_<<phase, cause>>
=============================================================================
