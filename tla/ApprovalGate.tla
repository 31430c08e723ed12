---------------------------- MODULE ApprovalGate ----------------------------
(***************************************************************************)
(* What an approval-gated repair promises to somebody who only reads the   *)
(* durable record and the world: one decision is taken and it stands, a    *)
(* repair is only ever carried out under a granted decision that is on     *)
(* record, and the incident is only called resolved after one.             *)
(***************************************************************************)

CONSTANTS
    Grants, Refusals,   \* decisions that may be recorded
    NoDecision

VARIABLES
    decision,       \* the durable decision
    repaired,       \* has a repair been carried out?
    verdict         \* "open", "resolved", "closed"

Init ==
    /\ decision = NoDecision
    /\ repaired = FALSE
    /\ verdict = "open"

Grant ==
    /\ verdict = "open"
    /\ decision = NoDecision
    /\ decision' \in Grants
    /\ UNCHANGED <<repaired, verdict>>

(* A refusal closes the incident in the same write.                         *)
Refuse ==
    /\ verdict = "open"
    /\ decision = NoDecision
    /\ decision' \in Refusals
    /\ verdict' = "closed"
    /\ UNCHANGED repaired

Repair ==
    /\ verdict = "open"
    /\ decision \in Grants
    /\ repaired' = TRUE
    /\ UNCHANGED <<decision, verdict>>

Resolve ==
    /\ verdict = "open"
    /\ decision \in Grants
    /\ repaired
    /\ verdict' = "resolved"
    /\ UNCHANGED <<decision, repaired>>

GiveUp ==
    /\ verdict = "open"
    /\ decision \in Grants
    /\ verdict' = "closed"
    /\ UNCHANGED <<decision, repaired>>

Next == Grant \/ Refuse \/ Repair \/ Resolve \/ GiveUp

Spec == Init /\ [][Next]_<<decision, repaired, verdict>>
=============================================================================
