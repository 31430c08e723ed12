---------------------------- MODULE MCRepairFlow ----------------------------
(* Three references, a business count and two metadata rows: three sets of  *)
(* them come from two sources, so a well-formed proposal may cite evidence  *)
(* that is not the root cause's.                                           *)
EXTENDS RepairFlow, TLC

CONSTANTS b1, m1, m2, thisIncident, otherIncident, missingPartition, otherCause, part, d1, d2, r1, r2

MCIncidents == {thisIncident, otherIncident}
MCCauses == {missingPartition, otherCause}
MCEvidence == {b1, m1, m2}
MCSourceOf ==
    (b1 :> "business_data") @@ (m1 :> "operational_metadata") @@ (m2 :> "operational_metadata")
MCPartitions == {part}
MCMissingIn == [e \in MCEvidence |-> IF e = m1 THEN part ELSE None]
MCOnTargetDate == MCEvidence
MCProvesEmpty == {b1}
MCDecisionIds == {d1, d2}
MCRunIds == {r1, r2}
=============================================================================
