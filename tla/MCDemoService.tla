---------------------------- MODULE MCDemoService ----------------------------
(* The F01 evidence: a business count and a metadata row that prove the     *)
(* partition missing.                                                      *)
EXTENDS DemoService, TLC

CONSTANTS b1, m1, thisIncident, missingPartition, part, q1, q2, q3

MCIncidents == {thisIncident}
MCCauses == {missingPartition}
MCEvidence == {b1, m1}
MCEvidences == {MCEvidence}
MCSourceOf == (b1 :> "business_data") @@ (m1 :> "operational_metadata")
MCPartitions == {part}
MCMissingIn == (b1 :> None) @@ (m1 :> part)
MCProvesEmpty == {b1}
MCRequests == {q1, q2, q3}
=============================================================================
