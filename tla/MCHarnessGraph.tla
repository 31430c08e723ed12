--------------------------- MODULE MCHarnessGraph ---------------------------
(* One hypothesis, three references of two source types, and a plan with a  *)
(* SQL step, a data-quality step and a third step that repeats the exact    *)
(* call of the second.  Evidence of the same source type is interchangeable. *)
EXTENDS HarnessGraph, TLC

CONSTANTS h1, b1, b2, m1, business, metadata, s1, s2, s3

MCHypotheses == {h1}
MCEvidence == {b1, b2, m1}
MCSourceTypes == {business, metadata}
MCSourceOf == [e \in MCEvidence |-> IF e = m1 THEN metadata ELSE business]
MCInitialConfidence == [id \in MCHypotheses |-> 50]
MCSteps == {s1, s2, s3}
MCSqlSteps == {s1}
MCFingerprint == [s \in MCSteps |-> IF s = s1 THEN 1 ELSE 2]
SameSource == Permutations({b1, b2})
=============================================================================
