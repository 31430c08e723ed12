------------------------ MODULE MCHypothesisManager ------------------------
(* Three candidates and four evidence references of two source types.  One  *)
(* prior is rejectable even with a support, one only until it has one, and  *)
(* one is far from it.                                                     *)
EXTENDS HypothesisManager, TLC

CONSTANTS low, weak, likely, e1, e2, e3, e4, business, metadata

MCHypotheses == {low, weak, likely}
MCEvidence == {e1, e2, e3, e4}
MCSourceTypes == {business, metadata}
MCSourceOf == [e \in MCEvidence |-> IF e = e4 THEN metadata ELSE business]
MCInitialConfidence == (low :> 5) @@ (weak :> 15) @@ (likely :> 60)

(* Nothing tells the three business references apart.                       *)
SameSource == Permutations({e1, e2, e3})
=============================================================================
