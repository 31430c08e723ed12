-------------------------- MODULE HypothesisManager --------------------------
(***************************************************************************)
(* The HypothesisManager on its own: every operation of its public         *)
(* interface, called in any order.  An operation that raises changes       *)
(* nothing in the code, so its action is disabled here.  restore_snapshot  *)
(* belongs to a restart and is an action of HarnessGraph.                  *)
(***************************************************************************)
EXTENDS Hypothesis

VARIABLES
    created,      \* identifiers present in _hypotheses
    hyps,         \* _hypotheses; the entry of an identifier not created is its initial one
    registered    \* identifiers present in _evidence

vars == <<created, hyps, registered>>

TypeOK ==
    /\ created \subseteq Hypotheses
    /\ hyps \in [Hypotheses -> HypothesisState]
    /\ registered \subseteq Evidence

Init ==
    /\ created = {}
    /\ hyps = [id \in Hypotheses |-> NewHypothesis(id)]
    /\ registered = {}

CreateHypothesis(id) ==
    /\ id \notin created
    /\ created' = created \cup {id}
    /\ hyps' = [hyps EXCEPT ![id] = NewHypothesis(id)]
    /\ UNCHANGED registered

RegisterEvidence(e) ==
    /\ registered' = registered \cup {e}
    /\ UNCHANGED <<created, hyps>>

Update(id, h) ==
    /\ id \in created
    /\ hyps' = [hyps EXCEPT ![id] = h]
    /\ UNCHANGED <<created, registered>>

StartTesting(id) ==
    /\ hyps[id].status \in {"PROPOSED", "TESTING"}
    /\ Update(id, [hyps[id] EXCEPT !.status = "TESTING"])

ReturnToTesting(id) ==
    /\ hyps[id].status \in {"SUPPORTED", "TESTING"}
    /\ Update(id, AfterFailedValidation(hyps[id]))

\* The manager binds an identifier whether or not it has been registered.
AttachEvidence(id, e, supports) ==
    /\ CanAttach(hyps[id], e, supports)
    /\ Update(id, Attached(hyps[id], e, supports))

UpdateStatus(id) == Update(id, Evaluated(hyps[id]))

Next ==
    \/ \E id \in Hypotheses :
          \/ CreateHypothesis(id)
          \/ StartTesting(id)
          \/ ReturnToTesting(id)
          \/ UpdateStatus(id)
          \/ \E e \in Evidence, supports \in BOOLEAN : AttachEvidence(id, e, supports)
    \/ \E e \in Evidence : RegisterEvidence(e)

Spec == Init /\ [][Next]_vars

-----------------------------------------------------------------------------
(* An evidence identifier never argues both for and against one hypothesis: *)
(* root_cause_validator.py raises on such an overlap, so reaching one would *)
(* make a hypothesis impossible to validate or to dismiss.                 *)
PolarityIsExclusive ==
    \A id \in Hypotheses : hyps[id].supporting \cap hyps[id].contradicting = {}

(* The status can be read off the evidence: a supported candidate meets     *)
(* both support thresholds and is not rejectable, a rejected one is         *)
(* rejectable, and one that holds evidence and is still in play is not.     *)
(* update_status is the only place that decides it, and the early returns   *)
(* of attach_evidence must never leave a stale verdict behind.             *)
StatusExplained == \A id \in Hypotheses : Explained(hyps[id])

(* Confidence accounts for the evidence held.  Clamping at 100 percent can  *)
(* only lose support that came before a contradiction, so whatever the      *)
(* order of arrival a live candidate lies between the value obtained with   *)
(* every support first and the unclamped sum.                              *)
ConfidenceAccounted ==
    \A id \in Hypotheses :
       LET h == hyps[id]
           gained == SupportDelta * Cardinality(h.supporting)
           lost   == ContradictionDelta * Cardinality(h.contradicting)
           prior  == InitialConfidence[id]
       IN h.status # "REJECTED" =>
            /\ h.confidence <= prior + gained - lost
            /\ h.confidence >= Clamp(prior + gained) - lost

(* Evidence bindings are final: no operation drops an identifier, turns its *)
(* polarity, or touches a rejected hypothesis.                             *)
BindingsAreFinal ==
    [][\A id \in Hypotheses :
          /\ hyps[id].supporting \subseteq hyps'[id].supporting
          /\ hyps[id].contradicting \subseteq hyps'[id].contradicting
          /\ hyps[id].status = "REJECTED" => hyps'[id] = hyps[id]]_vars

(* A validated candidate stays exactly as it was validated, or is sent back *)
(* to testing with its evidence: the graph records a root cause from it     *)
(* after the validator ran, and nothing called in between may change it.   *)
ValidatedIsStable ==
    [][\A id \in Hypotheses :
          Validated(hyps[id], registered) =>
             \/ hyps'[id] = hyps[id] /\ Validated(hyps'[id], registered')
             \/ hyps'[id] = [hyps[id] EXCEPT !.status = "TESTING"]]_vars

(* Every rejection has a cause of its own step: a new contradiction, or a   *)
(* prior too low to begin with.  Without one, only a candidate that holds   *)
(* no evidence yet is rejected: by update_status when its prior is at most  *)
(* 20 percent, by its first support when even that leaves it there          *)
(* (hypothesis.py:274-278).  A live candidate that holds evidence is not    *)
(* rejected by support, by a repeated binding, or by being re-evaluated     *)
(* after return_to_testing, however far contradictions have brought it.    *)
RejectionHasACause ==
    [][\A id \in Hypotheses :
          hyps[id].status # "REJECTED" /\ hyps'[id].status = "REJECTED" =>
             \/ hyps'[id].contradicting # hyps[id].contradicting
             \/ /\ EvidenceIds(hyps[id]) = {}
                /\ InitialConfidence[id] + SupportDelta * Cardinality(hyps'[id].supporting)
                      <= RejectedConfidence]_vars
=============================================================================
