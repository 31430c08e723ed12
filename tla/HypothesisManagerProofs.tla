---------------------- MODULE HypothesisManagerProofs ----------------------
(***************************************************************************)
(* For every set of hypotheses, evidence and priors: the manager's status  *)
(* is explained by the evidence it holds, bindings are final, and a        *)
(* validated candidate is not disturbed.                                   *)
(***************************************************************************)
EXTENDS HypothesisManager, FiniteSetTheorems, TLAPS

-----------------------------------------------------------------------------
(* What each operator on one hypothesis does.                              *)

LEMMA ClampInRange == ASSUME NEW v \in Int PROVE Clamp(v) \in 0..100
BY DEF Clamp

LEMMA NewHypothesisFacts ==
    ASSUME NEW id \in Hypotheses
    PROVE  /\ NewHypothesis(id) \in HypothesisState
           /\ NewHypothesis(id).status = "PROPOSED"
           /\ EvidenceIds(NewHypothesis(id)) = {}
BY ConfidenceAssumption DEF NewHypothesis, HypothesisState, Statuses, EvidenceIds

(* update_status decides the status and nothing else, and a verdict it has  *)
(* just given is explained by the evidence.                                *)
LEMMA EvaluatedFacts ==
    ASSUME NEW h \in HypothesisState
    PROVE  /\ Evaluated(h) \in HypothesisState
           /\ Evaluated(h).supporting = h.supporting
           /\ Evaluated(h).contradicting = h.contradicting
           /\ Evaluated(h).confidence = h.confidence
           /\ h.status \in {"SUPPORTED", "REJECTED"} => Evaluated(h) = h
           /\ h.status \in {"PROPOSED", "TESTING"} => Explained(Evaluated(h))
           /\ h.status \in {"PROPOSED", "TESTING"}
                => (Evaluated(h).status = "REJECTED" <=> IsRejectable(h))
<1>1. CASE h.status \in {"SUPPORTED", "REJECTED"}
    BY <1>1 DEF Evaluated
<1>2. CASE h.status \in {"PROPOSED", "TESTING"}
    <2>1. Evaluated(h) = [h EXCEPT !.status = Evaluated(h).status]
        BY <1>2 DEF Evaluated, HypothesisState
    <2>2. Evaluated(h).status \in {"TESTING", "SUPPORTED", "REJECTED"}
        BY <1>2 DEF Evaluated, HypothesisState
    <2>3. /\ IsRejectable(Evaluated(h)) <=> IsRejectable(h)
          /\ IsSupportable(Evaluated(h)) <=> IsSupportable(h)
        BY <2>1 DEF IsRejectable, IsSupportable, HypothesisState
    <2>4. /\ Evaluated(h).status = "REJECTED" <=> IsRejectable(h)
          /\ Evaluated(h).status = "SUPPORTED" => IsSupportable(h)
        BY <1>2 DEF Evaluated, HypothesisState
    <2> QED
        BY <1>2, <2>1, <2>2, <2>3, <2>4 DEF HypothesisState, Statuses, Explained
<1> QED
    BY <1>1, <1>2 DEF HypothesisState, Statuses

(* What binding evidence may do to one hypothesis.                         *)
LEMMA AttachedFacts ==
    ASSUME NEW h \in HypothesisState, NEW e \in Evidence, NEW supports \in BOOLEAN,
           CanAttach(h, e, supports)
    PROVE  /\ Attached(h, e, supports) \in HypothesisState
           /\ h.supporting \subseteq Attached(h, e, supports).supporting
           /\ h.contradicting \subseteq Attached(h, e, supports).contradicting
           /\ EvidenceIds(Attached(h, e, supports)) = EvidenceIds(h) \cup {e}
           /\ h.supporting \cap h.contradicting = {}
                => Attached(h, e, supports).supporting
                     \cap Attached(h, e, supports).contradicting = {}
           /\ Explained(h) => Explained(Attached(h, e, supports))
<1>1. CASE e \in EvidenceIds(h)
    BY <1>1 DEF Attached
<1>2. CASE e \notin EvidenceIds(h)
    <2> DEFINE g == [h EXCEPT !.supporting = @ \cup {e}, !.confidence = Clamp(@ + SupportDelta)]
               k == [h EXCEPT !.contradicting = @ \cup {e},
                              !.confidence = Clamp(@ - ContradictionDelta)]
    <2>1. Clamp(h.confidence + SupportDelta) \in 0..100
          /\ Clamp(h.confidence - ContradictionDelta) \in 0..100
        BY ClampInRange DEF HypothesisState, SupportDelta, ContradictionDelta
    <2>2. g \in HypothesisState /\ k \in HypothesisState
        BY <2>1 DEF HypothesisState
    <2>3. g.status \in {"PROPOSED", "TESTING"} /\ k.status \in {"PROPOSED", "TESTING"}
        BY DEF CanAttach, HypothesisState
    <2>4. CASE supports
        <3>1. Attached(h, e, supports) = Evaluated(g)
            BY <1>2, <2>4 DEF Attached
        <3>2. g.supporting = h.supporting \cup {e} /\ g.contradicting = h.contradicting
            BY DEF HypothesisState
        <3> HIDE DEF g
        <3>3. /\ Evaluated(g) \in HypothesisState
              /\ Evaluated(g).supporting = g.supporting
              /\ Evaluated(g).contradicting = g.contradicting
              /\ Explained(Evaluated(g))
            BY <2>2, <2>3, EvaluatedFacts
        <3> QED
            BY <1>2, <3>1, <3>2, <3>3 DEF EvidenceIds, HypothesisState
    <2>5. CASE ~supports
        <3>1. Attached(h, e, supports) = Evaluated(k)
            BY <1>2, <2>5 DEF Attached
        <3>2. k.supporting = h.supporting /\ k.contradicting = h.contradicting \cup {e}
            BY DEF HypothesisState
        <3> HIDE DEF k
        <3>3. /\ Evaluated(k) \in HypothesisState
              /\ Evaluated(k).supporting = k.supporting
              /\ Evaluated(k).contradicting = k.contradicting
              /\ Explained(Evaluated(k))
            BY <2>2, <2>3, EvaluatedFacts
        <3> QED
            BY <1>2, <3>1, <3>2, <3>3 DEF EvidenceIds, HypothesisState
    <2> QED
        BY <2>4, <2>5
<1> QED
    BY <1>1, <1>2

(* A binding that is new: the polarity's set gains the identifier, the      *)
(* confidence moves by the polarity's delta, and the verdict is taken on    *)
(* the new evidence and the new confidence.                                *)
LEMMA NewBinding ==
    ASSUME NEW h \in HypothesisState, NEW e \in Evidence, NEW supports \in BOOLEAN,
           CanAttach(h, e, supports), e \notin EvidenceIds(h)
    PROVE  LET a == Attached(h, e, supports) IN
             /\ supports => /\ a.supporting = h.supporting \cup {e}
                            /\ a.contradicting = h.contradicting
                            /\ a.confidence = Clamp(h.confidence + SupportDelta)
             /\ ~supports => /\ a.supporting = h.supporting
                             /\ a.contradicting = h.contradicting \cup {e}
                             /\ a.confidence = Clamp(h.confidence - ContradictionDelta)
             /\ a.status = "REJECTED" <=> IsRejectable(a)
<1> DEFINE g == [h EXCEPT !.supporting = @ \cup {e}, !.confidence = Clamp(@ + SupportDelta)]
           k == [h EXCEPT !.contradicting = @ \cup {e},
                          !.confidence = Clamp(@ - ContradictionDelta)]
<1>1. Clamp(h.confidence + SupportDelta) \in 0..100
      /\ Clamp(h.confidence - ContradictionDelta) \in 0..100
    BY ClampInRange DEF HypothesisState, SupportDelta, ContradictionDelta
<1>2. g \in HypothesisState /\ k \in HypothesisState
    BY <1>1 DEF HypothesisState
<1>3. g.status \in {"PROPOSED", "TESTING"} /\ k.status \in {"PROPOSED", "TESTING"}
    BY DEF CanAttach, HypothesisState
<1>4. /\ g.supporting = h.supporting \cup {e}
      /\ g.contradicting = h.contradicting
      /\ g.confidence = Clamp(h.confidence + SupportDelta)
    BY DEF HypothesisState
<1>5. /\ k.supporting = h.supporting
      /\ k.contradicting = h.contradicting \cup {e}
      /\ k.confidence = Clamp(h.confidence - ContradictionDelta)
    BY DEF HypothesisState
<1>6. CASE supports
    <2>1. Attached(h, e, supports) = Evaluated(g)
        BY <1>6 DEF Attached
    <2> HIDE DEF g
    <2>2. /\ Evaluated(g).supporting = g.supporting
          /\ Evaluated(g).contradicting = g.contradicting
          /\ Evaluated(g).confidence = g.confidence
          /\ Evaluated(g).status = "REJECTED" <=> IsRejectable(g)
        BY <1>2, <1>3, EvaluatedFacts
    <2>3. IsRejectable(Evaluated(g)) <=> IsRejectable(g)
        BY <2>2 DEF IsRejectable
    <2> QED
        BY <1>4, <1>6, <2>1, <2>2, <2>3
<1>7. CASE ~supports
    <2>1. Attached(h, e, supports) = Evaluated(k)
        BY <1>7 DEF Attached
    <2> HIDE DEF k
    <2>2. /\ Evaluated(k).supporting = k.supporting
          /\ Evaluated(k).contradicting = k.contradicting
          /\ Evaluated(k).confidence = k.confidence
          /\ Evaluated(k).status = "REJECTED" <=> IsRejectable(k)
        BY <1>2, <1>3, EvaluatedFacts
    <2>3. IsRejectable(Evaluated(k)) <=> IsRejectable(k)
        BY <2>2 DEF IsRejectable
    <2> QED
        BY <1>5, <1>7, <2>1, <2>2, <2>3
<1> QED
    BY <1>6, <1>7

(* start_testing and return_to_testing only set the status to TESTING.      *)
LEMMA TestingFacts ==
    ASSUME NEW h \in HypothesisState
    PROVE  LET t == [h EXCEPT !.status = "TESTING"] IN
             /\ t \in HypothesisState
             /\ t.supporting = h.supporting
             /\ t.contradicting = h.contradicting
             /\ Explained(h) /\ h.status # "REJECTED" => Explained(t)
BY DEF HypothesisState, Statuses, Explained, EvidenceIds, IsRejectable, IsSupportable

(* Registering more evidence does not take a validation back.               *)
LEMMA ValidationSurvivesRegistration ==
    ASSUME NEW h, NEW old, NEW new, old \subseteq new, Validated(h, old)
    PROVE  Validated(h, new)
<1>1. h.supporting \cap old = h.supporting /\ h.supporting \cap new = h.supporting
    BY DEF Validated, EvidenceIds
<1>2. IndependentSources(h, new) = IndependentSources(h, old)
    BY <1>1 DEF IndependentSources
<1> QED
    BY <1>2 DEF Validated

-----------------------------------------------------------------------------
(* The arithmetic of one hypothesis: what ConfidenceAccounted says of it,   *)
(* and how many identifiers a binding adds.                                *)
Accounted(h, prior) ==
    LET gained == SupportDelta * Cardinality(h.supporting)
        lost   == ContradictionDelta * Cardinality(h.contradicting)
    IN h.status # "REJECTED" =>
         /\ h.confidence <= prior + gained - lost
         /\ h.confidence >= Clamp(prior + gained) - lost

LEMMA BindingsAreCounted ==
    ASSUME NEW S \in SUBSET Evidence
    PROVE  /\ Cardinality(S) \in Nat
           /\ \A e \in Evidence \ S : Cardinality(S \cup {e}) = Cardinality(S) + 1
<1>1. IsFiniteSet(S)
    BY FS_Subset, EvidenceAssumption
<1> QED
    BY <1>1, FS_CardinalityType, FS_AddElement

(* A supporting binding gains 15 and loses only what the clamp cuts off, a  *)
(* contradicting one loses exactly 20: one that the clamp would stop at 0   *)
(* leaves a confidence that rejects.                                       *)
LEMMA AttachedAccounted ==
    ASSUME NEW h \in HypothesisState, NEW prior \in 0..100,
           NEW e \in Evidence, NEW supports \in BOOLEAN,
           CanAttach(h, e, supports), Accounted(h, prior)
    PROVE  Accounted(Attached(h, e, supports), prior)
<1> DEFINE a == Attached(h, e, supports)
           s == Cardinality(h.supporting)
           c == Cardinality(h.contradicting)
<1>1. CASE e \in EvidenceIds(h)
    BY <1>1 DEF Attached
<1>2. CASE e \notin EvidenceIds(h)
    <2>1. /\ e \notin h.supporting /\ e \notin h.contradicting
          /\ h.supporting \in SUBSET Evidence /\ h.contradicting \in SUBSET Evidence
          /\ h.confidence \in 0..100
          /\ h.status # "REJECTED"
        BY <1>2 DEF EvidenceIds, HypothesisState, CanAttach
    <2>2. /\ s \in Nat /\ c \in Nat
          /\ Cardinality(h.supporting \cup {e}) = s + 1
          /\ Cardinality(h.contradicting \cup {e}) = c + 1
        BY <2>1, BindingsAreCounted
    <2>3. /\ h.confidence <= prior + SupportDelta * s - ContradictionDelta * c
          /\ h.confidence >= Clamp(prior + SupportDelta * s) - ContradictionDelta * c
        BY <2>1 DEF Accounted
    <2>4. a.status = "REJECTED" <=> IsRejectable(a)
        BY <1>2, NewBinding
    <2>5. CASE supports
        <3>1. /\ Cardinality(a.supporting) = s + 1 /\ Cardinality(a.contradicting) = c
              /\ a.confidence = Clamp(h.confidence + SupportDelta)
            BY <1>2, <2>2, <2>5, NewBinding
        <3> HIDE DEF a, s, c
        <3>2. /\ a.confidence <= prior + SupportDelta * (s + 1) - ContradictionDelta * c
              /\ a.confidence >= Clamp(prior + SupportDelta * (s + 1)) - ContradictionDelta * c
            BY <2>1, <2>2, <2>3, <3>1 DEF Clamp, SupportDelta, ContradictionDelta
        <3> QED
            BY <3>1, <3>2 DEF Accounted, a
    <2>6. CASE ~supports
        <3>1. /\ Cardinality(a.supporting) = s /\ Cardinality(a.contradicting) = c + 1
              /\ a.confidence = Clamp(h.confidence - ContradictionDelta)
            BY <1>2, <2>2, <2>6, NewBinding
        <3>2. a.status # "REJECTED" => a.confidence > RejectedConfidence
            <4>1. a.confidence \in 0..100
                BY <3>1, <2>1, ClampInRange DEF ContradictionDelta
            <4> QED
                BY <2>4, <4>1 DEF IsRejectable, RejectedConfidence
        <3> HIDE DEF a, s, c
        <3>3. a.status # "REJECTED" =>
                /\ a.confidence <= prior + SupportDelta * s - ContradictionDelta * (c + 1)
                /\ a.confidence >= Clamp(prior + SupportDelta * s) - ContradictionDelta * (c + 1)
            <4> SUFFICES ASSUME a.status # "REJECTED"
                         PROVE  a.confidence = h.confidence - ContradictionDelta
                BY <2>1, <2>2, <2>3 DEF Clamp, SupportDelta, ContradictionDelta
            <4> QED
                BY <2>1, <3>1, <3>2 DEF Clamp, ContradictionDelta, RejectedConfidence
        <3> QED
            BY <3>1, <3>3 DEF Accounted, a
    <2> QED
        BY <2>5, <2>6
<1> QED
    BY <1>1, <1>2

(* No other call moves the confidence or the evidence, and none revives a   *)
(* rejected hypothesis.                                                    *)
LEMMA StatusChangeAccounted ==
    ASSUME NEW h \in HypothesisState, NEW prior, Accounted(h, prior)
    PROVE  /\ Accounted(Evaluated(h), prior)
           /\ h.status # "REJECTED" => Accounted([h EXCEPT !.status = "TESTING"], prior)
<1>1. /\ Evaluated(h).supporting = h.supporting
      /\ Evaluated(h).contradicting = h.contradicting
      /\ Evaluated(h).confidence = h.confidence
      /\ h.status = "REJECTED" => Evaluated(h).status = "REJECTED"
    BY EvaluatedFacts
<1> DEFINE t == [h EXCEPT !.status = "TESTING"]
<1>2. /\ t.supporting = h.supporting /\ t.contradicting = h.contradicting
      /\ t.confidence = h.confidence
    BY DEF HypothesisState
<1> HIDE DEF t
<1> QED
    BY <1>1, <1>2 DEF Accounted, t

LEMMA NewHypothesisAccounted ==
    ASSUME NEW id \in Hypotheses
    PROVE  Accounted(NewHypothesis(id), InitialConfidence[id])
BY FS_EmptySet, ConfidenceAssumption
   DEF Accounted, NewHypothesis, Clamp, SupportDelta, ContradictionDelta

-----------------------------------------------------------------------------
(* An identifier that was not created still has its initial entry.          *)
IInv ==
    /\ TypeOK
    /\ \A id \in Hypotheses \ created : hyps[id] = NewHypothesis(id)
    /\ PolarityIsExclusive
    /\ StatusExplained
    /\ ConfidenceAccounted

(* What one call may do to the entry of one hypothesis.                     *)
EntryStep(id) ==
    \/ hyps'[id] = hyps[id]
    \/ /\ id \in created
       /\ \/ /\ hyps[id].status # "REJECTED"
             /\ hyps'[id] = [hyps[id] EXCEPT !.status = "TESTING"]
          \/ \E e \in Evidence, supports \in BOOLEAN :
                /\ CanAttach(hyps[id], e, supports)
                /\ hyps'[id] = Attached(hyps[id], e, supports)
          \/ hyps'[id] = Evaluated(hyps[id])

LEMMA InitInv == Init => IInv
<1>1. Init => ConfidenceAccounted
    BY NewHypothesisAccounted DEF Init, ConfidenceAccounted, Accounted
<1> QED
    BY <1>1, NewHypothesisFacts DEF Init, IInv, TypeOK, PolarityIsExclusive, StatusExplained,
       Explained, EvidenceIds, HypothesisState

LEMMA NextIsEntrySteps ==
    ASSUME IInv, [Next]_vars
    PROVE  /\ created \subseteq created' /\ created' \subseteq Hypotheses
           /\ registered \subseteq registered' /\ registered' \subseteq Evidence
           /\ hyps' = [id \in Hypotheses |-> hyps'[id]]
           /\ \A id \in Hypotheses : EntryStep(id)
<1> USE DEF IInv, TypeOK, EntryStep
<1>1. ASSUME NEW id \in Hypotheses, CreateHypothesis(id)
      PROVE  /\ created' = created \cup {id} /\ registered' = registered /\ hyps' = hyps
    BY <1>1 DEF CreateHypothesis
<1>2. ASSUME NEW id \in Hypotheses,
             \/ StartTesting(id) \/ ReturnToTesting(id) \/ UpdateStatus(id)
             \/ \E e \in Evidence, supports \in BOOLEAN : AttachEvidence(id, e, supports)
      PROVE  /\ id \in created /\ created' = created /\ registered' = registered
             /\ hyps' = [hyps EXCEPT ![id] = hyps'[id]]
             /\ EntryStep(id)
    <2>1. CASE StartTesting(id)
        BY <2>1 DEF StartTesting, Update
    <2>2. CASE ReturnToTesting(id)
        BY <2>2 DEF ReturnToTesting, Update, AfterFailedValidation
    <2>3. CASE UpdateStatus(id)
        BY <2>3 DEF UpdateStatus, Update
    <2>4. CASE \E e \in Evidence, supports \in BOOLEAN : AttachEvidence(id, e, supports)
        BY <2>4 DEF AttachEvidence, Update
    <2> QED
        BY <1>2, <2>1, <2>2, <2>3, <2>4
<1>3. ASSUME NEW e \in Evidence, RegisterEvidence(e)
      PROVE  /\ created' = created /\ registered' = registered \cup {e} /\ hyps' = hyps
    BY <1>3 DEF RegisterEvidence
<1>4. CASE UNCHANGED vars
    BY <1>4 DEF vars
<1> QED
    BY <1>1, <1>2, <1>3, <1>4 DEF Next

LEMMA NextInv == IInv /\ [Next]_vars => IInv'
<1> SUFFICES ASSUME IInv, [Next]_vars
             PROVE  IInv'
    OBVIOUS
<1>1. ASSUME NEW id \in Hypotheses
      PROVE  /\ hyps'[id] \in HypothesisState
             /\ hyps'[id].supporting \cap hyps'[id].contradicting = {}
             /\ Explained(hyps'[id])
             /\ Accounted(hyps'[id], InitialConfidence[id])
             /\ id \notin created => hyps'[id] = hyps[id]
    <2>1. /\ hyps[id] \in HypothesisState
          /\ hyps[id].supporting \cap hyps[id].contradicting = {}
          /\ Explained(hyps[id])
          /\ Accounted(hyps[id], InitialConfidence[id])
          /\ InitialConfidence[id] \in 0..100
        BY ConfidenceAssumption
        DEF IInv, TypeOK, PolarityIsExclusive, StatusExplained, ConfidenceAccounted, Accounted
    <2>2. EntryStep(id)
        BY NextIsEntrySteps
    <2>3. id \notin created => hyps'[id] = hyps[id]
        BY NextIsEntrySteps DEF EntryStep
    <2>4. CASE hyps'[id] = [hyps[id] EXCEPT !.status = "TESTING"] /\ hyps[id].status # "REJECTED"
        BY <2>1, <2>3, <2>4, TestingFacts, StatusChangeAccounted
    <2>5. ASSUME NEW e \in Evidence, NEW supports \in BOOLEAN,
                 CanAttach(hyps[id], e, supports),
                 hyps'[id] = Attached(hyps[id], e, supports)
          PROVE  /\ hyps'[id] \in HypothesisState
                 /\ hyps'[id].supporting \cap hyps'[id].contradicting = {}
                 /\ Explained(hyps'[id])
                 /\ Accounted(hyps'[id], InitialConfidence[id])
        BY <2>1, <2>5, AttachedFacts, AttachedAccounted
    <2>6. CASE hyps'[id] = Evaluated(hyps[id])
        <3>1. Explained(hyps'[id])
            BY <2>1, <2>6, EvaluatedFacts DEF HypothesisState, Statuses
        <3>2. Accounted(hyps'[id], InitialConfidence[id])
            BY <2>1, <2>6, StatusChangeAccounted
        <3> QED
            BY <2>1, <2>3, <2>6, <3>1, <3>2, EvaluatedFacts
    <2> QED
        BY <2>1, <2>2, <2>3, <2>4, <2>5, <2>6 DEF EntryStep
<1>2. hyps' \in [Hypotheses -> HypothesisState]
    BY <1>1, NextIsEntrySteps
<1>3. \A id \in Hypotheses \ created' : hyps'[id] = NewHypothesis(id)
    BY <1>1, NextIsEntrySteps DEF IInv
<1> QED
    BY <1>1, <1>2, <1>3, NextIsEntrySteps
    DEF IInv, TypeOK, PolarityIsExclusive, StatusExplained, ConfidenceAccounted, Accounted

LEMMA Invariant == Spec => []IInv
<1>1. Init => IInv
    BY InitInv
<1>2. IInv /\ [Next]_vars => IInv'
    BY NextInv
<1> QED
    BY <1>1, <1>2, PTL DEF Spec

(* Every hypothesis keeps its type: in particular confidence stays between  *)
(* 0 and 100 percent, which HypothesisState demands on assignment.         *)
THEOREM TypeCorrect == Spec => []TypeOK
<1>1. IInv => TypeOK
    BY DEF IInv
<1> QED
    BY <1>1, Invariant, PTL

(* No evidence identifier ever argues both ways about one hypothesis.       *)
THEOREM ExclusivePolarity == Spec => []PolarityIsExclusive
<1>1. IInv => PolarityIsExclusive
    BY DEF IInv
<1> QED
    BY <1>1, Invariant, PTL

(* The status is always explained by the evidence held.                     *)
THEOREM ExplainedStatus == Spec => []StatusExplained
<1>1. IInv => StatusExplained
    BY DEF IInv
<1> QED
    BY <1>1, Invariant, PTL

(* The confidence of a live hypothesis is the prior plus 15 for every       *)
(* support less 20 for every contradiction, up to what the clamp at 100     *)
(* percent cut off before a contradiction came.                            *)
THEOREM AccountedConfidence == Spec => []ConfidenceAccounted
<1>1. IInv => ConfidenceAccounted
    BY DEF IInv
<1> QED
    BY <1>1, Invariant, PTL

(* No call drops or turns a binding, or touches a rejected hypothesis.      *)
THEOREM FinalBindings == Spec => BindingsAreFinal
<1>1. IInv /\ [Next]_vars =>
        [\A id \in Hypotheses :
            /\ hyps[id].supporting \subseteq hyps'[id].supporting
            /\ hyps[id].contradicting \subseteq hyps'[id].contradicting
            /\ hyps[id].status = "REJECTED" => hyps'[id] = hyps[id]]_vars
    <2> SUFFICES ASSUME IInv, [Next]_vars, NEW id \in Hypotheses
                 PROVE  /\ hyps[id].supporting \subseteq hyps'[id].supporting
                        /\ hyps[id].contradicting \subseteq hyps'[id].contradicting
                        /\ hyps[id].status = "REJECTED" => hyps'[id] = hyps[id]
        OBVIOUS
    <2>1. hyps[id] \in HypothesisState
        BY DEF IInv, TypeOK
    <2>2. EntryStep(id)
        BY NextIsEntrySteps
    <2>3. CASE hyps'[id] = [hyps[id] EXCEPT !.status = "TESTING"] /\ hyps[id].status # "REJECTED"
        BY <2>1, <2>3, TestingFacts
    <2>4. ASSUME NEW e \in Evidence, NEW supports \in BOOLEAN,
                 CanAttach(hyps[id], e, supports),
                 hyps'[id] = Attached(hyps[id], e, supports)
          PROVE  /\ hyps[id].supporting \subseteq hyps'[id].supporting
                 /\ hyps[id].contradicting \subseteq hyps'[id].contradicting
                 /\ hyps[id].status # "REJECTED"
        BY <2>1, <2>4, AttachedFacts DEF CanAttach
    <2>5. CASE hyps'[id] = Evaluated(hyps[id])
        BY <2>1, <2>5, EvaluatedFacts
    <2> QED
        BY <2>2, <2>3, <2>4, <2>5 DEF EntryStep
<1> QED
    BY <1>1, Invariant, PTL DEF Spec, BindingsAreFinal

(* A validated candidate stays validated, unchanged, until it is sent back  *)
(* to testing: nothing can slip in between the verdict and the record.     *)
THEOREM StableValidation == Spec => ValidatedIsStable
<1>1. IInv /\ [Next]_vars =>
        [\A id \in Hypotheses :
            Validated(hyps[id], registered) =>
               \/ hyps'[id] = hyps[id] /\ Validated(hyps'[id], registered')
               \/ hyps'[id] = [hyps[id] EXCEPT !.status = "TESTING"]]_vars
    <2> SUFFICES ASSUME IInv, [Next]_vars, NEW id \in Hypotheses,
                        Validated(hyps[id], registered)
                 PROVE  \/ hyps'[id] = hyps[id] /\ Validated(hyps'[id], registered')
                        \/ hyps'[id] = [hyps[id] EXCEPT !.status = "TESTING"]
        OBVIOUS
    <2>1. hyps[id] \in HypothesisState /\ hyps[id].status = "SUPPORTED"
        BY DEF IInv, TypeOK, Validated
    <2>2. EntryStep(id) /\ registered \subseteq registered'
        BY NextIsEntrySteps
    <2>3. \A e \in Evidence, supports \in BOOLEAN : ~CanAttach(hyps[id], e, supports)
        BY <2>1 DEF CanAttach
    <2>4. Evaluated(hyps[id]) = hyps[id]
        BY <2>1, EvaluatedFacts
    <2>5. Validated(hyps[id], registered')
        BY <2>2, ValidationSurvivesRegistration
    <2> QED
        BY <2>2, <2>3, <2>4, <2>5 DEF EntryStep
<1> QED
    BY <1>1, Invariant, PTL DEF Spec, ValidatedIsStable

(* Every rejection comes with a new contradiction, or is of a candidate     *)
(* without evidence whose prior, with its first support if that is the      *)
(* step, is at or below the rejection threshold: one that already holds     *)
(* evidence and is in play is not rejectable, and support only raises its   *)
(* confidence.                                                             *)
THEOREM RejectionIsCaused == Spec => RejectionHasACause
<1>1. IInv /\ [Next]_vars =>
        [\A id \in Hypotheses :
            hyps[id].status # "REJECTED" /\ hyps'[id].status = "REJECTED" =>
               \/ hyps'[id].contradicting # hyps[id].contradicting
               \/ /\ EvidenceIds(hyps[id]) = {}
                  /\ InitialConfidence[id] + SupportDelta * Cardinality(hyps'[id].supporting)
                        <= RejectedConfidence]_vars
    <2> SUFFICES ASSUME IInv, [Next]_vars, NEW id \in Hypotheses,
                        hyps[id].status # "REJECTED",
                        hyps'[id].status = "REJECTED",
                        hyps'[id].contradicting = hyps[id].contradicting
                 PROVE  /\ EvidenceIds(hyps[id]) = {}
                        /\ InitialConfidence[id] + SupportDelta * Cardinality(hyps'[id].supporting)
                              <= RejectedConfidence
        OBVIOUS
    <2> DEFINE h == hyps[id]
               k == hyps'[id]
               prior == InitialConfidence[id]
    <2>1. /\ h \in HypothesisState /\ Explained(h) /\ Accounted(h, prior)
          /\ prior \in 0..100
        BY ConfidenceAssumption
        DEF IInv, TypeOK, StatusExplained, ConfidenceAccounted, Accounted
    <2>2. \/ /\ h.status \in {"PROPOSED", "TESTING"}
             /\ k = Evaluated(h)
          \/ \E e \in Evidence : /\ CanAttach(h, e, TRUE) /\ e \notin EvidenceIds(h)
                                 /\ k = Attached(h, e, TRUE)
        <3>1. EntryStep(id)
            BY NextIsEntrySteps
        <3>2. k # h /\ k # [h EXCEPT !.status = "TESTING"]
            BY <2>1 DEF HypothesisState
        <3>3. ASSUME NEW e \in Evidence, NEW supports \in BOOLEAN,
                     CanAttach(h, e, supports), k = Attached(h, e, supports)
              PROVE  e \notin EvidenceIds(h) /\ supports
            <4>1. e \notin EvidenceIds(h)
                BY <3>2, <3>3 DEF Attached
            <4>2. CASE ~supports
                <5>1. k.contradicting = h.contradicting \cup {e}
                    BY <2>1, <3>3, <4>1, <4>2, NewBinding
                <5> QED
                    BY <4>1, <5>1 DEF EvidenceIds
            <4> QED
                BY <4>1, <4>2
        <3>4. k = Evaluated(h) => h.status \in {"PROPOSED", "TESTING"}
            BY <2>1, <3>2, EvaluatedFacts DEF HypothesisState, Statuses
        <3> QED
            BY <3>1, <3>2, <3>3, <3>4 DEF EntryStep
    <2> HIDE DEF h, k, prior
    <2>3. h.status # "REJECTED" /\ k.status = "REJECTED"
        BY DEF h, k
    <2>4. h.confidence \in 0..100
        BY <2>1 DEF HypothesisState
    <2>5. CASE h.status \in {"PROPOSED", "TESTING"} /\ k = Evaluated(h)
        <3>1. IsRejectable(h) /\ k.supporting = h.supporting
            BY <2>1, <2>3, <2>5, EvaluatedFacts
        <3>2. EvidenceIds(h) = {}
            BY <2>1, <2>3, <3>1 DEF Explained
        <3>3. h.supporting = {} /\ h.contradicting = {}
            BY <3>2 DEF EvidenceIds
        <3>4. Cardinality(h.supporting) = 0 /\ Cardinality(h.contradicting) = 0
            BY <3>3, FS_EmptySet
        <3>5. h.confidence = prior
            BY <2>1, <2>3, <2>4, <3>4 DEF Accounted, Clamp, SupportDelta, ContradictionDelta
        <3>6. h.confidence <= RejectedConfidence
            BY <3>1, <3>4 DEF IsRejectable, RejectedCount
        <3> QED
            BY <2>1, <3>1, <3>2, <3>4, <3>5, <3>6 DEF h, k, prior, SupportDelta, RejectedConfidence
    <2>6. ASSUME NEW e \in Evidence, CanAttach(h, e, TRUE), e \notin EvidenceIds(h),
                 k = Attached(h, e, TRUE)
          PROVE  /\ EvidenceIds(h) = {}
                 /\ prior + SupportDelta * Cardinality(k.supporting) <= RejectedConfidence
        <3>1. /\ k.supporting = h.supporting \cup {e} /\ k.contradicting = h.contradicting
              /\ k.confidence = Clamp(h.confidence + SupportDelta) /\ IsRejectable(k)
            BY <2>1, <2>3, <2>6, NewBinding
        <3>2. IsRejectable(h)
            BY <2>4, <3>1 DEF IsRejectable, Clamp, SupportDelta, RejectedConfidence
        <3>3. EvidenceIds(h) = {}
            BY <2>1, <2>3, <3>2 DEF Explained
        <3>4. h.supporting = {} /\ h.contradicting = {} /\ k.supporting = {e}
            BY <3>1, <3>3 DEF EvidenceIds
        <3>5. /\ Cardinality(h.supporting) = 0 /\ Cardinality(h.contradicting) = 0
              /\ Cardinality(k.supporting) = 1
            BY <3>4, FS_EmptySet, FS_Singleton
        <3>6. h.confidence = prior
            BY <2>1, <2>3, <2>4, <3>5 DEF Accounted, Clamp, SupportDelta, ContradictionDelta
        <3>7. k.confidence <= RejectedConfidence
            BY <3>1, <3>5 DEF IsRejectable, RejectedCount
        <3> QED
            BY <2>4, <3>1, <3>3, <3>5, <3>6, <3>7 DEF Clamp, SupportDelta, RejectedConfidence
    <2> QED
        BY <2>2, <2>5, <2>6 DEF h, k, prior
<1> QED
    BY <1>1, Invariant, PTL DEF Spec, RejectionHasACause
=============================================================================
