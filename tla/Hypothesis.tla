----------------------------- MODULE Hypothesis -----------------------------
(***************************************************************************)
(* One candidate root cause, as the HypothesisManager keeps it, and the    *)
(* verdict the RootCauseValidator gives on it.  Only constant-level        *)
(* operators: HypothesisManager and HarnessGraph build their actions from  *)
(* them.                                                                   *)
(*                                                                         *)
(* Confidence is a percentage.  The code adds 0.15 and subtracts 0.20 in   *)
(* floating point; rounding moves a value across one of the two thresholds *)
(* only after two contradictions, when the count has already rejected the  *)
(* hypothesis, so integers decide every comparison as the code does.       *)
(* Identifier lists hold no duplicates in the code and become sets.        *)
(***************************************************************************)
EXTENDS Integers, FiniteSets

CONSTANTS
    Hypotheses,         \* identifiers of the planner's hypotheses
    Evidence,           \* identifiers of evidence references
    SourceTypes,        \* canonical EvidenceSourceType values
    SourceOf,           \* source_type of each evidence reference
    InitialConfidence   \* the planner's initial_confidence, in percent

ASSUME EvidenceAssumption ==
    /\ IsFiniteSet(Evidence)
    /\ SourceOf \in [Evidence -> SourceTypes]

ASSUME ConfidenceAssumption == InitialConfidence \in [Hypotheses -> 0..100]

SupportDelta        == 15
ContradictionDelta  == 20
SupportedCount      == 2
RejectedCount       == 2
SupportedConfidence == 75
RejectedConfidence  == 20

Statuses == {"PROPOSED", "TESTING", "SUPPORTED", "REJECTED"}

HypothesisState ==
    [status        : Statuses,
     confidence    : 0..100,
     supporting    : SUBSET Evidence,
     contradicting : SUBSET Evidence]

\* evidence_ids: every bound identifier, whatever its polarity.
EvidenceIds(h) == h.supporting \cup h.contradicting

ClampForgotten(v) == v

Clamp(v) == IF v < 0 THEN 0 ELSE IF v > 100 THEN 100 ELSE v

NewHypothesis(id) ==
    [status        |-> "PROPOSED",
     confidence    |-> InitialConfidence[id],
     supporting    |-> {},
     contradicting |-> {}]

IsRejectableByAnyEvidence(h) ==
    \/ Cardinality(EvidenceIds(h)) >= RejectedCount
    \/ h.confidence <= RejectedConfidence

IsRejectable(h) ==
    \/ Cardinality(h.contradicting) >= RejectedCount
    \/ h.confidence <= RejectedConfidence

IsSupportable(h) ==
    /\ Cardinality(h.supporting) >= SupportedCount
    /\ h.confidence >= SupportedConfidence

EvaluatedOnlyWhenTesting(h) ==
    IF h.status = "PROPOSED" THEN [h EXCEPT !.status = "TESTING"]
    ELSE IF h.status = "TESTING" /\ IsRejectable(h) THEN [h EXCEPT !.status = "REJECTED"]
    ELSE IF h.status = "TESTING" /\ IsSupportable(h) THEN [h EXCEPT !.status = "SUPPORTED"]
    ELSE h

(* update_status: contradiction is looked at first, and the two terminal    *)
(* statuses are left alone.                                                *)
Evaluated(h) ==
    IF h.status \in {"SUPPORTED", "REJECTED"} THEN h
    ELSE [h EXCEPT !.status = IF IsRejectable(h) THEN "REJECTED"
                              ELSE IF IsSupportable(h) THEN "SUPPORTED"
                              ELSE "TESTING"]

CanAttachToTerminal(h, e, supports) ==
    e \in EvidenceIds(h) => (e \in h.supporting) = supports

\* attach_evidence raises in any other case and changes nothing.
CanAttach(h, e, supports) ==
    /\ h.status \in {"PROPOSED", "TESTING"}
    /\ e \in EvidenceIds(h) => (e \in h.supporting) = supports

AttachedWithoutLookup(h, e, supports) ==
    Evaluated(IF supports
              THEN [h EXCEPT !.supporting = @ \cup {e},
                             !.confidence = Clamp(@ + SupportDelta)]
              ELSE [h EXCEPT !.contradicting = @ \cup {e},
                             !.confidence = Clamp(@ - ContradictionDelta)])

(* Binding an identifier that is already bound returns early, before the    *)
(* confidence and the status are looked at again.                          *)
Attached(h, e, supports) ==
    IF e \in EvidenceIds(h) THEN h
    ELSE Evaluated(
           IF supports
           THEN [h EXCEPT !.supporting = @ \cup {e},
                          !.confidence = Clamp(@ + SupportDelta)]
           ELSE [h EXCEPT !.contradicting = @ \cup {e},
                          !.confidence = Clamp(@ - ContradictionDelta)])

(* The status can be read off the evidence (StatusExplained).              *)
Explained(h) ==
    /\ h.status = "PROPOSED" => EvidenceIds(h) = {}
    /\ h.status = "SUPPORTED" => IsSupportable(h)
    /\ h.status = "REJECTED" => IsRejectable(h)
    /\ EvidenceIds(h) # {} /\ h.status # "REJECTED" => ~IsRejectable(h)

-----------------------------------------------------------------------------
(* RootCauseValidator.                                                     *)

MinSupporting     == 2
MinSourceTypes    == 2
RequiredConfidence == 75

IndependentSources(h, registered) == {SourceOf[e] : e \in h.supporting \cap registered}

\* validate raises on a rejected hypothesis instead of answering.
CanValidate(h) == h.status # "REJECTED"

(* validated = True, with no contradiction declared resolved (no caller     *)
(* under src/ resolves one).                                               *)
Validated(h, registered) ==
    /\ h.status = "SUPPORTED"
    /\ EvidenceIds(h) \subseteq registered
    /\ Cardinality(h.supporting) >= MinSupporting
    /\ Cardinality(IndependentSources(h, registered)) >= MinSourceTypes
    /\ h.confidence >= RequiredConfidence
    /\ h.contradicting = {}

\* apply_root_cause_validation sends a supported candidate that fails back to testing.
AfterFailedValidation(h) ==
    IF h.status = "SUPPORTED" THEN [h EXCEPT !.status = "TESTING"] ELSE h
=============================================================================
