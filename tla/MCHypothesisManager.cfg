SPECIFICATION Spec
CONSTANTS
    low = low
    weak = weak
    likely = likely
    e1 = e1
    e2 = e2
    e3 = e3
    e4 = e4
    business = business
    metadata = metadata
    Hypotheses <- MCHypotheses
    Evidence <- MCEvidence
    SourceTypes <- MCSourceTypes
    SourceOf <- MCSourceOf
    InitialConfidence <- MCInitialConfidence
INVARIANTS
    TypeOK
    StatusExplained
    ConfidenceAccounted
PROPERTIES
    BindingsAreFinal
    ValidatedIsStable
    RejectionHasACause
SYMMETRY SameSource
