SPECIFICATION FairSpec
CONSTANTS
    c1 = c1
    c2 = c2
    c3 = c3
    v1 = v1
    v2 = v2
    seg1 = seg1
    seg2 = seg2
    text = text
    Null = Null
    NullText = text
    Precision = 100
    Absent = Absent
    None = None
    Callers <- MCCallers
    Audited <- MCAudited
    Cases <- MCCases
    KnownAssets <- MCKnownAssets
    DefaultMaxRows = 3
    PromptStart = TRUE
    MaxAuditFaults = 1
INVARIANTS
    AnswersAreAccounted
    VerdictMatchesData
PROPERTIES
    CallsAreAnswered
CHECK_DEADLOCK FALSE
