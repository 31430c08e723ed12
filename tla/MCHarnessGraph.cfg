SPECIFICATION Spec
CONSTANTS
    h1 = h1
    b1 = b1
    b2 = b2
    m1 = m1
    business = business
    metadata = metadata
    s1 = s1
    s2 = s2
    s3 = s3
    None = None
    Hypotheses <- MCHypotheses
    Evidence <- MCEvidence
    SourceTypes <- MCSourceTypes
    SourceOf <- MCSourceOf
    InitialConfidence <- MCInitialConfidence
    Steps <- MCSteps
    SqlSteps <- MCSqlSteps
    UnsafeSteps = {}
    Fingerprint <- MCFingerprint
    MaxAgentRounds = 3
    MaxToolCalls = 3
    MaxSqlCalls = 1
    MaxDuplicateCalls = 1
    AttachRegisteredOnly = TRUE
    MaxRetries = 1
    MaxCrashes = 1
    MaxSaveFailures = 1
SYMMETRY SameSource
INVARIANTS
    TypeOK
    RootCauseIsEvidenced
    ToolRunsAreAccounted
    DuplicatesArePaidFor
    ReplayIsRunnable
    CheckpointIsRestorable
PROPERTIES
    CompletedRunsAgainOnlyByRetry
    CompletionIsDurable
    ImplementsLifecycle
CHECK_DEADLOCK FALSE
