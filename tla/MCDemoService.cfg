SPECIFICATION FairSpec
CONSTANTS
    b1 = b1
    m1 = m1
    thisIncident = thisIncident
    missingPartition = missingPartition
    part = part
    q1 = q1
    q2 = q2
    q3 = q3
    None = None
    Untyped = Untyped
    Warm = Warm
    Torn = Torn
    Indeterminate = Indeterminate
    Incidents <- MCIncidents
    This = thisIncident
    Causes <- MCCauses
    MissingPartition = missingPartition
    Evidence <- MCEvidence
    Evidences <- MCEvidences
    SourceOf <- MCSourceOf
    OnTargetDate <- MCEvidence
    ProvesEmpty <- MCProvesEmpty
    MissingIn <- MCMissingIn
    Partitions <- MCPartitions
    InScope <- MCPartitions
    ProposalTtl = 1
    Requests <- MCRequests
    DecisionIds <- MCRequests
    RunIds <- MCRequests
    SerialFill = TRUE
    MaxTime = 2
    MaxCrashes = 1
    MaxFaults = 1
INVARIANTS
    TypeOK
    RepairedOnce
    AnsweredStands
PROPERTIES
    ImplementsApprovalGate
    DecisionIsCarriedOut
CHECK_DEADLOCK FALSE
