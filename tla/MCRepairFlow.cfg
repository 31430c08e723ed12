SPECIFICATION FairSpec
CONSTANTS
    b1 = b1
    m1 = m1
    m2 = m2
    thisIncident = thisIncident
    otherIncident = otherIncident
    missingPartition = missingPartition
    otherCause = otherCause
    part = part
    d1 = d1
    d2 = d2
    r1 = r1
    r2 = r2
    None = None
    Untyped = Untyped
    Indeterminate = Indeterminate
    Incidents <- MCIncidents
    This = thisIncident
    Causes <- MCCauses
    MissingPartition = missingPartition
    Evidence <- MCEvidence
    SourceOf <- MCSourceOf
    OnTargetDate <- MCOnTargetDate
    ProvesEmpty <- MCProvesEmpty
    MissingIn <- MCMissingIn
    Partitions <- MCPartitions
    InScope <- MCPartitions
    ProposalTtl = 1
    DecisionIds <- MCDecisionIds
    RunIds <- MCRunIds
    DecisionTimes = {0, 2}
    MaxTime = 2
    MaxCrashes = 1
    MaxSaveFailures = 1
INVARIANTS
    TypeOK
    RepairIsAuthorized
    ResolvedIsSound
PROPERTIES
    ImplementsApprovalGate
    ApprovedSettles
CHECK_DEADLOCK FALSE
