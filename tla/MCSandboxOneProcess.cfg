SPECIFICATION FairSpec
CONSTANTS
    Worker = {p1}
    MaxSourceChanges = 2
    MaxFaults = 2
    MaxCrashes = 2
INVARIANTS
    CountCoversRuns
    RecordedIsDurable
PROPERTIES
    ImplementsAtMostOnce
    SettledOrIndeterminate
    DurableSuccessIsRecorded
CHECK_DEADLOCK FALSE
