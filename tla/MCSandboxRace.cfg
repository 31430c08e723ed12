SPECIFICATION Spec
CONSTANTS
    Worker = {p1, p2}
    MaxSourceChanges = 0
    MaxFaults = 0
    MaxCrashes = 0
INVARIANTS
    CountCoversRuns
CHECK_DEADLOCK FALSE
