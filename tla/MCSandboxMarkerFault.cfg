SPECIFICATION Spec
CONSTANTS
    Worker = {p1}
    MaxSourceChanges = 0
    MaxFaults = 1
    MaxCrashes = 0
INVARIANTS
    TerminalResultIsRecoverable
CHECK_DEADLOCK FALSE
