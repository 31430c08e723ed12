SPECIFICATION Spec
CONSTANTS
    Worker = {p1, p2, p3}
    MaxSourceChanges = 1
    MaxFaults = 1
    MaxCrashes = 1
SYMMETRY Processes
INVARIANTS
    TypeOK
    HandlerAtMostOnce
    EffectIsMarked
    SuccessIsReal
CHECK_DEADLOCK FALSE
