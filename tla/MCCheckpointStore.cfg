SPECIFICATION Spec
CONSTANTS
    Manager = {m1, m2}
    Names = {0, 1}
    MaxSaves = 4
    MaxFaults = 1
    MaxStops = 2
    MaxDamage = 1
SYMMETRY Managers
INVARIANTS
    TypeOK
    LatestSupersedes
    AcknowledgedIsLoadable
CHECK_DEADLOCK FALSE
