SPECIFICATION Spec
CONSTANTS
    Manager = {m1}
    Names = {0}
    MaxSaves = 3
    MaxFaults = 0
    MaxStops = 0
    MaxDamage = 1
INVARIANTS
    CorruptNewestIsSkipped
CHECK_DEADLOCK FALSE
