SPECIFICATION Spec
CONSTANTS
    Ids = {s1,s2}
    Structs = {o1,o2}
    Commands = {c1}
    Recoveries = {r1}
    None = None
    MaxInflight = 1
    MaxActive = 1
    TTLs = {1}
    MaxTime = 1
    Preserve = TRUE
    Faults = {"restart","close","discovery"}
CHECK_DEADLOCK FALSE
SYMMETRY MCSymmetry
INVARIANT CapacityAccounted
PROPERTY RecoveryLeavesNoOrphan
