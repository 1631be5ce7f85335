SPECIFICATION Spec
CONSTANTS
    Ids = {s1}
    Structs = {o1}
    Commands = {c1,c2}
    Recoveries = {}
    None = None
    MaxInflight = 2
    MaxActive = 0
    TTLs = {1}
    MaxTime = 0
    Preserve = TRUE
    Faults = {}
CHECK_DEADLOCK FALSE
SYMMETRY MCSymmetry
INVARIANTS DyingSessionsDrain
