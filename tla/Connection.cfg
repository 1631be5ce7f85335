SPECIFICATION Spec
CONSTANTS
    c1 = c1
    c2 = c2
    d1 = d1
    d2 = d2
    None = None
    Conns = {c1, c2}
    Commands = {d1, d2}
    Setups <- MCOneSetup
    MaxInflight = 1
    OfflineTTL = 0
    ControlCap = 1
    CommandCap = 1
    MaxFaults = 1
    MaxEvents = 2
    Faults = {"break", "late", "store", "crash", "removal"}
INVARIANTS
    SlotsExact WaitersAnswered
SYMMETRY MCSymmetry
CHECK_DEADLOCK FALSE
