SPECIFICATION FairSpec
CONSTANTS
    c1 = c1
    c2 = c2
    d1 = d1
    d2 = d2
    None = None
    Conns = {c1, c2}
    Commands = {}
    Setups <- MCAllSetups
    MaxInflight = 1
    OfflineTTL = 0
    ControlCap = 1
    CommandCap = 1
    MaxFaults = 1
    MaxEvents = 2
    Faults = {"break", "late", "store", "crash", "removal"}
INVARIANT OpenSessionsFound
PROPERTY ConnectionRestored
CHECK_DEADLOCK FALSE
