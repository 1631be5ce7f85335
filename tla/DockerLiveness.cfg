SPECIFICATION FairSpec
CONSTANTS
    Ids = {s1}
    Structs = {o1,o2}
    Commands = {c1,c2}
    Recoveries = {}
    None = None
    MaxInflight = 2
    MaxActive = 0
    TTLs = {1}
    MaxTime = 1
    Preserve = FALSE
    Faults = {"close","remove","linger"}
CHECK_DEADLOCK FALSE
INVARIANT ContainersOwned
PROPERTIES CapacityReturned CloseCompletes LeaseIsBoundary
