SPECIFICATION Spec
CONSTANTS
    Nodes = {n1}
    Sessions = {s1,s2}
    Requests = {d1}
    Conns = {c1,c2}
    NoRoute = NoRoute
    NoRow = NoRow
    None = None
    Policy = "replace"
    RouteTTL = 1
    MaxTime = 2
    MaxReservations = 2
    MaxUses = 2
    Leases = {0, 2}
    Kinds = {"exec", "renew", "delete"}
    Faults = {"store", "disconnect", "removal", "restart"}
SYMMETRY MCSymmetry
INVARIANTS RoutesIndexed PersistedRoutesBacked
