SPECIFICATION Spec
CONSTANTS
    o1 = o1
    Keys = {k1,k2}
    Owners = {o1}
    OwnerOf <- MCOwnerOf
    Sessions = {s1}
    Nodes = {n1}
    Calls = {c1,c2}
    Gateways = {g1}
    NoRoute = NoRoute
    NoRow = NoRow
    None = None
    RouteTTL = 1
    ProxyTTL = 2
    TokenTTL = 1
    LeaseTTL = 1
    MaxPerAccount = 2
    MaxPerSession = 1
    MaxTime = 2
    MaxReservations = 1
    Faults = {"store","crash","removal","offline"}
SYMMETRY MCSymmetry
INVARIANTS LimitsKept RoutesPersisted RemovedStaysRemoved GrantsBacked
