SPECIFICATION Spec
CONSTANTS
    Nodes = {n1,n2}
    Sessions = {s1}
    Requests = {d1,d2}
    Conns = {c1,c2}
    NoRoute = NoRoute
    NoRow = NoRow
    None = None
    Policy = "reject"
    RouteTTL = 1
    MaxTime = 1
    MaxReservations = 3
    MaxUses = 3
    Leases = {2, 3}
    Kinds = {"exec", "resource"}
    Faults = {}
SYMMETRY MCSymmetry
INVARIANTS TypeOK ProvisionalUsesExact
PROPERTIES Sticky LeaseNeverShortened
