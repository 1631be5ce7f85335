SPECIFICATION Spec
CONSTANTS
    Keys = {k1}
    Requests = {q1, q2}
    None = None
    TTLs = {1, 2}
    Deadlines = {1}
    MaxActive = 1
    MaxInflight = 2
    Faults = {"restart", "reconnect", "dies", "killFails"}
    MaxTime = 2
    MaxRequests = 3
SYMMETRY MCSymmetry
INVARIANTS CapacityAccounted LeaseBacked CommandsKeepSandbox SandboxesOwned
