SPECIFICATION OwnershipSpec
CONSTANTS
    RandomIds = {a1, a2, a3}
    JitId = jit
    Names = {admin, user, jitname}
    JitName = jitname
    Passwords = {p1}
    Labels = {ci}
    SecretIds = {i1, i2}
    Values = {v1, v2}
    MaxSessions = 5
    Requests = {q1, q2}
    None = None
    MaxTries = 2
    MaxRequests = 2
    MaxRestarts = 1
    WorkerIds = {w1, w2}
    plain = plain
    drawn = drawn
    ExternalIds <- MCExternalIds
    GeneratedIds <- MCGeneratedIds
SYMMETRY MCSymmetry
INVARIANTS
    SecretsOwned
    JitActsAsItself
    SessionsPrivate
    ListingExact
PROPERTIES
    SessionsEnd
    OwnWorkersOnly
CHECK_DEADLOCK FALSE
