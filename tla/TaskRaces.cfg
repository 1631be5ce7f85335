SPECIFICATION Spec
CONSTANTS
    TaskIds = {t1,t2}
    Keys = {k1}
    Submits = {q1,q2}
    Cancels = {c1}
    None = None
    Gone = Gone
    Modes = {"sync","async"}
    Kinds = {"dispatch","immediate"}
    Skews = {0}
    Retention = 1
    PruneInterval = 1
    MaxAttempts = 1
    MaxFailures = 1
    MaxRestarts = 0
    MaxFaults = 1
    MaxTime = 1
CHECK_DEADLOCK FALSE
SYMMETRY MCSymmetry
INVARIANTS SameRequestSameTask SyncAnswersComplete RuntimeReleased
PROPERTY TerminalFinal
