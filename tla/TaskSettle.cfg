SPECIFICATION FairSpec
CONSTANTS
    TaskIds = {t1}
    Keys = {k1}
    Submits = {q1}
    Cancels = {c1}
    None = None
    Gone = Gone
    Modes = {"sync","async","auto"}
    Kinds = {"dispatch","immediate"}
    Skews = {0}
    Retention = 1
    PruneInterval = 1
    MaxAttempts = 2
    MaxFailures = 1
    MaxRestarts = 1
    MaxFaults = 2
    MaxTime = 2
CHECK_DEADLOCK FALSE
PROPERTIES ImplementsService RetentionKept ExpiredCleaned WaitersAnswered TasksSettle
