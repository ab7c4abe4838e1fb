\* Every task returns: liveness with two meetings and one stop task; the late
\* enqueue of a deferred job may fail once.
CONSTANTS
    Meetings = 2
    Stopper = {s1}
    NoSummary = {2}
    JoinAttempts = 1
    MaxFaults = 1
    FaultKinds = {"enqueue"}
SPECIFICATION FairSpec
PROPERTIES GuildSettles
CHECK_DEADLOCK FALSE
