\* A second stop against the tail flush of the first.
CONSTANTS
    Meetings = 2
    Stopper = {s1, s2}
    NoSummary = {2}
    JoinAttempts = 2
    MaxFaults = 0
    FaultKinds = {}
SPECIFICATION FairSpec
INVARIANTS DeferredJobWaits
CHECK_DEADLOCK FALSE
