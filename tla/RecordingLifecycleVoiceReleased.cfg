\* A late join against the stop of its own meeting.
CONSTANTS
    Meetings = 2
    Stopper = {s1}
    NoSummary = {2}
    JoinAttempts = 2
    MaxFaults = 0
    FaultKinds = {}
SPECIFICATION FairSpec
INVARIANTS VoiceReleased
CHECK_DEADLOCK FALSE
