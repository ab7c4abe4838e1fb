\* Statements fail and the gateway becomes ready again: blind starts and timers,
\* cleanup retries, exhausted stops, and recovery beside them.
CONSTANTS
    Meetings = 2
    Stopper = {s1}
    NoSummary = {2}
    JoinAttempts = 1
    MaxFaults = 2
    FaultKinds = {"statement", "ready"}
SPECIFICATION Spec
INVARIANTS OneRecording
CHECK_DEADLOCK FALSE
