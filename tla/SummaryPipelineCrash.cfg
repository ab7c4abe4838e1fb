\* Crashes alone: what becomes of a meeting whose run they interrupt.
CONSTANTS
    Token = {t1, t2, t3}
    NoToken = NoToken
    LeaseDuration = 1
    RetryBase = 1
    RetryCap = 1
    Worker = {w1, w2}
    Free = Free
    MaxRetries = 1
    MaxFaults = 1
    FaultKinds = {"crash"}
    Cancels = FALSE
SPECIFICATION FairSpec
PROPERTIES InterruptedRunRecovers
CHECK_DEADLOCK FALSE
