\* Two tasks and one disturbance: a crash, a stall, a failed statement or a
\* second ready event at any point of either task.
CONSTANTS
    Token = {t1, t2}
    NoToken = NoToken
    LeaseDuration = 1
    RetryBase = 1
    RetryCap = 1
    Worker = {w1, w2}
    Free = Free
    MaxRetries = 1
    MaxFaults = 1
    FaultKinds = {"statement", "stall", "crash", "ready"}
    Cancels = TRUE
    None = None
    NoMeeting = NoMeeting
    Nobody = Nobody
SPECIFICATION SummarySpec
INVARIANTS
    NoticeBeforePosted DoneMeansPosted OneNotice RetryBudget PostedWhole
    RecordsSound
PROPERTIES
    SettledStays ImplementsQueue ReviewsStand
CHECK_DEADLOCK FALSE
