\* Live transcription of a chunk, with a token change or a crash and two
\* failures; the other instances take their constants in the module. NoToken,
\* NoClaim and Free stand for no token, no claim and no holder of the locks.
CONSTANTS
    Chunk = {1}
    Silent = {}
    Meeting = {"m1"}
    MeetingOf <- OneMeeting
    SummaryEnabled <- WithSummary
    Gateways = 2
    MaxFaults = 2
    NoToken = NoToken
    NoClaim = NoClaim
    Free = Free
SPECIFICATION ProgressSpec
INVARIANTS
    SpeechOnce
PROPERTIES
    AbandonedJobRequeued Settles CaptureDrains StoreCatchesUp
CHECK_DEADLOCK FALSE
