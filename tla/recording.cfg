\* Two recordings and two stops that overlap; leaving voice may fail, the store
\* does not.  Nothing is no sample, no file and no chunk.
CONSTANTS
    Meetings = 2
    Stopper = {s1, s2}
    NoSummary = {2}
    JoinAttempts = 2
    MaxFaults = 0
    FaultKinds = {"leave"}
    Nothing = Nothing
SPECIFICATION RecordingSpec
SYMMETRY Symmetry
INVARIANTS
    TypeOK OneRecording NothingLeftBehind LossRecorded FramesAccounted
    AudioExact
PROPERTIES
    SuccessorVoiceKept PostedFailsForLossOnly
CHECK_DEADLOCK FALSE
