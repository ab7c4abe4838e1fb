\* A schedule that a request creates, and its occurrences over two weeks; the
\* other instances take their constants in the module. None is no meeting, no
\* token, no entry and no answer.
CONSTANTS
    Schedule = {"s1"}
    Request = {"r1"}
    None = None
    Week = 3
    Durations = {1}
    Horizon = 5
    Drops = FALSE
SPECIFICATION AnswerSpec
INVARIANTS
    OncePerOccurrence
PROPERTIES
    StopsFollow AnswersFollow
CHECK_DEADLOCK FALSE
