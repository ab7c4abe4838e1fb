\* Two requests for a meeting while its channel changes; the other instances
\* take their constants in the module. None is no meeting, no token, no entry
\* and no answer.
CONSTANTS
    Request = {"r1", "r2"}
    Kinds = {"channel"}
    None = None
    MaxRoles = 1
    MaxChannel = 2
    MaxRetries = 1
    MaxFaults = 1
    MaxExpiries = 1
SPECIFICATION WebSpec
INVARIANTS
    AccessCurrent GuildExact AccessIsCurrent
PROPERTIES
    GuildAndWebSteps
CHECK_DEADLOCK FALSE
