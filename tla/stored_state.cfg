\* Two jobs and two workers; the other instances take their constants in the
\* module.
CONSTANTS
    Token = {t1, t2, t3}
    NoToken = NoToken
    LeaseDuration = 2
    RetryBase = 1
    RetryCap = 2
    Job = {j1, j2}
    Worker = {w1, w2}
    NoClaim = NoClaim
    RetryLimits = {1}
    AdminDelays = {0, 1}
    RecoverLimit = 1
SPECIFICATION StoredSpec
INVARIANTS
    TypeOK ExclusiveClaim StoreAgrees
PROPERTIES
    NoRevival LeasedClaimStable BackoffKept NewestWins
CHECK_DEADLOCK FALSE
