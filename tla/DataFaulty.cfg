CONSTANTS
    ModelName = {}
    FamiliesIn <- MCFamiliesIn
    Account = {1}
    Egress = {"direct", "chain"}
    FirstId = 2
    RefreshLead = 1
    Overlap = 2
    Session = {}
    NoSession = NoSession
    NoModel = NoModel
    SESSION_IDLE_TIMEOUT = 1
    U32Max = 2
    Call = {c1, c2}
    Offered = {"create", "rotate", "enable", "delete"}
    AccountInput <- OneApi
    SecretInput <- RawOnly
    StoreFaults = TRUE
    CallsDropped = TRUE
    Concurrent = 1
    TokenLife = {1}
    MaxId = 2
    MaxTime = 1
    Horizon = 2
    Request = {r1, r2}
    AuthMode = "observe"
    Token = {0}
    Disconnects = TRUE
    RetryHeader = {0, 1}
    MaxRetryAfter = 1
    RateLimitFallback = 1
    OverloadFallback = 1
SPECIFICATION DataSpec
INVARIANTS InFlightBounded
PROPERTIES PoolRepaired
SYMMETRY RequestAndCallSymmetry
CHECK_DEADLOCK FALSE
