CONSTANTS
    ModelName = {}
    FamiliesIn <- MCFamiliesIn
    Account = {1}
    Egress = {"direct", "chain"}
    FirstId = 2
    RefreshLead = 1
    Overlap = 2
    Session = {s1}
    NoSession = NoSession
    NoModel = NoModel
    SESSION_IDLE_TIMEOUT = 1
    U32Max = 3
    Call = {c1}
    Offered = {"create", "rotate", "enable", "delete"}
    AccountInput <- OneOauth
    SecretInput <- EnvelopeOnly
    StoreFaults = FALSE
    CallsDropped = FALSE
    Concurrent = 1
    TokenLife = {1}
    MaxId = 2
    MaxTime = 2
    Horizon = 3
    Request = {r1, r2}
    AuthMode = "enforce"
    Token = {0, 1}
    Disconnects = FALSE
    RetryHeader = {0}
    MaxRetryAfter = 1
    RateLimitFallback = 1
    OverloadFallback = 1
SPECIFICATION DataSpec
INVARIANTS DataTypeOK UpstreamUseAudited
PROPERTIES ChosenIsEnabled RouterUsedAsSpecified
SYMMETRY RequestSymmetry
CHECK_DEADLOCK FALSE
