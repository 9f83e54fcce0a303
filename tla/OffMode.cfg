CONSTANTS
    ModelName = {"m"}
    FamiliesIn <- MCFamiliesIn
    Account = {1, 2}
    Egress = {"direct", "chain"}
    FirstId = 3
    RefreshLead = 1
    Overlap = 2
    Session = {s1}
    NoSession = NoSession
    NoModel = NoModel
    SESSION_IDLE_TIMEOUT = 1
    U32Max = 3
    Call = {c1}
    Offered = {}
    AccountInput <- OneOauth
    SecretInput <- MalformedOrEnvelope
    StoreFaults = FALSE
    CallsDropped = FALSE
    Concurrent = 1
    TokenLife = {1}
    MaxId = 2
    MaxTime = 1
    Horizon = 4
    Request = {r1, r2}
    AuthMode = "off"
    Token = {0}
    Disconnects = FALSE
    RetryHeader = {0}
    MaxRetryAfter = 2
    RateLimitFallback = 1
    OverloadFallback = 1
SPECIFICATION DataSpec
INVARIANTS OffIgnoresCredentials
CHECK_DEADLOCK FALSE
