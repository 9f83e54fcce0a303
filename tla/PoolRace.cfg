CONSTANTS
    ModelName = {"m"}
    FamiliesIn <- MCFamiliesIn
    Account = {1}
    Egress = {"direct", "chain"}
    FirstId = 2
    RefreshLead = 1
    Overlap = 2
    Session = {s1}
    NoSession = NoSession
    NoModel = NoModel
    SESSION_IDLE_TIMEOUT = 1
    U32Max = 1
    Call = {c1, c2}
    Offered = {"enable", "delete"}
    AccountInput <- BothKinds
    SecretInput <- EnvelopeOnly
    StoreFaults = FALSE
    CallsDropped = FALSE
    Concurrent = 2
    TokenLife = {1}
    MaxId = 3
    MaxTime = 1
    Horizon = 1
SPECIFICATION ControlSpec
INVARIANTS PoolMatchesStore
CHECK_DEADLOCK FALSE
