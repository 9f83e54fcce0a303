CONSTANTS
    ModelName = {"m"}
    FamiliesIn <- MCFamiliesIn
    Account = {1, 2}
    Egress = {"direct", "chain"}
    FirstId = 3
    RefreshLead = 1
    Overlap = 2
    Session = {s1}
    NoSession = NoSession
    NoModel = NoModel
    SESSION_IDLE_TIMEOUT = 1
    U32Max = 1
    Call = {c1}
    Offered = {"create", "rotate", "enable", "delete"}
    AccountInput <- OnePaused
    SecretInput <- EnvelopeOnly
    StoreFaults = FALSE
    CallsDropped = FALSE
    Concurrent = 1
    TokenLife = {1, 9}
    MaxId = 7
    MaxTime = 2
    Horizon = 2
SPECIFICATION FairControlSpec
INVARIANTS PoolMatchesStore RowsNotTorn
PROPERTIES RotationPreservesAccount DueIsRefreshed
CHECK_DEADLOCK FALSE
