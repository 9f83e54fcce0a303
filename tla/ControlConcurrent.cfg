CONSTANTS
    ModelName = {"m"}
    FamiliesIn <- MCFamiliesIn
    Account = {1}
    Egress = {"direct", "chain"}
    FirstId = 2
    RefreshLead = 1
    Overlap = 2
    Session = {s1}
    NoSession = NoSession
    NoModel = NoModel
    SESSION_IDLE_TIMEOUT = 1
    U32Max = 1
    Call = {c1, c2}
    Offered = {"create", "rotate", "enable", "delete"}
    AccountInput <- OauthOnly
    SecretInput <- OauthSecrets
    StoreFaults = TRUE
    CallsDropped = TRUE
    Concurrent = 2
    TokenLife = {1}
    MaxId = 3
    MaxTime = 2
    Horizon = 2
SPECIFICATION ControlSpec
INVARIANTS CredentialLineage HistoryIsOlder RefreshedTokenExpires
PROPERTIES RefreshRevivesNone
SYMMETRY CallSymmetry
CHECK_DEADLOCK FALSE
