CONSTANTS
    ModelName = {"opus-4", "opus"}
    FamiliesIn <- MCFamiliesIn
    Account = {1, 2}
    Session = {s1, s2}
    NoSession = NoSession
    NoModel = NoModel
    SESSION_IDLE_TIMEOUT = 1
    U32Max = 1
    Instant = {1, 3}
SPECIFICATION Spec
INVARIANTS RouterTypeOK BindingsServe
PROPERTIES AffinityKept ImplementsStickySessions

