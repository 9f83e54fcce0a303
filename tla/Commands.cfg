CONSTANTS
    ModelName = {"default"}
    FamiliesIn <- MCFamilies
    Account = {1, 2}
    Egress <- MCEgress
    FirstId = 3
    RefreshLead = 0
    Overlap = 0
    Process = {p1, p2, p3}
    MaxRunning = 2
    Files <- MCFiles
    Found <- MCFound
    Administered = {1}
    AccountInput <- MCInput
    MaxId = 4
    MaxDeletes = 1
SPECIFICATION CommandSpec
INVARIANTS
    CreatedPairStays LoadedPairMatches OpenedIsEncrypted
    BackupKept ImportComplete PausesKept
PROPERTIES OpenKeepsAccounts ExistingSkipped ImplementsAuthorityFiles
SYMMETRY ProcessSymmetry
CHECK_DEADLOCK FALSE
