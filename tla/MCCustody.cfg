SPECIFICATION MCSpec
CONSTANTS
    Admin = admin
    Manager = anna
    Address = {admin, anna, bala}
    NoAddress = noAddress
    Contract = {"IdentityRegistry", "AccessControl", "AssetNFT"}
    AuditCaller = {}
    MaxLog = 0
    DID = {did1, did2}
    OneDID = did1
    Hash = {hash1, hash2}
    OneHash = hash1
    SBU = {radar}
    Nothing = nothing
    TopClearance = 2
    MaxBatch = 2
    Role = {"ROLE_SUPER_ADMIN", "ROLE_SBU_MANAGER", "ROLE_SYSTEM_CONNECTOR"}
    Zone = {}
    AnySBU = anySBU
    MaxTime = 3
    MaxTokens = 1
    MaxHandovers = 4
INVARIANTS
    HistoryMatchesCustodian
    SignedByPredecessor
    NoReplay
PROPERTY AnchorsAreKept
CHECK_DEADLOCK FALSE
