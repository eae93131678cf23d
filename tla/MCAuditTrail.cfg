SPECIFICATION MCSpec
CONSTANTS
    Admin = admin
    Operator = operator
    Address = {admin, operator}
    NoAddress = noAddress
    Contract = {"IdentityRegistry", "AccessControl", "AssetNFT"}
    AuditCaller = {"IdentityRegistry", "AccessControl", "AssetNFT"}
    MaxLog = 5
    DID = {did}
    Hash = {hash}
    SBU = {radar}
    Nothing = nothing
    TopClearance = 1
    MaxBatch = 2
    Role = {"ROLE_SUPER_ADMIN", "ROLE_SBU_MANAGER", "ROLE_SYSTEM_CONNECTOR"}
    Zone = {lab}
    AnySBU = anySBU
    MaxTime = 1
    MaxTokens = 1
    MaxHandovers = 4
INVARIANTS
    AccessIsReplayable
    CustodyIsReplayable
CHECK_DEADLOCK FALSE
