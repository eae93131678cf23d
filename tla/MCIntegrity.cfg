SPECIFICATION MCSpec
CONSTANTS
    emp = emp
    h1 = h1
    h2 = h2
    Handler <- MCHandler
    Admin = admin
    Address = {admin, emp}
    NoAddress = noAddress
    Contract = {"IdentityRegistry", "AccessControl", "AssetNFT"}
    AuditCaller = {}
    MaxLog = 0
    DID = {did}
    Hash = {hash}
    SBU = {radar}
    Nothing = nothing
    TopClearance = 2
    MaxBatch = 1
    Role = {"ROLE_SUPER_ADMIN", "ROLE_SBU_MANAGER", "ROLE_SYSTEM_CONNECTOR"}
    Zone = {}
    AnySBU = anySBU
    MaxTime = 1
    MaxTokens = 2
    MaxHandovers = 2
    radio = radio
    sdr = sdr
    Keeper = emp
    Listed <- MCListed
    ListedName <- MCListedName
    Phantom <- MCPhantom
    Name <- MCName
    NoToken = noToken
    NoRow = noRow
    NoCall = noCall
    MaxFaults = 1
SYMMETRY Symmetry
INVARIANTS
    TamperIsCaught
    NoFalseAlarm
CHECK_DEADLOCK FALSE
