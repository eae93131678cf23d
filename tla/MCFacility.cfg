SPECIFICATION MCSpec
CONSTANTS
    h1 = h1
    h2 = h2
    Handler <- MCHandler
    Admin = admin
    Address = {admin, emp}
    NoAddress = noAddress
    Contract = {"IdentityRegistry", "AccessControl"}
    AuditCaller = {}
    MaxLog = 0
    DID = {did}
    Hash = {hash}
    SBU = {radar}
    Nothing = nothing
    TopClearance = 2
    MaxBatch = 1
    Role = {"ROLE_SUPER_ADMIN", "ROLE_SBU_MANAGER", "ROLE_SYSTEM_CONNECTOR"}
    Zone = {lab}
    AnySBU = anySBU
    MaxTime = 1
    NoRow = noRow
    NoCall = noCall
    MaxTaps = 1
    MaxFaults = 1
SYMMETRY Symmetry
INVARIANTS
    CacheMirrorsZones
PROPERTIES
    NeverSilentlyReopened
    NoEntryWhileBarred
CHECK_DEADLOCK FALSE
