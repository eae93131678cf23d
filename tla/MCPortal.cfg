SPECIFICATION MCSpec
CONSTANTS
    w1 = w1
    w2 = w2
    w3 = w3
    f1 = f1
    f2 = f2
    ada = ada
    ben = ben
    eve = eve
    radar = radar
    cyber = cyber
    Person <- MCPerson
    Wallet <- MCWallet
    Role = {"USER", "MANAGER", "ADMIN", "AUDITOR", "SYSTEM_CONNECTOR"}
    Connector = "SYSTEM_CONNECTOR"
    AdminRole = "ADMIN"
    ManagerRole = "MANAGER"
    AuditorRole = "AUDITOR"
    Nobody = nobody
    NoWallet = noWallet
    NoRole = noRole
    Flow <- MCFlow
    Call = {c1}
    SBU = {radar, cyber}
    SbuOf <- MCSbuOf
    radome = radome
    lab = lab
    lobby = lobby
    shared = shared
    Asset = {radome}
    AssetSbu <- MCAssetSbu
    Zone = {lab, lobby}
    ZoneSbu <- MCZoneSbu
    Shared = shared
    MaxNonce = 2
    MaxSessions = 2
    MaxPasses = 2
    minted = minted
    tapped = tapped
    Kind = {minted, tapped}
    BadgeKind = {tapped}
    Filter <- MCFilter
    Reader = {reader, tool}
    Walker = reader
    Tool = tool
    PageSize = 1
    MaxRows = 3
    MaxToolRounds = 2
    MaxUses = 2
    x1 = x1
    x2 = x2
    a1 = a1
    a2 = a2
    Pick <- MCPick
    NoPick = noPick
    Act <- MCAct
    i1 = i1
    i2 = i2
    t1 = t1
    t2 = t2
    Item <- MCItem
    NoItem = noItem
    Attempt <- MCAttempt
    MaxOpened = 3
    MaxFetches = 3
    MaxChanges = 2
    MaxWrites = 2
SYMMETRY Symmetry
INVARIANTS
    OneSessionPerSignature
    RevokedAreNotServed
    SettledIsOwn
    ActingIsSeeing
    NoDelegation
    NothingSkipped
    EvidenceIsShown
    NewestIsShown
    OwnActsAreShown
    SentAsShown
CHECK_DEADLOCK FALSE
