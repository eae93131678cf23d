SPECIFICATION MCSpec
CONSTANTS
    sam = sam
    gail = gail
    gus = gus
    ada = ada
    lost = lost
    new1 = new1
    new2 = new2
    wGail = wGail
    wGus = wGus
    wAda = wAda
    Person <- MCPerson
    Wallet <- MCWallet
    Own <- MCOwn
    Role = {"ADMIN", "USER"}
    r1 = r1
    r2 = r2
    h1 = h1
    h2 = h2
    Handler <- MCHandler
    Request <- MCRequest
    Admin = {ada}
    ApprovalThreshold = 2
    Quorum = 2
    NoPerson = NoPerson
    NoRow = NoRow
    NoCall = NoCall
    NoTerms = NoTerms
    NoWallet = NoWallet
    MaxFaults = 1
INVARIANTS
    VouchedByOthers
    OneLiveWallet
    CacheFollowsChain
PROPERTY RotationSpec
SYMMETRY Symmetry
CHECK_DEADLOCK FALSE
