SPECIFICATION Spec
CONSTANTS
    suresh = suresh
    priya = priya
    karthik = karthik
    o1 = o1
    g1 = g1
    g2 = g2
    g3 = g3
    Key <- MCKey
    Applicant = karthik
    RoleOf <- MCRoleOf
    PassUser = priya
    Wallet <- MCWallet
    Own <- MCOwn
    Asset = {analyzer}
    Handed = analyzer
    NoKey = noKey
    NoWallet = noWallet
    NoAsset = noAsset
    MaxFlags = 1
    MaxTransfers = 2
    MaxFaults = 1
SYMMETRY Symmetry
INVARIANTS
    KeysAreKept
    RerunAddsNothing
CHECK_DEADLOCK FALSE
