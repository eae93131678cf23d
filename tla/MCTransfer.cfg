\* Racing calls with a fault: crash, database error or lost receipt.
CONSTANTS
    alice = alice
    bob = bob
    carol = carol
    dev = dev
    tracked = tracked
    loose = loose
    r1 = r1
    r2 = r2
    h1 = h1
    h2 = h2
    NoUser = NoUser
    NoTerms = NoTerms
    NoRequest = NoRequest
    NoAsset = NoAsset
    User <- MCUser
    Unregistered <- MCUnregistered
    Manager <- MCManager
    Asset <- MCAsset
    OnChain <- MCOnChain
    Request <- MCRequest
    Handler <- MCHandler
    MaxTx = 3
    MaxFaults = 1
SYMMETRY Symmetry
SPECIFICATION Spec
INVARIANTS
    ClaimExclusive
    DualAuthorization
    ExecutedWasMined
PROPERTY LifecycleSpec
CHECK_DEADLOCK FALSE
