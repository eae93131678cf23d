\* No faults, fair scheduling: what every approval ends in.
CONSTANTS
    alice = alice
    bob = bob
    carol = carol
    dev = dev
    tracked = tracked
    loose = loose
    r1 = r1
    r2 = r2
    h1 = h1
    h2 = h2
    NoUser = NoUser
    NoTerms = NoTerms
    NoRequest = NoRequest
    NoAsset = NoAsset
    User <- MCThreeUsers
    Unregistered <- MCUnregistered
    Manager <- MCManager
    Asset <- MCBothAssets
    OnChain <- MCOnChain
    Request <- MCRequest
    Handler <- MCHandler
    MaxTx = 2
    MaxFaults = 0
SPECIFICATION FairSpec
INVARIANT UnexecutedNeverMoved
PROPERTY ClaimsAreResolved
CHECK_DEADLOCK FALSE
