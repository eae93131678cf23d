\* The loop and an API call: crashes, errors, a lagging node, refused ranges; fair.
CONSTANTS
    t1 = t1
    t2 = t2
    registered = registered
    other = other
    s1 = s1
    s2 = s2
    api = api
    NoEvent = NoEvent
    NoBlock = NoBlock
    Unmapped = other
    Type <- MCType
    Subject <- MCOneSubject
    Tx <- MCTx
    Recorder <- MCRecorder
    FromBlock = 1
    Lookback = 1
    ChunkSize = 4
    RpcLimit = 2
    MaxEvents = 2
    MaxHead = 4
    MaxLag = 1
    MaxFaults = 1
    Confirmations = 1
SPECIFICATION FairSpec
INVARIANTS CoveredUpToCheckpoint RereadingAddsNothing
PROPERTY ConfirmedEventsAreFiled
CHECK_DEADLOCK FALSE
