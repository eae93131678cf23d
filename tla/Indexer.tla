------------------------------- MODULE Indexer ------------------------------
(***************************************************************************)
(* indexer.service.js, the loop that copies contract events to AuditEvent  *)
(* rows, and recordEvent of audit.service.js, which writes rows for the    *)
(* same transactions from the API.  An event is known by its transaction,  *)
(* the AuditEventType it is filed under and the user or asset it is about. *)
(* The chain does not reorganise.                                          *)
(***************************************************************************)
EXTENDS Naturals, Sequences, FiniteSets

CONSTANTS
    Tx,             \* transactions that emit events
    Type,           \* AuditEventType
    Unmapped,       \* the type of an event the indexer has no handler for
    Subject,        \* users and assets events are about
    Recorder,       \* API calls that may record an event at once
    NoEvent, NoBlock, \* JavaScript null
    Confirmations,  \* config.indexerConfirmations
    FromBlock,      \* config.indexerFromBlock, or NoBlock when it is not set
    Lookback,       \* config.indexerLookbackBlocks
    ChunkSize,      \* config.indexerChunkSize
    RpcLimit,       \* the widest range of blocks the RPC node answers for
    MaxEvents,      \* bound on the events of a transaction
    MaxHead,        \* bound on the length of the chain
    MaxLag,         \* bound on how many blocks the RPC node's head is behind
    MaxFaults       \* bound on crashes, RPC errors and database errors

Event == [tx : Tx, type : Type \cup {Unmapped}, subject : Subject]
Row == [tx : Tx, type : Type, subject : Subject]

ASSUME IndexerAssumption ==
    /\ Unmapped \notin Type /\ NoEvent \notin Row
    /\ Confirmations \in Nat /\ Lookback \in Nat /\ MaxHead \in Nat
    /\ ChunkSize \in Nat \ {0} /\ RpcLimit \in Nat \ {0}
    /\ MaxEvents \in Nat /\ MaxLag \in Nat /\ MaxFaults \in Nat
    /\ NoBlock \notin Nat /\ FromBlock \in Nat \cup {NoBlock}

VARIABLES
    emitted,            \* all events on the chain, in order
    blocks,             \* how many there are up to the end of each block, from block 1
    rows,               \* how many AuditEvent rows there are for a transaction and type
    checkpoint,         \* IndexerCheckpoint.lastBlock, NoBlock without a row
    memoryCheckpoint,   \* the loop's copy of it, lost in a crash
    pc,                 \* where syncOnce is
    scan,               \* its local variables: from, to, target, chunk
    queue,              \* the events it has fetched and not handled
    record,             \* the row each recordEvent call is about to create
    recorded,           \* the events the API has recorded, or tried to
    faults

loopVars == <<memoryCheckpoint, pc, scan, queue>>
recordVars == <<record, recorded>>
chain == <<emitted, blocks>>
vars == <<chain, rows, checkpoint, loopVars, recordVars, faults>>

ChainHead == Len(blocks)
NoScan == [from |-> 0, to |-> 0, target |-> 0, chunk |-> ChunkSize]

\* How many events there are up to the end of a block, and before it begins.
Until(block) == IF block = 0 THEN 0 ELSE blocks[block]
Before(block) == IF block = 0 THEN 0 ELSE Until(block - 1)

\* The events of blocks from..to.
EventsIn(from, to) == SubSeq(emitted, Before(from) + 1, Until(to))

OnChain(e) == \E i \in DOMAIN emitted : emitted[i] = e
Filed(e) == rows[<<e.tx, e.type>>] > 0
AddRow(e) == rows' = [rows EXCEPT ![<<e.tx, e.type>>] = @ + 1]

Init ==
    /\ emitted = << >> /\ blocks = << >>
    /\ rows = [k \in Tx \X Type |-> 0]
    /\ checkpoint = NoBlock
    /\ memoryCheckpoint = NoBlock
    /\ pc = "idle"
    /\ scan = NoScan
    /\ queue = << >>
    /\ record = [h \in Recorder |-> NoEvent]
    /\ recorded = {}
    /\ faults = 0

Fault == faults < MaxFaults /\ faults' = faults + 1

\* The chain grows by a block, empty or with the events of one transaction.
MineBlock ==
    /\ ChainHead < MaxHead
    /\ \E t \in {x \in Tx : \A e \in Event : e.tx = x => ~OnChain(e)} \cup {NoEvent} :
       \E n \in 0..MaxEvents : \E events \in [1..n -> {e \in Event : e.tx = t}] :
          /\ emitted' = emitted \o events
          /\ blocks' = Append(blocks, Len(emitted) + n)
    /\ UNCHANGED <<rows, checkpoint, loopVars, recordVars, faults>>

-----------------------------------------------------------------------------
(* syncOnce *)

\* Mutant: a scan without a checkpoint starts after the configured block.
FirstScannedLate(target) ==
    IF FromBlock # NoBlock THEN FromBlock + 1
    ELSE IF target > Lookback THEN target - Lookback ELSE 0

\* The block a scan without a usable checkpoint begins at.
FirstScanned(target) ==
    IF FromBlock # NoBlock THEN FromBlock
    ELSE IF target > Lookback THEN target - Lookback ELSE 0

Idle == pc' = "idle" /\ scan' = NoScan /\ queue' = << >>

\* A tick of the timer finds no pass in progress.  The node's head may lag; the
\* checkpoint comes from the table or, when that cannot be read, from memory;
\* one that is ahead of the confirmed head is dropped.
BeginSync ==
    /\ pc = "idle"
    /\ \E lag \in 0..MaxLag, readable \in BOOLEAN :
          LET last == IF readable THEN checkpoint ELSE memoryCheckpoint
              target == ChainHead - lag - Confirmations
              from == IF last = NoBlock \/ last > target
                      THEN FirstScanned(target) ELSE last + 1
          IN  /\ ChainHead >= lag + Confirmations
              /\ IF readable THEN UNCHANGED faults ELSE Fault
              /\ from <= target
              /\ pc' = "fetch"
              /\ scan' = [from |-> from, to |-> 0, target |-> target, chunk |-> ChunkSize]
    /\ UNCHANGED <<chain, rows, checkpoint, memoryCheckpoint, queue, recordVars>>

LastOfChunk ==
    IF scan.from + scan.chunk - 1 < scan.target
    THEN scan.from + scan.chunk - 1 ELSE scan.target

\* getLogs for the next chunk; a range the node refuses is halved.
FetchLogs ==
    /\ pc = "fetch"
    /\ IF LastOfChunk - scan.from + 1 > RpcLimit
       THEN /\ scan' = [scan EXCEPT !.chunk = @ \div 2]
            /\ UNCHANGED <<pc, queue>>
       ELSE /\ scan' = [scan EXCEPT !.to = LastOfChunk]
            /\ queue' = EventsIn(scan.from, LastOfChunk)
            /\ pc' = "handle"
    /\ UNCHANGED <<chain, rows, checkpoint, memoryCheckpoint, recordVars, faults>>

\* Mutant: rows are not looked up before they are created.
UnfiledAlways(e) == TRUE

\* No row has the event's transaction and type.
Unfiled(e) == ~Filed(e)

\* An event without a handler is skipped, one that is on file is done.
HandleEvent ==
    /\ pc = "handle"
    /\ queue # << >>
    /\ IF Head(queue).type # Unmapped /\ Unfiled(Head(queue))
       THEN pc' = "create" /\ UNCHANGED queue
       ELSE queue' = Tail(queue) /\ UNCHANGED pc
    /\ UNCHANGED <<chain, rows, checkpoint, memoryCheckpoint, scan, recordVars, faults>>

CreateRow ==
    /\ pc = "create"
    /\ AddRow(Head(queue))
    /\ queue' = Tail(queue)
    /\ pc' = "handle"
    /\ UNCHANGED <<chain, checkpoint, memoryCheckpoint, scan, recordVars, faults>>

\* Mutant: the checkpoint moves to the end of the scan after its first chunk.
SavedForScan == scan.target

\* The block the checkpoint moves to when a chunk is done.
SavedBlock == scan.to

\* The chunk is done.  When the table cannot be written only memory moves on.
SaveCheckpoint ==
    /\ pc = "handle"
    /\ queue = << >>
    /\ memoryCheckpoint' = SavedBlock
    /\ \/ checkpoint' = SavedBlock /\ UNCHANGED faults
       \/ Fault /\ UNCHANGED checkpoint
    /\ IF scan.to < scan.target
       THEN /\ pc' = "fetch"
            /\ scan' = [scan EXCEPT !.from = scan.to + 1]
            /\ UNCHANGED queue
       ELSE Idle
    /\ UNCHANGED <<chain, rows, recordVars>>

\* An RPC or database error ends the pass; safeSync swallows it.
SyncFails ==
    /\ pc # "idle"
    /\ Fault
    /\ Idle
    /\ UNCHANGED <<chain, rows, checkpoint, memoryCheckpoint, recordVars>>

\* The process dies, and its API calls with it, and is started again.
Crash ==
    /\ Fault
    /\ Idle
    /\ memoryCheckpoint' = NoBlock
    /\ record' = [h \in Recorder |-> NoEvent]
    /\ UNCHANGED <<chain, rows, checkpoint, recorded>>

-----------------------------------------------------------------------------
(* recordEvent, called for a transaction of the API's own that has been mined *)

\* A row that is there is enriched; otherwise one is to be created.
RecordFind(h) ==
    /\ record[h] = NoEvent
    /\ \E e \in Row :
          /\ OnChain(e)
          /\ e \notin recorded
          /\ recorded' = recorded \cup {e}
          /\ record' = IF Filed(e) THEN record ELSE [record EXCEPT ![h] = e]
    /\ UNCHANGED <<chain, rows, checkpoint, loopVars, faults>>

RecordCreate(h) ==
    /\ record[h] # NoEvent
    /\ AddRow(record[h])
    /\ record' = [record EXCEPT ![h] = NoEvent]
    /\ UNCHANGED <<chain, checkpoint, loopVars, recorded, faults>>

-----------------------------------------------------------------------------
SyncStep ==
    \/ BeginSync
    \/ FetchLogs
    \/ HandleEvent
    \/ CreateRow
    \/ SaveCheckpoint

Next ==
    \/ MineBlock
    \/ SyncStep
    \/ SyncFails
    \/ Crash
    \/ \E h \in Recorder : RecordFind(h) \/ RecordCreate(h)

Spec == Init /\ [][Next]_vars

\* The timer calls safeSync again and again, and the calls it awaits return.
FairSpec == Spec /\ WF_vars(SyncStep)

-----------------------------------------------------------------------------
(* Properties *)

Block == 0..ChainHead

\* The checkpoints stay within the confirmed part of the chain, and the running
\* pass within the chain.
TypeOK ==
    /\ emitted \in Seq(Event) /\ blocks \in Seq(0..Len(emitted))
    /\ rows \in [Tx \X Type -> Nat]
    /\ \A c \in {checkpoint, memoryCheckpoint} \ {NoBlock} :
          c \in Block /\ c + Confirmations <= ChainHead
    /\ pc \in {"idle", "fetch", "handle", "create"}
    /\ scan \in [from : Nat, to : Block, target : Block, chunk : 1..ChunkSize]
    /\ queue \in Seq(Event)
    /\ record \in [Recorder -> Row \cup {NoEvent}]
    /\ recorded \subseteq Row
    /\ faults \in 0..MaxFaults

\* Neither checkpoint is ever past an event that is not on file: every event of
\* a kind the indexer knows, from the configured block to the checkpoint, has a
\* row under its transaction and type, whatever crashed, failed or was read
\* twice in between (syncOnce, saveCheckpoint, loadCheckpoint).
CoveredUpToCheckpoint ==
    \A c \in {checkpoint, memoryCheckpoint} \ {NoBlock} :
       FromBlock # NoBlock =>
          \A i \in Before(FromBlock) + 1 .. Until(c) :
             emitted[i].type = Unmapped \/ Filed(emitted[i])

\* However often the loop reads a block again, after a crash, an error or a head
\* that went back, a transaction gets at most one row of a type from it: what
\* there is beyond that the API has recorded (upsertAuditEvent, recordEvent).
RereadingAddsNothing ==
    \A t \in Tx, y \in Type :
       rows[<<t, y>>] <= 1 + Cardinality({e \in recorded : e.tx = t /\ e.type = y})

\* An event with enough confirmations is on file in the end: the loop catches up
\* with the chain after errors, crashes and refused ranges (start, safeSync).
ConfirmedEventsAreFiled ==
    \A e \in Row :
       (\E b \in DOMAIN blocks : b + Confirmations <= ChainHead
                                /\ \E i \in 1..blocks[b] : emitted[i] = e)
          ~> Filed(e)
=============================================================================
