--------------------------- MODULE Indexer_proofs ---------------------------
(***************************************************************************)
(* Proofs about the event indexer: no checkpoint is ever past an event     *)
(* that is not on file, and reading a block again adds no row - for any    *)
(* chain, chunk size, confirmation depth, API calls and faults.            *)
(***************************************************************************)
EXTENDS Indexer, FiniteSetTheorems, SequenceTheorems, TLAPS

\* Done with: filed, or of no kind the indexer knows.
Handled(e) == e.type = Unmapped \/ Filed(e)

\* From the configured block on, everything before this block is done with.
CoveredBefore(block) ==
    FromBlock # NoBlock =>
        /\ FromBlock <= block
        /\ \A i \in Before(FromBlock) + 1 .. Before(block) : Handled(emitted[i])

IndexerTyped ==
    /\ emitted \in Seq(Event) /\ blocks \in Seq(0..Len(emitted))
    /\ rows \in [Tx \X Type -> Nat]
    /\ queue \in Seq(Event)
    /\ pc \in {"idle", "fetch", "handle", "create"}
    /\ scan \in [from : Nat, to : Nat, target : Nat, chunk : Nat \ {0}]
    /\ record \in [Recorder -> Row \cup {NoEvent}]
    /\ recorded \subseteq Row /\ IsFiniteSet(recorded)

\* A checkpoint is a confirmed block, and everything up to it is done with.
SafeCheckpoint(c) ==
    c = NoBlock \/ (c \in Block /\ c + Confirmations <= ChainHead /\ CoveredBefore(c + 1))

CheckpointsAreSafe == SafeCheckpoint(checkpoint) /\ SafeCheckpoint(memoryCheckpoint)

\* What blocks from..to hold is done with or still to be handled.
Fetched(from, to, todo) ==
    \A i \in Before(from) + 1 .. Until(to) :
        Handled(emitted[i]) \/ \E j \in DOMAIN todo : todo[j] = emitted[i]

\* The pass in progress began where that was so, and what it has fetched is done
\* with or still in its queue.
ScanIsSafe ==
    /\ pc # "idle" =>
        /\ scan.from <= scan.target /\ scan.target + Confirmations <= ChainHead
        /\ CoveredBefore(scan.from)
    /\ pc \in {"handle", "create"} =>
        /\ scan.from <= scan.to /\ scan.to <= scan.target
        /\ Fetched(scan.from, scan.to, queue)
    /\ pc = "create" => queue # << >> /\ Head(queue).type # Unmapped

\* Two calls never create a row for one event.
RecordsDiffer ==
    \A h \in Recorder : record[h] # NoEvent =>
        /\ record[h] \in recorded
        /\ \A g \in Recorder : record[g] = record[h] => g = h

\* The events of a transaction and type that the API is done recording.
Settled(t, y) ==
    {e \in recorded : e.tx = t /\ e.type = y /\ \A h \in Recorder : record[h] # e}

\* The loop has filed one row at most; one that is about to be filed is the first.
RowsAreCounted ==
    \A t \in Tx, y \in Type :
        /\ rows[<<t, y>>] <= 1 + Cardinality(Settled(t, y))
        /\ pc = "create" /\ Head(queue).tx = t /\ Head(queue).type = y =>
              rows[<<t, y>>] <= Cardinality(Settled(t, y))

CoverageInv == CheckpointsAreSafe /\ ScanIsSafe
CountInv == RecordsDiffer /\ RowsAreCounted
IndexerInv == IndexerTyped /\ CoverageInv /\ CountInv

-----------------------------------------------------------------------------
(* The chain. *)

LEMMA Assumed ==
  /\ Unmapped \notin Type /\ NoEvent \notin Row
  /\ Confirmations \in Nat /\ Lookback \in Nat /\ ChunkSize \in Nat \ {0}
  /\ RpcLimit \in Nat \ {0} /\ NoBlock \notin Nat /\ FromBlock \in Nat \cup {NoBlock}
  BY IndexerAssumption

\* A part of a sequence has what is in the range.
LEMMA SliceFacts ==
  ASSUME NEW S, NEW s \in Seq(S), NEW m \in Nat, NEW n \in 0..Len(s)
  PROVE  /\ SubSeq(s, m + 1, n) \in Seq(S)
         /\ \A i \in m + 1 .. n :
               \E j \in DOMAIN SubSeq(s, m + 1, n) : SubSeq(s, m + 1, n)[j] = s[i]
<1>1. PICK len \in Nat : len = Len(s) /\ DOMAIN s = 1..len /\ \A i \in 1..len : s[i] \in S
  OBVIOUS
<1>2. \A i \in m + 1 .. n : s[i] \in S
  BY <1>1
<1>3. /\ SubSeq(s, m + 1, n) \in Seq(S)
      /\ Len(SubSeq(s, m + 1, n)) = IF m + 1 <= n THEN n - (m + 1) + 1 ELSE 0
      /\ \A i \in 1 .. n - (m + 1) + 1 : SubSeq(s, m + 1, n)[i] = s[(m + 1) + i - 1]
  <2>1. m + 1 \in Int /\ n \in Int
    BY <1>1
  <2> QED
    BY <1>2, <2>1, SubSeqProperties
<1>4. PICK t \in Seq(S) : t = SubSeq(s, m + 1, n)
  BY <1>3
<1>5. ASSUME NEW i \in m + 1 .. n PROVE \E j \in DOMAIN t : t[j] = s[i]
  <2>1. n \in Nat /\ i \in Nat /\ m + 1 <= n /\ i - m \in 1 .. n - (m + 1) + 1
        /\ (m + 1) + (i - m) - 1 = i
    BY <1>1
  <2>2. Len(t) = n - (m + 1) + 1 /\ t[i - m] = s[i]
    BY <1>3, <1>4, <2>1
  <2> QED
    BY <2>1, <2>2
<1> QED
  BY <1>3, <1>4, <1>5

\* Where blocks begin and end.
LEMMA BoundsTyped ==
  ASSUME IndexerTyped
  PROVE  /\ ChainHead \in Nat /\ Len(emitted) \in Nat
         /\ \A b \in Block : Until(b) \in 0..Len(emitted)
         /\ \A b \in 0..ChainHead + 1 : Before(b) \in 0..Len(emitted)
         /\ \A b \in Nat : Before(b + 1) = Until(b)
<1>1. PICK n \in Nat : n = Len(emitted)
  BY DEF IndexerTyped
<1>2. blocks \in Seq(0..n) /\ ChainHead \in Nat /\ ChainHead = Len(blocks)
  BY <1>1 DEF IndexerTyped, ChainHead
<1>3. \A b \in Block : Until(b) \in 0..n
  BY <1>2 DEF Until, Block
<1>4. \A b \in 0..ChainHead + 1 : Before(b) \in 0..n
  BY <1>2, <1>3 DEF Before, Block
<1>5. \A b \in Nat : Before(b + 1) = Until(b)
  BY DEF Before
<1> QED
  BY <1>1, <1>2, <1>3, <1>4, <1>5

\* The events of a range of blocks are these.
LEMMA EventsInFacts ==
  ASSUME IndexerTyped, NEW from \in 0..ChainHead + 1, NEW to \in Block
  PROVE  /\ EventsIn(from, to) \in Seq(Event)
         /\ \A i \in Before(from) + 1 .. Until(to) :
               \E j \in DOMAIN EventsIn(from, to) : EventsIn(from, to)[j] = emitted[i]
<1>1. Before(from) \in Nat /\ Until(to) \in 0..Len(emitted) /\ emitted \in Seq(Event)
  BY BoundsTyped DEF IndexerTyped
<1> QED
  BY <1>1, SliceFacts DEF EventsIn

-----------------------------------------------------------------------------
(* What no step takes back: blocks, events and rows. *)

ChainExtends ==
    /\ ChainHead <= ChainHead'
    /\ \A b \in Block : Until(b)' = Until(b)
    /\ \A b \in 0..ChainHead + 1 : Before(b)' = Before(b)
    /\ \A i \in 1..Len(emitted) : emitted'[i] = emitted[i]

HandledStay == \A e \in Event : Handled(e) => Handled(e)'

LEMMA MineBlockExtends ==
  ASSUME IndexerTyped, MineBlock
  PROVE  IndexerTyped' /\ ChainExtends /\ HandledStay
<1>1. PICK n \in Nat, events \in Seq(Event) :
          /\ Len(events) = n /\ emitted' = emitted \o events
          /\ blocks' = Append(blocks, Len(emitted) + n)
  <2>1. PICK S \in SUBSET Event, n \in 0..MaxEvents : \E events \in [1..n -> S] :
            /\ emitted' = emitted \o events
            /\ blocks' = Append(blocks, Len(emitted) + n)
    BY DEF MineBlock
  <2>2. PICK events \in [1..n -> S] : /\ emitted' = emitted \o events
                                      /\ blocks' = Append(blocks, Len(emitted) + n)
    BY <2>1
  <2>3. n \in Nat /\ events \in [1..n -> Event]
    BY <2>1, <2>2, IndexerAssumption
  <2>4. events \in Seq(Event) /\ Len(events) = n
    BY <2>3
  <2> QED
    BY <2>2, <2>3, <2>4
<1>2. UNCHANGED <<rows, queue, pc, scan, record, recorded>>
  BY DEF MineBlock, loopVars, recordVars
<1>3. PICK len \in Nat : len = Len(emitted) /\ emitted \in Seq(Event) /\ blocks \in Seq(0..len)
  BY DEF IndexerTyped
<1>4. /\ emitted' \in Seq(Event) /\ Len(emitted') = len + n
      /\ \A i \in 1..len : emitted'[i] = emitted[i]
  <2>1. /\ emitted \o events \in Seq(Event)
        /\ Len(emitted \o events) = Len(emitted) + Len(events)
        /\ \A i \in 1 .. Len(emitted) + Len(events) :
              (emitted \o events)[i] = IF i <= Len(emitted) THEN emitted[i]
                                       ELSE events[i - Len(emitted)]
    BY <1>3, ConcatProperties
  <2> QED
    BY <1>1, <1>3, <2>1
<1>5. blocks \in Seq(0..len + n) /\ len + n \in 0..len + n
  <2>1. 0..len \subseteq 0..len + n
    BY <1>1, <1>3
  <2> QED
    BY <1>1, <1>3, <2>1
<1>6. /\ blocks' \in Seq(0..len + n) /\ Len(blocks') = Len(blocks) + 1 /\ Len(blocks) \in Nat
      /\ \A b \in 1..Len(blocks) : blocks'[b] = blocks[b]
  BY <1>1, <1>3, <1>5, AppendProperties
<1>7. \A b \in Block : Until(b)' = Until(b)
  BY <1>6 DEF Until, Block, ChainHead
<1>8. \A b \in 0..ChainHead + 1 : Before(b)' = Before(b)
  <2> SUFFICES ASSUME NEW b \in 0..ChainHead + 1, b # 0 PROVE Before(b)' = Before(b)
    BY DEF Before
  <2>1. b - 1 \in Block
    BY <1>6 DEF Block, ChainHead
  <2> QED
    BY <1>7, <2>1 DEF Before
<1> QED
  BY <1>2, <1>3, <1>4, <1>6, <1>7, <1>8
  DEF IndexerTyped, ChainExtends, HandledStay, Handled, Filed, ChainHead

\* Whatever else a step does.
LEMMA SameChain ==
  ASSUME IndexerTyped, UNCHANGED chain
  PROVE  ChainExtends
<1>1. ChainHead \in Nat /\ UNCHANGED <<emitted, blocks>>
  BY BoundsTyped DEF chain
<1> QED
  BY <1>1 DEF ChainExtends, ChainHead, Until, Before, Block

LEMMA AddRowFacts ==
  ASSUME IndexerTyped, NEW e \in Row, AddRow(e)
  PROVE  /\ rows' \in [Tx \X Type -> Nat] /\ HandledStay /\ Filed(e)'
         /\ rows'[<<e.tx, e.type>>] = rows[<<e.tx, e.type>>] + 1
         /\ \A t \in Tx, y \in Type : t # e.tx \/ y # e.type => rows'[<<t, y>>] = rows[<<t, y>>]
<1>1. PICK k \in Tx \X Type : k = <<e.tx, e.type>> /\ rows' = [rows EXCEPT ![k] = @ + 1]
  BY DEF Row, AddRow
<1>2. /\ rows \in [Tx \X Type -> Nat] /\ rows' \in [Tx \X Type -> Nat]
      /\ rows'[k] = rows[k] + 1 /\ \A l \in Tx \X Type : l # k => rows'[l] = rows[l]
  BY <1>1 DEF IndexerTyped
<1>3. ASSUME NEW f \in Event, Handled(f) PROVE Handled(f)'
  <2>1. CASE f.type = Unmapped
    BY <2>1 DEF Handled
  <2>2. CASE f.type # Unmapped
    <3>1. <<f.tx, f.type>> \in Tx \X Type
      BY <2>2 DEF Event
    <3> QED
      BY <1>2, <1>3, <2>2, <3>1 DEF Handled, Filed
  <2> QED
    BY <2>1, <2>2
<1> QED
  BY <1>1, <1>2, <1>3 DEF Filed, HandledStay

-----------------------------------------------------------------------------
(* What was covered stays covered. *)

LEMMA CoveredStays ==
  ASSUME IndexerTyped, ChainExtends, HandledStay,
         NEW b \in 0..ChainHead + 1, CoveredBefore(b)
  PROVE  CoveredBefore(b)'
<1> SUFFICES ASSUME FromBlock # NoBlock PROVE CoveredBefore(b)'
  BY DEF CoveredBefore
<1>1. FromBlock \in 0..ChainHead + 1 /\ FromBlock <= b
  BY Assumed, BoundsTyped DEF CoveredBefore
<1>2. /\ Before(FromBlock)' = Before(FromBlock) /\ Before(b)' = Before(b)
      /\ Before(FromBlock) \in Nat /\ Before(b) \in 0..Len(emitted) /\ Len(emitted) \in Nat
  BY <1>1, BoundsTyped DEF ChainExtends
<1>3. ASSUME NEW i \in Before(FromBlock) + 1 .. Before(b) PROVE Handled(emitted[i])'
  <2>1. i \in 1..Len(emitted) /\ emitted[i] \in Event /\ emitted'[i] = emitted[i]
    BY <1>2 DEF IndexerTyped, ChainExtends
  <2>2. Handled(emitted[i])
    BY <1>3 DEF CoveredBefore
  <2>3. PICK e \in Event : e = emitted[i]
    BY <2>1
  <2>4. Handled(e)'
    BY <2>2, <2>3 DEF HandledStay
  <2>5. e = emitted[i]'
    BY <2>1, <2>3
  <2> QED
    BY <2>4, <2>5 DEF Handled, Filed
<1> QED
  BY <1>1, <1>2, <1>3 DEF CoveredBefore

LEMMA CheckpointStays ==
  ASSUME IndexerTyped, ChainExtends, HandledStay, ChainHead' \in Nat, NEW c, SafeCheckpoint(c)
  PROVE  SafeCheckpoint(c)'
<1> SUFFICES ASSUME c # NoBlock PROVE SafeCheckpoint(c)'
  BY DEF SafeCheckpoint
<1>1. c \in Nat /\ c + Confirmations <= ChainHead /\ c + 1 \in 0..ChainHead + 1
      /\ CoveredBefore(c + 1) /\ c <= ChainHead /\ ChainHead \in Nat
  <2>1. PICK n \in Nat : n = ChainHead
    BY BoundsTyped
  <2>2. c \in 0..n /\ c + Confirmations <= n /\ CoveredBefore(c + 1)
    BY <2>1 DEF SafeCheckpoint, Block
  <2> QED
    BY <2>1, <2>2
<1>2. CoveredBefore(c + 1)'
  BY <1>1, CoveredStays
<1>3. PICK m \in Nat : m = ChainHead' /\ ChainHead <= m
  BY <1>1 DEF ChainExtends
<1>4. c \in 0..m /\ c + Confirmations <= m
  BY <1>1, <1>3, Assumed
<1> QED
  BY <1>2, <1>3, <1>4 DEF SafeCheckpoint, Block

LEMMA FetchedStays ==
  ASSUME IndexerTyped, ChainExtends, HandledStay,
         NEW from \in 0..ChainHead + 1, NEW to \in Block, NEW todo, Fetched(from, to, todo)
  PROVE  Fetched(from, to, todo)'
<1>1. /\ Before(from)' = Before(from) /\ Until(to)' = Until(to)
      /\ Before(from) \in Nat /\ Until(to) \in 0..Len(emitted) /\ Len(emitted) \in Nat
  <2>1. Before(from)' = Before(from) /\ Until(to)' = Until(to)
    BY DEF ChainExtends
  <2>2. /\ Len(emitted) \in Nat /\ Until(to) \in 0..Len(emitted)
        /\ Before(from) \in 0..Len(emitted)
    BY BoundsTyped
  <2> QED
    BY <2>1, <2>2
<1>2. ASSUME NEW i \in Before(from) + 1 .. Until(to)
      PROVE  Handled(emitted[i])' \/ \E j \in DOMAIN todo : todo[j] = emitted'[i]
  <2>1. i \in 1..Len(emitted) /\ emitted[i] \in Event /\ emitted'[i] = emitted[i]
    BY <1>1 DEF IndexerTyped, ChainExtends
  <2>2. PICK e \in Event : e = emitted[i] /\ e = emitted[i]'
    BY <2>1
  <2>3. Handled(e) => Handled(e)'
    BY DEF HandledStay
  <2> QED
    BY <2>2, <2>3 DEF Fetched, Handled, Filed
<1> QED
  BY <1>1, <1>2 DEF Fetched

LEMMA ScanStays ==
  ASSUME IndexerTyped, ChainExtends, HandledStay, ChainHead' \in Nat,
         ScanIsSafe, UNCHANGED <<pc, scan, queue>>
  PROVE  ScanIsSafe'
<1>1. PICK x \in [from : Nat, to : Nat, target : Nat, chunk : Nat \ {0}], q \in Seq(Event) :
          x = scan /\ q = queue
  BY DEF IndexerTyped
<1>2. ChainHead \in Nat /\ ChainHead <= ChainHead' /\ Confirmations \in Nat
  BY BoundsTyped, Assumed DEF ChainExtends
<1>3. ASSUME pc # "idle"
      PROVE  /\ x.from <= x.target /\ x.target + Confirmations <= ChainHead
             /\ x.from \in 0..ChainHead + 1 /\ CoveredBefore(x.from)'
  <2>1. /\ x.from <= x.target /\ x.target + Confirmations <= ChainHead
        /\ CoveredBefore(x.from) /\ x.from \in 0..ChainHead + 1
    BY <1>1, <1>2, <1>3 DEF ScanIsSafe
  <2> QED
    BY <2>1, CoveredStays
<1>4. ASSUME pc \in {"handle", "create"} PROVE Fetched(x.from, x.to, q)'
  <2>1. x.to \in Block /\ x.from \in 0..ChainHead + 1 /\ Fetched(x.from, x.to, q)
    BY <1>1, <1>2, <1>3, <1>4 DEF ScanIsSafe, Block
  <2> QED
    BY <2>1, FetchedStays
<1>5. (Fetched(scan.from, scan.to, queue)' <=> Fetched(x.from, x.to, q)')
      /\ (CoveredBefore(scan.from)' <=> CoveredBefore(x.from)')
  BY <1>1 DEF Fetched, CoveredBefore
<1> QED
  BY <1>1, <1>2, <1>3, <1>4, <1>5 DEF ScanIsSafe

-----------------------------------------------------------------------------
(* The loop. *)

LEMMA BeginSyncCovers ==
  ASSUME IndexerTyped, CoverageInv, BeginSync
  PROVE  IndexerTyped' /\ CoverageInv'
<1>1. UNCHANGED chain /\ UNCHANGED <<rows, checkpoint, memoryCheckpoint, queue, record, recorded>>
      /\ pc' = "fetch"
  BY DEF BeginSync, recordVars
<1>2. ChainHead \in Nat /\ UNCHANGED ChainHead
  BY <1>1, BoundsTyped DEF chain, ChainHead
<1>3. PICK target, last, from :
          /\ target \in Nat /\ target + Confirmations <= ChainHead
          /\ last \in {checkpoint, memoryCheckpoint}
          /\ from = IF last = NoBlock \/ last > target THEN FirstScanned(target) ELSE last + 1
          /\ from <= target
          /\ scan' = [from |-> from, to |-> 0, target |-> target, chunk |-> ChunkSize]
  <2>1. PICK lag \in 0..MaxLag, readable \in BOOLEAN :
          LET last == IF readable THEN checkpoint ELSE memoryCheckpoint
              target == ChainHead - lag - Confirmations
              from == IF last = NoBlock \/ last > target
                      THEN FirstScanned(target) ELSE last + 1
          IN  /\ ChainHead >= lag + Confirmations
              /\ from <= target
              /\ scan' = [from |-> from, to |-> 0, target |-> target, chunk |-> ChunkSize]
    BY DEF BeginSync
  <2>2. ChainHead - lag - Confirmations \in Nat
        /\ ChainHead - lag - Confirmations + Confirmations <= ChainHead
    BY <1>2, <2>1, IndexerAssumption
  <2> QED
    BY <2>1, <2>2
<1>4. SafeCheckpoint(last)
  BY <1>3 DEF CoverageInv, CheckpointsAreSafe
<1>5. from \in Nat /\ CoveredBefore(from)
  <2>1. CASE last = NoBlock \/ last > target
    <3>1. from = FirstScanned(target) /\ from \in Nat
      BY <1>3, <2>1, Assumed DEF FirstScanned
    <3>2. FromBlock # NoBlock => from = FromBlock /\ Before(from) \in Nat
      <4>1. from \in 0..ChainHead + 1
        BY <1>2, <1>3, <3>1, Assumed
      <4> QED
        BY <3>1, <4>1, BoundsTyped DEF FirstScanned
    <3> QED
      BY <3>1, <3>2 DEF CoveredBefore
  <2>2. CASE ~(last = NoBlock \/ last > target)
    BY <1>2, <1>3, <1>4, <2>2 DEF SafeCheckpoint, Block
  <2> QED
    BY <2>1, <2>2
<1>6. IndexerTyped'
  BY <1>1, <1>3, <1>5, Assumed DEF IndexerTyped, chain
<1>7. CheckpointsAreSafe'
  BY <1>1 DEF CoverageInv, CheckpointsAreSafe, SafeCheckpoint, CoveredBefore, Before, Until,
              Handled, Filed, chain, ChainHead, Block
<1>8. ScanIsSafe'
  <2>1. CoveredBefore(from)'
    BY <1>1, <1>5 DEF CoveredBefore, Before, Until, Handled, Filed, chain
  <2>2. scan'.from = from /\ scan'.target = target
    BY <1>3
  <2>3. CoveredBefore(scan.from)'
    BY <2>1, <2>2 DEF CoveredBefore
  <2> QED
    BY <1>1, <1>2, <1>3, <2>2, <2>3 DEF ScanIsSafe
<1> QED
  BY <1>6, <1>7, <1>8 DEF CoverageInv

\* Nothing but the pass moves.
LEMMA ScanMoves ==
  ASSUME IndexerTyped, CoverageInv, UNCHANGED <<chain, rows, checkpoint, memoryCheckpoint>>
  PROVE  /\ CheckpointsAreSafe' /\ UNCHANGED ChainHead /\ ChainHead \in Nat
         /\ \A b : CoveredBefore(b)' <=> CoveredBefore(b)
         /\ \A from, to, todo : Fetched(from, to, todo)' <=> Fetched(from, to, todo)
  BY BoundsTyped
  DEF CoverageInv, CheckpointsAreSafe, SafeCheckpoint, CoveredBefore, Fetched, Before, Until,
      Handled, Filed, chain, ChainHead, Block

LEMMA FetchLogsCovers ==
  ASSUME IndexerTyped, CoverageInv, FetchLogs
  PROVE  IndexerTyped' /\ CoverageInv'
<1>1. UNCHANGED <<chain, rows, checkpoint, memoryCheckpoint>> /\ UNCHANGED <<record, recorded>>
      /\ pc = "fetch"
  BY DEF FetchLogs, recordVars
<1>2. PICK x \in [from : Nat, to : Nat, target : Nat, chunk : Nat \ {0}] : x = scan
  BY DEF IndexerTyped
<1>3. /\ CheckpointsAreSafe' /\ UNCHANGED ChainHead /\ ChainHead \in Nat
      /\ CoveredBefore(x.from)' /\ x.from <= x.target /\ x.target + Confirmations <= ChainHead
      /\ \A to, todo : Fetched(x.from, to, todo)' <=> Fetched(x.from, to, todo)
  BY <1>1, <1>2, ScanMoves DEF CoverageInv, ScanIsSafe
<1>4. PICK last \in Nat : last = LastOfChunk /\ x.from <= last /\ last <= x.target
  BY <1>2, <1>3 DEF LastOfChunk
<1>5. Confirmations \in Nat /\ RpcLimit \in Nat \ {0}
  BY Assumed
<1>6. CASE last - x.from + 1 > RpcLimit
  <2>1. PICK half \in Nat \ {0} : half = x.chunk \div 2
    <3>1. last - x.from + 1 <= x.chunk
      BY <1>2, <1>4 DEF LastOfChunk
    <3>2. x.chunk \in Nat /\ x.chunk >= 2
      BY <1>2, <1>4, <1>5, <1>6, <3>1
    <3> QED
      BY <3>2
  <2>2. scan' = [x EXCEPT !.chunk = half] /\ UNCHANGED <<pc, queue>>
    BY <1>2, <1>4, <1>6, <2>1 DEF FetchLogs
  <2>3. IndexerTyped'
    BY <1>1, <2>2 DEF IndexerTyped, chain
  <2>4. scan'.from = x.from /\ scan'.target = x.target
    BY <2>2
  <2>5. CoveredBefore(scan.from)'
    BY <1>3, <2>4 DEF CoveredBefore
  <2> QED
    BY <1>1, <1>3, <2>2, <2>3, <2>4, <2>5 DEF CoverageInv, ScanIsSafe
<1>7. CASE ~(last - x.from + 1 > RpcLimit)
  <2>1. /\ scan' = [x EXCEPT !.to = last] /\ queue' = EventsIn(x.from, last)
        /\ pc' = "handle"
    BY <1>2, <1>4, <1>7 DEF FetchLogs
  <2>2. x.from \in 0..ChainHead + 1 /\ last \in Block
    BY <1>3, <1>4, <1>5 DEF Block
  <2>3. PICK q \in Seq(Event) : q = EventsIn(x.from, last)
    BY <2>2, EventsInFacts
  <2>4. Fetched(x.from, last, q)
    BY <2>2, <2>3, EventsInFacts DEF Fetched
  <2>5. IndexerTyped'
    BY <1>1, <2>1, <2>3 DEF IndexerTyped, chain
  <2>6. scan'.from = x.from /\ scan'.target = x.target /\ scan'.to = last
    BY <2>1
  <2>7. CoveredBefore(scan.from)' /\ Fetched(scan.from, scan.to, queue)'
    <3>1. Fetched(x.from, last, q)'
      BY <1>3, <2>4
    <3> QED
      BY <1>3, <2>1, <2>3, <2>6, <3>1 DEF CoveredBefore, Fetched
  <2> QED
    BY <1>1, <1>3, <1>4, <2>1, <2>5, <2>6, <2>7 DEF CoverageInv, ScanIsSafe
<1> QED
  BY <1>6, <1>7

\* What is done with may leave the queue.
LEMMA HeadDone ==
  ASSUME NEW from, NEW to, NEW q \in Seq(Event), q # << >>, Fetched(from, to, q),
         Handled(Head(q))
  PROVE  Fetched(from, to, Tail(q))
<1> SUFFICES ASSUME NEW i \in Before(from) + 1 .. Until(to), ~Handled(emitted[i])
             PROVE  \E j \in DOMAIN Tail(q) : Tail(q)[j] = emitted[i]
  BY DEF Fetched
<1>1. PICK j \in DOMAIN q : q[j] = emitted[i]
  BY DEF Fetched
<1>2. j # 1
  BY <1>1
<1>3. j - 1 \in DOMAIN Tail(q) /\ Tail(q)[j - 1] = q[j]
  BY <1>1, <1>2
<1> QED
  BY <1>1, <1>3

LEMMA HandleEventCovers ==
  ASSUME IndexerTyped, CoverageInv, HandleEvent
  PROVE  IndexerTyped' /\ CoverageInv'
<1>1. /\ UNCHANGED <<chain, rows, checkpoint, memoryCheckpoint>>
      /\ UNCHANGED <<record, recorded, scan>> /\ pc = "handle" /\ queue # << >>
  BY DEF HandleEvent, recordVars
<1>2. PICK q \in Seq(Event) : q = queue
  BY DEF IndexerTyped
<1>3. /\ CheckpointsAreSafe' /\ UNCHANGED ChainHead
      /\ CoveredBefore(scan.from)' /\ Fetched(scan.from, scan.to, q)
  <2>1. CoveredBefore(scan.from) /\ Fetched(scan.from, scan.to, q)
    BY <1>1, <1>2 DEF CoverageInv, ScanIsSafe
  <2>2. CoveredBefore(scan.from)'
    BY <1>1, <2>1 DEF CoveredBefore, Before, Until, Handled, Filed, chain
  <2>3. CheckpointsAreSafe' /\ UNCHANGED ChainHead
    BY <1>1, ScanMoves
  <2> QED
    BY <2>1, <2>2, <2>3
<1>4. PICK rest \in Seq(Event) : rest = Tail(q)
  <2>1. q # << >>
    BY <1>1, <1>2
  <2>2. Tail(q) \in Seq(Event)
    BY <2>1
  <2> QED
    BY <2>2
<1>5. CASE pc' = "create" /\ UNCHANGED queue /\ Head(q).type # Unmapped
  <2>1. IndexerTyped'
    BY <1>1, <1>5 DEF IndexerTyped, chain
  <2>2. Fetched(scan.from, scan.to, queue)'
    BY <1>1, <1>2, <1>3, <1>5 DEF Fetched, Before, Until, chain, Handled, Filed
  <2> QED
    BY <1>1, <1>2, <1>3, <1>5, <2>1, <2>2 DEF CoverageInv, ScanIsSafe
<1>6. CASE pc' = pc /\ queue' = rest /\ Handled(Head(q))
  <2>1. Fetched(scan.from, scan.to, rest)
    BY <1>1, <1>2, <1>3, <1>4, <1>6, HeadDone
  <2>2. IndexerTyped'
    BY <1>1, <1>6 DEF IndexerTyped, chain
  <2>3. Fetched(scan.from, scan.to, queue)'
    BY <1>1, <1>6, <2>1 DEF Fetched, Before, Until, chain, Handled, Filed
  <2> QED
    BY <1>1, <1>3, <1>6, <2>2, <2>3 DEF CoverageInv, ScanIsSafe
<1> QED
  BY <1>2, <1>4, <1>5, <1>6 DEF HandleEvent, Unfiled, Handled

LEMMA CreateRowCovers ==
  ASSUME IndexerTyped, CoverageInv, CreateRow
  PROVE  /\ IndexerTyped' /\ CoverageInv'
         /\ Head(queue) \in Row /\ AddRow(Head(queue)) /\ UNCHANGED <<record, recorded>>
<1>1. PICK q \in Seq(Event), rest \in Seq(Event), e \in Row :
          q = queue /\ q # << >> /\ rest = Tail(q) /\ e = Head(q)
  <2>1. queue \in Seq(Event) /\ queue # << >> /\ Head(queue).type # Unmapped
    BY DEF CreateRow, CoverageInv, ScanIsSafe, IndexerTyped
  <2>2. Tail(queue) \in Seq(Event) /\ Head(queue) \in Event
    BY <2>1
  <2>3. Head(queue) \in Row
    BY <2>1, <2>2 DEF Event, Row
  <2> QED
    BY <2>1, <2>2, <2>3
<1>2. /\ pc = "create" /\ pc' = "handle" /\ queue' = rest /\ AddRow(e)
      /\ UNCHANGED <<chain, checkpoint, memoryCheckpoint, scan>> /\ UNCHANGED <<record, recorded>>
  BY <1>1 DEF CreateRow, recordVars
<1>3. rows' \in [Tx \X Type -> Nat] /\ HandledStay /\ Handled(e)'
  BY <1>1, <1>2, AddRowFacts DEF Handled
<1>4. ChainExtends /\ ChainHead' \in Nat /\ ChainHead \in Nat /\ UNCHANGED ChainHead
  BY <1>2, SameChain, BoundsTyped DEF chain, ChainHead
<1>5. IndexerTyped'
  BY <1>2, <1>3 DEF IndexerTyped, chain
<1>6. CheckpointsAreSafe'
  <2>1. SafeCheckpoint(checkpoint) /\ SafeCheckpoint(memoryCheckpoint)
    BY DEF CoverageInv, CheckpointsAreSafe
  <2>2. \A c : SafeCheckpoint(c) => SafeCheckpoint(c)'
    BY <1>3, <1>4, CheckpointStays
  <2>3. PICK a, b : a = checkpoint /\ b = memoryCheckpoint
    OBVIOUS
  <2>4. SafeCheckpoint(a)' /\ SafeCheckpoint(b)'
    BY <2>1, <2>2, <2>3
  <2>5. a = checkpoint' /\ b = memoryCheckpoint'
    BY <1>2, <2>3
  <2> QED
    BY <2>4, <2>5 DEF CheckpointsAreSafe, SafeCheckpoint
<1>7. ScanIsSafe'
  <2>1. PICK x \in [from : Nat, to : Nat, target : Nat, chunk : Nat \ {0}] : x = scan
    BY DEF IndexerTyped
  <2>2. /\ x.from <= x.to /\ x.to <= x.target /\ x.from <= x.target
        /\ x.target + Confirmations <= ChainHead
        /\ CoveredBefore(x.from) /\ Fetched(x.from, x.to, q)
    BY <1>1, <1>2, <2>1 DEF CoverageInv, ScanIsSafe
  <2>3. x.from \in 0..ChainHead + 1 /\ x.to \in Block
    BY <1>4, <2>1, <2>2, Assumed DEF Block
  <2>4. CoveredBefore(x.from)' /\ Fetched(x.from, x.to, q)'
    BY <1>3, <1>4, <2>2, <2>3, CoveredStays, FetchedStays
  <2>5. Fetched(x.from, x.to, rest)'
    <3> SUFFICES ASSUME NEW i \in (Before(x.from) + 1 .. Until(x.to))', ~Handled(emitted[i])'
                 PROVE  \E j \in DOMAIN rest : rest[j] = emitted'[i]
      BY DEF Fetched
    <3>1. PICK j \in DOMAIN q : q[j] = emitted'[i]
      BY <2>4 DEF Fetched
    <3>2. ASSUME j = 1 PROVE FALSE
      <4>1. emitted'[i] = e
        BY <1>1, <3>1, <3>2
      <4> QED
        BY <1>3, <4>1 DEF Handled, Filed
    <3>3. j - 1 \in DOMAIN rest /\ rest[j - 1] = q[j]
      BY <1>1, <3>1, <3>2
    <3> QED
      BY <3>1, <3>3
  <2>6. scan' = x /\ queue' = rest
    BY <1>2, <2>1
  <2>7. CoveredBefore(scan.from)' /\ Fetched(scan.from, scan.to, queue)'
    BY <2>4, <2>5, <2>6 DEF CoveredBefore, Fetched
  <2> QED
    BY <1>2, <1>4, <2>2, <2>6, <2>7 DEF ScanIsSafe
<1> QED
  BY <1>1, <1>2, <1>5, <1>6, <1>7 DEF CoverageInv

LEMMA SaveCheckpointCovers ==
  ASSUME IndexerTyped, CoverageInv, SaveCheckpoint
  PROVE  IndexerTyped' /\ CoverageInv'
<1>1. /\ UNCHANGED <<chain, rows>> /\ UNCHANGED <<record, recorded>>
      /\ pc = "handle" /\ queue = << >>
  BY DEF SaveCheckpoint, recordVars
<1>2. PICK x \in [from : Nat, to : Nat, target : Nat, chunk : Nat \ {0}] : x = scan
  BY DEF IndexerTyped
<1>3. /\ x.from <= x.to /\ x.to <= x.target /\ x.from <= x.target
      /\ x.target + Confirmations <= ChainHead
      /\ CoveredBefore(x.from) /\ Fetched(x.from, x.to, << >>)
  BY <1>1, <1>2 DEF CoverageInv, ScanIsSafe
<1>4. ChainHead \in Nat /\ UNCHANGED ChainHead /\ Confirmations \in Nat
  BY <1>1, BoundsTyped, Assumed DEF chain, ChainHead
<1>5. CoveredBefore(x.to + 1)
  <2> SUFFICES ASSUME FromBlock # NoBlock PROVE CoveredBefore(x.to + 1)
    BY DEF CoveredBefore
  <2>1. /\ Before(x.to + 1) = Until(x.to) /\ Before(x.from) \in Nat /\ Until(x.to) \in Nat
        /\ Before(FromBlock) \in Nat
    <3>1. x.from \in 0..ChainHead + 1 /\ x.to \in Block /\ FromBlock \in 0..ChainHead + 1
      BY <1>3, <1>4, Assumed DEF Block, CoveredBefore
    <3>2. /\ Before(x.from) \in 0..Len(emitted) /\ Before(FromBlock) \in 0..Len(emitted)
          /\ Until(x.to) \in 0..Len(emitted) /\ Len(emitted) \in Nat
      BY <3>1, BoundsTyped
    <3>3. Before(x.to + 1) = Until(x.to)
      BY BoundsTyped
    <3> QED
      BY <3>2, <3>3
  <2>2. \A i \in Before(FromBlock) + 1 .. Before(x.to + 1) :
            i \in Before(FromBlock) + 1 .. Before(x.from) \/ i \in Before(x.from) + 1 .. Until(x.to)
    BY <2>1
  <2>3. \A i \in Before(x.from) + 1 .. Until(x.to) : Handled(emitted[i])
    BY <1>3 DEF Fetched
  <2>4. FromBlock <= x.to + 1
    BY <1>3, Assumed DEF CoveredBefore
  <2> QED
    BY <1>3, <2>2, <2>3, <2>4 DEF CoveredBefore
<1>6. SafeCheckpoint(x.to)' /\ CoveredBefore(x.to + 1)'
  <2>1. SafeCheckpoint(x.to)
    BY <1>3, <1>4, <1>5 DEF SafeCheckpoint, Block
  <2> QED
    BY <1>1, <1>5, <2>1 DEF SafeCheckpoint, Block, CoveredBefore, Before, Until, Handled, Filed,
                            chain, ChainHead
<1>7. CheckpointsAreSafe'
  <2>1. memoryCheckpoint' = x.to /\ (checkpoint' = x.to \/ UNCHANGED checkpoint)
    BY <1>2 DEF SaveCheckpoint, SavedBlock
  <2>2. checkpoint' = checkpoint => SafeCheckpoint(checkpoint)'
    BY <1>1 DEF CoverageInv, CheckpointsAreSafe, SafeCheckpoint, Block, CoveredBefore, Before,
                Until, Handled, Filed, chain, ChainHead
  <2>3. \A c : c = x.to => SafeCheckpoint(c)'
    BY <1>6
  <2>4. SafeCheckpoint(memoryCheckpoint)' /\ (checkpoint' = x.to => SafeCheckpoint(checkpoint)')
    BY <1>6, <2>1 DEF SafeCheckpoint
  <2> QED
    BY <2>1, <2>2, <2>4 DEF CheckpointsAreSafe
<1>8. CASE x.to < x.target /\ pc' = "fetch" /\ scan' = [scan EXCEPT !.from = scan.to + 1]
           /\ UNCHANGED queue
  <2>1. PICK next \in Nat : next = x.to + 1 /\ next <= x.target
    BY <1>8
  <2>2. scan' = [x EXCEPT !.from = next]
    BY <1>2, <1>8, <2>1
  <2>3. IndexerTyped'
    BY <1>1, <1>8, <2>2 DEF IndexerTyped, chain
  <2>4. scan'.from = next /\ scan'.target = x.target
    BY <2>2
  <2>5. CoveredBefore(scan.from)'
    BY <1>6, <2>1, <2>4 DEF CoveredBefore
  <2> QED
    BY <1>3, <1>4, <1>7, <1>8, <2>1, <2>3, <2>4, <2>5 DEF CoverageInv, ScanIsSafe
<1>9. CASE Idle
  <2>1. IndexerTyped'
    BY <1>1, <1>9, Assumed DEF IndexerTyped, chain, Idle, NoScan
  <2> QED
    BY <1>7, <1>9, <2>1 DEF CoverageInv, ScanIsSafe, Idle
<1> QED
  BY <1>2, <1>8, <1>9 DEF SaveCheckpoint

\* The other steps leave the pass alone, or end it.
LEMMA OthersCover ==
  ASSUME IndexerTyped, IndexerTyped', CoverageInv, ChainExtends, HandledStay,
         UNCHANGED checkpoint,
         memoryCheckpoint' = memoryCheckpoint \/ memoryCheckpoint' = NoBlock,
         UNCHANGED <<pc, scan, queue>> \/ pc' = "idle"
  PROVE  CoverageInv'
<1>1. ChainHead' \in Nat
  BY DEF IndexerTyped, ChainHead
<1>2. CheckpointsAreSafe'
  <2>1. \A c : SafeCheckpoint(c) => SafeCheckpoint(c)'
    BY <1>1, CheckpointStays
  <2>2. PICK a, b : a = checkpoint /\ b = memoryCheckpoint
    OBVIOUS
  <2>3. SafeCheckpoint(a)' /\ SafeCheckpoint(b)' /\ SafeCheckpoint(NoBlock)'
    BY <2>1, <2>2 DEF CoverageInv, CheckpointsAreSafe, SafeCheckpoint
  <2>4. a = checkpoint' /\ (memoryCheckpoint' = b \/ memoryCheckpoint' = NoBlock)
    BY <2>2
  <2> QED
    BY <2>3, <2>4 DEF CheckpointsAreSafe, SafeCheckpoint
<1>3. ScanIsSafe'
  BY <1>1, ScanStays DEF ScanIsSafe, CoverageInv
<1> QED
  BY <1>2, <1>3 DEF CoverageInv

LEMMA SameRows ==
  ASSUME UNCHANGED rows
  PROVE  HandledStay
  BY DEF HandledStay, Handled, Filed

LEMMA EndsCover ==
  ASSUME IndexerTyped, CoverageInv, SyncFails \/ Crash
  PROVE  IndexerTyped' /\ CoverageInv'
<1>1. /\ UNCHANGED <<chain, rows, checkpoint>> /\ pc' = "idle" /\ queue' = << >> /\ scan' = NoScan
      /\ UNCHANGED recorded
      /\ memoryCheckpoint' = memoryCheckpoint \/ memoryCheckpoint' = NoBlock
      /\ record' = record \/ record' = [h \in Recorder |-> NoEvent]
  BY DEF SyncFails, Crash, Idle, recordVars
<1>2. IndexerTyped'
  BY <1>1, Assumed DEF IndexerTyped, chain, NoScan
<1> QED
  BY <1>1, <1>2, OthersCover, SameChain, SameRows

LEMMA RecordTyped ==
  ASSUME IndexerTyped, NEW h \in Recorder, RecordFind(h) \/ RecordCreate(h)
  PROVE  IndexerTyped' /\ HandledStay /\ ChainExtends
<1>1. CASE RecordFind(h)
  <2>1. PICK e \in Row : /\ recorded' = recorded \cup {e}
                         /\ record' = record \/ record' = [record EXCEPT ![h] = e]
    BY <1>1 DEF RecordFind
  <2>2. recorded' \subseteq Row /\ IsFiniteSet(recorded')
    BY <2>1, FS_AddElement DEF IndexerTyped
  <2>3. UNCHANGED <<chain, rows, loopVars>>
    BY <1>1 DEF RecordFind
  <2> QED
    BY <2>1, <2>2, <2>3, SameChain, SameRows DEF IndexerTyped, chain, loopVars
<1>2. CASE RecordCreate(h)
  <2>1. PICK e \in Row : e = record[h]
    BY <1>2 DEF RecordCreate, IndexerTyped
  <2>2. /\ AddRow(e) /\ record' = [record EXCEPT ![h] = NoEvent]
        /\ UNCHANGED <<chain, loopVars, recorded>>
    BY <1>2, <2>1 DEF RecordCreate
  <2>3. rows' \in [Tx \X Type -> Nat] /\ HandledStay
    BY <2>2, AddRowFacts
  <2> QED
    BY <2>2, <2>3, SameChain DEF IndexerTyped, chain, loopVars
<1> QED
  BY <1>1, <1>2

LEMMA RecordCovers ==
  ASSUME IndexerTyped, CoverageInv, NEW h \in Recorder, RecordFind(h) \/ RecordCreate(h)
  PROVE  IndexerTyped' /\ CoverageInv'
<1>1. UNCHANGED <<checkpoint, loopVars>>
  BY DEF RecordFind, RecordCreate
<1> QED
  BY <1>1, RecordTyped, OthersCover DEF loopVars

LEMMA MineBlockCovers ==
  ASSUME IndexerTyped, CoverageInv, MineBlock
  PROVE  IndexerTyped' /\ CoverageInv'
<1>1. UNCHANGED <<checkpoint, loopVars>>
  BY DEF MineBlock
<1> QED
  BY <1>1, MineBlockExtends, OthersCover DEF loopVars

LEMMA CoverageStep ==
  ASSUME IndexerTyped, CoverageInv, [Next]_vars
  PROVE  IndexerTyped' /\ CoverageInv'
<1>1. CASE UNCHANGED vars
  <2>1. UNCHANGED <<chain, rows, checkpoint, memoryCheckpoint, pc, scan, queue, record, recorded>>
    BY <1>1 DEF vars, loopVars, recordVars
  <2>2. IndexerTyped'
    BY <2>1 DEF IndexerTyped, chain
  <2> QED
    BY <2>1, <2>2, OthersCover, SameChain, SameRows
<1>2. CASE Next
  BY <1>2, BeginSyncCovers, FetchLogsCovers, HandleEventCovers, CreateRowCovers,
     SaveCheckpointCovers, EndsCover, RecordCovers, MineBlockCovers DEF Next, SyncStep
<1> QED
  BY <1>1, <1>2

-----------------------------------------------------------------------------
(* How many rows there are. *)

LEMMA SettledFacts ==
  ASSUME IndexerTyped, NEW t, NEW y
  PROVE  /\ IsFiniteSet(Settled(t, y)) /\ Cardinality(Settled(t, y)) \in Nat
         /\ Settled(t, y) \subseteq {e \in recorded : e.tx = t /\ e.type = y}
         /\ IsFiniteSet({e \in recorded : e.tx = t /\ e.type = y})
<1>1. /\ IsFiniteSet(recorded) /\ Settled(t, y) \subseteq recorded
      /\ {e \in recorded : e.tx = t /\ e.type = y} \subseteq recorded
  BY DEF IndexerTyped, Settled
<1>2. /\ IsFiniteSet(Settled(t, y)) /\ IsFiniteSet({e \in recorded : e.tx = t /\ e.type = y})
  BY <1>1, FS_Subset
<1> QED
  BY <1>2, FS_CardinalityType DEF Settled

\* More is recorded, and nothing that was settled is taken up again.
LEMMA SettledGrows ==
  ASSUME IndexerTyped, IndexerTyped', recorded \subseteq recorded',
         \A e \in recorded, h \in Recorder : record'[h] = e => record[h] = e
  PROVE  \A t \in Tx, y \in Type : Cardinality(Settled(t, y)) <= Cardinality(Settled(t, y)')
<1> TAKE t \in Tx, y \in Type
<1>1. Settled(t, y) \subseteq Settled(t, y)'
  BY DEF Settled
<1>2. IsFiniteSet(Settled(t, y)')
  BY FS_Subset DEF IndexerTyped, Settled
<1> QED
  BY <1>1, <1>2, FS_Subset

\* The loop or nobody is about to file a row of a transaction and type.
Creating(t, y) == pc = "create" /\ Head(queue).tx = t /\ Head(queue).type = y

\* A step that files nothing.
LEMMA NoRowFiled ==
  ASSUME IndexerTyped, IndexerTyped', CountInv, UNCHANGED rows, recorded \subseteq recorded',
         \A e \in recorded, h \in Recorder : record'[h] = e => record[h] = e,
         \A t \in Tx, y \in Type : Creating(t, y)' => Creating(t, y) \/ rows[<<t, y>>] = 0
  PROVE  RowsAreCounted'
<1> SUFFICES ASSUME NEW t \in Tx, NEW y \in Type
             PROVE  /\ rows'[<<t, y>>] <= 1 + Cardinality(Settled(t, y)')
                    /\ Creating(t, y)' => rows'[<<t, y>>] <= Cardinality(Settled(t, y)')
  BY DEF RowsAreCounted, Creating
<1>1. PICK a \in Nat, b \in Nat, r \in Nat :
          /\ a = Cardinality(Settled(t, y)) /\ b = Cardinality(Settled(t, y)')
          /\ a <= b /\ r = rows[<<t, y>>]
  <2>1. IsFiniteSet(Settled(t, y)')
    BY FS_Subset DEF IndexerTyped, Settled
  <2>2. rows[<<t, y>>] \in Nat
    BY DEF IndexerTyped
  <2> QED
    BY <2>1, <2>2, SettledGrows, SettledFacts, FS_CardinalityType
<1>2. r <= 1 + a /\ (Creating(t, y) => r <= a)
  BY <1>1 DEF CountInv, RowsAreCounted, Creating
<1> QED
  BY <1>1, <1>2

LEMMA LoopCounts ==
  ASSUME IndexerTyped, IndexerTyped', CoverageInv, CountInv,
         BeginSync \/ FetchLogs \/ HandleEvent \/ SaveCheckpoint \/ SyncFails \/ MineBlock
  PROVE  CountInv'
<1>1. UNCHANGED <<record, recorded, rows>>
  BY DEF BeginSync, FetchLogs, HandleEvent, SaveCheckpoint, SyncFails, MineBlock, recordVars
<1>2. RecordsDiffer'
  BY <1>1 DEF CountInv, RecordsDiffer
<1>3. ASSUME NEW t \in Tx, NEW y \in Type, Creating(t, y)', ~Creating(t, y)
      PROVE  rows[<<t, y>>] = 0
  <2>1. HandleEvent /\ pc' = "create" /\ UNCHANGED queue /\ Unfiled(Head(queue))
    BY <1>3 DEF Creating, BeginSync, FetchLogs, HandleEvent, SaveCheckpoint, SyncFails, MineBlock,
                Idle, loopVars
  <2>2. Head(queue).tx = t /\ Head(queue).type = y
    BY <1>3, <2>1 DEF Creating
  <2>3. rows[<<t, y>>] \in Nat
    BY DEF IndexerTyped
  <2> QED
    BY <2>1, <2>2, <2>3 DEF Unfiled, Filed
<1>4. RowsAreCounted'
  BY <1>1, <1>3, NoRowFiled
<1> QED
  BY <1>2, <1>4 DEF CountInv

LEMMA CrashCounts ==
  ASSUME IndexerTyped, IndexerTyped', CountInv, Crash
  PROVE  CountInv'
<1>1. /\ record' = [h \in Recorder |-> NoEvent] /\ pc' = "idle" /\ UNCHANGED <<rows, recorded>>
      /\ NoEvent \notin recorded
  BY Assumed DEF Crash, Idle, IndexerTyped
<1>2. RecordsDiffer'
  BY <1>1 DEF RecordsDiffer
<1>3. RowsAreCounted'
  BY <1>1, NoRowFiled DEF Creating
<1> QED
  BY <1>2, <1>3 DEF CountInv

LEMMA CreateRowCounts ==
  ASSUME IndexerTyped, IndexerTyped', CoverageInv, CountInv, CreateRow
  PROVE  CountInv'
<1>1. PICK e \in Row : e = Head(queue) /\ AddRow(e)
  BY CreateRowCovers
<1>2. pc = "create" /\ pc' = "handle" /\ UNCHANGED <<record, recorded>>
  BY DEF CreateRow, recordVars
<1>3. RecordsDiffer'
  BY <1>2 DEF CountInv, RecordsDiffer
<1>4. ASSUME NEW t \in Tx, NEW y \in Type
      PROVE  rows'[<<t, y>>] <= 1 + Cardinality(Settled(t, y)')
  <2>1. PICK a \in Nat, r \in Nat : a = Cardinality(Settled(t, y)) /\ r = rows[<<t, y>>]
    BY SettledFacts DEF IndexerTyped
  <2>2. Settled(t, y)' = Settled(t, y)
    BY <1>2 DEF Settled
  <2>3. r <= 1 + a /\ (e.tx = t /\ e.type = y => r <= a)
    BY <1>1, <1>2, <2>1 DEF CountInv, RowsAreCounted
  <2>4. rows'[<<t, y>>] = IF e.tx = t /\ e.type = y THEN r + 1 ELSE r
    BY <1>1, <2>1, AddRowFacts
  <2> QED
    BY <2>1, <2>2, <2>3, <2>4
<1> QED
  BY <1>2, <1>3, <1>4 DEF CountInv, RowsAreCounted

LEMMA RecordFindCounts ==
  ASSUME IndexerTyped, IndexerTyped', CountInv, NEW h \in Recorder, RecordFind(h)
  PROVE  CountInv'
<1>1. PICK e \in Row :
          /\ e \notin recorded /\ recorded' = recorded \cup {e}
          /\ record' = record \/ record' = [record EXCEPT ![h] = e]
  BY DEF RecordFind
<1>2. UNCHANGED <<rows, pc, queue>> /\ record[h] = NoEvent /\ record \in [Recorder -> Row \cup {NoEvent}]
  BY DEF RecordFind, loopVars, IndexerTyped
<1>3. \A f \in recorded, g \in Recorder : record'[g] = f => record[g] = f
  BY <1>1, <1>2
<1>4. RecordsDiffer'
  BY <1>1, <1>2 DEF CountInv, RecordsDiffer
<1>5. RowsAreCounted'
  BY <1>1, <1>2, <1>3, NoRowFiled DEF Creating
<1> QED
  BY <1>4, <1>5 DEF CountInv

LEMMA RecordCreateCounts ==
  ASSUME IndexerTyped, IndexerTyped', CountInv, NEW h \in Recorder, RecordCreate(h)
  PROVE  CountInv'
<1>1. PICK e \in Row : e = record[h] /\ e \in recorded /\ AddRow(e)
  BY DEF RecordCreate, IndexerTyped, CountInv, RecordsDiffer
<1>2. /\ UNCHANGED <<recorded, pc, queue>> /\ record' = [record EXCEPT ![h] = NoEvent]
      /\ record \in [Recorder -> Row \cup {NoEvent}] /\ NoEvent \notin recorded /\ e # NoEvent
  BY <1>1, Assumed DEF RecordCreate, loopVars, IndexerTyped
<1>3. RecordsDiffer'
  BY <1>2 DEF CountInv, RecordsDiffer
<1>4. \A g \in Recorder : record'[g] # e
  BY <1>1, <1>2 DEF CountInv, RecordsDiffer
<1>5. ASSUME NEW t \in Tx, NEW y \in Type
      PROVE  /\ rows'[<<t, y>>] <= 1 + Cardinality(Settled(t, y)')
             /\ Creating(t, y) => rows'[<<t, y>>] <= Cardinality(Settled(t, y)')
  <2>1. PICK a \in Nat, b \in Nat, r \in Nat :
            a = Cardinality(Settled(t, y)) /\ b = Cardinality(Settled(t, y)') /\ r = rows[<<t, y>>]
    <3>1. IsFiniteSet(Settled(t, y)')
      BY FS_Subset DEF IndexerTyped, Settled
    <3> QED
      BY <3>1, SettledFacts, FS_CardinalityType DEF IndexerTyped
  <2>2. r <= 1 + a /\ (Creating(t, y) => r <= a)
    BY <2>1 DEF CountInv, RowsAreCounted, Creating
  <2>3. \A f \in recorded, g \in Recorder : record'[g] = f => record[g] = f
    BY <1>2
  <2>4. a <= b
    BY <1>2, <2>1, <2>3, SettledGrows
  <2>5. CASE ~(e.tx = t /\ e.type = y)
    <3>1. rows'[<<t, y>>] = r
      BY <1>1, <2>1, <2>5, AddRowFacts
    <3> QED
      BY <2>1, <2>2, <2>4, <3>1
  <2>6. CASE e.tx = t /\ e.type = y
    <3>1. rows'[<<t, y>>] = r + 1
      BY <1>1, <2>1, <2>6, AddRowFacts
    <3>2. Settled(t, y) \cup {e} \subseteq Settled(t, y)' /\ e \notin Settled(t, y)
      BY <1>1, <1>2, <1>4, <2>3, <2>6 DEF Settled
    <3>3. IsFiniteSet(Settled(t, y)) /\ IsFiniteSet(Settled(t, y)')
      BY FS_Subset DEF IndexerTyped, Settled
    <3>4. Cardinality(Settled(t, y) \cup {e}) = a + 1 /\ IsFiniteSet(Settled(t, y) \cup {e})
      BY <2>1, <3>2, <3>3, FS_AddElement
    <3>5. a + 1 <= b
      BY <2>1, <3>2, <3>3, <3>4, FS_Subset
    <3> QED
      BY <2>1, <2>2, <3>1, <3>5
  <2> QED
    BY <2>5, <2>6
<1>6. RowsAreCounted'
  BY <1>2, <1>5 DEF RowsAreCounted, Creating
<1> QED
  BY <1>3, <1>6 DEF CountInv

LEMMA CountStep ==
  ASSUME IndexerTyped, IndexerTyped', CoverageInv, CountInv, [Next]_vars
  PROVE  CountInv'
<1>1. CASE UNCHANGED vars
  BY <1>1 DEF vars, loopVars, recordVars, CountInv, RecordsDiffer, RowsAreCounted, Settled
<1>2. CASE Next
  BY <1>2, LoopCounts, CrashCounts, CreateRowCounts, RecordFindCounts, RecordCreateCounts
  DEF Next, SyncStep
<1> QED
  BY <1>1, <1>2

-----------------------------------------------------------------------------

LEMMA InitHolds == Init => IndexerInv
<1> SUFFICES ASSUME Init PROVE IndexerInv
  OBVIOUS
<1>1. IndexerTyped
  <2>1. IsFiniteSet({})
    BY FS_EmptySet
  <2>2. emitted \in Seq(Event) /\ blocks \in Seq(0..Len(emitted)) /\ queue \in Seq(Event)
    BY DEF Init
  <2> QED
    BY <2>1, <2>2, Assumed DEF Init, IndexerTyped, NoScan
<1>2. CoverageInv
  BY DEF Init, CoverageInv, CheckpointsAreSafe, SafeCheckpoint, ScanIsSafe
<1>3. RecordsDiffer
  BY DEF Init, RecordsDiffer
<1>4. ASSUME NEW t \in Tx, NEW y \in Type PROVE rows[<<t, y>>] <= 1 + Cardinality(Settled(t, y))
  <2>1. PICK a \in Nat : a = Cardinality(Settled(t, y))
    BY <1>1, SettledFacts
  <2>2. rows[<<t, y>>] = 0
    BY DEF Init
  <2> QED
    BY <2>1, <2>2
<1> QED
  BY <1>1, <1>2, <1>3, <1>4 DEF IndexerInv, CountInv, RowsAreCounted, Init

\* The loop, the API's own recording and whatever crashes between them keep the
\* inductive invariant, in every reachable state.
THEOREM IndexerInvHolds == Spec => []IndexerInv
<1>1. IndexerInv /\ [Next]_vars => IndexerInv'
  BY CoverageStep, CountStep DEF IndexerInv
<1> QED
  BY <1>1, InitHolds, PTL DEF Spec

\* No event before a checkpoint, in the table or in memory, is without its row:
\* loadCheckpoint never begins a scan after something that was missed.
THEOREM CoveredUpToCheckpointHolds == Spec => []CoveredUpToCheckpoint
<1>1. IndexerInv => CoveredUpToCheckpoint
  <2> SUFFICES ASSUME IndexerInv, NEW c \in {checkpoint, memoryCheckpoint} \ {NoBlock},
                      FromBlock # NoBlock
               PROVE  \A i \in Before(FromBlock) + 1 .. Until(c) : Handled(emitted[i])
    BY DEF CoveredUpToCheckpoint, Handled
  <2>1. c \in Block /\ CoveredBefore(c + 1)
    BY DEF IndexerInv, CoverageInv, CheckpointsAreSafe, SafeCheckpoint
  <2>2. Before(c + 1) = Until(c)
    BY <2>1, BoundsTyped DEF Block, IndexerInv
  <2> QED
    BY <2>1, <2>2 DEF CoveredBefore
<1> QED
  BY <1>1, IndexerInvHolds, PTL

\* The loop files a transaction and type once, however often it reads its blocks;
\* every row beyond that is one the API recorded (upsertAuditEvent, recordEvent).
THEOREM RereadingAddsNothingHolds == Spec => []RereadingAddsNothing
<1>1. IndexerInv => RereadingAddsNothing
  <2> SUFFICES ASSUME IndexerInv, NEW t \in Tx, NEW y \in Type
               PROVE  rows[<<t, y>>] <= 1 + Cardinality({e \in recorded : e.tx = t /\ e.type = y})
    BY DEF RereadingAddsNothing
  <2>1. PICK S : S = {e \in recorded : e.tx = t /\ e.type = y}
    OBVIOUS
  <2>2. IsFiniteSet(S) /\ Settled(t, y) \subseteq S
    BY <2>1, SettledFacts DEF IndexerInv
  <2>3. Cardinality(Settled(t, y)) <= Cardinality(S) /\ Cardinality(S) \in Nat
    BY <2>2, FS_Subset, FS_CardinalityType
  <2>4. PICK a \in Nat, b \in Nat, r \in Nat :
            a = Cardinality(Settled(t, y)) /\ b = Cardinality(S) /\ r = rows[<<t, y>>]
    BY <2>3, SettledFacts DEF IndexerInv, IndexerTyped
  <2>5. r <= 1 + a
    BY <2>4 DEF IndexerInv, CountInv, RowsAreCounted
  <2> QED
    BY <2>1, <2>3, <2>4, <2>5
<1> QED
  BY <1>1, IndexerInvHolds, PTL
=============================================================================
