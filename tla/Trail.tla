------------------------------- MODULE Trail --------------------------------
(***************************************************************************)
(* The unified audit trail (audit.service.js): audit events and badge      *)
(* events, two tables, newest first, page by page.  Rows are recorded      *)
(* while somebody walks through the pages.                                 *)
(***************************************************************************)
EXTENDS Naturals, Sequences, FiniteSets

CONSTANTS
    Kind, BadgeKind,    \* event types, and those a badge event is shown as
    Filter,             \* the type filters asked for: sets of kinds, {} for none
    Reader, Walker,     \* who may be reading at once; Walker pages through all
    PageSize, MaxRows   \* rows of a page; bound on the rows recorded

ASSUME TrailAssumption ==
    /\ BadgeKind \subseteq Kind /\ Filter \subseteq SUBSET Kind
    /\ Walker \in Reader
    /\ PageSize \in Nat \ {0} /\ MaxRows \in Nat

VARIABLES
    recorded,   \* the rows of both tables, oldest first: no two have one time
    read,       \* getAuditTrail calls: what has been asked and found so far
    walk        \* how far Walker is

trailVars == <<recorded, read, walk>>

Table == {"AUDIT_EVENT", "PACS_BADGE_EVENT"}

\* The indexer files the contract's access entries as audit events as well.
TrailRow == {r \in [table : Table, kind : Kind] :
            r.table = "PACS_BADGE_EVENT" => r.kind \in BadgeKind}

\* Every table is counted and searched by two queries that run side by side.
Query == {"count", "rows"}

NotReading == [filter |-> {}, page |-> 0, left |-> {}, count |-> [t \in Table |-> 0],
               rows |-> [t \in Table |-> {}]]

NotWalking == [step |-> "idle", owed |-> {}, seen |-> {}, raced |-> FALSE]

TrailTypeOK ==
    /\ recorded \in Seq(TrailRow) /\ Len(recorded) <= MaxRows
    /\ read \in [Reader -> [filter : Filter, page : Nat, left : SUBSET (Query \X Table),
                            count : [Table -> 0..MaxRows], rows : [Table -> SUBSET (1..MaxRows)]]]
    /\ walk \in [step : {"idle", "reading", "done"}, owed : SUBSET (1..MaxRows),
                 seen : SUBSET (1..MaxRows), raced : BOOLEAN]

InitTrail ==
    /\ recorded = <<>>
    /\ read = [r \in Reader |-> NotReading]
    /\ walk = NotWalking

\* The rows of a table a type filter lets through.
Matching(filter, t) ==
    {i \in DOMAIN recorded : recorded[i].table = t /\ (filter = {} \/ recorded[i].kind \in filter)}

Newest(rows, n) == {i \in rows : Cardinality({j \in rows : j > i}) < n}

-----------------------------------------------------------------------------
(* One call of getAuditTrail.                                              *)

Idle(r) == read[r] = NotReading

\* Whether badge events are read at all.
IncludePacs(filter) == filter = {} \/ filter \cap BadgeKind # {}

Begun(filter, page) ==
    [NotReading EXCEPT !.filter = filter, !.page = page,
        !.left = Query \X (IF IncludePacs(filter) THEN Table ELSE {"AUDIT_EVENT"})]

\* Badge events are queried when both queries over the audit events have answered.
Turn(r, q, t) ==
    /\ <<q, t>> \in read[r].left
    /\ t = "PACS_BADGE_EVENT" => \A p \in Query : <<p, "AUDIT_EVENT">> \notin read[r].left

CountRows(r, t) ==
    /\ Turn(r, "count", t)
    /\ read' = [read EXCEPT ![r].left = @ \ {<<"count", t>>},
                            ![r].count[t] = Cardinality(Matching(read[r].filter, t))]
    /\ UNCHANGED <<recorded, walk>>

\* Mutant: a page's worth of either table.
TakenOfPage(page) == PageSize

\* Every table is read up to the end of the page wanted: skip + limit.
Taken(page) == page * PageSize

FindRows(r, t) ==
    /\ Turn(r, "rows", t)
    /\ read' = [read EXCEPT ![r].left = @ \ {<<"rows", t>>},
                            ![r].rows[t] = Newest(Matching(read[r].filter, t), Taken(read[r].page))]
    /\ UNCHANGED <<recorded, walk>>

Answered(r) == ~Idle(r) /\ read[r].left = {}

Unified(r) == UNION {read[r].rows[t] : t \in Table}

\* What the answer shows: the merged rows, without those of the pages before.
Events(r) ==
    LET k == read[r].page
    IN  Newest(Unified(r), k * PageSize) \ Newest(Unified(r), (k - 1) * PageSize)

Total(r) == read[r].count["AUDIT_EVENT"] + read[r].count["PACS_BADGE_EVENT"]

-----------------------------------------------------------------------------
(* A client that asks for one page after the other, and rows that arrive.  *)

StartWalk(filter) ==
    /\ walk = NotWalking /\ Idle(Walker)
    /\ read' = [read EXCEPT ![Walker] = Begun(filter, 1)]
    /\ walk' = [step |-> "reading", owed |-> UNION {Matching(filter, t) : t \in Table},
                seen |-> {}, raced |-> FALSE]
    /\ UNCHANGED recorded

\* The page is shown; the next one is asked for while there are more, by the total.
TurnPage ==
    LET k == read[Walker].page IN
    /\ walk.step = "reading" /\ Answered(Walker)
    /\ \/ /\ k * PageSize < Total(Walker)
          /\ read' = [read EXCEPT ![Walker] = Begun(read[Walker].filter, k + 1)]
          /\ walk' = [walk EXCEPT !.seen = @ \cup Events(Walker), !.raced = FALSE]
       \/ /\ k * PageSize >= Total(Walker)
          /\ read' = [read EXCEPT ![Walker] = NotReading]
          /\ walk' = [walk EXCEPT !.seen = @ \cup Events(Walker), !.step = "done"]
    /\ UNCHANGED recorded

LeaveWalk ==
    /\ walk.step = "done"
    /\ walk' = NotWalking
    /\ UNCHANGED <<recorded, read>>

\* A query fails: the call answers with an error and the walk is given up.
WalkFails ==
    /\ walk.step = "reading" /\ read[Walker].left # {}
    /\ walk' = NotWalking
    /\ read' = [read EXCEPT ![Walker] = NotReading]
    /\ UNCHANGED recorded

\* recordEvent, the indexer or a badge tap adds a row.
Record(row) ==
    /\ Len(recorded) < MaxRows
    /\ recorded' = Append(recorded, row)
    /\ walk' = [walk EXCEPT !.raced = @ \/ (walk.step = "reading" /\ read[Walker].left # {})]
    /\ UNCHANGED read

TrailNext ==
    \/ \E filter \in Filter : StartWalk(filter)
    \/ TurnPage \/ LeaveWalk \/ WalkFails
    \/ \E r \in Reader, t \in Table : CountRows(r, t) \/ FindRows(r, t)
    \/ \E row \in TrailRow : Record(row)

TrailSpec == InitTrail /\ [][TrailNext]_trailVars

-----------------------------------------------------------------------------
(* Whoever walks to the last page has been shown every row that was there  *)
(* when he began, however many were recorded meanwhile and pushed the      *)
(* others to later pages.  Only a row recorded while the last page itself  *)
(* is read may cost him one: it is counted and searched separately.        *)
NothingSkipped ==
    walk.step = "done" /\ ~walk.raced => walk.owed \subseteq walk.seen
=============================================================================
