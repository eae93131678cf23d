------------------------------- MODULE Console -------------------------------
(***************************************************************************)
(* The pages of the frontend: what a page loads, selects and changes, and  *)
(* which of the answers that come back it still shows.  One page is open;  *)
(* api.js ends every request of it, with an answer or a timeout.           *)
(***************************************************************************)
EXTENDS Naturals, Sequences

CONSTANTS
    Pick, NoPick,               \* what can be selected: rows, filters, page numbers
    Act,                        \* calls that may be under way at once
    MaxFetches, MaxWrites      \* bounds on the loads of a page and on the changes

ASSUME ConsoleAssumption ==
    NoPick \notin Pick /\ MaxFetches \in Nat \ {0} /\ MaxWrites \in Nat

VARIABLES
    page,       \* the page that is open
    picked,     \* what is selected on it
    data,       \* the server: how often what the page shows has changed
    fetches,    \* the loads the page has sent, oldest first
    view,       \* what it shows: of which selection, after how many changes
    acts,       \* its calls that change something
    settled,    \* the loads sent before the last change or selection
    acked,      \* the last change the page was told had succeeded
    overtaken   \* whether an answer was taken in after that of a later load

consoleVars == <<page, picked, data, fetches, view, acts, settled, acked, overtaken>>

-----------------------------------------------------------------------------
(* The pages, by what they guard against.                                  *)
(*   takes   - "any" answer, only that to the "last" load, or there is     *)
(*             only "one" load at a time                                   *)
(*   starts  - loads when opened, or once something is submitted           *)
(*   selects, polls, reloads after a call of its own, blanks on an error   *)
(*   waits   - selecting is disabled while something is under way          *)
(*   locks   - how much a call of its own disables: the "page", a "modal"  *)
(*             dialog over it, one "row"; "none" if it makes no calls      *)
(*   calls   - whether one click makes several calls in turn               *)

Plain == [takes |-> "any", starts |-> TRUE, selects |-> FALSE, polls |-> FALSE,
          reloads |-> FALSE, blanks |-> FALSE, waits |-> FALSE, locks |-> "none",
          calls |-> "one"]

useAssetDetail == [Plain EXCEPT !.takes = "last", !.selects = TRUE, !.blanks = TRUE]
UserDashboard == [Plain EXCEPT !.takes = "last", !.selects = TRUE, !.blanks = TRUE]
TransactionVerifier ==
    [Plain EXCEPT !.takes = "last", !.starts = FALSE, !.selects = TRUE, !.blanks = TRUE,
                  !.waits = TRUE]
AntiTamperLab ==
    [TransactionVerifier EXCEPT !.locks = "page", !.calls = "several", !.reloads = TRUE]
BadgeTapSimulator ==
    [Plain EXCEPT !.takes = "one", !.polls = TRUE, !.locks = "row", !.reloads = TRUE]
useBlockNumber == [Plain EXCEPT !.polls = TRUE, !.blanks = TRUE]
AdminDashboard ==
    [Plain EXCEPT !.polls = TRUE, !.blanks = TRUE, !.locks = "row", !.reloads = TRUE]
useTeamMembers == [Plain EXCEPT !.selects = TRUE, !.blanks = TRUE]
ManagerDashboard == [Plain EXCEPT !.selects = TRUE, !.blanks = TRUE]
RequestTransferForm == [Plain EXCEPT !.blanks = TRUE, !.locks = "page"]
InitiateTransfer == [Plain EXCEPT !.selects = TRUE, !.locks = "page"]
AuditTrailExplorer == [Plain EXCEPT !.selects = TRUE]
AuditorDashboard == [Plain EXCEPT !.selects = TRUE]
AssetList == [Plain EXCEPT !.selects = TRUE]
TeamAssets == [Plain EXCEPT !.selects = TRUE]
MyAssets == Plain
ZoneManager == [Plain EXCEPT !.locks = "row", !.reloads = TRUE]
TransferApprovals == [Plain EXCEPT !.locks = "row", !.reloads = TRUE]
RoleAssignment == [Plain EXCEPT !.locks = "row", !.reloads = TRUE, !.calls = "several"]
PendingRegistrations == [Plain EXCEPT !.locks = "page", !.reloads = TRUE]
QuarantineStation == [Plain EXCEPT !.selects = TRUE, !.locks = "modal", !.reloads = TRUE]
IdentityTable ==
    [Plain EXCEPT !.selects = TRUE, !.locks = "page", !.reloads = TRUE, !.calls = "several"]
RequestsPanel == [Plain EXCEPT !.selects = TRUE, !.locks = "page", !.reloads = TRUE]
GuardiansPanel == [RequestsPanel EXCEPT !.starts = FALSE]
NewRequestDialog == [RequestsPanel EXCEPT !.locks = "modal"]
\* These two can be closed, and opened again, while they are saving.
CreateIdentityDialog == [Plain EXCEPT !.locks = "row", !.reloads = TRUE]
MintAssetDialog == CreateIdentityDialog
RecoveryCenter == Plain
ProfilePage == [Plain EXCEPT !.takes = "last"]
AccessPasses ==
    [Plain EXCEPT !.starts = FALSE, !.selects = TRUE, !.blanks = TRUE, !.locks = "page"]

Page == {useAssetDetail, UserDashboard, TransactionVerifier, AntiTamperLab,
         BadgeTapSimulator, useBlockNumber, AdminDashboard, useTeamMembers,
         ManagerDashboard, RequestTransferForm, InitiateTransfer, AuditTrailExplorer,
         AuditorDashboard, AssetList, TeamAssets, MyAssets, ZoneManager,
         TransferApprovals, RoleAssignment, PendingRegistrations, QuarantineStation,
         IdentityTable, RequestsPanel, GuardiansPanel, NewRequestDialog,
         CreateIdentityDialog, MintAssetDialog, RecoveryCenter, ProfilePage, AccessPasses}

-----------------------------------------------------------------------------
Fetch == [picked : Pick \cup {NoPick}, data : 0..MaxWrites,
          step : {"sent", "answered", "failed", "taken", "dropped"}]

NewFetch(x) == [picked |-> x, data |-> 0, step |-> "sent"]

\* data: the change the call made last.
ActState == [step : {"none", "sent", "served", "refused"}, picked : Pick \cup {NoPick},
          data : 0..MaxWrites]

NoAct == [step |-> "none", picked |-> NoPick, data |-> 0]

Blank == [picked |-> NoPick, data |-> 0]

ConsoleTypeOK ==
    /\ page \in Page /\ picked \in Pick \cup {NoPick}
    /\ data \in 0..MaxWrites /\ acked \in 0..data
    /\ fetches \in Seq(Fetch) /\ Len(fetches) <= MaxFetches
    /\ view \in [picked : Pick \cup {NoPick}, data : 0..MaxWrites]
    /\ acts \in [Act -> ActState]
    /\ settled \in 0..Len(fetches) /\ overtaken \in BOOLEAN

InitConsole ==
    /\ page \in Page
    /\ picked \in (IF page.starts THEN Pick ELSE {NoPick})
    /\ fetches = (IF page.starts THEN <<NewFetch(picked)>> ELSE <<>>)
    /\ data = 0 /\ view = Blank
    /\ acts = [a \in Act |-> NoAct]
    /\ settled = 0 /\ acked = 0 /\ overtaken = FALSE

Loading == \E i \in DOMAIN fetches : fetches[i].step \in {"sent", "answered", "failed"}

Acting == \E a \in Act : acts[a].step # "none"

\* A load is sent, unless it would be the second one where there may be only one.
Load(x) ==
    /\ Len(fetches) < MaxFetches
    /\ fetches' = IF page.takes = "one" /\ Loading THEN fetches
                  ELSE Append(fetches, NewFetch(x))

-----------------------------------------------------------------------------
(* Loading.                                                                *)

\* Another row, filter or page number is chosen, or a form is submitted.
Select(x) ==
    /\ page.selects /\ (x # picked \/ page.waits)
    /\ page.waits => ~Loading /\ ~Acting
    /\ page.locks = "modal" => ~Acting
    /\ picked' = x /\ Load(x)
    /\ settled' = Len(fetches)
    /\ UNCHANGED <<page, data, view, acts, acked, overtaken>>

\* handleClear of the two forms.
Clear ==
    /\ page.waits /\ ~Loading /\ ~Acting
    /\ picked' = NoPick /\ view' = Blank
    /\ UNCHANGED <<page, data, fetches, acts, settled, acked, overtaken>>

Poll ==
    /\ page.polls /\ Load(picked)
    /\ UNCHANGED <<page, picked, data, view, acts, settled, acked, overtaken>>

AnswerFetch(i) ==
    /\ fetches[i].step = "sent"
    /\ \/ fetches' = [fetches EXCEPT ![i].step = "answered", ![i].data = data]
       \/ fetches' = [fetches EXCEPT ![i].step = "failed"]
    /\ UNCHANGED <<page, picked, data, view, acts, settled, acked, overtaken>>

\* Mutant: no answer is ignored.
AcceptedAlways(i) == TRUE

\* cancelled and runRef: an answer to an earlier load than the last is ignored.
Accepted(i) == page.takes = "last" => i = Len(fetches)

TakeFetch(i) ==
    /\ fetches[i].step \in {"answered", "failed"}
    /\ fetches' = [fetches EXCEPT ![i].step = IF @ = "answered" THEN "taken" ELSE "dropped"]
    /\ view' = IF ~Accepted(i) THEN view
               ELSE IF fetches[i].step = "answered"
               THEN [picked |-> fetches[i].picked, data |-> fetches[i].data]
               ELSE IF page.blanks THEN Blank ELSE view
    /\ overtaken' = (overtaken \/ \E j \in DOMAIN fetches :
                                      j > i /\ fetches[j].step \in {"taken", "dropped"})
    /\ UNCHANGED <<page, picked, data, acts, settled, acked>>

-----------------------------------------------------------------------------
(* Changing something.                                                     *)

StartAct(a) ==
    /\ page.locks # "none" /\ acts[a].step = "none"
    /\ page.locks # "row" => ~Acting
    /\ page.waits => ~Loading /\ picked # NoPick
    /\ acts' = [acts EXCEPT ![a] = [step |-> "sent", picked |-> picked, data |-> 0]]
    /\ UNCHANGED <<page, picked, data, fetches, view, settled, acked, overtaken>>

ServeAct(a) ==
    /\ acts[a].step = "sent"
    /\ \/ /\ data < MaxWrites /\ data' = data + 1
          /\ acts' = [acts EXCEPT ![a].step = "served", ![a].data = data']
          /\ settled' = Len(fetches)
       \/ /\ acts' = [acts EXCEPT ![a].step = "refused"]
          /\ UNCHANGED <<data, settled>>
    /\ UNCHANGED <<page, picked, fetches, view, acked, overtaken>>

ContinueAct(a) ==
    /\ page.calls = "several" /\ acts[a].step = "served"
    /\ acts' = [acts EXCEPT ![a].step = "sent"]
    /\ UNCHANGED <<page, picked, data, fetches, view, settled, acked, overtaken>>

\* Mutant: the page is left as it was.
AfterActNothing(a) == UNCHANGED fetches

\* What was on the screen when the call began is loaded anew.
AfterAct(a) == IF page.reloads THEN Load(acts[a].picked) ELSE UNCHANGED fetches

ActSucceeds(a) ==
    /\ acts[a].step = "served" /\ AfterAct(a)
    /\ acts' = [acts EXCEPT ![a] = NoAct]
    /\ acked' = IF acts[a].data > acked THEN acts[a].data ELSE acked
    /\ UNCHANGED <<page, picked, data, view, settled, overtaken>>

\* An error is shown: the call was refused, or it was served and its answer timed out.
ActFails(a) ==
    /\ acts[a].step \in {"served", "refused"}
    /\ acts' = [acts EXCEPT ![a] = NoAct]
    /\ UNCHANGED <<page, picked, data, fetches, view, settled, acked, overtaken>>

SomebodyElseActs ==
    /\ data < MaxWrites /\ data' = data + 1
    /\ settled' = Len(fetches)
    /\ UNCHANGED <<page, picked, fetches, view, acts, acked, overtaken>>

ConsoleNext ==
    \/ \E x \in Pick : Select(x)
    \/ Clear \/ Poll \/ SomebodyElseActs
    \/ \E i \in DOMAIN fetches : AnswerFetch(i) \/ TakeFetch(i)
    \/ \E a \in Act : \/ StartAct(a) \/ ServeAct(a) \/ ContinueAct(a)
                      \/ ActSucceeds(a) \/ ActFails(a)

ConsoleSpec == InitConsole /\ [][ConsoleNext]_consoleVars

-----------------------------------------------------------------------------
InTurn == page.takes = "any" => ~overtaken

LastFetch == fetches[Len(fetches)]

\* The newest load was for what is selected, and it has been answered.
UpToDate == Len(fetches) > 0 /\ LastFetch.step = "taken" /\ LastFetch.picked = picked

(* Once a load sent after the last change and the last selection has been  *)
(* answered, the page shows what is selected, as it is now, whatever       *)
(* answers of earlier loads come in afterwards.  A page that takes in any  *)
(* answer is trusted only while answers come back in the order of the      *)
(* loads.                                                                  *)
NewestIsShown ==
    UpToDate /\ InTurn /\ Len(fetches) > settled => view = [picked |-> picked, data |-> data]

(* A page that said a call succeeded shows what the call did as soon as    *)
(* nothing is under way any more, with other calls and loads, refused and  *)
(* failed ones, in between.                                                *)
OwnActsAreShown ==
    page.reloads /\ page.takes # "one" /\ UpToDate /\ InTurn /\ ~Loading /\ ~Acting
        => view.data >= acked
=============================================================================
