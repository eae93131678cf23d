------------------------------- MODULE Dialogs -------------------------------
(***************************************************************************)
(* The dialogs in which a person decides about an item of a page, and the  *)
(* calls they send.  A call takes as long as a blockchain transaction, and *)
(* the page lives on meanwhile: its answer finds whatever is open by then. *)
(* A form for something new is about an item that does not exist yet.      *)
(***************************************************************************)
EXTENDS Naturals

CONSTANTS
    Item, NoItem,   \* requests, identities, zones
    Attempt,        \* calls that may be under way at once
    MaxOpened       \* bound on how often a dialog is opened

ASSUME DialogsAssumption == NoItem \notin Item /\ MaxOpened \in Nat

VARIABLES
    form,       \* the dialog of the page
    target,     \* the item it is open for
    opened,     \* how often it was opened so far
    typed,      \* the item for which its inputs were filled in
    flag,       \* the item for which busy, saving or processing was set last
    sent,       \* the calls under way, with what they were confirmed with
    pending,    \* calls whose "Processing..." notice is on the screen
    waved       \* calls whose notice was dismissed by hand

dialogVars == <<form, target, opened, typed, flag, sent, pending, waved>>

-----------------------------------------------------------------------------
(* The dialogs, by what they do.                                           *)
(*   stays  - cannot be dismissed while its call is under way              *)
(*   freezes - its inputs are disabled then                                *)
(*   fills  - when opened its inputs are "empty" or copied from the "row"  *)
(*   asks   - sends nothing before something was filled in                 *)
(*   clears - forgets what was filled in when it closes                    *)
(*   covers - nothing else on the page can be reached while it is open     *)
(*   busy   - what is disabled: the "page", the one "row" whose call began *)
(*            last, or this dialog only, whose flag is its "own" state     *)
(*   direct - items have buttons, too, that call without the dialog        *)
(*   pends  - whether a call has a pending notice: "never", "always", or    *)
(*            "midway" while it repairs an identity                         *)

ConfirmDialog == [stays |-> TRUE, freezes |-> TRUE, fills |-> "empty", asks |-> FALSE,
                  clears |-> FALSE, covers |-> TRUE, busy |-> "page", direct |-> FALSE,
                  pends |-> "never"]

\* Reinstating an identity asks for nothing, as these two; revoking it does.
LockdownDialog == ConfirmDialog
ZoneLockDialog == ConfirmDialog
ActionDialog == [ConfirmDialog EXCEPT !.asks = TRUE]
DecisionDialog == [ConfirmDialog EXCEPT !.fills = "row"]
ExecuteRecoveryDialog == [ConfirmDialog EXCEPT !.direct = TRUE]
RejectRecoveryDialog == [ActionDialog EXCEPT !.direct = TRUE]
RaiseRecoveryDialog == [ActionDialog EXCEPT !.busy = "own", !.clears = TRUE]

\* These can be left while they are saving, and opened again for another item.
RejectTransferDialog ==
    [ActionDialog EXCEPT !.stays = FALSE, !.freezes = FALSE, !.clears = TRUE, !.busy = "row",
                         !.direct = TRUE]
EditRoleDialog ==
    [DecisionDialog EXCEPT !.stays = FALSE, !.freezes = FALSE, !.clears = TRUE,
                           !.pends = "midway"]
IdentityForm ==
    [RaiseRecoveryDialog EXCEPT !.stays = FALSE, !.freezes = FALSE, !.pends = "always"]
AssetForm == IdentityForm
ZoneForm == [DecisionDialog EXCEPT !.stays = FALSE, !.clears = TRUE, !.covers = FALSE]

Dialog == {LockdownDialog, ZoneLockDialog, ActionDialog, DecisionDialog,
           ExecuteRecoveryDialog, RejectRecoveryDialog, RaiseRecoveryDialog,
           RejectTransferDialog, EditRoleDialog, IdentityForm, AssetForm, ZoneForm}

-----------------------------------------------------------------------------
Sent == [item : Item \cup {NoItem}, typed : Item \cup {NoItem}, opened : 0..MaxOpened]

NotSent == [item |-> NoItem, typed |-> NoItem, opened |-> 0]

UnderWay == {a \in Attempt : sent[a] # NotSent}

InitDialogs ==
    /\ form \in Dialog
    /\ target = NoItem /\ opened = 0 /\ typed = NoItem /\ flag = NoItem
    /\ sent = [a \in Attempt |-> NotSent]
    /\ pending = {} /\ waved = {}

\* What `disabled' asks about the buttons of item i.
Busy(i) == IF form.busy = "row" THEN flag = i ELSE flag # NoItem

\* Mutant: what was filled in last time is kept.
FilledAsLeft(i) == typed

Filled(i) == IF form.fills = "row" THEN i ELSE NoItem

\* The buttons of the rows are disabled where they call at once, too.
OpenDialog(i) ==
    /\ opened < MaxOpened
    /\ form.covers => target = NoItem
    /\ form.direct => ~Busy(i)
    /\ target' = i /\ opened' = opened + 1 /\ typed' = Filled(i)
    /\ flag' = IF form.busy = "own" THEN NoItem ELSE flag
    /\ UNCHANGED <<form, sent, pending, waved>>

TypeInput ==
    /\ target # NoItem
    /\ form.freezes => ~Busy(target)
    /\ typed' = target
    /\ UNCHANGED <<form, target, opened, flag, sent, pending, waved>>

Close == target' = NoItem /\ typed' = IF form.clears THEN NoItem ELSE typed

\* The close button, Cancel and Escape.
Dismiss ==
    /\ target # NoItem
    /\ form.stays => ~Busy(target)
    /\ Close
    /\ UNCHANGED <<form, opened, flag, sent, pending, waved>>

SendCall(a, i, input, n) ==
    /\ sent[a] = NotSent
    /\ sent' = [sent EXCEPT ![a] = [item |-> i, typed |-> input, opened |-> n]]
    /\ flag' = i
    /\ pending' = IF form.pends = "always" THEN pending \cup {a} ELSE pending
    /\ UNCHANGED <<form, target, opened, typed, waved>>

Confirm(a) ==
    /\ target # NoItem /\ ~Busy(target)
    /\ form.asks => typed # NoItem
    /\ SendCall(a, target, typed, opened)

\* Approving a transfer or vouching for a recovery.
CallAtOnce(a, i) ==
    /\ form.direct /\ target = NoItem /\ ~Busy(i)
    /\ SendCall(a, i, NoItem, 0)

\* The flag is lowered and the notice goes, whatever came of the call.  A dialog
\* that was opened anew has a flag of its own.
CallEnds(a) ==
    /\ sent' = [sent EXCEPT ![a] = NotSent]
    /\ flag' = IF form.busy = "own" /\ sent[a].opened # opened THEN flag ELSE NoItem
    /\ pending' = pending \ {a} /\ waved' = waved \ {a}
    /\ UNCHANGED <<form, opened>>

\* Whatever dialog is open by then is closed, unless the call was sent without one.
CallSucceeds(a) ==
    /\ a \in UnderWay /\ CallEnds(a)
    /\ IF sent[a].opened = 0 THEN UNCHANGED <<target, typed>> ELSE Close

CallFails(a) == a \in UnderWay /\ CallEnds(a) /\ UNCHANGED <<target, typed>>

\* The repair begins, or is over, while the call goes on.
Repair(a) ==
    /\ form.pends = "midway" /\ a \in UnderWay
    /\ pending' = IF a \in pending THEN pending \ {a} ELSE pending \cup {a}
    /\ UNCHANGED <<form, target, opened, typed, flag, sent, waved>>

\* A pending notice has no timer.
DismissNotice(a) ==
    /\ a \in pending
    /\ pending' = pending \ {a} /\ waved' = waved \cup {a}
    /\ UNCHANGED <<form, target, opened, typed, flag, sent>>

DialogsNext ==
    \/ TypeInput \/ Dismiss
    \/ \E i \in Item : OpenDialog(i)
    \/ \E a \in Attempt : \/ \E i \in Item : CallAtOnce(a, i)
                          \/ Confirm(a) \/ CallSucceeds(a) \/ CallFails(a)
                          \/ Repair(a) \/ DismissNotice(a)

DialogsSpec == InitDialogs /\ [][DialogsNext]_dialogVars

-----------------------------------------------------------------------------
DialogsTypeOK ==
    /\ form \in Dialog
    /\ target \in Item \cup {NoItem} /\ typed \in Item \cup {NoItem} /\ flag \in Item \cup {NoItem}
    /\ opened \in 0..MaxOpened
    /\ sent \in [Attempt -> Sent]
    /\ pending \subseteq Attempt /\ waved \subseteq Attempt

StillOpen(s) == opened = s.opened /\ target = s.item /\ typed = s.typed

(* What a call was confirmed with was filled in for the very item it is    *)
(* about, in the dialog that was open for it.  A dialog that cannot be     *)
(* dismissed while it saves is still open as it was confirmed, so that the *)
(* answer closes nothing else, and it saves one thing at a time.  A call   *)
(* that announced itself as pending keeps saying so until it is over, and  *)
(* no longer.                                                              *)
SentAsShown ==
    /\ \A a \in UnderWay :
          /\ sent[a].item # NoItem
          /\ sent[a].typed \in {NoItem, sent[a].item}
          /\ form.stays => /\ sent[a].opened # 0 => StillOpen(sent[a])
                           /\ UnderWay = {a}
          /\ form.pends = "always" => a \in pending \cup waved
    /\ pending \subseteq UnderWay
=============================================================================
