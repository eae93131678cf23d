----------------------------- MODULE Visibility -----------------------------
(***************************************************************************)
(* What a session lets its holder see (scope.service.js and the lists of   *)
(* assets, transfers, recipients, passes, zones and badge events), while   *)
(* custody moves and passes come and go.  A handler is one step here: what *)
(* two of them do to one request is TransferService's subject.             *)
(***************************************************************************)
EXTENDS Passes

CONSTANTS
    Asset, AssetSbu,            \* the assets and the unit of each
    Zone, ZoneSbu, Shared,      \* the zones, the unit of each, or Shared
    AuditorRole

ASSUME VisibilityAssumption ==
    /\ AssetSbu \in [Asset -> SBU]
    /\ Shared \notin SBU /\ ZoneSbu \in [Zone -> SBU \cup {Shared}]
    /\ AuditorRole \in Role \ {AdminRole, ManagerRole}

VARIABLES
    owner,      \* the custodian of each asset
    requests    \* the TransferRequest rows

visibilityVars == <<passVars, owner, requests>>

TransferRequest == [asset : Asset, from : Person, to : Person, requestedBy : Person,
                    status : {"PENDING", "EXECUTED", "REJECTED"}]

VisibilityTypeOK ==
    /\ PassesTypeOK
    /\ owner \in [Asset -> Person] /\ requests \subseteq TransferRequest

InitVisibility == owner \in [Asset -> Person] /\ requests = {}

Pending(a) == {r \in requests : r.asset = a /\ r.status = "PENDING"}

-----------------------------------------------------------------------------
(* Reading: s is the session the caller presents.                          *)

\* getSbuScope: null, that is everything, for two roles.
Unrestricted(s) == s.role \in {AdminRole, AuditorRole}

Oversight(s) == Unrestricted(s) \/ s.role = ManagerRole

assetWhere(s) ==
    {a \in Asset : \/ Unrestricted(s) \/ AssetSbu[a] \in Scope(s.person)
                   \/ SbuOf[owner[a]] = SbuOf[s.person]}

\* Mutant: the twin looks at the unit of the custodian only.
isAssetVisibleByOwner(s, a) == Unrestricted(s) \/ SbuOf[owner[a]] = SbuOf[s.person]

isAssetVisible(s, a) ==
    \/ Unrestricted(s) \/ AssetSbu[a] \in Scope(s.person)
    \/ SbuOf[owner[a]] = SbuOf[s.person]

transferWhere(s) ==
    {r \in requests : \/ r.asset \in assetWhere(s)
                      \/ SbuOf[s.person] \in {SbuOf[r.from], SbuOf[r.to]}}

Parties(r) == {r.from, r.to, r.requestedBy}

listTransfers(s) ==
    IF s.role = ManagerRole THEN transferWhere(s)
    ELSE {r \in requests : Unrestricted(s) \/ s.person \in Parties(r)}

listAssets(s) == {a \in assetWhere(s) : Oversight(s)}

getMyAssets(s) == {a \in Asset : owner[a] = s.person}

Involved(s, a) ==
    owner[a] = s.person \/ \E r \in requests : r.asset = a /\ s.person \in Parties(r)

\* The assets getAssetById opens.
getAssetById(s) ==
    {a \in Asset : \/ Unrestricted(s) \/ Involved(s, a)
                   \/ s.role = ManagerRole /\ isAssetVisible(s, a)}

HasPass(p, b) == \E x \in passes : x.userId = p /\ x.targetSbu = b

MayHold(p) == /\ users[p].wallet # NoWallet /\ ~users[p].revoked
              /\ users[p].role \notin {Connector, AuditorRole}

\* With custodyOnly, as the forms for a transfer ask.
listTransferRecipients(s) ==
    {p \in Person \ {s.person} :
        /\ MayHold(p)
        /\ \/ Unrestricted(s) \/ SbuOf[p] \in Scope(s.person)
           \/ HasPass(p, SbuOf[s.person])}

getActivePassesForUser(s, p) ==
    {x \in passes : /\ x.userId = p
                    /\ \/ s.role # ManagerRole \/ p = s.person
                       \/ SbuOf[p] \in Scope(s.person) \/ x.targetSbu \in Scope(s.person)}

listZones(s) ==
    {z \in Zone : Oversight(s) /\ (s.role = ManagerRole => ZoneSbu[z] \in {SbuOf[s.person], Shared})}

\* The people whose badge events are listed.
listEvents(s) ==
    {p \in Person : Oversight(s) /\ (s.role = ManagerRole => SbuOf[p] = SbuOf[s.person])}

-----------------------------------------------------------------------------
(* Acting.                                                                 *)

\* verifyToken in front of every route.
Admitted(t) == t \notin lapsed /\ sessions[t].person # Nobody /\ ~Barred(t)

\* Taking custody outside one's unit needs a pass into the asset's.
MayTake(p, a) == SbuOf[p] # AssetSbu[a] => HasPass(p, AssetSbu[a])

MayRequest(s, a) == owner[a] = s.person \/ CanManageSbu(s.person, s.role, AssetSbu[a])

RequestTransfer(t, a, p) ==
    LET s == sessions[t] IN
    /\ Admitted(t) /\ MayRequest(s, a)
    /\ users[p].wallet # NoWallet /\ p # owner[a] /\ MayTake(p, a)
    /\ Pending(a) = {}
    /\ requests' = requests \cup {[asset |-> a, from |-> owner[a], to |-> p,
                                   requestedBy |-> s.person, status |-> "PENDING"]}
    /\ UNCHANGED <<passVars, owner>>

Decided(r, status) == (requests \ {r}) \cup {[r EXCEPT !.status = status]}

MayApprove(s, r) ==
    s.person # r.requestedBy /\ CanManageSbu(s.person, s.role, AssetSbu[r.asset])

MayReject(s, r) == MayApprove(s, r) \/ (s.person = r.from /\ s.person # r.requestedBy)

ApproveTransfer(t, r) ==
    /\ Admitted(t) /\ r.status = "PENDING" /\ MayApprove(sessions[t], r)
    /\ MayTake(r.to, r.asset) /\ owner[r.asset] = r.from
    /\ owner' = [owner EXCEPT ![r.asset] = r.to]
    /\ requests' = Decided(r, "EXECUTED")
    /\ UNCHANGED passVars

RejectTransfer(t, r) ==
    /\ Admitted(t) /\ r.status = "PENDING" /\ MayReject(sessions[t], r)
    /\ requests' = Decided(r, "REJECTED")
    /\ UNCHANGED <<passVars, owner>>

\* simulateTap: for whom, and at which zones, a tap may be made.
MayTap(s, p, z) ==
    \/ s.role = AdminRole
    \/ s.role = ManagerRole /\ SbuOf[p] = SbuOf[s.person] /\ ZoneSbu[z] \in {SbuOf[p], Shared}

VisibilityNext ==
    \/ PassesNext /\ UNCHANGED <<owner, requests>>
    \/ \E t \in DOMAIN sessions : \/ \E a \in Asset, p \in Person : RequestTransfer(t, a, p)
                                  \/ \E r \in requests : ApproveTransfer(t, r) \/ RejectTransfer(t, r)

VisibilitySpec ==
    InitSessions /\ InitPasses /\ InitVisibility /\ [][VisibilityNext]_visibilityVars

-----------------------------------------------------------------------------
(* "Read scope = own SBU + SBUs the caller holds an active pass for; action *)
(* scope = own SBU only": whatever a caller may act on is on the lists he   *)
(* acts from, and opens, wherever custody has gone and whatever passes have *)
(* run out: the requests he may decide, the assets he may hand on and who   *)
(* may take those of his unit, the passes into the unit he manages, and the *)
(* people and zones he may tap.                                             *)
ActingIsSeeing ==
    \A t \in DOMAIN sessions : LET s == sessions[t] IN s.person # Nobody =>
        /\ \A r \in requests : r.status = "PENDING" /\ MayReject(s, r) =>
               r \in listTransfers(s) /\ r.asset \in getAssetById(s)
        /\ \A a \in Asset : MayRequest(s, a) =>
               a \in getAssetById(s) \cap (listAssets(s) \cup getMyAssets(s))
        /\ \A x \in passes : CanManageSbu(s.person, s.role, x.targetSbu) =>
               x \in getActivePassesForUser(s, x.userId)
        /\ \A a \in Asset : MayRequest(s, a) /\ AssetSbu[a] = SbuOf[s.person] =>
               {p \in Person \ {s.person} : MayHold(p) /\ MayTake(p, a)}
                   \subseteq listTransferRecipients(s)
        /\ \A p \in Person, z \in Zone : MayTap(s, p, z) => z \in listZones(s) /\ p \in listEvents(s)
=============================================================================
