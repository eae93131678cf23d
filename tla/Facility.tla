------------------------------ MODULE Facility ------------------------------
(***************************************************************************)
(* The gates of the facility: zones, badge taps and emergency lockdown     *)
(* (pacs.service.js, upsertZone), deciding with AccessControl.sol.  A call  *)
(* runs in a handler; the others interleave with it at every await.        *)
(***************************************************************************)
EXTENDS AccessControl

CONSTANTS
    Handler,
    NoRow, NoCall,
    MaxTaps,    \* bound on the badge events
    MaxFaults   \* bound on crashes, database errors and failed transactions

VARIABLES
    zoneRows,   \* the FacilityZone rows
    revoked,    \* the employees whose User row is stamped revoked
    taps,       \* the PacsBadgeEvent rows
    hasContract, \* is the address of AccessControl among the process's settings
    pc, call, faults,
    barred      \* history: what has barred each tap since it arrived

chain == <<logs, registryVars, accessVars, now>>
facilityVars == <<chain, zoneRows, revoked, taps, hasContract, pc, call, faults, barred>>

ZoneRow == [requiredClearance : Clearance, sbu : SBU \cup {AnySBU},
            isEmergencyLocked : BOOLEAN]

ASSUME FacilityAssumption ==
    /\ MaxTaps \in Nat /\ MaxFaults \in Nat
    /\ NoRow \notin ZoneRow

Begin(h, step, c) ==
    /\ pc[h] = "idle"
    /\ pc' = [pc EXCEPT ![h] = step]
    /\ call' = [call EXCEPT ![h] = c]

Return(h) ==
    /\ pc' = [pc EXCEPT ![h] = "idle"]
    /\ call' = [call EXCEPT ![h] = NoCall]

Goto(h, step) ==
    IF step = "idle" THEN Return(h) ELSE pc' = [pc EXCEPT ![h] = step] /\ UNCHANGED call

Fault == faults < MaxFaults /\ faults' = faults + 1

\* A transaction of the administrator's key: mined, or a failure is reported
\* that the contract's revert, the node or a lost receipt may have caused.
Send(h, accepted, Tx, ok, failed) ==
    /\ hasContract
    /\ \/ Tx /\ UNCHANGED <<registryVars, now, faults>> /\ Goto(h, ok)
       \/ ~accepted /\ UNCHANGED <<chain, faults>> /\ Goto(h, failed)
       \/ Fault /\ Goto(h, failed) /\ (UNCHANGED chain \/ (Tx /\ UNCHANGED <<registryVars, now>>))

\* Without a contract no transaction is sent, and the answer is neither
\* confirmed nor an error.
Skip(h, step) == ~hasContract /\ Goto(h, step) /\ UNCHANGED <<chain, faults>>

-----------------------------------------------------------------------------
(* upsertZone *)

UpsertZone(h, z, clearance, sbu) ==
    /\ Begin(h, "configure",
             [zone |-> z, requiredClearance |-> clearance, sbu |-> sbu,
              existing |-> zoneRows[z]])
    /\ UNCHANGED <<chain, zoneRows, revoked, taps, faults>>

\* Mutant: the row read before the edit is not looked at.
WasLockedNever(c) == FALSE

WasLocked(c) == c.existing # NoRow /\ c.existing.isEmergencyLocked

\* Mutant: the lockdown the contract has cleared is not applied again.
AfterConfiguringSaved(c) == "saveZone"

AfterConfiguring(c) == IF WasLocked(c) THEN "relock" ELSE "saveZone"

ConfigureZone(h) ==
    LET c == call[h]
    IN  /\ pc[h] = "configure"
        /\ \/ Send(h, TRUE, CreateZone(Admin, c.zone, c.requiredClearance, c.sbu),
                   AfterConfiguring(c), "idle")
           \/ Skip(h, "saveZone")
        /\ UNCHANGED <<zoneRows, revoked, taps>>

Relock(h) ==
    /\ pc[h] = "relock"
    /\ Send(h, zones[call[h].zone].exists, ToggleEmergencyLockdown(Admin, call[h].zone, TRUE),
            "saveZone", "saveUnlocked")
    /\ UNCHANGED <<zoneRows, revoked, taps>>

\* "saveUnlocked" admits that the lockdown is lost; the call ends in an error.
LockAfterEdit(h) == pc[h] = "saveZone" /\ WasLocked(call[h])

\* An upsert; the create branch leaves the lockdown at its default.
SaveZone(h) ==
    LET c == call[h]
    IN  /\ pc[h] \in {"saveZone", "saveUnlocked"}
        /\ zoneRows' = [zoneRows EXCEPT ![c.zone] =
              [requiredClearance |-> c.requiredClearance, sbu |-> c.sbu,
               isEmergencyLocked |-> @ # NoRow /\ LockAfterEdit(h)]]
        /\ Return(h)
        /\ UNCHANGED <<chain, revoked, taps, faults>>

-----------------------------------------------------------------------------
(* setZoneLockdown: whatever the chain answers, the row is written. *)

SetZoneLockdown(h, z, locked) ==
    /\ zoneRows[z] # NoRow
    /\ Begin(h, "toggle", [zone |-> z, locked |-> locked])
    /\ UNCHANGED <<chain, zoneRows, revoked, taps, faults>>

Toggle(h) ==
    LET c == call[h]
    IN  /\ pc[h] = "toggle"
        /\ \/ Send(h, zones[c.zone].exists, ToggleEmergencyLockdown(Admin, c.zone, c.locked),
                   "saveLock", "saveLock")
           \/ Skip(h, "saveLock")
        /\ UNCHANGED <<zoneRows, revoked, taps>>

SaveLock(h) ==
    /\ pc[h] = "saveLock"
    /\ zoneRows' = [zoneRows EXCEPT ![call[h].zone].isEmergencyLocked = call[h].locked]
    /\ Return(h)
    /\ UNCHANGED <<chain, revoked, taps, faults>>

-----------------------------------------------------------------------------
(* evaluateBadgeEvent, simulateTap, recordAccessDecision *)

\* The employee's row is read first, then the zone's.
BadgeTap(h, e, z) ==
    /\ Begin(h, "readZone",
             [employee |-> e, zone |-> z, revoked |-> e \in revoked,
              locked |-> FALSE, granted |-> FALSE])
    /\ UNCHANGED <<chain, zoneRows, revoked, taps, faults>>

ReadZone(h) ==
    LET row == zoneRows[call[h].zone]
    IN  /\ pc[h] = "readZone"
        /\ IF row = NoRow THEN Return(h)
           ELSE /\ pc' = [pc EXCEPT ![h] = "ask"]
                /\ call' = [call EXCEPT ![h].locked = row.isEmergencyLocked]
        /\ UNCHANGED <<chain, zoneRows, revoked, taps, faults>>

\* Mutant: only the contract is asked.
AllowedByChain(c) == CanAccessZone(c.employee, c.zone)

\* "Fail safe and deny rather than trust an on-chain allowed that may be stale."
Allowed(c) == CanAccessZone(c.employee, c.zone) /\ ~c.revoked /\ ~c.locked

\* A contract that cannot be asked, or is not configured, denies.
AskChain(h) ==
    /\ pc[h] = "ask"
    /\ pc' = [pc EXCEPT ![h] = "record"]
    /\ \/ /\ call' = [call EXCEPT ![h].granted = Allowed(call[h])]
          /\ hasContract /\ UNCHANGED faults
       \/ /\ call' = [call EXCEPT ![h].granted = FALSE]
          /\ \/ ~hasContract /\ UNCHANGED faults
             \/ hasContract /\ Fault
    /\ UNCHANGED <<chain, zoneRows, revoked, taps>>

\* The event is stored and its audit entry set off; the reader has its answer.
RecordTap(h) ==
    /\ pc[h] = "record"
    /\ Len(taps) < MaxTaps
    /\ taps' = Append(taps, [employee |-> call[h].employee, zone |-> call[h].zone,
                             granted |-> call[h].granted, audit |-> "SENT"])
    /\ Return(h)
    /\ UNCHANGED <<chain, zoneRows, revoked, faults>>

\* The continuation of the fire-and-forget write backfills the transaction.
AuditAnswered(i) ==
    /\ taps[i].audit = "SENT"
    /\ \/ taps' = [taps EXCEPT ![i].audit = "ANCHORED"] /\ UNCHANGED faults
       \/ Fault /\ taps' = [taps EXCEPT ![i].audit = "LOST"]
    /\ UNCHANGED <<chain, zoneRows, revoked, pc, call>>

-----------------------------------------------------------------------------
(* The identity services, external here: revocation and reinstatement reach *)
(* the chain first and the row afterwards; clearances follow.               *)

Onboard(e, clearance, sbu) ==
    /\ ~identities[e].isActive
    /\ RegisterIdentity(Admin, [user |-> e, did |-> CHOOSE d \in DID : TRUE,
                                hash |-> CHOOSE x \in Hash : TRUE,
                                clearance |-> clearance, sbu |-> sbu])

OfficeActs ==
    /\ \E e \in Address, c \in Clearance, s \in SBU :
          \/ Onboard(e, c, s) \/ RevokeIdentity(Admin, e) \/ UpdateClearance(Admin, e, c)
    /\ UNCHANGED <<accessVars, now, zoneRows, revoked, taps, pc, call, faults>>

StampRow(e) ==
    /\ revoked' = IF identities[e].isActive THEN revoked \ {e} ELSE revoked \cup {e}
    /\ UNCHANGED <<chain, zoneRows, taps, pc, call, faults>>

-----------------------------------------------------------------------------

Proceed(h) ==
    \/ ConfigureZone(h) \/ Relock(h) \/ SaveZone(h)
    \/ Toggle(h) \/ SaveLock(h)
    \/ ReadZone(h) \/ AskChain(h) \/ RecordTap(h)

Calls(h) ==
    \E z \in Zone :
        \/ \E c \in Clearance, s \in SBU \cup {AnySBU} : UpsertZone(h, z, c, s)
        \/ \E locked \in BOOLEAN : SetZoneLockdown(h, z, locked)
        \/ \E e \in Address : BadgeTap(h, e, z)

\* A query throws.
Fails(h) ==
    /\ pc[h] \in {"saveZone", "saveUnlocked", "saveLock", "readZone", "record"}
    /\ Fault
    /\ Return(h)
    /\ UNCHANGED <<chain, zoneRows, revoked, taps>>

\* The process dies, or is stopped, and starts again, possibly with other settings;
\* the audit writes on the way are not backfilled.
Restart ==
    /\ hasContract' \in BOOLEAN
    /\ hasContract' # hasContract \/ \E h \in Handler : pc[h] # "idle"
    /\ Fault
    /\ pc' = [h \in Handler |-> "idle"]
    /\ call' = [h \in Handler |-> NoCall]
    /\ taps' = [i \in DOMAIN taps |-> IF taps[i].audit = "SENT"
                                      THEN [taps[i] EXCEPT !.audit = "LOST"] ELSE taps[i]]
    /\ UNCHANGED <<chain, zoneRows, revoked>>

FacilityInit ==
    /\ InitAuditLog /\ InitRegistry /\ InitAccess
    /\ zoneRows = [z \in Zone |-> NoRow]
    /\ revoked = {}
    /\ taps = << >>
    /\ hasContract \in BOOLEAN
    /\ pc = [h \in Handler |-> "idle"]
    /\ call = [h \in Handler |-> NoCall]
    /\ faults = 0
    /\ barred = [h \in Handler |-> {}]

FacilityStep ==
    \/ /\ \/ \E h \in Handler : Calls(h) \/ Proceed(h) \/ Fails(h)
          \/ \E i \in DOMAIN taps : AuditAnswered(i)
          \/ OfficeActs
          \/ \E e \in Address : StampRow(e)
       /\ UNCHANGED hasContract
    \/ Restart

TapSteps == {"readZone", "ask", "record"}

Remember ==
    barred' = [h \in Handler |->
        IF pc'[h] \notin TapSteps THEN {}
        ELSE {b \in IF pc[h] = "idle" THEN {"LOCKDOWN", "REVOKED"} ELSE barred[h] :
                 IF b = "REVOKED" THEN call'[h].employee \in revoked'
                 ELSE LET row == zoneRows'[call'[h].zone] IN row # NoRow /\ row.isEmergencyLocked}]

FacilityNext == FacilityStep /\ Remember

Configures(h) == pc[h] \notin {"idle"} \cup TapSteps

\* What the administrators see to: one configuration call per zone at a time.
OneEditorPerZone ==
    \A h, g \in Handler : h # g /\ Configures(h) /\ Configures(g) =>
        call[h].zone # call[g].zone

FacilitySpec == FacilityInit /\ [][FacilityNext /\ OneEditorPerZone']_facilityVars

-----------------------------------------------------------------------------

\* Every variable has its type.
FacilityTypeOK ==
    /\ RegistryTypeOK /\ AccessTypeOK
    /\ zoneRows \in [Zone -> ZoneRow \cup {NoRow}]
    /\ revoked \subseteq Address
    /\ taps \in Seq([employee : Address, zone : Zone, granted : BOOLEAN,
                    audit : {"SENT", "ANCHORED", "LOST"}])
    /\ hasContract \in BOOLEAN
    /\ \A h \in Handler : (pc[h] = "idle") = (call[h] = NoCall)

\* The gate lets people in: neither the row nor the contract says lockdown.
OpensOnTap(z) == zoneRows[z] # NoRow /\ ~zoneRows[z].isEmergencyLocked
                                     /\ ~zones[z].isLockedDown

\* upsertZone re-locks a zone "to keep an edit from silently reopening it".  A gate
\* that is shut is opened by a call that was asked to lift the lockdown, or by an edit
\* whose answer says that it is lost.  Under faults and restarts this is so of zones
\* whose row is locked; a lockdown that only the contract knows of, the row's write
\* having failed, is lifted by the next edit, and no answer says so.  It supposes one
\* configuration call per zone at a time: an edit that has read the row before a
\* lockdown lifts it too.
NeverSilentlyReopened ==
    [][\A z \in Zone :
          /\ zoneRows[z] # NoRow /\ ~OpensOnTap(z) /\ OpensOnTap(z)'
          /\ zoneRows[z].isEmergencyLocked \/ (faults = 0 /\ hasContract)
          => \E h \in Handler : /\ pc[h] \in {"saveLock", "saveUnlocked"}
                                /\ call[h].zone = z
                                /\ pc[h] = "saveLock" => ~call[h].locked]_facilityVars

\* recordAccessDecision: "never let a stale allowed open a door".  Whoever was
\* stamped revoked, or whose zone's row said lockdown, for the whole of a tap is
\* not let in by it, however far the chain lags behind.
NoEntryWhileBarred ==
    [][\A h \in Handler :
          pc[h] = "record" /\ taps' # taps /\ pc'[h] = "idle" /\ call[h].granted
              => barred[h] = {}]_facilityVars

\* As long as nothing failed and the zone is not being configured, a contract the
\* process has the address of decides by the row the console shows.
CacheMirrorsZones ==
    \A z \in Zone :
        LET row == zoneRows[z]
        IN  (faults = 0 /\ hasContract /\ \A h \in Handler : Configures(h) => call[h].zone # z) =>
            /\ zones[z].exists <=> row # NoRow
            /\ row # NoRow => /\ zones[z].requiredClearance = row.requiredClearance
                              /\ zones[z].allowedSBU = row.sbu
                              /\ zones[z].isLockedDown = row.isEmergencyLocked
=============================================================================
