----------------------------- MODULE AuditTrail -----------------------------
(***************************************************************************)
(* What the audit log is for: AuditLog.sol calls it the single queryable   *)
(* stream into which every contract anchors its state transitions, so the  *)
(* state of a contract must be recoverable from the log alone, as long as  *)
(* the log has authorised that contract.                                   *)
(***************************************************************************)
EXTENDS AssetNFT

AboutRole(e, role, account) ==
    e.type \in {"ROLE_GRANTED", "ROLE_REVOKED"} /\ e.entity = role /\ e.target = account

\* Roles: the last entry about a role and an account tells whether the account
\* holds the role; with no entry it holds what the constructor gave it.
RolesAreReplayable ==
    "AccessControl" \in AuditCaller =>
        \A role \in Role, account \in Address :
            LET About(e) == AboutRole(e, role, account)
                Granted(e) == e.type = "ROLE_GRANTED"
            IN  hasRole(role, account) <=>
                    \/ LastSays(About, Granted)
                    \/ NeverLogged(About) /\ InitialRole(role, account)

AboutZone(e, zone) == e.type \in {"ZONE_CONFIG", "LOCKDOWN"} /\ e.entity = zone

\* Zones: a zone is locked down exactly when the last entry that configured or
\* toggled it locked it - configuring a zone again lifts its lockdown.
LockdownIsReplayable ==
    "AccessControl" \in AuditCaller =>
        \A zone \in Zone :
            LET About(e) == AboutZone(e, zone)
                Locked(e) == e.details = "ZONE_LOCKED"
            IN  /\ zones[zone].isLockedDown <=> LastSays(About, Locked)
                /\ zones[zone].exists <=> ~NeverLogged(About)

\* Access: what AccessControl decides by can be read off the log.
AccessIsReplayable == RolesAreReplayable /\ LockdownIsReplayable

AboutCustody(e, tokenId) ==
    e.type \in {"ASSET_MINT", "CUSTODY_TRANSFERRED"} /\ e.entity = tokenId

\* Custody: a token's custodian is the target of the last mint or handover
\* logged for it, on the signed and on the administrative path alike.
CustodyIsReplayable ==
    "AssetNFT" \in AuditCaller =>
        \A t \in Token :
            LET About(e) == AboutCustody(e, t)
                NamesCustodian(e) == e.target = custodians[t]
            IN  Exists(t) <=> LastSays(About, NamesCustodian)
=============================================================================
