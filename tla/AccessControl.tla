--------------------------- MODULE AccessControl ---------------------------
(***************************************************************************)
(* AccessControl.sol: roles, facility zones, temporary passes and the      *)
(* emergency lockdown, deciding with the identities of IdentityRegistry.   *)
(***************************************************************************)
EXTENDS IdentityRegistry

CONSTANTS
    Role,       \* role identifiers (bytes32)
    Zone,       \* zone identifiers (bytes32)
    AnySBU,     \* the "ALL" sentinel of a zone
    MaxTime     \* bound on the clock

ASSUME AccessAssumption ==
    /\ {"ROLE_SUPER_ADMIN", "ROLE_SBU_MANAGER", "ROLE_SYSTEM_CONNECTOR"} \subseteq Role
    /\ AnySBU \notin SBU \cup {Nothing}
    /\ Nothing # "ZONE_LOCKED"
    /\ MaxTime \in Nat \ {0}
    /\ "AccessControl" \in Contract

VARIABLES
    roles,          \* mapping(bytes32 => mapping(address => bool)) _roles
    zones,          \* mapping(bytes32 => ZoneConfig)
    tempPassExpiry, \* mapping(address => mapping(bytes32 => uint256))
    now             \* block.timestamp

accessVars == <<roles, zones, tempPassExpiry>>

\* A pass outlives the clock's bound by the longest duration given.
Duration == 0 .. MaxTime

ZoneConfig == [exists : BOOLEAN, requiredClearance : 0 .. TopClearance,
               allowedSBU : SBU \cup {AnySBU, Nothing}, isLockedDown : BOOLEAN]

NoZone == [exists |-> FALSE, requiredClearance |-> 0,
           allowedSBU |-> Nothing, isLockedDown |-> FALSE]

\* What the constructor grants the deployer, who is also the admin.
InitialRole(role, account) ==
    account = Admin /\ role \in {"ROLE_SUPER_ADMIN", "ROLE_SYSTEM_CONNECTOR"}

InitAccess ==
    /\ roles = [r \in Role |-> {a \in Address : InitialRole(r, a)}]
    /\ zones = [z \in Zone |-> NoZone]
    /\ tempPassExpiry = [a \in Address |-> [z \in Zone |-> 0]]
    /\ now = 1

hasRole(role, account) == account \in roles[role]

IsSuperAdmin(sender) == sender = Admin \/ hasRole("ROLE_SUPER_ADMIN", sender)

GrantRole(sender, role, account) ==
    /\ IsSuperAdmin(sender)
    /\ roles' = [roles EXCEPT ![role] = @ \cup {account}]
    /\ LogEvent("AccessControl",
                Entry("ROLE_GRANTED", sender, account, role, Nothing))
    /\ UNCHANGED <<zones, tempPassExpiry>>

\* Mutant: a log line copied from grantRole.
RevokedEntryCopied(sender, role, account) ==
    Entry("ROLE_GRANTED", sender, account, role, Nothing)

RevokedEntry(sender, role, account) ==
    Entry("ROLE_REVOKED", sender, account, role, Nothing)

RevokeRole(sender, role, account) ==
    /\ IsSuperAdmin(sender)
    /\ roles' = [roles EXCEPT ![role] = @ \ {account}]
    /\ LogEvent("AccessControl", RevokedEntry(sender, role, account))
    /\ UNCHANGED <<zones, tempPassExpiry>>

\* Mutant: an update that keeps the lockdown the zone was under.
ConfiguredKeepingLock(zone, clearance, sbu) ==
    [exists |-> TRUE, requiredClearance |-> clearance,
     allowedSBU |-> sbu, isLockedDown |-> zones[zone].isLockedDown]

\* Creating and updating are one operation; both clear the lockdown.
Configured(zone, clearance, sbu) ==
    [exists |-> TRUE, requiredClearance |-> clearance,
     allowedSBU |-> sbu, isLockedDown |-> FALSE]

CreateZone(sender, zone, clearance, sbu) ==
    /\ IsSuperAdmin(sender)
    /\ IsClearance(clearance)
    /\ zones' = [zones EXCEPT ![zone] = Configured(zone, clearance, sbu)]
    /\ LogEvent("AccessControl",
                Entry("ZONE_CONFIG", sender, NoAddress, zone, Nothing))
    /\ UNCHANGED <<roles, tempPassExpiry>>

\* A later pass replaces an earlier one, also when it expires sooner.
GrantTemporaryPass(sender, user, zone, duration) ==
    /\ IsSuperAdmin(sender) \/ hasRole("ROLE_SBU_MANAGER", sender)
    /\ zones[zone].exists
    /\ tempPassExpiry' = [tempPassExpiry EXCEPT ![user][zone] = now + duration]
    /\ LogEvent("AccessControl",
                Entry("TEMP_PASS_GRANT", sender, user, zone, Nothing))
    /\ UNCHANGED <<roles, zones>>

ToggleEmergencyLockdown(sender, zone, status) ==
    /\ IsSuperAdmin(sender)
    /\ zones[zone].exists
    /\ zones' = [zones EXCEPT ![zone].isLockedDown = status]
    /\ LogEvent("AccessControl",
                Entry("LOCKDOWN", sender, NoAddress, zone,
                      IF status THEN "ZONE_LOCKED" ELSE "ZONE_UNLOCKED"))
    /\ UNCHANGED <<roles, tempPassExpiry>>

\* canAccessZone returns the reason of the first check that fails; only the
\* lockdown and the final verdict matter to its callers.
CanAccessZone(user, zone) ==
    LET z  == zones[zone]
        id == identities[user]
    IN  /\ z.exists
        /\ ~z.isLockedDown
        /\ id.isActive
        /\ id.clearanceLevel >= z.requiredClearance
        /\ \/ z.allowedSBU \in {AnySBU, Nothing, id.sbuCode}
           \/ tempPassExpiry[user][zone] > now

\* Blocks are produced: time passes.
Tick == now < MaxTime /\ now' = now + 1

AccessNext ==
    \E sender \in Address :
        \/ \E r \in Role, a \in Address : GrantRole(sender, r, a) \/ RevokeRole(sender, r, a)
        \/ \E z \in Zone, c \in ClearanceArg, s \in SBU \cup {AnySBU} : CreateZone(sender, z, c, s)
        \/ \E a \in Address, z \in Zone, d \in Duration : GrantTemporaryPass(sender, a, z, d)
        \/ \E z \in Zone, status \in BOOLEAN : ToggleEmergencyLockdown(sender, z, status)

AccessTypeOK ==
    /\ roles \in [Role -> SUBSET Address]
    /\ zones \in [Zone -> ZoneConfig]
    /\ tempPassExpiry \in [Address -> [Zone -> 0 .. 2 * MaxTime]]
    /\ now \in 0 .. MaxTime
=============================================================================
