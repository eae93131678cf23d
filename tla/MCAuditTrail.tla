---------------------------- MODULE MCAuditTrail ----------------------------
(***************************************************************************)
(* The four contracts together, all of them authorised in the audit log,   *)
(* with Operator's roles and Zone's configuration changing under way.      *)
(***************************************************************************)
EXTENDS AuditTrail

CONSTANT Operator

MCNext ==
    \/ \E u \in Address, c \in Clearance, h \in Hash, d \in DID, s \in SBU :
          LET r == [user |-> u, did |-> d, hash |-> h, clearance |-> c, sbu |-> s]
          IN  \/ InRegistry(RegisterIdentity(Admin, r))
              \/ InRegistry(BatchRegisterIdentities(Admin, <<r>>))
    \/ \E u \in Address : InRegistry(RevokeIdentity(Admin, u))
    \/ \E sender \in Address :
        \/ \E r \in {"ROLE_SUPER_ADMIN", "ROLE_SBU_MANAGER"} :
              InAccess(GrantRole(sender, r, Operator)) \/ InAccess(RevokeRole(sender, r, Operator))
        \/ \E z \in Zone, c \in Clearance, s \in SBU : InAccess(CreateZone(sender, z, c, s))
        \/ \E z \in Zone : InAccess(GrantTemporaryPass(sender, Operator, z, MaxTime))
        \/ \E z \in Zone, status \in BOOLEAN : InAccess(ToggleEmergencyLockdown(sender, z, status))
        \/ \E c \in Address, tier \in Clearance : InAsset(MintAssetDetailed(sender, c, tier))
        \/ \E t \in Token, c \in Address : InAsset(ReassignCustody(sender, t, c))
        \/ \E t \in Token, c \in Address : InAsset(TransferCustody(sender, t, c, MaxTime))
        \/ \E t \in Token : InAsset(SetMaintenanceStatus(sender, t, TRUE))
    \/ \E s \in Address, t \in Token, c \in Address :
          InAsset(SignCustodyTransfer(s, t, c, MaxTime))

MCSpec == Init /\ [][MCNext]_vars
=============================================================================
