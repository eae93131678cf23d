----------------------------- MODULE MCCustody -----------------------------
(***************************************************************************)
(* Custody of a token while its custodians are registered, re-rated and    *)
(* revoked.  The admin sends the registry's transactions and the mint, as  *)
(* the backend does; Manager is authorised and de-authorised on the way    *)
(* and then hands over itself.  Consent is given with one deadline, which  *)
(* passes when the clock ticks.  A chain on which the clock has not started *)
(* shows the registry alone, with every operation it has, batches included, *)
(* from any sender the admin authorises.                                   *)
(***************************************************************************)
EXTENDS AssetNFT

CONSTANTS Manager, OneDID, OneHash

Person == Address \ {Admin}

Deadline == 2

RegistryArg == {r \in Registration : r.clearance \in {1, TopClearance + 1}}

RegistryOnly ==
    \E sender \in Address :
        \/ \E c \in Address, status \in BOOLEAN : SetAuthorizedCaller(sender, c, status)
        \/ \E r \in RegistryArg : \/ RegisterIdentity(sender, r)
                                  \/ BatchRegisterIdentities(sender, <<r>>)
        \/ \E r, s \in RegistryArg : BatchRegisterIdentities(sender, <<r, s>>)
        \/ \E u \in Address, c \in {0, 1} : UpdateClearance(sender, u, c)
        \/ \E u \in Address : RevokeIdentity(sender, u)

Untouched == identities = [a \in Address |-> Unregistered] /\ authorizedCallers = {Admin}

\* Custody uses one hash and one DID.
CustodyNext ==
    \/ \E u \in Person, c \in ClearanceArg, s \in SBU :
          InRegistry(RegisterIdentity(Admin,
              [user |-> u, did |-> OneDID, hash |-> OneHash, clearance |-> c, sbu |-> s]))
    \/ \E u \in Person, c \in ClearanceArg : InRegistry(UpdateClearance(Admin, u, c))
    \/ \E u \in Person : InRegistry(RevokeIdentity(Admin, u))
    \/ \E status \in BOOLEAN : InAsset(SetAuthorizedManager(Admin, Manager, status))
    \/ \E c \in Person, tier \in ClearanceArg : InAsset(MintAssetDetailed(Admin, c, tier))
    \/ \E sender \in Address, t \in Token, c \in Address : InAsset(ReassignCustody(sender, t, c))
    \/ \E sender \in Address, t \in Token, c \in Address :
          InAsset(TransferCustody(sender, t, c, Deadline))
    \/ \E sender \in Address, t \in Token, status \in BOOLEAN :
          InAsset(SetMaintenanceStatus(sender, t, status))
    \/ \E s, c \in Person, t \in Token : InAsset(SignCustodyTransfer(s, t, c, Deadline))

MCNext ==
    \/ now = 1 /\ InRegistry(RegistryOnly)
    \/ now > 1 /\ CustodyNext
    \/ (now = 1 => Untouched) /\ TimePasses

MCSpec == Init /\ [][MCNext]_vars
=============================================================================
