-------------------------- MODULE IdentityRegistry --------------------------
(***************************************************************************)
(* IdentityRegistry.sol: one identity record per wallet address.  An       *)
(* action is a transaction that succeeds; one that reverts leaves every    *)
(* contract unchanged and so is a stuttering step.                         *)
(***************************************************************************)
EXTENDS AuditLog

CONSTANTS
    DID,            \* non-empty DID strings
    Hash,           \* non-zero identity hashes
    SBU,            \* business units
    Nothing,        \* the zero value of a bytes32 or string field
    TopClearance,   \* the highest clearance level (4 in the code)
    MaxBatch        \* the largest batch (250 in the code)

ASSUME RegistryAssumption ==
    /\ TopClearance \in Nat \ {0}
    /\ MaxBatch \in Nat \ {0}
    /\ Nothing \notin Hash \cup SBU
    /\ "IdentityRegistry" \in Contract

VARIABLES
    identities,         \* mapping(address => IdentityRecord)
    didToAddress,       \* mapping(string => address)
    authorizedCallers   \* the addresses authorizedCallers is true for

registryVars == <<identities, didToAddress, authorizedCallers>>

Clearance == 1 .. TopClearance

\* The range check every contract makes of a clearance or a tier.
IsClearance(c) == c >= 1 /\ c <= TopClearance

\* A clearance argument is a uint8: one value below and one above the legal ones.
ClearanceArg == 0 .. TopClearance + 1

IdentityRecord == [isActive : BOOLEAN, clearanceLevel : 0 .. TopClearance,
                   identityHash : Hash \cup {Nothing}, sbuCode : SBU \cup {Nothing}]

Unregistered == [isActive |-> FALSE, clearanceLevel |-> 0,
                 identityHash |-> Nothing, sbuCode |-> Nothing]

Registration == [user : Address, did : DID, hash : Hash,
                 clearance : ClearanceArg, sbu : SBU]

\* deploy.js authorises two of the contracts here as well, which never call.
InitRegistry ==
    /\ identities = [a \in Address |-> Unregistered]
    /\ didToAddress = [d \in DID |-> NoAddress]
    /\ authorizedCallers = {Admin}

MayWriteIdentities(sender) == sender = Admin \/ sender \in authorizedCallers

SetAuthorizedCaller(sender, caller, status) ==
    /\ sender = Admin
    /\ authorizedCallers' = IF status THEN authorizedCallers \cup {caller}
                                      ELSE authorizedCallers \ {caller}
    /\ UNCHANGED <<identities, didToAddress, logs>>

\* The record _registerIdentity writes.
RecordOf(r) == [isActive |-> TRUE, clearanceLevel |-> r.clearance,
                identityHash |-> r.hash, sbuCode |-> r.sbu]

\* Mutant: the check that the wallet is not active is forgotten.
RegistrableAgain(r) == IsClearance(r.clearance)

\* What _registerIdentity requires of one registration.
Registrable(r) == IsClearance(r.clearance) /\ ~identities[r.user].isActive

RegisterIdentity(sender, r) ==
    /\ MayWriteIdentities(sender)
    /\ Registrable(r)
    /\ identities' = [identities EXCEPT ![r.user] = RecordOf(r)]
    /\ didToAddress' = [didToAddress EXCEPT ![r.did] = r.user]
    /\ LogEvent("IdentityRegistry",
                Entry("DID_REG", sender, r.user, r.hash, Nothing))
    /\ UNCHANGED authorizedCallers

\* The loop registers entry after entry, so that a user named twice is already
\* active the second time and reverts the whole batch; of two entries with one
\* DID the later wins.
BatchRegisterIdentities(sender, batch) ==
    /\ MayWriteIdentities(sender)
    /\ Len(batch) \in 1 .. MaxBatch
    /\ \A i \in DOMAIN batch :
          /\ Registrable(batch[i])
          /\ \A j \in DOMAIN batch : i # j => batch[i].user # batch[j].user
    /\ identities' = [a \in Address |->
          IF \E i \in DOMAIN batch : batch[i].user = a
          THEN RecordOf(batch[CHOOSE i \in DOMAIN batch : batch[i].user = a])
          ELSE identities[a]]
    /\ didToAddress' = [d \in DID |->
          IF \E i \in DOMAIN batch : batch[i].did = d
          THEN LET i == CHOOSE i \in DOMAIN batch :
                           /\ batch[i].did = d
                           /\ \A j \in DOMAIN batch : j > i => batch[j].did # d
               IN  batch[i].user
          ELSE didToAddress[d]]
    /\ LogEvent("IdentityRegistry",
                Entry("BATCH_DID_REG", sender, NoAddress, Len(batch), Nothing))
    /\ UNCHANGED authorizedCallers

UpdateClearance(sender, user, newClearance) ==
    /\ MayWriteIdentities(sender)
    /\ identities[user].isActive
    /\ IsClearance(newClearance)
    /\ identities' = [identities EXCEPT ![user].clearanceLevel = newClearance]
    /\ LogEvent("IdentityRegistry",
                Entry("CLEARANCE_UPDATE", sender, user, newClearance, Nothing))
    /\ UNCHANGED <<didToAddress, authorizedCallers>>

Deactivated(record) == [record EXCEPT !.isActive = FALSE]

\* The record stays, only isActive is cleared: clearance, SBU and hash of a
\* revoked identity survive, and so does the DID's entry in didToAddress.
RevokeIdentity(sender, user) ==
    /\ MayWriteIdentities(sender)
    /\ identities[user].isActive
    /\ identities' = [identities EXCEPT ![user] = Deactivated(@)]
    /\ LogEvent("IdentityRegistry",
                Entry("DID_REVOKE", sender, user, Nothing, Nothing))
    /\ UNCHANGED <<didToAddress, authorizedCallers>>

\* The batches an input may be: every sequence of one or two registrations.
Batch == {<<r>> : r \in Registration} \cup
         {<<r, s>> : r \in Registration, s \in Registration}

RegistryNext ==
    \E sender \in Address :
        \/ \E c \in Address, status \in BOOLEAN : SetAuthorizedCaller(sender, c, status)
        \/ \E r \in Registration : RegisterIdentity(sender, r)
        \/ \E batch \in Batch : BatchRegisterIdentities(sender, batch)
        \/ \E u \in Address, c \in ClearanceArg : UpdateClearance(sender, u, c)
        \/ \E u \in Address : RevokeIdentity(sender, u)

RegistryTypeOK ==
    /\ identities \in [Address -> IdentityRecord]
    /\ didToAddress \in [DID -> Address \cup {NoAddress}]
    /\ authorizedCallers \subseteq Address
=============================================================================
