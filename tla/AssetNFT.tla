------------------------------ MODULE AssetNFT ------------------------------
(***************************************************************************)
(* AssetNFT.sol: the soulbound custody token, and with it the deployment   *)
(* of all four contracts as deploy.js wires them.  A custodian's EIP-712   *)
(* signature is a message in `signed'; ECDSA.recover yields the current    *)
(* custodian exactly when that custodian signed the digest the contract    *)
(* builds.  transferFrom, safeTransferFrom, approve and setApprovalForAll  *)
(* always revert and so have no action.                                    *)
(***************************************************************************)
EXTENDS AccessControl

CONSTANTS
    MaxTokens,      \* bound on the number of tokens minted
    MaxHandovers    \* bound on the length of a token's custody history

ASSUME AssetAssumption ==
    /\ MaxTokens \in Nat \ {0}
    /\ MaxHandovers \in Nat \ {0}
    /\ "AssetNFT" \in Contract

VARIABLES
    nextTokenId,            \* _nextTokenId
    assets,                 \* mapping(uint256 => AssetDetails)
    custodians,             \* mapping(uint256 => address)
    custodyHistory,         \* mapping(uint256 => CustodyRecord[])
    custodyNonces,          \* mapping(uint256 => uint256)
    isAuthorizedManager,    \* the addresses isAuthorizedManager is true for
    signed                  \* the CustodyTransfer messages custodians signed

assetVars == <<nextTokenId, assets, custodians, custodyHistory, custodyNonces,
               isAuthorizedManager, signed>>

vars == <<logs, registryVars, accessVars, now, assetVars>>

FirstTokenId == 1001
Token == FirstTokenId .. FirstTokenId + MaxTokens - 1

AssetDetails == [classificationTier : 0 .. TopClearance, isUnderMaintenance : BOOLEAN]

\* The typed-data struct CustodyTransfer.
Message == [tokenId : Token, from : Address, to : Address,
            nonce : Nat, deadline : 0 .. MaxTime]

\* The empty signature of a mint or an administrative reassignment.
NoSignature == [tokenId |-> 0]

CustodyRecord == [custodian : Address, signature : Message \cup {NoSignature}]

InitAsset ==
    /\ nextTokenId = FirstTokenId
    /\ assets = [t \in Token |-> [classificationTier |-> 0, isUnderMaintenance |-> FALSE]]
    /\ custodians = [t \in Token |-> NoAddress]
    /\ custodyHistory = [t \in Token |-> << >>]
    /\ custodyNonces = [t \in Token |-> 0]
    /\ isAuthorizedManager = {Admin}
    /\ signed = {}

OnlyAuthorized(sender) ==
    \/ sender = Admin
    \/ sender \in isAuthorizedManager
    \/ hasRole("ROLE_SUPER_ADMIN", sender)
    \/ hasRole("ROLE_SBU_MANAGER", sender)

Exists(tokenId) == custodians[tokenId] # NoAddress

\* The clearance gate of minting and of both handover paths.
Cleared(custodian, tier) ==
    /\ identities[custodian].isActive
    /\ identities[custodian].clearanceLevel >= tier

\* Mutant: the handover is not recorded.
PushCustodianOnly(tokenId, custodian, signature) ==
    /\ custodians' = [custodians EXCEPT ![tokenId] = custodian]
    /\ UNCHANGED custodyHistory

\* Set the custodian and append the record of it.
Push(tokenId, custodian, signature) ==
    /\ Len(custodyHistory[tokenId]) < MaxHandovers
    /\ custodians' = [custodians EXCEPT ![tokenId] = custodian]
    /\ custodyHistory' = [custodyHistory EXCEPT ![tokenId] =
          Append(@, [custodian |-> custodian, signature |-> signature])]

SetAuthorizedManager(sender, manager, status) ==
    /\ sender = Admin
    /\ isAuthorizedManager' = IF status THEN isAuthorizedManager \cup {manager}
                                        ELSE isAuthorizedManager \ {manager}
    /\ UNCHANGED <<logs, nextTokenId, assets, custodians, custodyHistory,
                   custodyNonces, signed>>

MintAssetDetailed(sender, custodian, tier) ==
    /\ nextTokenId \in Token
    /\ OnlyAuthorized(sender)
    /\ IsClearance(tier)
    /\ Cleared(custodian, tier)
    /\ nextTokenId' = nextTokenId + 1
    /\ assets' = [assets EXCEPT ![nextTokenId] =
          [classificationTier |-> tier, isUnderMaintenance |-> FALSE]]
    /\ Push(nextTokenId, custodian, NoSignature)
    /\ LogEvent("AssetNFT",
                Entry("ASSET_MINT", sender, custodian, nextTokenId, Nothing))
    /\ UNCHANGED <<custodyNonces, isAuthorizedManager, signed>>

\* Mutant: the entry names the outgoing custodian.
HandoverEntryOutgoing(sender, tokenId, newCustodian) ==
    Entry("CUSTODY_TRANSFERRED", sender, custodians[tokenId], tokenId, Nothing)

HandoverEntry(sender, tokenId, newCustodian) ==
    Entry("CUSTODY_TRANSFERRED", sender, newCustodian, tokenId, Nothing)

ExecuteCustodyTransfer(sender, tokenId, newCustodian, signature) ==
    /\ Exists(tokenId)
    /\ newCustodian # custodians[tokenId]
    /\ Cleared(newCustodian, assets[tokenId].classificationTier)
    /\ Push(tokenId, newCustodian, signature)
    /\ LogEvent("AssetNFT", HandoverEntry(sender, tokenId, newCustodian))
    /\ UNCHANGED <<nextTokenId, assets, isAuthorizedManager, signed>>

ReassignCustody(sender, tokenId, newCustodian) ==
    /\ OnlyAuthorized(sender)
    /\ ExecuteCustodyTransfer(sender, tokenId, newCustodian, NoSignature)
    /\ UNCHANGED custodyNonces

\* Mutant: the recipient's consent is verified instead of the custodian's.
DigestOfRecipient(tokenId, newCustodian, deadline) ==
    [tokenId |-> tokenId, from |-> newCustodian, to |-> custodians[tokenId],
     nonce |-> custodyNonces[tokenId], deadline |-> deadline]

\* The message whose digest transferCustody recovers the signer of.
Digest(tokenId, newCustodian, deadline) ==
    [tokenId |-> tokenId, from |-> custodians[tokenId], to |-> newCustodian,
     nonce |-> custodyNonces[tokenId], deadline |-> deadline]

\* Mutant: the nonce is not spent.
KeepNonce(tokenId) == UNCHANGED custodyNonces

SpendNonce(tokenId) == custodyNonces' = [custodyNonces EXCEPT ![tokenId] = @ + 1]

TransferCustody(sender, tokenId, newCustodian, deadline) ==
    LET message == Digest(tokenId, newCustodian, deadline)
    IN  /\ OnlyAuthorized(sender)
        /\ now <= deadline
        /\ message \in signed
        /\ SpendNonce(tokenId)
        /\ ExecuteCustodyTransfer(sender, tokenId, newCustodian, message)

SetMaintenanceStatus(sender, tokenId, status) ==
    /\ OnlyAuthorized(sender)
    /\ Exists(tokenId)
    /\ assets' = [assets EXCEPT ![tokenId].isUnderMaintenance = status]
    /\ LogEvent("AssetNFT",
                Entry("MAINTENANCE_STATUS", sender, custodians[tokenId], tokenId,
                      IF status THEN "ENTERED_MAINTENANCE" ELSE "CLEARED_MAINTENANCE"))
    /\ UNCHANGED <<nextTokenId, custodians, custodyHistory, custodyNonces,
                   isAuthorizedManager, signed>>

\* Off-chain: an account signs a handover of a token for its current nonce, as
\* chainService builds it.  The contract does not see the signature before it
\* is used, and nothing obliges the signer to hold the token.
SignCustodyTransfer(signer, tokenId, newCustodian, deadline) ==
    /\ Exists(tokenId)
    /\ newCustodian # signer
    /\ signed' = signed \cup
          {[tokenId |-> tokenId, from |-> signer, to |-> newCustodian,
            nonce |-> custodyNonces[tokenId], deadline |-> deadline]}
    /\ UNCHANGED <<logs, nextTokenId, assets, custodians, custodyHistory,
                   custodyNonces, isAuthorizedManager>>

AssetNext ==
    \/ \E sender \in Address :
        \/ \E m \in Address, status \in BOOLEAN : SetAuthorizedManager(sender, m, status)
        \/ \E c \in Address, tier \in ClearanceArg : MintAssetDetailed(sender, c, tier)
        \/ \E t \in Token, c \in Address : ReassignCustody(sender, t, c)
        \/ \E t \in Token, c \in Address, d \in 0 .. MaxTime : TransferCustody(sender, t, c, d)
        \/ \E t \in Token, status \in BOOLEAN : SetMaintenanceStatus(sender, t, status)
    \/ \E s \in Address, t \in Token, c \in Address, d \in 0 .. MaxTime :
          SignCustodyTransfer(s, t, c, d)

Init == InitAuditLog /\ InitRegistry /\ InitAccess /\ InitAsset

\* A transaction is one atomic step of one contract: what the other contracts
\* store does not change.
InRegistry(A) == A /\ UNCHANGED <<accessVars, now, assetVars>>
InAccess(A) == A /\ UNCHANGED <<registryVars, now, assetVars>>
InAsset(A) == A /\ UNCHANGED <<registryVars, accessVars, now>>
TimePasses == Tick /\ UNCHANGED <<logs, registryVars, accessVars, assetVars>>

Next == InRegistry(RegistryNext) \/ InAccess(AccessNext) \/ InAsset(AssetNext) \/ TimePasses

Spec == Init /\ [][Next]_vars

-----------------------------------------------------------------------------

AssetTypeOK ==
    /\ nextTokenId \in FirstTokenId .. FirstTokenId + MaxTokens
    /\ assets \in [Token -> AssetDetails]
    /\ custodians \in [Token -> Address \cup {NoAddress}]
    /\ custodyHistory \in [Token -> Seq(CustodyRecord)]
    /\ custodyNonces \in [Token -> Nat]
    /\ isAuthorizedManager \subseteq Address
    /\ signed \subseteq Message

\* Every variable of the four contracts has its type.
TypeOK == RegistryTypeOK /\ AccessTypeOK /\ AssetTypeOK

IsSigned(record) == record.signature # NoSignature

\* custodyHistory is the provenance of custodians: a token exists exactly when
\* its history is not empty, the last record names the current custodian, and
\* no record hands the token to whom it was taken from.
HistoryMatchesCustodian ==
    \A t \in Token :
        LET h == custodyHistory[t]
        IN  /\ Exists(t) <=> h # << >>
            /\ h # << >> => h[Len(h)].custodian = custodians[t]
            /\ \A i \in 1 .. Len(h) - 1 : h[i].custodian # h[i + 1].custodian

\* A signature in the history is the consent of the custodian recorded just
\* before it, for exactly this token and recipient; the mint carries none.
SignedByPredecessor ==
    \A t \in Token :
        LET h == custodyHistory[t]
        IN  \A i \in DOMAIN h : IsSigned(h[i]) =>
                /\ i > 1
                /\ h[i].signature.tokenId = t
                /\ h[i].signature.from = h[i - 1].custodian
                /\ h[i].signature.to = h[i].custodian

\* custodyNonces orders the signed handovers: their nonces increase along the
\* history and are all spent, so that no signature is ever accepted twice,
\* whatever administrative reassignments happen in between.
NoReplay ==
    \A t \in Token :
        LET h == custodyHistory[t]
        IN  \A i \in DOMAIN h : IsSigned(h[i]) =>
                /\ h[i].signature.nonce < custodyNonces[t]
                /\ \A j \in 1 .. i - 1 : IsSigned(h[j]) =>
                      h[j].signature.nonce < h[i].signature.nonce

\* Token ids are handed out once: what is not minted has no custodian yet.
UnmintedIsEmpty == \A t \in Token : t >= nextTokenId => ~Exists(t)

\* The inductive invariant behind the three properties of custody.
CustodyInv == /\ TypeOK
              /\ UnmintedIsEmpty
              /\ HistoryMatchesCustodian
              /\ SignedByPredecessor
              /\ NoReplay

\* A DID that resolves leads to a wallet with an anchored hash, also after the
\* wallet was revoked or the DID moved to another wallet.
DidResolvesToAnchored ==
    \A d \in DID : didToAddress[d] # NoAddress =>
        identities[didToAddress[d]].identityHash # Nothing

\* An address that is active keeps the hash and SBU it was anchored with until
\* it is revoked: no registration, single or in a batch, overwrites it; and every
\* DID that resolves leads to some wallet with an anchored hash.  That it stays the
\* same wallet is not claimed: a later registration may take the DID over.
AnchorsAreKept ==
    [][/\ \A a \in Address :
             identities[a].isActive /\ identities'[a].isActive =>
                 /\ identities'[a].identityHash = identities[a].identityHash
                 /\ identities'[a].sbuCode = identities[a].sbuCode
       /\ DidResolvesToAnchored']_vars
=============================================================================
