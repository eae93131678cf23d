-------------------------- MODULE Contracts_proofs --------------------------
(***************************************************************************)
(* Proofs about the four contracts and about what is read off them: types, *)
(* custody histories, signatures, anchors; the log, from which access and  *)
(* custody can be recomputed; and the tamper check, which reads row and    *)
(* chain one after the other.                                              *)
(***************************************************************************)
EXTENDS AuditTrail, Integrity, SequenceTheorems, TLAPS

USE AuditLogAssumption, RegistryAssumption, AccessAssumption, AssetAssumption

-----------------------------------------------------------------------------

(***************************************************************************)
(* Type correctness, contract by contract.                                 *)
(***************************************************************************)

\* The deployed contracts have their types.
LEMMA InitTypeOK == Init => TypeOK
<1> SUFFICES ASSUME Init PROVE TypeOK
  OBVIOUS
<1>1. RegistryTypeOK
  BY DEF Init, InitRegistry, RegistryTypeOK, IdentityRecord, Unregistered
<1>2. AccessTypeOK
  BY DEF Init, InitAccess, AccessTypeOK, ZoneConfig, NoZone, InitialRole
<1>3. AssetTypeOK
  BY DEF Init, InitAsset, AssetTypeOK, AssetDetails, Token, FirstTokenId, Message, CustodyRecord
<1> QED
  BY <1>1, <1>2, <1>3 DEF TypeOK

\* The entries of a batch are registrations.
LEMMA BatchRecord ==
  ASSUME NEW batch \in Batch, NEW i \in DOMAIN batch
  PROVE  batch[i] \in Registration
BY DEF Batch

\* A registration whose clearance passed the check becomes a well-formed record.
LEMMA RecordOfType ==
  ASSUME NEW r \in Registration, IsClearance(r.clearance)
  PROVE  RecordOf(r) \in IdentityRecord
BY DEF Registration, IsClearance, RecordOf, IdentityRecord, ClearanceArg

\* No transaction of the registry breaks its types.
LEMMA RegistryStepType ==
  ASSUME RegistryTypeOK, RegistryNext
  PROVE  RegistryTypeOK'
<1> USE DEF RegistryTypeOK
<1>1. CASE \E sender \in Address, c \in Address, status \in BOOLEAN :
              SetAuthorizedCaller(sender, c, status)
  BY <1>1 DEF SetAuthorizedCaller
<1>2. ASSUME NEW sender \in Address, NEW r \in Registration, RegisterIdentity(sender, r)
      PROVE  RegistryTypeOK'
  <2>1. RecordOf(r) \in IdentityRecord
    BY <1>2, RecordOfType DEF RegisterIdentity, Registrable
  <2> QED
    BY <1>2, <2>1 DEF RegisterIdentity, Registration
<1>3. ASSUME NEW sender \in Address, NEW batch \in Batch,
             BatchRegisterIdentities(sender, batch)
      PROVE  RegistryTypeOK'
  <2>1. \A i \in DOMAIN batch : batch[i] \in Registration /\ RecordOf(batch[i]) \in IdentityRecord
    BY <1>3, BatchRecord, RecordOfType DEF BatchRegisterIdentities, Registrable
  <2>2. identities' \in [Address -> IdentityRecord]
    <3>1. SUFFICES ASSUME NEW a \in Address, NEW i \in DOMAIN batch, batch[i].user = a
                   PROVE  RecordOf(batch[CHOOSE k \in DOMAIN batch : batch[k].user = a])
                             \in IdentityRecord
      BY <1>3 DEF BatchRegisterIdentities
    <3> QED
      BY <2>1, <3>1
  <2>3. didToAddress' \in [DID -> Address \cup {NoAddress}]
    <3> DEFINE Last(d) == CHOOSE i \in DOMAIN batch :
                            /\ batch[i].did = d
                            /\ \A j \in DOMAIN batch : j > i => batch[j].did # d
    <3>1. SUFFICES ASSUME NEW d \in DID, NEW i \in DOMAIN batch, batch[i].did = d
                   PROVE  batch[Last(d)].user \in Address
      BY <1>3 DEF BatchRegisterIdentities
    <3>2. DOMAIN batch = {1} \/ DOMAIN batch = {1, 2}
      BY DEF Batch
    <3>3. \E k \in DOMAIN batch : /\ batch[k].did = d
                                  /\ \A j \in DOMAIN batch : j > k => batch[j].did # d
      BY <3>1, <3>2
    <3>4. Last(d) \in DOMAIN batch
      BY <3>3
    <3> QED
      BY <2>1, <3>4 DEF Registration
  <2> QED
    BY <1>3, <2>2, <2>3 DEF BatchRegisterIdentities
<1>4. ASSUME NEW sender \in Address, NEW u \in Address, NEW c \in ClearanceArg,
             UpdateClearance(sender, u, c)
      PROVE  RegistryTypeOK'
  BY <1>4 DEF UpdateClearance, IdentityRecord, IsClearance, ClearanceArg
<1>5. ASSUME NEW sender \in Address, NEW u \in Address, RevokeIdentity(sender, u)
      PROVE  RegistryTypeOK'
  BY <1>5 DEF RevokeIdentity, Deactivated, IdentityRecord
<1> QED
  BY <1>1, <1>2, <1>3, <1>4, <1>5 DEF RegistryNext

\* No transaction of the access control breaks its types.
LEMMA AccessStepType ==
  ASSUME AccessTypeOK, AccessNext, UNCHANGED now
  PROVE  AccessTypeOK'
<1> USE DEF AccessTypeOK
<1>1. ASSUME NEW sender \in Address, NEW r \in Role, NEW a \in Address,
             GrantRole(sender, r, a) \/ RevokeRole(sender, r, a)
      PROVE  AccessTypeOK'
  BY <1>1 DEF GrantRole, RevokeRole
<1>2. ASSUME NEW sender \in Address, NEW z \in Zone, NEW c \in ClearanceArg,
             NEW s \in SBU \cup {AnySBU}, CreateZone(sender, z, c, s)
      PROVE  AccessTypeOK'
  BY <1>2 DEF CreateZone, Configured, ZoneConfig, IsClearance, ClearanceArg
<1>3. ASSUME NEW sender \in Address, NEW a \in Address, NEW z \in Zone, NEW d \in Duration,
             GrantTemporaryPass(sender, a, z, d)
      PROVE  AccessTypeOK'
  <2>1. now + d \in 0 .. 2 * MaxTime
    BY DEF Duration
  <2> QED
    BY <1>3, <2>1 DEF GrantTemporaryPass
<1>4. ASSUME NEW sender \in Address, NEW z \in Zone, NEW status \in BOOLEAN,
             ToggleEmergencyLockdown(sender, z, status)
      PROVE  AccessTypeOK'
  BY <1>4 DEF ToggleEmergencyLockdown, ZoneConfig
<1> QED
  BY <1>1, <1>2, <1>3, <1>4 DEF AccessNext

\* A pushed custodian leaves custodians and histories well-formed.
LEMMA PushType ==
  ASSUME AssetTypeOK, NEW t \in Token, NEW c \in Address,
         NEW s \in Message \cup {NoSignature}, Push(t, c, s)
  PROVE  /\ custodians' \in [Token -> Address \cup {NoAddress}]
         /\ custodyHistory' \in [Token -> Seq(CustodyRecord)]
<1> DEFINE record == [custodian |-> c, signature |-> s]
<1>1. record \in CustodyRecord
  BY DEF CustodyRecord
<1>2. Append(custodyHistory[t], record) \in Seq(CustodyRecord)
  <2> HIDE DEF record
  <2> QED
    BY <1>1 DEF AssetTypeOK
<1>3. custodyHistory' = [custodyHistory EXCEPT ![t] = Append(custodyHistory[t], record)]
  BY DEF Push
<1>4. custodyHistory' \in [Token -> Seq(CustodyRecord)]
  <2> HIDE DEF record
  <2> QED
    BY <1>2, <1>3 DEF AssetTypeOK
<1>5. custodians' \in [Token -> Address \cup {NoAddress}]
  BY DEF Push, AssetTypeOK
<1> QED
  BY <1>4, <1>5

\* No transaction of the asset contract breaks its types.
LEMMA AssetStepType ==
  ASSUME AssetTypeOK, AssetNext
  PROVE  AssetTypeOK'
<1>1. ASSUME NEW sender \in Address, NEW manager \in Address, NEW status \in BOOLEAN,
             SetAuthorizedManager(sender, manager, status)
      PROVE  AssetTypeOK'
  BY <1>1 DEF AssetTypeOK, SetAuthorizedManager
<1>2. ASSUME NEW sender \in Address, NEW c \in Address, NEW tier \in ClearanceArg,
             MintAssetDetailed(sender, c, tier)
      PROVE  AssetTypeOK'
  <2>1. nextTokenId \in Token /\ NoSignature \in Message \cup {NoSignature}
    BY <1>2 DEF MintAssetDetailed
  <2>2. /\ custodians' \in [Token -> Address \cup {NoAddress}]
        /\ custodyHistory' \in [Token -> Seq(CustodyRecord)]
    BY <1>2, <2>1, PushType DEF MintAssetDetailed
  <2>3. tier \in 0 .. TopClearance
    BY <1>2 DEF MintAssetDetailed, IsClearance, ClearanceArg
  <2>4. nextTokenId' \in FirstTokenId .. FirstTokenId + MaxTokens
    BY <1>2, <2>1 DEF AssetTypeOK, MintAssetDetailed, Token, FirstTokenId
  <2>5. assets' \in [Token -> AssetDetails]
    BY <1>2, <2>1, <2>3 DEF AssetTypeOK, MintAssetDetailed, AssetDetails
  <2> QED
    BY <1>2, <2>2, <2>4, <2>5 DEF AssetTypeOK, MintAssetDetailed
<1>3. ASSUME NEW sender \in Address, NEW t \in Token, NEW c \in Address,
             ReassignCustody(sender, t, c)
      PROVE  AssetTypeOK'
  <2>1. /\ custodians' \in [Token -> Address \cup {NoAddress}]
        /\ custodyHistory' \in [Token -> Seq(CustodyRecord)]
    BY <1>3, PushType DEF ReassignCustody, ExecuteCustodyTransfer
  <2> QED
    BY <1>3, <2>1 DEF AssetTypeOK, ReassignCustody, ExecuteCustodyTransfer
<1>4. ASSUME NEW sender \in Address, NEW t \in Token, NEW c \in Address, NEW d \in 0 .. MaxTime,
             TransferCustody(sender, t, c, d)
      PROVE  AssetTypeOK'
  <2>1. Digest(t, c, d) \in Message
    BY <1>4 DEF AssetTypeOK, TransferCustody
  <2>2. /\ custodians' \in [Token -> Address \cup {NoAddress}]
        /\ custodyHistory' \in [Token -> Seq(CustodyRecord)]
    BY <1>4, <2>1, PushType DEF TransferCustody, ExecuteCustodyTransfer
  <2>3. custodyNonces' \in [Token -> Nat]
    BY <1>4 DEF AssetTypeOK, TransferCustody, SpendNonce
  <2> QED
    BY <1>4, <2>2, <2>3 DEF AssetTypeOK, TransferCustody, ExecuteCustodyTransfer
<1>5. ASSUME NEW sender \in Address, NEW t \in Token, NEW status \in BOOLEAN,
             SetMaintenanceStatus(sender, t, status)
      PROVE  AssetTypeOK'
  BY <1>5 DEF AssetTypeOK, SetMaintenanceStatus, AssetDetails
<1>6. ASSUME NEW s \in Address, NEW t \in Token, NEW c \in Address, NEW d \in 0 .. MaxTime,
             SignCustodyTransfer(s, t, c, d)
      PROVE  AssetTypeOK'
  BY <1>6 DEF AssetTypeOK, SignCustodyTransfer, Message
<1> QED
  BY <1>1, <1>2, <1>3, <1>4, <1>5, <1>6 DEF AssetNext

\* No step of the system breaks a type.
LEMMA StepTypeOK == TypeOK /\ [Next]_vars => TypeOK'
<1> SUFFICES ASSUME TypeOK, [Next]_vars PROVE TypeOK'
  OBVIOUS
<1> USE DEF TypeOK
<1>1. ASSUME RegistryNext, UNCHANGED <<accessVars, now, assetVars>> PROVE TypeOK'
  BY <1>1, RegistryStepType DEF AccessTypeOK, AssetTypeOK, accessVars, assetVars
<1>2. ASSUME AccessNext, UNCHANGED <<registryVars, now, assetVars>> PROVE TypeOK'
  BY <1>2, AccessStepType DEF RegistryTypeOK, AssetTypeOK, registryVars, assetVars
<1>3. ASSUME AssetNext, UNCHANGED <<registryVars, accessVars, now>> PROVE TypeOK'
  BY <1>3, AssetStepType DEF RegistryTypeOK, AccessTypeOK, registryVars, accessVars
<1>4. ASSUME TimePasses PROVE TypeOK'
  BY <1>4 DEF TimePasses, Tick, RegistryTypeOK, AccessTypeOK, AssetTypeOK,
              registryVars, accessVars, assetVars
<1>5. ASSUME UNCHANGED vars PROVE TypeOK'
  BY <1>5 DEF vars, RegistryTypeOK, AccessTypeOK, AssetTypeOK,
              registryVars, accessVars, assetVars
<1> QED
  BY <1>1, <1>2, <1>3, <1>4, <1>5 DEF Next, InRegistry, InAccess, InAsset

\* Every variable of the four contracts keeps its type in every behaviour: no
\* registration, batch or update stores a clearance out of range, and no mint
\* or handover a record without a custodian.
THEOREM TypeCorrect == Spec => []TypeOK
BY InitTypeOK, StepTypeOK, PTL DEF Spec

-----------------------------------------------------------------------------

(***************************************************************************)
(* Provenance of custody.                                                  *)
(***************************************************************************)

\* What the pushed record is: unsigned with the nonces as they were, or the
\* current custodian's consent under the current nonce, which is spent.
Unsigned(s) == s = NoSignature /\ UNCHANGED custodyNonces

Consented(t, c, s) ==
    /\ Exists(t)
    /\ s.tokenId = t /\ s.from = custodians[t] /\ s.to = c /\ s.nonce = custodyNonces[t]
    /\ SpendNonce(t)

\* A push appends one record to one history and sets its custodian.
LEMMA PushHistory ==
  ASSUME TypeOK, NEW t \in Token, NEW c \in Address,
         NEW s \in Message \cup {NoSignature}, Push(t, c, s)
  PROVE  LET h == custodyHistory[t]
             g == custodyHistory'[t]
         IN  /\ Len(g) = Len(h) + 1
             /\ \A i \in 1 .. Len(h) : g[i] = h[i]
             /\ g[Len(h) + 1] = [custodian |-> c, signature |-> s]
             /\ Len(h) \in Nat /\ DOMAIN h = 1 .. Len(h) /\ DOMAIN g = 1 .. Len(h) + 1
             /\ custodians'[t] = c
             /\ \A u \in Token \ {t} : /\ custodyHistory'[u] = custodyHistory[u]
                                      /\ custodians'[u] = custodians[u]
<1> DEFINE h == custodyHistory[t]
           record == [custodian |-> c, signature |-> s]
<1>1. /\ custodyHistory' = [custodyHistory EXCEPT ![t] = Append(h, record)]
      /\ custodians' = [custodians EXCEPT ![t] = c]
  BY DEF Push
<1>2. h \in Seq(CustodyRecord) /\ record \in CustodyRecord
  BY DEF TypeOK, AssetTypeOK, CustodyRecord
<1>3. custodyHistory'[t] = Append(h, record) /\ custodians'[t] = c
  BY <1>1 DEF TypeOK, AssetTypeOK
<1>4. \A u \in Token \ {t} : /\ custodyHistory'[u] = custodyHistory[u]
                            /\ custodians'[u] = custodians[u]
  BY <1>1 DEF TypeOK, AssetTypeOK
<1>5. /\ Len(Append(h, record)) = Len(h) + 1
      /\ Len(h) \in Nat /\ DOMAIN h = 1 .. Len(h)
      /\ DOMAIN Append(h, record) = 1 .. Len(h) + 1
      /\ \A i \in 1 .. Len(h) : Append(h, record)[i] = h[i]
      /\ Append(h, record)[Len(h) + 1] = record
  <2> HIDE DEF h, record
  <2> QED
    BY <1>2
<1> QED
  BY <1>3, <1>4, <1>5

\* A push to someone else keeps history and custodian in agreement.
LEMMA PushHistoryMatches ==
  ASSUME CustodyInv, NEW t \in Token, NEW c \in Address,
         NEW s \in Message \cup {NoSignature}, Push(t, c, s),
         c # custodians[t]
  PROVE  HistoryMatchesCustodian'
<1> DEFINE h == custodyHistory[t]
           g == custodyHistory'[t]
<1>1. /\ Len(g) = Len(h) + 1
      /\ \A i \in 1 .. Len(h) : g[i] = h[i]
      /\ g[Len(h) + 1] = [custodian |-> c, signature |-> s]
      /\ Len(h) \in Nat /\ DOMAIN h = 1 .. Len(h) /\ DOMAIN g = 1 .. Len(h) + 1
      /\ custodians'[t] = c
      /\ \A u \in Token \ {t} : /\ custodyHistory'[u] = custodyHistory[u]
                               /\ custodians'[u] = custodians[u]
  BY PushHistory DEF CustodyInv
<1>2. h # << >> => h[Len(h)].custodian = custodians[t]
  BY DEF CustodyInv, HistoryMatchesCustodian
<1>3. \A i \in 1 .. Len(h) - 1 : h[i].custodian # h[i + 1].custodian
  BY DEF CustodyInv, HistoryMatchesCustodian
<1>4. g # << >>
  BY <1>1
<1>5. ASSUME NEW i \in 1 .. Len(g) - 1 PROVE g[i].custodian # g[i + 1].custodian
  <2>0. i \in 1 .. Len(h)
    <3> HIDE DEF h, g
    <3> QED
      BY <1>1
  <2>1. CASE i = Len(h)
    <3>1. h # << >> /\ g[i] = h[i] /\ g[i + 1].custodian = c
      BY <1>1, <2>1, <2>0
    <3> QED
      BY <1>2, <2>1, <3>1
  <2>2. CASE i < Len(h)
    <3>1. i \in 1 .. Len(h) - 1 /\ i + 1 \in 1 .. Len(h)
      <4> HIDE DEF h, g
      <4> QED
        BY <1>1, <2>2, <2>0
    <3> QED
      BY <1>1, <1>3, <3>1
  <2>3. i = Len(h) \/ i < Len(h)
    <3>1. Len(h) \in Nat
      BY <1>1
    <3>2. \A n \in Nat : \A k \in 1 .. n : k = n \/ k < n
      OBVIOUS
    <3> HIDE DEF h, g
    <3> QED
      BY <3>1, <3>2, <2>0
  <2> QED
    BY <2>1, <2>2, <2>3
<1>6. g[Len(g)].custodian = custodians'[t] /\ custodians'[t] # NoAddress
  BY <1>1
<1>7. ASSUME NEW u \in Token
      PROVE  /\ Exists(u)' <=> custodyHistory'[u] # << >>
             /\ custodyHistory'[u] # << >> =>
                   custodyHistory'[u][Len(custodyHistory'[u])].custodian = custodians'[u]
             /\ \A i \in 1 .. Len(custodyHistory'[u]) - 1 :
                   custodyHistory'[u][i].custodian # custodyHistory'[u][i + 1].custodian
  <2>1. CASE u = t
    BY <1>4, <1>5, <1>6, <2>1 DEF Exists
  <2>2. CASE u # t
    BY <1>1, <2>2 DEF CustodyInv, HistoryMatchesCustodian, Exists
  <2> QED
    BY <2>1, <2>2
<1> QED
  BY <1>7 DEF HistoryMatchesCustodian

\* A push without a signature, or with the custodian's, keeps every record's consent.
LEMMA PushSigned ==
  ASSUME CustodyInv, NEW t \in Token, NEW c \in Address,
         NEW s \in Message \cup {NoSignature}, Push(t, c, s),
         Unsigned(s) \/ Consented(t, c, s)
  PROVE  SignedByPredecessor'
<1> DEFINE h == custodyHistory[t]
           g == custodyHistory'[t]
<1>1. /\ \A i \in 1 .. Len(h) : g[i] = h[i]
      /\ g[Len(h) + 1] = [custodian |-> c, signature |-> s]
      /\ Len(h) \in Nat /\ DOMAIN h = 1 .. Len(h) /\ DOMAIN g = 1 .. Len(h) + 1
      /\ \A u \in Token \ {t} : custodyHistory'[u] = custodyHistory[u]
  BY PushHistory DEF CustodyInv
<1>2. \A i \in DOMAIN h : IsSigned(h[i]) =>
          i > 1 /\ h[i].signature.tokenId = t
          /\ h[i].signature.from = h[i - 1].custodian /\ h[i].signature.to = h[i].custodian
  BY DEF CustodyInv, SignedByPredecessor
<1>3. ASSUME NEW i \in DOMAIN g, IsSigned(g[i])
      PROVE  i > 1 /\ g[i].signature.tokenId = t
             /\ g[i].signature.from = g[i - 1].custodian /\ g[i].signature.to = g[i].custodian
  <2>1. CASE i \in 1 .. Len(h)
    <3>1. IsSigned(h[i]) /\ i \in DOMAIN h /\ g[i] = h[i]
      BY <1>1, <1>3, <2>1
    <3>2. i > 1 /\ g[i - 1] = h[i - 1]
      <4> HIDE DEF h, g
      <4> QED
        BY <1>1, <1>2, <2>1, <3>1
    <3> QED
      BY <1>2, <3>1, <3>2
  <2>2. CASE i = Len(h) + 1
    <3>1. s # NoSignature /\ Consented(t, c, s)
      BY <1>1, <1>3, <2>2 DEF IsSigned, Unsigned
    <3>2. Exists(t) /\ h # << >> /\ h[Len(h)].custodian = custodians[t]
      BY <3>1 DEF Consented, CustodyInv, HistoryMatchesCustodian
    <3>3. Len(h) > 0
      BY <3>2 DEF CustodyInv, TypeOK, AssetTypeOK
    <3>4. i - 1 = Len(h) /\ g[i - 1] = h[Len(h)] /\ i > 1
      BY <1>1, <2>2, <3>3
    <3> QED
      BY <1>1, <2>2, <3>1, <3>2, <3>4 DEF Consented
  <2> QED
    BY <1>1, <2>1, <2>2
<1>4. ASSUME NEW u \in Token, NEW i \in DOMAIN custodyHistory'[u], IsSigned(custodyHistory'[u][i])
      PROVE  /\ i > 1
             /\ custodyHistory'[u][i].signature.tokenId = u
             /\ custodyHistory'[u][i].signature.from = custodyHistory'[u][i - 1].custodian
             /\ custodyHistory'[u][i].signature.to = custodyHistory'[u][i].custodian
  <2>1. CASE u = t
    BY <1>3, <1>4, <2>1
  <2>2. CASE u # t
    BY <1>1, <1>4, <2>2 DEF CustodyInv, SignedByPredecessor
  <2> QED
    BY <2>1, <2>2
<1> QED
  BY <1>4 DEF SignedByPredecessor, IsSigned

\* A push without a signature, or with one whose nonce it spends, keeps nonces increasing.
LEMMA PushNoReplay ==
  ASSUME CustodyInv, NEW t \in Token, NEW c \in Address,
         NEW s \in Message \cup {NoSignature}, Push(t, c, s),
         Unsigned(s) \/ Consented(t, c, s)
  PROVE  NoReplay'
<1> DEFINE h == custodyHistory[t]
           g == custodyHistory'[t]
<1>1. /\ \A i \in 1 .. Len(h) : g[i] = h[i]
      /\ g[Len(h) + 1] = [custodian |-> c, signature |-> s]
      /\ Len(h) \in Nat /\ DOMAIN h = 1 .. Len(h) /\ DOMAIN g = 1 .. Len(h) + 1
      /\ \A u \in Token \ {t} : custodyHistory'[u] = custodyHistory[u]
  BY PushHistory DEF CustodyInv
<1>2. \A i \in DOMAIN h : IsSigned(h[i]) =>
          /\ h[i].signature.nonce < custodyNonces[t]
          /\ \A j \in 1 .. i - 1 : IsSigned(h[j]) => h[j].signature.nonce < h[i].signature.nonce
  BY DEF CustodyInv, NoReplay
<1>3. \A i \in DOMAIN h : IsSigned(h[i]) => h[i].signature.nonce \in Nat
  <2>1. h \in Seq(CustodyRecord)
    BY DEF CustodyInv, TypeOK, AssetTypeOK
  <2>2. \A i \in DOMAIN h : h[i] \in CustodyRecord
    <3> HIDE DEF h
    <3> QED
      BY <2>1
  <2>3. \A r \in CustodyRecord : IsSigned(r) => r.signature.nonce \in Nat
    BY DEF CustodyRecord, Message, IsSigned
  <2> QED
    BY <2>2, <2>3
<1>4. /\ custodyNonces[t] \in Nat
      /\ custodyNonces'[t] \in Nat
      /\ custodyNonces'[t] >= custodyNonces[t]
      /\ s # NoSignature => /\ s.nonce = custodyNonces[t]
                            /\ custodyNonces'[t] = custodyNonces[t] + 1
      /\ \A u \in Token \ {t} : custodyNonces'[u] = custodyNonces[u]
  BY DEF CustodyInv, TypeOK, AssetTypeOK, Unsigned, Consented, SpendNonce
<1>5. ASSUME NEW i \in DOMAIN g, IsSigned(g[i])
      PROVE  /\ g[i].signature.nonce < custodyNonces'[t]
             /\ \A j \in 1 .. i - 1 : IsSigned(g[j]) => g[j].signature.nonce < g[i].signature.nonce
  <2>1. CASE i \in 1 .. Len(h)
    <3>1. IsSigned(h[i]) /\ i \in DOMAIN h /\ g[i] = h[i]
      BY <1>1, <1>5, <2>1
    <3>2. \A j \in 1 .. i - 1 : g[j] = h[j]
      <4> HIDE DEF h, g
      <4> QED
        BY <1>1, <2>1
    <3>3. h[i].signature.nonce < custodyNonces'[t]
      BY <1>2, <1>3, <1>4, <3>1
    <3> QED
      BY <1>2, <3>1, <3>2, <3>3
  <2>2. CASE i = Len(h) + 1
    <3>1. s # NoSignature /\ g[i].signature.nonce = custodyNonces[t]
      BY <1>1, <1>4, <1>5, <2>2 DEF IsSigned
    <3>2. ASSUME NEW j \in 1 .. i - 1, IsSigned(g[j])
          PROVE  g[j].signature.nonce < g[i].signature.nonce
      <4>1. j \in DOMAIN h /\ g[j] = h[j]
        BY <1>1, <2>2
      <4> QED
        BY <1>2, <3>1, <3>2, <4>1
    <3>3. g[i].signature.nonce < custodyNonces'[t]
      BY <1>4, <3>1
    <3> QED
      BY <3>2, <3>3
  <2> QED
    BY <1>1, <2>1, <2>2
<1>6. ASSUME NEW u \in Token, NEW i \in DOMAIN custodyHistory'[u], IsSigned(custodyHistory'[u][i])
      PROVE  /\ custodyHistory'[u][i].signature.nonce < custodyNonces'[u]
             /\ \A j \in 1 .. i - 1 : IsSigned(custodyHistory'[u][j]) =>
                   custodyHistory'[u][j].signature.nonce < custodyHistory'[u][i].signature.nonce
  <2>1. CASE u = t
    BY <1>5, <1>6, <2>1
  <2>2. CASE u # t
    BY <1>1, <1>4, <1>6, <2>2 DEF CustodyInv, NoReplay
  <2> QED
    BY <2>1, <2>2
<1> QED
  BY <1>6 DEF NoReplay, IsSigned

\* Nothing is minted initially.
LEMMA InitCustody == Init => CustodyInv
<1> SUFFICES ASSUME Init PROVE CustodyInv
  OBVIOUS
<1>1. TypeOK
  BY InitTypeOK
<1>2. \A t \in Token : ~Exists(t) /\ custodyHistory[t] = << >>
  BY DEF Init, InitAsset, Exists
<1> QED
  BY <1>1, <1>2
  DEF CustodyInv, UnmintedIsEmpty, HistoryMatchesCustodian, SignedByPredecessor, NoReplay

\* Steps of the other contracts, and of this one that move no custody.
LEMMA CustodyUnchanged ==
  ASSUME CustodyInv, UNCHANGED <<nextTokenId, custodians, custodyHistory, custodyNonces>>
  PROVE  (UnmintedIsEmpty /\ HistoryMatchesCustodian /\ SignedByPredecessor /\ NoReplay)'
BY DEF CustodyInv, UnmintedIsEmpty, HistoryMatchesCustodian, SignedByPredecessor, NoReplay,
       Exists, IsSigned

\* Mints and handovers keep the provenance of custody.
LEMMA AssetStepCustody ==
  ASSUME CustodyInv, AssetNext
  PROVE  (UnmintedIsEmpty /\ HistoryMatchesCustodian /\ SignedByPredecessor /\ NoReplay)'
<1>1. ASSUME NEW sender \in Address, NEW c \in Address, NEW tier \in ClearanceArg,
             MintAssetDetailed(sender, c, tier)
      PROVE  (UnmintedIsEmpty /\ HistoryMatchesCustodian /\ SignedByPredecessor /\ NoReplay)'
  <2>1. /\ nextTokenId \in Token /\ ~Exists(nextTokenId)
        /\ Push(nextTokenId, c, NoSignature) /\ Unsigned(NoSignature)
    BY <1>1 DEF MintAssetDetailed, CustodyInv, UnmintedIsEmpty, Unsigned, TypeOK, AssetTypeOK,
                Token, FirstTokenId
  <2>2. c # custodians[nextTokenId]
    BY <2>1 DEF Exists
  <2>3. UnmintedIsEmpty'
    <3>1. nextTokenId' = nextTokenId + 1 /\ custodians' = [custodians EXCEPT ![nextTokenId] = c]
      BY <1>1, <2>1 DEF MintAssetDetailed, Push
    <3>2. nextTokenId \in Nat /\ Token \subseteq Nat
      BY <2>1 DEF Token, FirstTokenId
    <3>3. ASSUME NEW t \in Token, t >= nextTokenId + 1
          PROVE  ~Exists(t) /\ t # nextTokenId
      BY <3>2, <3>3 DEF CustodyInv, UnmintedIsEmpty
    <3> QED
      BY <3>1, <3>2, <3>3 DEF UnmintedIsEmpty, Exists, CustodyInv, TypeOK, AssetTypeOK
  <2> QED
    BY <2>1, <2>2, <2>3, PushHistoryMatches, PushSigned, PushNoReplay
<1>2. ASSUME NEW sender \in Address, NEW t \in Token, NEW c \in Address,
             ReassignCustody(sender, t, c)
      PROVE  (UnmintedIsEmpty /\ HistoryMatchesCustodian /\ SignedByPredecessor /\ NoReplay)'
  <2>1. Push(t, c, NoSignature) /\ Unsigned(NoSignature) /\ c # custodians[t]
    BY <1>2 DEF ReassignCustody, ExecuteCustodyTransfer, Unsigned
  <2>2. UnmintedIsEmpty'
    BY <1>2 DEF ReassignCustody, ExecuteCustodyTransfer, Push, CustodyInv, UnmintedIsEmpty,
                Exists, TypeOK, AssetTypeOK
  <2> QED
    BY <2>1, <2>2, PushHistoryMatches, PushSigned, PushNoReplay
<1>3. ASSUME NEW sender \in Address, NEW t \in Token, NEW c \in Address, NEW d \in 0 .. MaxTime,
             TransferCustody(sender, t, c, d)
      PROVE  (UnmintedIsEmpty /\ HistoryMatchesCustodian /\ SignedByPredecessor /\ NoReplay)'
  <2>1. Push(t, c, Digest(t, c, d)) /\ c # custodians[t] /\ Digest(t, c, d) \in Message
    BY <1>3 DEF TransferCustody, ExecuteCustodyTransfer, CustodyInv, TypeOK, AssetTypeOK
  <2>2. Consented(t, c, Digest(t, c, d))
    BY <1>3 DEF TransferCustody, ExecuteCustodyTransfer, Consented, Digest
  <2>3. UnmintedIsEmpty'
    BY <1>3 DEF TransferCustody, ExecuteCustodyTransfer, Push, CustodyInv, UnmintedIsEmpty,
                Exists, TypeOK, AssetTypeOK
  <2> QED
    BY <2>1, <2>2, <2>3, PushHistoryMatches, PushSigned, PushNoReplay
<1>4. ASSUME UNCHANGED <<nextTokenId, custodians, custodyHistory, custodyNonces>>
      PROVE  (UnmintedIsEmpty /\ HistoryMatchesCustodian /\ SignedByPredecessor /\ NoReplay)'
  BY <1>4, CustodyUnchanged
<1> QED
  BY <1>1, <1>2, <1>3, <1>4
  DEF AssetNext, SetAuthorizedManager, SetMaintenanceStatus, SignCustodyTransfer

\* So does every step of the system.
LEMMA StepCustody == CustodyInv /\ [Next]_vars => CustodyInv'
<1> SUFFICES ASSUME CustodyInv, [Next]_vars PROVE CustodyInv'
  OBVIOUS
<1>1. TypeOK'
  BY StepTypeOK DEF CustodyInv
<1>2. CASE AssetNext
  BY <1>1, <1>2, AssetStepCustody DEF CustodyInv
<1>3. CASE UNCHANGED assetVars
  BY <1>1, <1>3, CustodyUnchanged DEF CustodyInv, assetVars
<1> QED
  BY <1>2, <1>3 DEF Next, InRegistry, InAccess, InAsset, TimePasses, vars

\* The invariant of custody holds in every behaviour.
LEMMA CustodyInvariant == Spec => []CustodyInv
BY InitCustody, StepCustody, PTL DEF Spec

\* custodyHistory is the provenance of custodians, for any number of tokens,
\* accounts and handovers.
THEOREM HistoryCorrect == Spec => []HistoryMatchesCustodian
<1>1. CustodyInv => HistoryMatchesCustodian
  BY DEF CustodyInv
<1> QED
  BY <1>1, CustodyInvariant, PTL

\* Every signature transferCustody recorded is the consent of the custodian it
\* took the token from, to exactly this handover.
THEOREM ConsentCorrect == Spec => []SignedByPredecessor
<1>1. CustodyInv => SignedByPredecessor
  BY DEF CustodyInv
<1> QED
  BY <1>1, CustodyInvariant, PTL

\* No signature is accepted twice, however signed and administrative
\* handovers alternate.
THEOREM ReplayFree == Spec => []NoReplay
<1>1. CustodyInv => NoReplay
  BY DEF CustodyInv
<1> QED
  BY <1>1, CustodyInvariant, PTL

-----------------------------------------------------------------------------

(***************************************************************************)
(* The anchors of identities.                                              *)
(***************************************************************************)

\* What a step may do to the anchor of an address that stays active.
AnchorIsKept(a) ==
    identities[a].isActive /\ identities'[a].isActive =>
        /\ identities'[a].identityHash = identities[a].identityHash
        /\ identities'[a].sbuCode = identities[a].sbuCode

\* A step that anchors nothing new and leaves the DIDs alone.
LEMMA AnchorsUnchanged ==
  ASSUME DidResolvesToAnchored, RegistryTypeOK, UNCHANGED didToAddress,
         \A a \in Address : identities'[a].identityHash = identities[a].identityHash
  PROVE  DidResolvesToAnchored'
BY DEF DidResolvesToAnchored, RegistryTypeOK

\* A single registration anchors an inactive address and lets its DID lead there.
LEMMA RegisterAnchors ==
  ASSUME RegistryTypeOK, DidResolvesToAnchored, NEW sender \in Address,
         NEW r \in Registration, RegisterIdentity(sender, r)
  PROVE  DidResolvesToAnchored' /\ \A a \in Address : AnchorIsKept(a)
<1> USE DEF RegistryTypeOK
<1>1. /\ r.user \in Address /\ r.did \in DID /\ r.hash \in Hash
      /\ ~identities[r.user].isActive
  BY DEF Registration, RegisterIdentity, Registrable
<1>2. \A a \in Address : identities'[a] = IF a = r.user THEN RecordOf(r) ELSE identities[a]
  BY <1>1 DEF RegisterIdentity
<1>3. \A d \in DID : didToAddress'[d] = IF d = r.did THEN r.user ELSE didToAddress[d]
  BY <1>1 DEF RegisterIdentity
<1>4. RecordOf(r).identityHash # Nothing
  BY <1>1 DEF RecordOf
<1>5. ASSUME NEW d \in DID, didToAddress'[d] # NoAddress
      PROVE  identities'[didToAddress'[d]].identityHash # Nothing
  <2>1. didToAddress'[d] \in Address
    BY <1>1, <1>3, <1>5
  <2>2. CASE didToAddress'[d] = r.user
    BY <1>1, <1>2, <1>4, <2>2
  <2>3. CASE didToAddress'[d] # r.user
    BY <1>2, <1>3, <1>5, <2>1, <2>3 DEF DidResolvesToAnchored
  <2> QED
    BY <2>2, <2>3
<1> QED
  BY <1>1, <1>2, <1>5 DEF DidResolvesToAnchored, AnchorIsKept

\* So does a batch, for every address it names and none besides.
LEMMA BatchAnchors ==
  ASSUME RegistryTypeOK, DidResolvesToAnchored, NEW sender \in Address,
         NEW batch \in Batch, BatchRegisterIdentities(sender, batch)
  PROVE  DidResolvesToAnchored' /\ \A a \in Address : AnchorIsKept(a)
<1> USE DEF RegistryTypeOK
<1> DEFINE Named(a) == \E i \in DOMAIN batch : batch[i].user = a
<1>1. \A i \in DOMAIN batch : /\ batch[i] \in Registration
                              /\ ~identities[batch[i].user].isActive
  BY BatchRecord DEF BatchRegisterIdentities, Registrable
<1>2. \A i \in DOMAIN batch : /\ batch[i].user \in Address
                              /\ RecordOf(batch[i]).identityHash # Nothing
  BY <1>1 DEF Registration, RecordOf
<1>3. ASSUME NEW a \in Address, Named(a)
      PROVE  identities'[a].identityHash # Nothing /\ ~identities[a].isActive
  <2> DEFINE k == CHOOSE i \in DOMAIN batch : batch[i].user = a
  <2>1. k \in DOMAIN batch /\ batch[k].user = a
    BY <1>3
  <2>2. identities'[a] = RecordOf(batch[k])
    BY <1>3 DEF BatchRegisterIdentities
  <2> HIDE DEF k
  <2> QED
    BY <1>1, <1>2, <2>1, <2>2
<1>4. \A a \in Address : ~Named(a) => identities'[a] = identities[a]
  BY DEF BatchRegisterIdentities
<1>5. ASSUME NEW d \in DID
      PROVE  \/ didToAddress'[d] \in Address /\ Named(didToAddress'[d])
             \/ didToAddress'[d] = didToAddress[d]
  <2>1. CASE \E i \in DOMAIN batch : batch[i].did = d
    <3> DEFINE Last(i) == /\ batch[i].did = d
                          /\ \A j \in DOMAIN batch : j > i => batch[j].did # d
               k == CHOOSE i \in DOMAIN batch : Last(i)
    <3>1. DOMAIN batch = {1} \/ DOMAIN batch = {1, 2}
      BY DEF Batch
    <3>2. \E i \in DOMAIN batch : Last(i)
      BY <2>1, <3>1
    <3>3. k \in DOMAIN batch
      BY <3>2
    <3>4. didToAddress'[d] = batch[k].user
      BY <2>1 DEF BatchRegisterIdentities
    <3> HIDE DEF k
    <3> QED
      BY <1>2, <3>3, <3>4
  <2>2. CASE ~\E i \in DOMAIN batch : batch[i].did = d
    BY <2>2 DEF BatchRegisterIdentities
  <2> QED
    BY <2>1, <2>2
<1>6. ASSUME NEW d \in DID, didToAddress'[d] # NoAddress
      PROVE  identities'[didToAddress'[d]].identityHash # Nothing
  <2>1. didToAddress'[d] \in Address
    BY <1>5, <1>6
  <2>2. CASE Named(didToAddress'[d])
    BY <1>3, <2>1, <2>2
  <2>3. CASE ~Named(didToAddress'[d])
    <3>1. didToAddress'[d] = didToAddress[d]
      BY <1>5, <2>3
    <3> QED
      BY <1>4, <1>6, <2>1, <2>3, <3>1 DEF DidResolvesToAnchored
  <2> QED
    BY <2>2, <2>3
<1> QED
  BY <1>3, <1>4, <1>6 DEF DidResolvesToAnchored, AnchorIsKept

\* No transaction of the registry overwrites an active anchor or loses one.
LEMMA RegistryStepAnchors ==
  ASSUME RegistryTypeOK, DidResolvesToAnchored, RegistryNext
  PROVE  DidResolvesToAnchored' /\ \A a \in Address : AnchorIsKept(a)
<1>1. ASSUME NEW sender \in Address, NEW c \in Address, NEW status \in BOOLEAN,
             SetAuthorizedCaller(sender, c, status)
      PROVE  DidResolvesToAnchored' /\ \A a \in Address : AnchorIsKept(a)
  BY <1>1, AnchorsUnchanged DEF SetAuthorizedCaller, AnchorIsKept
<1>2. ASSUME NEW sender \in Address, NEW u \in Address, NEW c \in ClearanceArg,
             UpdateClearance(sender, u, c)
      PROVE  DidResolvesToAnchored' /\ \A a \in Address : AnchorIsKept(a)
  <2>1. \A a \in Address : /\ identities'[a].identityHash = identities[a].identityHash
                           /\ identities'[a].sbuCode = identities[a].sbuCode
    BY <1>2 DEF UpdateClearance, RegistryTypeOK, IdentityRecord
  <2>2. UNCHANGED didToAddress
    BY <1>2 DEF UpdateClearance
  <2> QED
    BY <2>1, <2>2, AnchorsUnchanged DEF AnchorIsKept
<1>3. ASSUME NEW sender \in Address, NEW u \in Address, RevokeIdentity(sender, u)
      PROVE  DidResolvesToAnchored' /\ \A a \in Address : AnchorIsKept(a)
  <2>1. \A a \in Address : /\ identities'[a].identityHash = identities[a].identityHash
                           /\ identities'[a].sbuCode = identities[a].sbuCode
    BY <1>3 DEF RevokeIdentity, Deactivated, RegistryTypeOK, IdentityRecord
  <2>2. UNCHANGED didToAddress
    BY <1>3 DEF RevokeIdentity
  <2> QED
    BY <2>1, <2>2, AnchorsUnchanged DEF AnchorIsKept
<1> QED
  BY <1>1, <1>2, <1>3, RegisterAnchors, BatchAnchors DEF RegistryNext

\* The same of a step of any contract.
LEMMA StepAnchors ==
  ASSUME TypeOK, DidResolvesToAnchored, [Next]_vars
  PROVE  DidResolvesToAnchored' /\ \A a \in Address : AnchorIsKept(a)
<1>1. CASE RegistryNext
  BY <1>1, RegistryStepAnchors DEF TypeOK
<1>2. CASE UNCHANGED registryVars
  BY <1>2 DEF registryVars, DidResolvesToAnchored, AnchorIsKept
<1> QED
  BY <1>1, <1>2 DEF Next, InRegistry, InAccess, InAsset, TimePasses, vars

\* An active identity keeps the hash and unit it was anchored with until it is
\* revoked, and a DID that resolves leads to some anchored address, not necessarily the
\* one it led to before, whatever registrations, batches and revocations follow each
\* other.
THEOREM AnchorsKept == Spec => AnchorsAreKept
<1>1. Init => DidResolvesToAnchored
  BY DEF Init, InitRegistry, DidResolvesToAnchored
<1>2. TypeOK /\ DidResolvesToAnchored /\ [Next]_vars => DidResolvesToAnchored'
  BY StepAnchors
<1>3. Spec => [](TypeOK /\ DidResolvesToAnchored)
  BY <1>1, <1>2, TypeCorrect, PTL DEF Spec
<1>4. TypeOK /\ DidResolvesToAnchored /\ [Next]_vars =>
        [/\ \A a \in Address :
               identities[a].isActive /\ identities'[a].isActive =>
                   /\ identities'[a].identityHash = identities[a].identityHash
                   /\ identities'[a].sbuCode = identities[a].sbuCode
         /\ DidResolvesToAnchored']_vars
  BY StepAnchors DEF AnchorIsKept
<1> QED
  BY <1>3, <1>4, PTL DEF Spec, AnchorsAreKept

-----------------------------------------------------------------------------

(***************************************************************************)
(* The log tells what the contracts hold.                                  *)
(***************************************************************************)

\* The entries written so far; the log is a sequence of them.
Logged == {logs[i] : i \in DOMAIN logs}
LogIsSequence == logs \in Seq(Logged)

\* LastSays and NeverLogged for sets of entries.
SaysLast(A, G) ==
    \E i \in DOMAIN logs :
        logs[i] \in A /\ logs[i] \in G /\ \A j \in DOMAIN logs : j > i => logs[j] \notin A
Silent(A) == \A i \in DOMAIN logs : logs[i] \notin A

\* An entry is added behind all others.
LEMMA AppendedLast ==
  ASSUME LogIsSequence, NEW e, logs' = Append(logs, e)
  PROVE  \E n \in Nat : /\ DOMAIN logs = 1 .. n /\ DOMAIN logs' = 1 .. n + 1
                        /\ logs'[n + 1] = e
                        /\ \A i \in 1 .. n : logs'[i] = logs[i]
<1>1. PICK U : U = Logged \cup {e}
  OBVIOUS
<1>2. logs \in Seq(U) /\ e \in U
  <2>1. Logged \subseteq U
    BY <1>1
  <2>2. PICK L : L = Logged
    OBVIOUS
  <2> QED
    BY <1>1, <2>1, <2>2 DEF LogIsSequence
<1> QED
  BY <1>2

\* The log stays a sequence of its entries.
LEMMA LogStaysSequence ==
  ASSUME LogIsSequence, NEW e, logs' = Append(logs, e)
  PROVE  LogIsSequence'
<1>1. PICK U : U = Logged \cup {e}
  OBVIOUS
<1>2. PICK L : L = Logged
  OBVIOUS
<1>3. logs \in Seq(L) /\ L \subseteq U /\ e \in U
  BY <1>1, <1>2 DEF LogIsSequence
<1>4. logs' \in Seq(U)
  BY <1>3
<1>5. PICK n \in Nat : /\ DOMAIN logs = 1 .. n /\ DOMAIN logs' = 1 .. n + 1
                       /\ logs'[n + 1] = e
                       /\ \A i \in 1 .. n : logs'[i] = logs[i]
  BY AppendedLast
<1>6. Logged' = U
  BY <1>1, <1>5 DEF Logged
<1> QED
  BY <1>4, <1>6 DEF LogIsSequence

\* What an added entry changes about what the log says last: it decides what it
\* is about, and nothing else.
LEMMA AppendSays ==
  ASSUME LogIsSequence, NEW e, logs' = Append(logs, e), NEW A, NEW G
  PROVE  /\ e \in A => (SaysLast(A, G)' <=> e \in G) /\ ~Silent(A)'
         /\ e \notin A => (SaysLast(A, G)' <=> SaysLast(A, G)) /\ (Silent(A)' <=> Silent(A))
<1>1. PICK n \in Nat : /\ DOMAIN logs = 1 .. n /\ DOMAIN logs' = 1 .. n + 1
                       /\ logs'[n + 1] = e
                       /\ \A i \in 1 .. n : logs'[i] = logs[i]
  BY AppendedLast
<1>2. /\ n + 1 \in 1 .. n + 1 /\ \A j \in 1 .. n + 1 : ~(j > n + 1)
      /\ \A i \in 1 .. n + 1 : i = n + 1 \/ (i \in 1 .. n /\ n + 1 > i)
      /\ \A i \in 1 .. n : i \in 1 .. n + 1
  OBVIOUS
<1>3. CASE e \in A
  <2>1. ~Silent(A)'
    BY <1>1, <1>2, <1>3 DEF Silent
  <2>2. SaysLast(A, G)' => e \in G
    <3> SUFFICES ASSUME NEW i \in 1 .. n + 1, logs'[i] \in G,
                        \A j \in 1 .. n + 1 : j > i => logs'[j] \notin A
                 PROVE  e \in G
      BY <1>1 DEF SaysLast
    <3> QED
      BY <1>1, <1>2, <1>3
  <2>3. e \in G => SaysLast(A, G)'
    BY <1>1, <1>2, <1>3 DEF SaysLast
  <2> QED
    BY <1>3, <2>1, <2>2, <2>3
<1>4. CASE e \notin A
  <2>1. SaysLast(A, G) => SaysLast(A, G)'
    <3> SUFFICES ASSUME NEW i \in 1 .. n, logs[i] \in A, logs[i] \in G,
                        \A j \in 1 .. n : j > i => logs[j] \notin A
                 PROVE  SaysLast(A, G)'
      BY <1>1 DEF SaysLast
    <3>1. \A j \in 1 .. n + 1 : j > i => logs'[j] \notin A
      BY <1>1, <1>2, <1>4
    <3> QED
      BY <1>1, <1>2, <3>1 DEF SaysLast
  <2>2. SaysLast(A, G)' => SaysLast(A, G)
    <3> SUFFICES ASSUME NEW i \in 1 .. n + 1, logs'[i] \in A, logs'[i] \in G,
                        \A j \in 1 .. n + 1 : j > i => logs'[j] \notin A
                 PROVE  SaysLast(A, G)
      BY <1>1 DEF SaysLast
    <3>1. i \in 1 .. n
      BY <1>1, <1>2, <1>4
    <3>2. \A j \in 1 .. n : j > i => logs[j] \notin A
      BY <1>1, <1>2
    <3> QED
      BY <1>1, <3>1, <3>2 DEF SaysLast
  <2>3. Silent(A)' <=> Silent(A)
    BY <1>1, <1>2, <1>4 DEF Silent
  <2> QED
    BY <1>4, <2>1, <2>2, <2>3
<1> QED
  BY <1>3, <1>4

\* What the log says of a role and an account, of a zone, and of whether c is
\* the custodian of a token.
RoleSaid(role, account) ==
    LET About(e) == AboutRole(e, role, account)
        Granted(e) == e.type = "ROLE_GRANTED"
    IN  LastSays(About, Granted) \/ (NeverLogged(About) /\ InitialRole(role, account))
LockSaid(zone) ==
    LET About(e) == AboutZone(e, zone)
        Locked(e) == e.details = "ZONE_LOCKED"
    IN  LastSays(About, Locked)
ZoneSaid(zone) ==
    LET About(e) == AboutZone(e, zone)
    IN  ~NeverLogged(About)
CustodySaid(tokenId, c) ==
    LET About(e) == AboutCustody(e, tokenId)
        Names(e) == e.target = c
    IN  LastSays(About, Names)

\* An entry decides what the log says of the role and account it is about.
LEMMA RoleEntry ==
  ASSUME LogIsSequence, NEW e, logs' = Append(logs, e), NEW role, NEW account
  PROVE  RoleSaid(role, account)' <=>
            IF AboutRole(e, role, account) THEN e.type = "ROLE_GRANTED"
                                           ELSE RoleSaid(role, account)
<1>1. PICK U : U = Logged \cup {e}
  OBVIOUS
<1>2. PICK A : A = {x \in U : AboutRole(x, role, account)}
  OBVIOUS
<1>3. PICK G : G = {x \in U : x.type = "ROLE_GRANTED"}
  OBVIOUS
<1>4. e \in U /\ \A i \in DOMAIN logs : logs[i] \in U
  BY <1>1 DEF Logged
<1>5. \A i \in DOMAIN logs' : logs'[i] \in U
  BY <1>4, AppendedLast
<1>6. RoleSaid(role, account) <=> SaysLast(A, G) \/ (Silent(A) /\ InitialRole(role, account))
  BY <1>2, <1>3, <1>4 DEF RoleSaid, LastSays, NeverLogged, SaysLast, Silent
<1>7. RoleSaid(role, account)' <=> SaysLast(A, G)' \/ (Silent(A)' /\ InitialRole(role, account))
  BY <1>2, <1>3, <1>5 DEF RoleSaid, LastSays, NeverLogged, SaysLast, Silent
<1>8. (e \in A <=> AboutRole(e, role, account)) /\ (e \in G <=> e.type = "ROLE_GRANTED")
  BY <1>2, <1>3, <1>4
<1>9. /\ e \in A => (SaysLast(A, G)' <=> e \in G) /\ ~Silent(A)'
      /\ e \notin A => (SaysLast(A, G)' <=> SaysLast(A, G)) /\ (Silent(A)' <=> Silent(A))
  BY AppendSays
<1> QED
  BY <1>6, <1>7, <1>8, <1>9

\* The same of the zone an entry is about.
LEMMA ZoneEntry ==
  ASSUME LogIsSequence, NEW e, logs' = Append(logs, e), NEW zone
  PROVE  /\ LockSaid(zone)' <=> IF AboutZone(e, zone) THEN e.details = "ZONE_LOCKED"
                                                      ELSE LockSaid(zone)
         /\ ZoneSaid(zone)' <=> AboutZone(e, zone) \/ ZoneSaid(zone)
<1>1. PICK U : U = Logged \cup {e}
  OBVIOUS
<1>2. PICK A : A = {x \in U : AboutZone(x, zone)}
  OBVIOUS
<1>3. PICK G : G = {x \in U : x.details = "ZONE_LOCKED"}
  OBVIOUS
<1>4. e \in U /\ \A i \in DOMAIN logs : logs[i] \in U
  BY <1>1 DEF Logged
<1>5. \A i \in DOMAIN logs' : logs'[i] \in U
  BY <1>4, AppendedLast
<1>6. (LockSaid(zone) <=> SaysLast(A, G)) /\ (ZoneSaid(zone) <=> ~Silent(A))
  BY <1>2, <1>3, <1>4 DEF LockSaid, ZoneSaid, LastSays, NeverLogged, SaysLast, Silent
<1>7. (LockSaid(zone)' <=> SaysLast(A, G)') /\ (ZoneSaid(zone)' <=> ~Silent(A)')
  BY <1>2, <1>3, <1>5 DEF LockSaid, ZoneSaid, LastSays, NeverLogged, SaysLast, Silent
<1>8. (e \in A <=> AboutZone(e, zone)) /\ (e \in G <=> e.details = "ZONE_LOCKED")
  BY <1>2, <1>3, <1>4
<1>9. /\ e \in A => (SaysLast(A, G)' <=> e \in G) /\ ~Silent(A)'
      /\ e \notin A => (SaysLast(A, G)' <=> SaysLast(A, G)) /\ (Silent(A)' <=> Silent(A))
  BY AppendSays
<1> QED
  BY <1>6, <1>7, <1>8, <1>9

\* The same of the token an entry is about.
LEMMA CustodyEntry ==
  ASSUME LogIsSequence, NEW e, logs' = Append(logs, e), NEW t, NEW c
  PROVE  CustodySaid(t, c)' <=> IF AboutCustody(e, t) THEN e.target = c
                                                      ELSE CustodySaid(t, c)
<1>1. PICK U : U = Logged \cup {e}
  OBVIOUS
<1>2. PICK A : A = {x \in U : AboutCustody(x, t)}
  OBVIOUS
<1>3. PICK G : G = {x \in U : x.target = c}
  OBVIOUS
<1>4. e \in U /\ \A i \in DOMAIN logs : logs[i] \in U
  BY <1>1 DEF Logged
<1>5. \A i \in DOMAIN logs' : logs'[i] \in U
  BY <1>4, AppendedLast
<1>6. CustodySaid(t, c) <=> SaysLast(A, G)
  BY <1>2, <1>3, <1>4 DEF CustodySaid, LastSays, SaysLast
<1>7. CustodySaid(t, c)' <=> SaysLast(A, G)'
  BY <1>2, <1>3, <1>5 DEF CustodySaid, LastSays, SaysLast
<1>8. (e \in A <=> AboutCustody(e, t)) /\ (e \in G <=> e.target = c)
  BY <1>2, <1>3, <1>4
<1>9. /\ e \in A => (SaysLast(A, G)' <=> e \in G)
      /\ e \notin A => (SaysLast(A, G)' <=> SaysLast(A, G))
  BY AppendSays
<1> QED
  BY <1>6, <1>7, <1>8, <1>9

\* A step that writes nothing, or an entry of one of these types.
Logs(types) ==
    \/ UNCHANGED logs
    \/ \E e : e.type \in types /\ logs' = Append(logs, e)

\* An entry of another type says nothing about roles, zones or custody.
LEMMA OtherEntry ==
  ASSUME LogIsSequence, NEW types, Logs(types)
  PROVE  /\ types \cap {"ROLE_GRANTED", "ROLE_REVOKED"} = {} =>
               \A role, account : RoleSaid(role, account)' <=> RoleSaid(role, account)
         /\ types \cap {"ZONE_CONFIG", "LOCKDOWN"} = {} =>
               \A zone : (LockSaid(zone)' <=> LockSaid(zone)) /\ (ZoneSaid(zone)' <=> ZoneSaid(zone))
         /\ types \cap {"ASSET_MINT", "CUSTODY_TRANSFERRED"} = {} =>
               \A t, c : CustodySaid(t, c)' <=> CustodySaid(t, c)
         /\ LogIsSequence'
<1>1. CASE UNCHANGED logs
  BY <1>1 DEF RoleSaid, LockSaid, ZoneSaid, CustodySaid, LastSays, NeverLogged,
              LogIsSequence, Logged
<1>2. ASSUME NEW e, e.type \in types, logs' = Append(logs, e)
      PROVE  /\ types \cap {"ROLE_GRANTED", "ROLE_REVOKED"} = {} =>
                   \A role, account : ~AboutRole(e, role, account)
             /\ types \cap {"ZONE_CONFIG", "LOCKDOWN"} = {} =>
                   \A zone : ~AboutZone(e, zone)
             /\ types \cap {"ASSET_MINT", "CUSTODY_TRANSFERRED"} = {} =>
                   \A t, c : ~AboutCustody(e, t)
  BY <1>2 DEF AboutRole, AboutZone, AboutCustody
<1> QED
  BY <1>1, <1>2, RoleEntry, ZoneEntry, CustodyEntry, LogStaysSequence DEF Logs

\* Every write of a contract is an entry of a type of its own.
LEMMA LogEventLogs ==
  ASSUME NEW caller, NEW e, NEW types, e.type \in types, LogEvent(caller, e)
  PROVE  Logs(types)
BY DEF LogEvent, Logs

LEMMA RegistryLogs ==
  ASSUME RegistryNext
  PROVE  Logs({"DID_REG", "BATCH_DID_REG", "CLEARANCE_UPDATE", "DID_REVOKE"})
<1> DEFINE types == {"DID_REG", "BATCH_DID_REG", "CLEARANCE_UPDATE", "DID_REVOKE"}
<1>1. ASSUME NEW sender, NEW c, NEW status, SetAuthorizedCaller(sender, c, status)
      PROVE  Logs(types)
  BY <1>1 DEF SetAuthorizedCaller, Logs
<1>2. ASSUME NEW sender, NEW r, RegisterIdentity(sender, r)
      PROVE  Logs(types)
  BY <1>2, LogEventLogs DEF RegisterIdentity, Entry
<1>3. ASSUME NEW sender, NEW batch, BatchRegisterIdentities(sender, batch)
      PROVE  Logs(types)
  BY <1>3, LogEventLogs DEF BatchRegisterIdentities, Entry
<1>4. ASSUME NEW sender, NEW u, NEW c, UpdateClearance(sender, u, c)
      PROVE  Logs(types)
  BY <1>4, LogEventLogs DEF UpdateClearance, Entry
<1>5. ASSUME NEW sender, NEW u, RevokeIdentity(sender, u)
      PROVE  Logs(types)
  BY <1>5, LogEventLogs DEF RevokeIdentity, Entry
<1> QED
  BY <1>1, <1>2, <1>3, <1>4, <1>5 DEF RegistryNext

LEMMA AccessLogs ==
  ASSUME AccessNext
  PROVE  Logs({"ROLE_GRANTED", "ROLE_REVOKED", "ZONE_CONFIG", "LOCKDOWN", "TEMP_PASS_GRANT"})
<1> DEFINE types == {"ROLE_GRANTED", "ROLE_REVOKED", "ZONE_CONFIG", "LOCKDOWN",
                     "TEMP_PASS_GRANT"}
<1>1. ASSUME NEW sender, NEW r, NEW a, GrantRole(sender, r, a) \/ RevokeRole(sender, r, a)
      PROVE  Logs(types)
  BY <1>1, LogEventLogs DEF GrantRole, RevokeRole, RevokedEntry, Entry
<1>2. ASSUME NEW sender, NEW z, NEW c, NEW s, CreateZone(sender, z, c, s)
      PROVE  Logs(types)
  BY <1>2, LogEventLogs DEF CreateZone, Entry
<1>3. ASSUME NEW sender, NEW a, NEW z, NEW d, GrantTemporaryPass(sender, a, z, d)
      PROVE  Logs(types)
  BY <1>3, LogEventLogs DEF GrantTemporaryPass, Entry
<1>4. ASSUME NEW sender, NEW z, NEW status, ToggleEmergencyLockdown(sender, z, status)
      PROVE  Logs(types)
  BY <1>4, LogEventLogs DEF ToggleEmergencyLockdown, Entry
<1> QED
  BY <1>1, <1>2, <1>3, <1>4 DEF AccessNext

LEMMA AssetLogs ==
  ASSUME AssetNext
  PROVE  Logs({"ASSET_MINT", "CUSTODY_TRANSFERRED", "MAINTENANCE_STATUS"})
<1> DEFINE types == {"ASSET_MINT", "CUSTODY_TRANSFERRED", "MAINTENANCE_STATUS"}
<1>1. ASSUME UNCHANGED logs
      PROVE  Logs(types)
  BY <1>1 DEF Logs
<1>2. ASSUME NEW sender, NEW c, NEW tier, MintAssetDetailed(sender, c, tier)
      PROVE  Logs(types)
  BY <1>2, LogEventLogs DEF MintAssetDetailed, Entry
<1>3. ASSUME NEW sender, NEW t, NEW c, NEW s, ExecuteCustodyTransfer(sender, t, c, s)
      PROVE  Logs(types)
  BY <1>3, LogEventLogs DEF ExecuteCustodyTransfer, HandoverEntry, Entry
<1>4. ASSUME NEW sender, NEW t, NEW status, SetMaintenanceStatus(sender, t, status)
      PROVE  Logs(types)
  BY <1>4, LogEventLogs DEF SetMaintenanceStatus, Entry
<1> QED
  BY <1>1, <1>2, <1>3, <1>4 DEF AssetNext, SetAuthorizedManager, ReassignCustody,
     TransferCustody, SignCustodyTransfer

\* What the log tells is what the contracts that may write to it hold.
RolesTold == "AccessControl" \in AuditCaller =>
    \A role \in Role, account \in Address : hasRole(role, account) <=> RoleSaid(role, account)
ZonesTold == "AccessControl" \in AuditCaller =>
    \A zone \in Zone : /\ zones[zone].isLockedDown <=> LockSaid(zone)
                       /\ zones[zone].exists <=> ZoneSaid(zone)
CustodyTold == "AssetNFT" \in AuditCaller =>
    \A t \in Token : Exists(t) <=> CustodySaid(t, custodians[t])

LEMMA ToldIsReplayable ==
  /\ RolesTold <=> RolesAreReplayable
  /\ ZonesTold <=> LockdownIsReplayable
  /\ CustodyTold <=> CustodyIsReplayable
<1>1. RolesTold <=> RolesAreReplayable
  BY DEF RolesTold, RolesAreReplayable, RoleSaid
<1>2. ZonesTold <=> LockdownIsReplayable
  BY DEF ZonesTold, LockdownIsReplayable, LockSaid, ZoneSaid
<1>3. CustodyTold <=> CustodyIsReplayable
  BY DEF CustodyTold, CustodyIsReplayable, CustodySaid
<1> QED
  BY <1>1, <1>2, <1>3

\* Before the first transaction nothing is logged and nothing but the
\* constructor's roles is held.
LEMMA InitTold ==
  ASSUME Init
  PROVE  LogIsSequence /\ RolesTold /\ ZonesTold /\ CustodyTold
<1>1. logs = << >> /\ DOMAIN logs = {}
  BY DEF Init, InitAuditLog
<1>2. PICK L : L = Logged
  OBVIOUS
<1>3. LogIsSequence
  BY <1>1, <1>2 DEF LogIsSequence
<1>4. RolesTold
  BY <1>1 DEF RolesTold, RoleSaid, LastSays, NeverLogged, Init, InitAccess, hasRole
<1>5. ZonesTold
  BY <1>1 DEF ZonesTold, LockSaid, ZoneSaid, LastSays, NeverLogged, Init, InitAccess, NoZone
<1>6. CustodyTold
  BY <1>1 DEF CustodyTold, CustodySaid, LastSays, Init, InitAsset, Exists
<1> QED
  BY <1>3, <1>4, <1>5, <1>6

\* A change of a role is logged as what it is.
LEMMA RolesStep ==
  ASSUME TypeOK, LogIsSequence, RolesTold, AccessNext
  PROVE  RolesTold'
<1> SUFFICES ASSUME "AccessControl" \in AuditCaller, NEW role \in Role, NEW account \in Address
             PROVE  (hasRole(role, account) <=> RoleSaid(role, account))'
  BY DEF RolesTold
<1>1. /\ hasRole(role, account) <=> RoleSaid(role, account)
      /\ roles \in [Role -> SUBSET Address]
  BY DEF RolesTold, TypeOK, AccessTypeOK
<1>2. ASSUME NEW sender \in Address, NEW r \in Role, NEW a \in Address,
             GrantRole(sender, r, a)
      PROVE  (hasRole(role, account) <=> RoleSaid(role, account))'
  <2>1. PICK e : e = Entry("ROLE_GRANTED", sender, a, r, Nothing)
    OBVIOUS
  <2>2. logs' = Append(logs, e) /\ roles' = [roles EXCEPT ![r] = @ \cup {a}]
    BY <1>2, <2>1 DEF GrantRole, LogEvent
  <2>3. AboutRole(e, role, account) <=> r = role /\ a = account
    BY <2>1 DEF AboutRole, Entry
  <2>4. e.type = "ROLE_GRANTED"
    BY <2>1 DEF Entry
  <2>5. hasRole(role, account)' <=> (r = role /\ a = account) \/ hasRole(role, account)
    BY <1>1, <2>2 DEF hasRole
  <2> QED
    BY <1>1, <2>2, <2>3, <2>4, <2>5, RoleEntry
<1>3. ASSUME NEW sender \in Address, NEW r \in Role, NEW a \in Address,
             RevokeRole(sender, r, a)
      PROVE  (hasRole(role, account) <=> RoleSaid(role, account))'
  <2>1. PICK e : e = Entry("ROLE_REVOKED", sender, a, r, Nothing)
    OBVIOUS
  <2>2. logs' = Append(logs, e) /\ roles' = [roles EXCEPT ![r] = @ \ {a}]
    BY <1>3, <2>1 DEF RevokeRole, RevokedEntry, LogEvent
  <2>3. AboutRole(e, role, account) <=> r = role /\ a = account
    BY <2>1 DEF AboutRole, Entry
  <2>4. e.type # "ROLE_GRANTED"
    BY <2>1 DEF Entry
  <2>5. hasRole(role, account)' <=> ~(r = role /\ a = account) /\ hasRole(role, account)
    BY <1>1, <2>2 DEF hasRole
  <2> QED
    BY <1>1, <2>2, <2>3, <2>4, <2>5, RoleEntry
<1>4. ASSUME UNCHANGED roles, Logs({"ZONE_CONFIG", "LOCKDOWN", "TEMP_PASS_GRANT"})
      PROVE  (hasRole(role, account) <=> RoleSaid(role, account))'
  <2>1. RoleSaid(role, account)' <=> RoleSaid(role, account)
    BY <1>4, OtherEntry
  <2> QED
    BY <1>1, <1>4, <2>1 DEF hasRole
<1>5. ASSUME NEW sender, NEW z, NEW c, NEW s, CreateZone(sender, z, c, s)
      PROVE  UNCHANGED roles /\ Logs({"ZONE_CONFIG", "LOCKDOWN", "TEMP_PASS_GRANT"})
  BY <1>5, LogEventLogs DEF CreateZone, Entry
<1>6. ASSUME NEW sender, NEW a, NEW z, NEW d, GrantTemporaryPass(sender, a, z, d)
      PROVE  UNCHANGED roles /\ Logs({"ZONE_CONFIG", "LOCKDOWN", "TEMP_PASS_GRANT"})
  BY <1>6, LogEventLogs DEF GrantTemporaryPass, Entry
<1>7. ASSUME NEW sender, NEW z, NEW status, ToggleEmergencyLockdown(sender, z, status)
      PROVE  UNCHANGED roles /\ Logs({"ZONE_CONFIG", "LOCKDOWN", "TEMP_PASS_GRANT"})
  BY <1>7, LogEventLogs DEF ToggleEmergencyLockdown, Entry
<1> QED
  BY <1>2, <1>3, <1>4, <1>5, <1>6, <1>7 DEF AccessNext

\* So is a change of a zone: what configured it, and what locked it down.
LEMMA ZonesStep ==
  ASSUME TypeOK, LogIsSequence, ZonesTold, AccessNext
  PROVE  ZonesTold'
<1> SUFFICES ASSUME "AccessControl" \in AuditCaller, NEW zone \in Zone
             PROVE  (/\ zones[zone].isLockedDown <=> LockSaid(zone)
                     /\ zones[zone].exists <=> ZoneSaid(zone))'
  BY DEF ZonesTold
<1>1. /\ zones[zone].isLockedDown <=> LockSaid(zone)
      /\ zones[zone].exists <=> ZoneSaid(zone)
      /\ zones \in [Zone -> ZoneConfig]
  BY DEF ZonesTold, TypeOK, AccessTypeOK
<1>2. ASSUME NEW sender \in Address, NEW z \in Zone, NEW c \in ClearanceArg,
             NEW s \in SBU \cup {AnySBU}, CreateZone(sender, z, c, s)
      PROVE  (/\ zones[zone].isLockedDown <=> LockSaid(zone)
              /\ zones[zone].exists <=> ZoneSaid(zone))'
  <2>1. PICK e : e = Entry("ZONE_CONFIG", sender, NoAddress, z, Nothing)
    OBVIOUS
  <2>2. logs' = Append(logs, e) /\ zones' = [zones EXCEPT ![z] = Configured(z, c, s)]
    BY <1>2, <2>1 DEF CreateZone, LogEvent
  <2>3. (AboutZone(e, zone) <=> z = zone) /\ e.details # "ZONE_LOCKED"
    BY <2>1 DEF AboutZone, Entry
  <2>4. IF z = zone THEN zones'[zone].exists /\ ~zones'[zone].isLockedDown
                    ELSE zones'[zone] = zones[zone]
    BY <1>1, <2>2 DEF Configured
  <2> QED
    BY <1>1, <2>2, <2>3, <2>4, ZoneEntry
<1>3. ASSUME NEW sender \in Address, NEW z \in Zone, NEW status \in BOOLEAN,
             ToggleEmergencyLockdown(sender, z, status)
      PROVE  (/\ zones[zone].isLockedDown <=> LockSaid(zone)
              /\ zones[zone].exists <=> ZoneSaid(zone))'
  <2>1. PICK e : e = Entry("LOCKDOWN", sender, NoAddress, z,
                           IF status THEN "ZONE_LOCKED" ELSE "ZONE_UNLOCKED")
    OBVIOUS
  <2>2. /\ logs' = Append(logs, e) /\ zones[z].exists
        /\ zones' = [zones EXCEPT ![z].isLockedDown = status]
    BY <1>3, <2>1 DEF ToggleEmergencyLockdown, LogEvent
  <2>3. (AboutZone(e, zone) <=> z = zone) /\ (e.details = "ZONE_LOCKED" <=> status)
    BY <2>1 DEF AboutZone, Entry
  <2>4. IF z = zone THEN /\ zones'[zone].isLockedDown = status
                         /\ zones'[zone].exists = zones[zone].exists
                    ELSE zones'[zone] = zones[zone]
    BY <1>1, <2>2 DEF ZoneConfig
  <2> QED
    BY <1>1, <2>2, <2>3, <2>4, ZoneEntry
<1>4. ASSUME UNCHANGED zones, Logs({"ROLE_GRANTED", "ROLE_REVOKED", "TEMP_PASS_GRANT"})
      PROVE  (/\ zones[zone].isLockedDown <=> LockSaid(zone)
              /\ zones[zone].exists <=> ZoneSaid(zone))'
  <2>1. (LockSaid(zone)' <=> LockSaid(zone)) /\ (ZoneSaid(zone)' <=> ZoneSaid(zone))
    BY <1>4, OtherEntry
  <2> QED
    BY <1>1, <1>4, <2>1
<1>5. ASSUME NEW sender, NEW r, NEW a, GrantRole(sender, r, a) \/ RevokeRole(sender, r, a)
      PROVE  UNCHANGED zones /\ Logs({"ROLE_GRANTED", "ROLE_REVOKED", "TEMP_PASS_GRANT"})
  BY <1>5, LogEventLogs DEF GrantRole, RevokeRole, RevokedEntry, Entry
<1>6. ASSUME NEW sender, NEW a, NEW z, NEW d, GrantTemporaryPass(sender, a, z, d)
      PROVE  UNCHANGED zones /\ Logs({"ROLE_GRANTED", "ROLE_REVOKED", "TEMP_PASS_GRANT"})
  BY <1>6, LogEventLogs DEF GrantTemporaryPass, Entry
<1> QED
  BY <1>2, <1>3, <1>4, <1>5, <1>6 DEF AccessNext

\* A new custodian is logged as the custodian of the token.
LEMMA NamedCustodian ==
  ASSUME TypeOK, LogIsSequence, CustodyTold, NEW tokenId \in Token, NEW c \in Address,
         custodians' = [custodians EXCEPT ![tokenId] = c],
         NEW e, LogEvent("AssetNFT", e),
         e.type \in {"ASSET_MINT", "CUSTODY_TRANSFERRED"}, e.entity = tokenId, e.target = c
  PROVE  CustodyTold'
<1> SUFFICES ASSUME "AssetNFT" \in AuditCaller, NEW t \in Token
             PROVE  (Exists(t) <=> CustodySaid(t, custodians[t]))'
  BY DEF CustodyTold
<1>1. /\ Exists(t) <=> CustodySaid(t, custodians[t])
      /\ custodians \in [Token -> Address \cup {NoAddress}]
      /\ logs' = Append(logs, e)
  BY DEF CustodyTold, TypeOK, AssetTypeOK, LogEvent
<1>2. AboutCustody(e, t) <=> t = tokenId
  BY DEF AboutCustody
<1>3. PICK new : new = custodians'[t]
  OBVIOUS
<1>4. CustodySaid(t, new)' <=> IF AboutCustody(e, t) THEN e.target = new ELSE CustodySaid(t, new)
  BY <1>1, CustodyEntry
<1>5. CASE t = tokenId
  BY <1>1, <1>2, <1>3, <1>4, <1>5 DEF Exists, CustodySaid, LastSays
<1>6. CASE t # tokenId
  BY <1>1, <1>2, <1>3, <1>4, <1>6 DEF Exists, CustodySaid, LastSays
<1> QED
  BY <1>5, <1>6

\* A step that leaves the custodians alone logs nothing about custody.
LEMMA CustodyToldUnchanged ==
  ASSUME LogIsSequence, CustodyTold, UNCHANGED custodians, NEW types, Logs(types),
         types \cap {"ASSET_MINT", "CUSTODY_TRANSFERRED"} = {}
  PROVE  CustodyTold'
<1>1. \A t, c : CustodySaid(t, c)' <=> CustodySaid(t, c)
  BY OtherEntry
<1>2. \A t : CustodySaid(t, custodians[t])' <=> CustodySaid(t, custodians[t])
  <2> SUFFICES ASSUME NEW t
               PROVE  CustodySaid(t, custodians[t])' <=> CustodySaid(t, custodians[t])
    OBVIOUS
  <2>1. PICK c : c = custodians[t]
    OBVIOUS
  <2>2. CustodySaid(t, custodians[t])' <=> CustodySaid(t, c)'
    BY <2>1 DEF CustodySaid, LastSays
  <2> QED
    BY <1>1, <2>1, <2>2
<1> QED
  BY <1>2 DEF CustodyTold, Exists

LEMMA CustodyStep ==
  ASSUME TypeOK, LogIsSequence, CustodyTold, AssetNext
  PROVE  CustodyTold'
<1>1. ASSUME NEW sender \in Address, NEW c \in Address, NEW tier \in ClearanceArg,
             MintAssetDetailed(sender, c, tier)
      PROVE  CustodyTold'
  <2>1. PICK e : e = Entry("ASSET_MINT", sender, c, nextTokenId, Nothing)
    OBVIOUS
  <2>2. /\ nextTokenId \in Token /\ LogEvent("AssetNFT", e)
        /\ custodians' = [custodians EXCEPT ![nextTokenId] = c]
    BY <1>1, <2>1 DEF MintAssetDetailed, Push
  <2>3. e.type = "ASSET_MINT" /\ e.entity = nextTokenId /\ e.target = c
    BY <2>1 DEF Entry
  <2>4. PICK t \in Token : t = nextTokenId
    BY <2>2
  <2> QED
    BY <2>2, <2>3, <2>4, NamedCustodian
<1>2. ASSUME NEW sender \in Address, NEW t \in Token, NEW c \in Address, NEW s,
             ExecuteCustodyTransfer(sender, t, c, s)
      PROVE  CustodyTold'
  <2>1. PICK e : e = Entry("CUSTODY_TRANSFERRED", sender, c, t, Nothing)
    OBVIOUS
  <2>2. LogEvent("AssetNFT", e) /\ custodians' = [custodians EXCEPT ![t] = c]
    BY <1>2, <2>1 DEF ExecuteCustodyTransfer, HandoverEntry, Push
  <2>3. e.type = "CUSTODY_TRANSFERRED" /\ e.entity = t /\ e.target = c
    BY <2>1 DEF Entry
  <2> QED
    BY <2>2, <2>3, NamedCustodian
<1>3. ASSUME UNCHANGED custodians, Logs({"MAINTENANCE_STATUS"})
      PROVE  CustodyTold'
  BY <1>3, CustodyToldUnchanged
<1>4. ASSUME NEW sender, NEW t, NEW status, SetMaintenanceStatus(sender, t, status)
      PROVE  UNCHANGED custodians /\ Logs({"MAINTENANCE_STATUS"})
  BY <1>4, LogEventLogs DEF SetMaintenanceStatus, Entry
<1>5. ASSUME UNCHANGED <<logs, custodians>>
      PROVE  CustodyTold'
  BY <1>3, <1>5 DEF Logs
<1>6. ASSUME NEW sender \in Address, NEW t \in Token, NEW c \in Address,
             ReassignCustody(sender, t, c)
      PROVE  CustodyTold'
  BY <1>2, <1>6 DEF ReassignCustody
<1>7. ASSUME NEW sender \in Address, NEW t \in Token, NEW c \in Address, NEW d \in 0 .. MaxTime,
             TransferCustody(sender, t, c, d)
      PROVE  CustodyTold'
  BY <1>2, <1>7 DEF TransferCustody
<1> QED
  BY <1>1, <1>3, <1>4, <1>5, <1>6, <1>7 DEF AssetNext, SetAuthorizedManager,
     SignCustodyTransfer

\* Every step of the four contracts is told by the log.
LEMMA StepTold ==
  ASSUME TypeOK, LogIsSequence, RolesTold, ZonesTold, CustodyTold, [Next]_vars
  PROVE  (LogIsSequence /\ RolesTold /\ ZonesTold /\ CustodyTold)'
<1>1. ASSUME NEW types, Logs(types) PROVE LogIsSequence'
  BY <1>1, OtherEntry
<1>2. ASSUME NEW types, Logs(types), UNCHANGED <<roles, zones>>,
             types \cap {"ROLE_GRANTED", "ROLE_REVOKED", "ZONE_CONFIG", "LOCKDOWN"} = {}
      PROVE  RolesTold' /\ ZonesTold'
  <2>1. types \cap {"ROLE_GRANTED", "ROLE_REVOKED"} = {} /\ types \cap {"ZONE_CONFIG", "LOCKDOWN"} = {}
    BY <1>2
  <2>2. /\ \A role, account : RoleSaid(role, account)' <=> RoleSaid(role, account)
        /\ \A zone : (LockSaid(zone)' <=> LockSaid(zone)) /\ (ZoneSaid(zone)' <=> ZoneSaid(zone))
    BY <1>2, <2>1, OtherEntry
  <2> QED
    BY <1>2, <2>2 DEF RolesTold, ZonesTold, hasRole
<1>3. CASE InRegistry(RegistryNext)
  <2>1. Logs({"DID_REG", "BATCH_DID_REG", "CLEARANCE_UPDATE", "DID_REVOKE"})
    BY <1>3, RegistryLogs DEF InRegistry
  <2>2. UNCHANGED <<roles, zones, custodians>>
    BY <1>3 DEF InRegistry, accessVars, assetVars
  <2> QED
    BY <1>1, <1>2, <2>1, <2>2, CustodyToldUnchanged
<1>4. CASE InAccess(AccessNext)
  <2>1. Logs({"ROLE_GRANTED", "ROLE_REVOKED", "ZONE_CONFIG", "LOCKDOWN", "TEMP_PASS_GRANT"})
    BY <1>4, AccessLogs DEF InAccess
  <2>2. UNCHANGED custodians
    BY <1>4 DEF InAccess, assetVars
  <2>3. RolesTold' /\ ZonesTold'
    BY <1>4, RolesStep, ZonesStep DEF InAccess
  <2> QED
    BY <1>1, <2>1, <2>2, <2>3, CustodyToldUnchanged
<1>5. CASE InAsset(AssetNext)
  <2>1. Logs({"ASSET_MINT", "CUSTODY_TRANSFERRED", "MAINTENANCE_STATUS"})
    BY <1>5, AssetLogs DEF InAsset
  <2>2. UNCHANGED <<roles, zones>>
    BY <1>5 DEF InAsset, accessVars
  <2>3. CustodyTold'
    BY <1>5, CustodyStep DEF InAsset
  <2> QED
    BY <1>1, <1>2, <2>1, <2>2, <2>3
<1>6. CASE TimePasses \/ UNCHANGED vars
  <2>1. UNCHANGED <<logs, roles, zones, custodians>>
    BY <1>6 DEF TimePasses, vars, accessVars, assetVars
  <2>2. Logs({})
    BY <2>1 DEF Logs
  <2> QED
    BY <1>1, <1>2, <2>1, <2>2, CustodyToldUnchanged
<1> QED
  BY <1>3, <1>4, <1>5, <1>6 DEF Next

\* The log tells the state of the contracts in every behaviour.
LEMMA ToldInvariant == Spec => [](RolesTold /\ ZonesTold /\ CustodyTold)
<1>1. TypeOK /\ LogIsSequence /\ RolesTold /\ ZonesTold /\ CustodyTold /\ [Next]_vars
        => (LogIsSequence /\ RolesTold /\ ZonesTold /\ CustodyTold)'
  BY StepTold
<1> QED
  BY InitTold, <1>1, TypeCorrect, PTL DEF Spec

\* What AccessControl decides by - who holds a role, which zones exist and
\* which are locked down - can be recovered from the audit log alone, for any
\* number of accounts, zones and entries, if the log accepts its entries.
THEOREM AccessCanBeReplayed == Spec => []AccessIsReplayable
<1>1. RolesTold /\ ZonesTold => AccessIsReplayable
  BY ToldIsReplayable DEF AccessIsReplayable
<1> QED
  BY ToldInvariant, <1>1, PTL

\* So can the custodian of every token, on the signed and on the
\* administrative path.
THEOREM CustodyCanBeReplayed == Spec => []CustodyIsReplayable
<1>1. CustodyTold => CustodyIsReplayable
  BY ToldIsReplayable
<1> QED
  BY ToldInvariant, <1>1, PTL

-----------------------------------------------------------------------------
(* The tamper check: a verification accuses nobody whose row and chain     *)
(* agreed all the time, and overlooks nothing that differed all the time.  *)

\* Row and chain say the same of a target, and the chain can be asked.
Agreed(target, tokenId) == Readable(target, tokenId) /\ RowOf(target) = OnChain(target, tokenId)

\* As long as nothing drifted under a verification's eyes, nothing has changed at
\* all: a step changes either rows or contracts, so the first change of a pair
\* that agreed is a drift.
UnmovedUnlessDrifted ==
    \A h \in Handler : Verifying(h) =>
        \/ "DRIFTED" \in seen[h]
        \/ /\ Agreed(call[h].target, call[h].tokenId)
           /\ call[h].row = RowOf(call[h].target)

\* An identity whose hash the chain did not confirm was inactive when it was asked.
HashesAreGrounded ==
    \A h \in Handler :
        pc[h] = "compare" /\ call[h].target \in Address /\ ~call[h].verified =>
            "DRIFTED" \in seen[h] \/ ~call[h].row.state

\* What a verdict rests on was seen.
VerdictsAreGrounded ==
    \A h \in Handler : pc[h] = "answer" =>
        /\ call[h].verdict = "INTEGRITY_COMPROMISED" => "DRIFTED" \in seen[h]
        /\ call[h].read => \/ call[h].verdict = "INTEGRITY_COMPROMISED"
                           \/ "AGREED" \in seen[h]
                           \/ "CHANGED" \in seen[h]

\* What a verification keeps.
Fields == {"target", "row", "tokenId", "verified", "read", "verdict"}

Domains ==
    /\ DOMAIN pc = Handler /\ DOMAIN call = Handler
    /\ \A h \in Handler : Verifying(h) => DOMAIN call[h] = Fields

IntegrityInv ==
    /\ Domains
    /\ UnmovedUnlessDrifted
    /\ HashesAreGrounded
    /\ VerdictsAreGrounded

-----------------------------------------------------------------------------
(* What a step of the system does to a verification. *)

\* Both sides stay as they are, or one of them does.
SidesKept ==
    \/ \A target : RowOf(target)' = RowOf(target)
    \/ \A target, tokenId : /\ Readable(target, tokenId)' = Readable(target, tokenId)
                            /\ OnChain(target, tokenId)' = OnChain(target, tokenId)

\* The call is not touched.
Untouched(h) ==
    pc'[h] = pc[h] /\ call'[h] = call[h] /\ SidesKept

\* The row has just been read.
Begins(h) ==
    /\ pc'[h] \in {"checkHash", "compare"}
    /\ (call[h].row = RowOf(call[h].target))'
    /\ call'[h].verified

\* A verification goes on, and nothing else changes.
GoesOn(h) ==
    /\ call'[h].target = call[h].target /\ call'[h].tokenId = call[h].tokenId
    /\ call'[h].row = call[h].row
    /\ \A target : RowOf(target)' = RowOf(target)
    /\ \A target, tokenId : Agreed(target, tokenId)' = Agreed(target, tokenId)

\* The hash has been asked for.
Checks(h) ==
    /\ pc[h] = "checkHash" /\ pc'[h] = "compare" /\ GoesOn(h)
    /\ call'[h].verified = identities[call[h].target].isActive

\* What is reported was different on chain, or its hash was not confirmed although
\* the record is active.
Differs(c) ==
    \/ c.row # OnChain(c.target, c.tokenId)
    \/ /\ c.target \in Address /\ ~c.verified
       /\ identities[c.target].isActive

\* The chain has been read, or could not be.
Compares(h) ==
    LET c == call[h]
    IN  /\ pc[h] \in {"checkHash", "compare"} /\ pc'[h] = "answer" /\ GoesOn(h)
        /\ call'[h].verdict = "INTEGRITY_COMPROMISED" => pc[h] = "compare" /\ Differs(c)
        /\ call'[h].read => Readable(c.target, c.tokenId)
                            /\ (call'[h].verdict = "INTEGRITY_COMPROMISED"
                                \/ c.row = OnChain(c.target, c.tokenId))

Concerns(h) == ~Verifying(h)' \/ Untouched(h) \/ Begins(h) \/ Checks(h) \/ Compares(h)

LEMMA RowsKept ==
  ASSUME UNCHANGED rows
  PROVE  \A target : RowOf(target)' = RowOf(target)
  BY DEF rows, RowOf

LEMMA ChainKept ==
  ASSUME UNCHANGED <<deployed, contracts>>
  PROVE  \A target, tokenId : /\ Readable(target, tokenId)' = Readable(target, tokenId)
                              /\ OnChain(target, tokenId)' = OnChain(target, tokenId)
  BY DEF contracts, vars, Readable, OnChain, Exists, assetVars, accessVars, registryVars

LEMMA BeginFacts ==
  ASSUME Domains, NEW g \in Handler, NEW step, NEW c, Begin(g, step, c),
         step \in {"checkHash", "compare", "answer"} => DOMAIN c = Fields
  PROVE  /\ Domains' /\ pc[g] = "idle" /\ pc'[g] = step /\ call'[g] = c
         /\ \A h \in Handler : h # g => pc'[h] = pc[h] /\ call'[h] = call[h]
  BY DEF Domains, Begin, Verifying

LEMMA ReturnFacts ==
  ASSUME Domains, NEW g \in Handler, Return(g)
  PROVE  /\ Domains' /\ ~Verifying(g)'
         /\ \A h \in Handler : h # g => pc'[h] = pc[h] /\ call'[h] = call[h]
  BY DEF Domains, Return, Verifying

\* Whatever a handler does that is not about a verification of its own.
LEMMA OthersUntouched ==
  ASSUME NEW g \in Handler, SidesKept, ~Verifying(g)',
         \A h \in Handler : h # g => pc'[h] = pc[h] /\ call'[h] = call[h]
  PROVE  \A h \in Handler : Concerns(h)
  BY DEF Concerns, Untouched

LEMMA MintsConcern ==
  ASSUME Domains, NEW g \in Handler,
         \/ \E name \in Name, u \in Address, tier \in Clearance, t \in Token \cup {NoToken} :
               MintAsset(g, name, u, tier, t)
         \/ MintOnChain(g) \/ CheckClash(g) \/ SaveAsset(g)
  PROVE  Domains' /\ \A h \in Handler : Concerns(h)
<1>1. ASSUME NEW name \in Name, NEW u \in Address, NEW tier \in Clearance,
             NEW t \in Token \cup {NoToken}, MintAsset(g, name, u, tier, t)
      PROVE  Domains' /\ \A h \in Handler : Concerns(h)
  <2>1. PICK step, c : Begin(g, step, c) /\ step \in {"mint", "saveAsset", "clash"}
    BY <1>1 DEF MintAsset
  <2>2. SidesKept
    BY <1>1, RowsKept DEF MintAsset, SidesKept
  <2> QED
    BY <2>1, <2>2, BeginFacts, OthersUntouched DEF Verifying
<1>2. CASE MintOnChain(g)
  <2>1. SidesKept
    BY <1>2, RowsKept DEF MintOnChain, SidesKept, rows
  <2>1a. PICK step, c : /\ step \in {"saveAsset", "idle"}
                        /\ pc' = [pc EXCEPT ![g] = step]
                        /\ call' = [call EXCEPT ![g] = c]
    BY <1>2 DEF MintOnChain, Domains, Goto, Return, AfterFailedMint
  <2>2. /\ Domains' /\ pc'[g] \in {"saveAsset", "idle"}
        /\ \A h \in Handler : h # g => pc'[h] = pc[h] /\ call'[h] = call[h]
    BY <2>1a DEF Domains, Verifying
  <2> QED
    BY <2>1, <2>2, OthersUntouched DEF Verifying
<1>3. CASE CheckClash(g)
  <2>1. SidesKept
    BY <1>3, RowsKept DEF CheckClash, SidesKept
  <2>2. /\ Domains' /\ pc'[g] \in {"saveAsset", "idle"}
        /\ \A h \in Handler : h # g => pc'[h] = pc[h] /\ call'[h] = call[h]
    BY <1>3 DEF CheckClash, Domains, Goto, Return, Verifying
  <2> QED
    BY <2>1, <2>2, OthersUntouched DEF Verifying
<1>4. CASE SaveAsset(g)
  <2>1. SidesKept
    BY <1>4, ChainKept DEF SaveAsset, SidesKept
  <2> QED
    BY <1>4, <2>1, ReturnFacts, OthersUntouched DEF SaveAsset
<1> QED
  BY <1>1, <1>2, <1>3, <1>4

\* A verification reads the row as it begins; the forger and the repair do the
\* same and are none.
LEMMA AskConcerns ==
  ASSUME Domains, NEW g \in Handler, NEW target, NEW step, Ask(g, target, step)
  PROVE  /\ Domains'
         /\ step \in {"checkHash", "compare", "forge", "readBack"} => \A h \in Handler : Concerns(h)
<1>1. PICK c : /\ Begin(g, step, c) /\ c.target = target /\ c.row = RowOf(target)
               /\ c.verified /\ UNCHANGED rows /\ DOMAIN c = Fields
  BY DEF Ask, Fields
<1>2. SidesKept /\ RowOf(target)' = RowOf(target)
  BY <1>1, RowsKept DEF SidesKept
<1>3. Domains' /\ pc'[g] = step /\ call'[g] = c
      /\ \A h \in Handler : h # g => pc'[h] = pc[h] /\ call'[h] = call[h]
  BY <1>1, BeginFacts
<1>4. CASE step \in {"forge", "readBack"}
  BY <1>2, <1>3, <1>4, OthersUntouched DEF Verifying
<1>5. CASE step \in {"checkHash", "compare"}
  <2>1. Begins(g)
    <3>1. call'[g].target = target /\ call'[g].row = RowOf(target)' /\ call'[g].verified
      BY <1>1, <1>2, <1>3
    <3>2. (call[g].row = RowOf(call[g].target))'
      BY <3>1 DEF RowOf
    <3> QED
      BY <1>3, <1>5, <3>1, <3>2 DEF Begins
  <2> QED
    BY <1>2, <1>3, <2>1 DEF Concerns, Untouched
<1> QED
  BY <1>3, <1>4, <1>5

\* The answer takes what the call knows with it.
LEMMA AnswerFacts ==
  ASSUME Domains, NEW g \in Handler, NEW verdict, NEW read, Answer(g, verdict, read),
         Verifying(g)
  PROVE  /\ Domains' /\ pc'[g] = "answer"
         /\ call'[g].verdict = verdict /\ call'[g].read = read
         /\ call'[g].target = call[g].target /\ call'[g].tokenId = call[g].tokenId
         /\ call'[g].row = call[g].row
         /\ \A h \in Handler : h # g => pc'[h] = pc[h] /\ call'[h] = call[h]
<1>1. DOMAIN call[g] = Fields /\ DOMAIN pc = Handler /\ DOMAIN call = Handler
  BY DEF Domains
<1>2. PICK c : /\ DOMAIN c = Fields /\ c.verdict = verdict /\ c.read = read
               /\ c.target = call[g].target /\ c.tokenId = call[g].tokenId
               /\ c.row = call[g].row
               /\ call' = [call EXCEPT ![g] = c]
  <2> DEFINE c == [call[g] EXCEPT !.read = read, !.verdict = verdict]
  <2>1. /\ DOMAIN c = Fields /\ c.verdict = verdict /\ c.read = read
        /\ c.target = call[g].target /\ c.tokenId = call[g].tokenId /\ c.row = call[g].row
    BY <1>1 DEF Fields
  <2>2. call' = [call EXCEPT ![g] = c]
    BY <1>1 DEF Answer
  <2> HIDE DEF c
  <2> QED
    BY <2>1, <2>2
<1> QED
  <2>1. pc' = [pc EXCEPT ![g] = "answer"]
    BY DEF Answer
  <2> QED
    BY <1>1, <1>2, <2>1 DEF Domains, Verifying

\* What does not touch rows or contracts.
LEMMA QuietStep ==
  ASSUME UNCHANGED <<deployed, contracts, rows>>
  PROVE  /\ SidesKept /\ \A target : RowOf(target)' = RowOf(target)
         /\ \A target, tokenId : Agreed(target, tokenId)' = Agreed(target, tokenId)
  BY RowsKept, ChainKept DEF SidesKept, Agreed

\* What a verdict says of the comparison.
LEMMA VerdictFacts ==
  ASSUME NEW c, NEW dossier \in Dossiers(c.target)
  PROVE  /\ VerdictOnIdentity(Matches(c), dossier) = "INTEGRITY_COMPROMISED" => ~Matches(c)
         /\ ~Matches(c) => VerdictOnIdentity(Matches(c), dossier) = "INTEGRITY_COMPROMISED"
         /\ Unread(c.target, dossier) # "INTEGRITY_COMPROMISED"
         /\ ~Matches(c) => Differs(c)
         /\ Matches(c) => c.row = OnChain(c.target, c.tokenId)
<1>1. dossier \in {"NONE", "FETCHED", "FAILED"}
  BY DEF Dossiers
<1>2. Matches(c) => /\ VerdictOnIdentity(Matches(c), dossier) # "INTEGRITY_COMPROMISED"
  BY <1>1 DEF VerdictOnIdentity
<1>3. ~Matches(c) => VerdictOnIdentity(Matches(c), dossier) = "INTEGRITY_COMPROMISED"
  BY <1>1 DEF VerdictOnIdentity
<1>4. Unread(c.target, dossier) # "INTEGRITY_COMPROMISED"
  BY <1>1 DEF VerdictOnIdentity, Unread
<1> QED
  BY <1>2, <1>3, <1>4 DEF Matches, Differs

LEMMA VerificationConcerns ==
  ASSUME Domains, NEW g \in Handler,
         CheckHash(g) \/ Compare(g) \/ CompareUnread(g) \/ Answered(g)
  PROVE  Domains' /\ \A h \in Handler : Concerns(h)
<1>1. CASE Compare(g) \/ CompareUnread(g)
  <2>1. /\ UNCHANGED <<deployed, contracts, rows>>
        /\ pc[g] \in {"checkHash", "compare"} /\ Verifying(g)
    BY <1>1 DEF Compare, CompareUnread, Verifying
  <2>2. /\ SidesKept /\ \A target : RowOf(target)' = RowOf(target)
        /\ \A target, tokenId : Agreed(target, tokenId)' = Agreed(target, tokenId)
    BY <2>1, QuietStep
  <2>3. PICK verdict, read :
            /\ Answer(g, verdict, read)
            /\ verdict = "INTEGRITY_COMPROMISED" => pc[g] = "compare" /\ Differs(call[g])
            /\ read => Readable(call[g].target, call[g].tokenId)
                       /\ (verdict = "INTEGRITY_COMPROMISED"
                           \/ call[g].row = OnChain(call[g].target, call[g].tokenId))
    <3>1. CASE Compare(g)
      <4>1. PICK dossier \in Dossiers(call[g].target) :
              IF Readable(call[g].target, call[g].tokenId)
              THEN Answer(g, IF call[g].target \in Address
                             THEN VerdictOnIdentity(Matches(call[g]), dossier)
                             ELSE IF Matches(call[g]) THEN "INTEGRITY_OK"
                             ELSE "INTEGRITY_COMPROMISED", TRUE)
              ELSE Answer(g, Unread(call[g].target, dossier), FALSE)
        BY <3>1 DEF Compare
      <4>2. pc[g] = "compare"
        BY <3>1 DEF Compare
      <4> QED
        BY <4>1, <4>2, VerdictFacts
    <3>2. CASE CompareUnread(g)
      <4>1. PICK dossier \in Dossiers(call[g].target) :
              Answer(g, Unread(call[g].target, dossier), FALSE)
        BY <3>2 DEF CompareUnread
      <4> QED
        BY <4>1, VerdictFacts
    <3> QED
      BY <1>1, <3>1, <3>2
  <2>4. Domains' /\ \A h \in Handler : h # g => pc'[h] = pc[h] /\ call'[h] = call[h]
    BY <2>1, <2>3, AnswerFacts
  <2>5. Compares(g)
    BY <2>1, <2>2, <2>3, AnswerFacts DEF Compares, GoesOn
  <2> QED
    BY <2>2, <2>4, <2>5 DEF Concerns, Untouched
<1>2. CASE CheckHash(g)
  <2>1. /\ UNCHANGED <<deployed, contracts, rows>> /\ pc[g] = "checkHash"
        /\ DOMAIN pc = Handler /\ DOMAIN call = Handler /\ DOMAIN call[g] = Fields
        /\ pc' = [pc EXCEPT ![g] = "compare"]
        /\ call' = [call EXCEPT ![g].verified = identities[call[g].target].isActive]
    BY <1>2 DEF CheckHash, Domains, Verifying
  <2>2. PICK c : /\ DOMAIN c = Fields /\ c.verified = identities[call[g].target].isActive
                 /\ c.target = call[g].target /\ c.tokenId = call[g].tokenId
                 /\ c.row = call[g].row
                 /\ call' = [call EXCEPT ![g] = c]
    <3> DEFINE c == [call[g] EXCEPT !.verified = identities[call[g].target].isActive]
    <3>1. /\ DOMAIN c = Fields /\ c.verified = identities[call[g].target].isActive
          /\ c.target = call[g].target /\ c.tokenId = call[g].tokenId /\ c.row = call[g].row
      BY <2>1 DEF Fields
    <3>2. call' = [call EXCEPT ![g] = c]
      BY <2>1
    <3> HIDE DEF c
    <3> QED
      BY <3>1, <3>2
  <2>3. /\ Domains' /\ pc'[g] = "compare" /\ call'[g] = c
        /\ \A h \in Handler : h # g => pc'[h] = pc[h] /\ call'[h] = call[h]
    BY <2>1, <2>2 DEF Domains, Verifying
  <2>4. Checks(g)
    BY <2>1, <2>2, <2>3, QuietStep DEF Checks, GoesOn
  <2> QED
    BY <2>1, <2>3, <2>4, QuietStep DEF Concerns, Untouched
<1>3. CASE Answered(g)
  BY <1>3, ReturnFacts, RowsKept, OthersUntouched DEF Answered, SidesKept
<1> QED
  BY <1>1, <1>2, <1>3

\* The script is no verification.
LEMMA ScriptConcerns ==
  ASSUME Domains, NEW g \in Handler,
         ReconcileAssets(g) \/ UpsertListed(g) \/ FindPhantoms(g) \/ ClearPhantom(g)
  PROVE  Domains' /\ \A h \in Handler : Concerns(h)
<1>1. CASE ReconcileAssets(g)
  <2>1. SidesKept
    BY <1>1, RowsKept DEF ReconcileAssets, SidesKept
  <2>2. PICK c : Begin(g, "upsert", c)
    BY <1>1 DEF ReconcileAssets
  <2> QED
    BY <2>1, <2>2, BeginFacts, OthersUntouched DEF Verifying
<1>2. CASE ~ReconcileAssets(g) /\ ~Return(g)
  <2>1. SidesKept /\ pc[g] \in {"upsert", "clear"}
    BY <1>2, RowsKept, ChainKept DEF UpsertListed, FindPhantoms, ClearPhantom, SidesKept
  <2>2. /\ DOMAIN pc' = Handler /\ pc'[g] \in {"upsert", "clear"}
        /\ \A h \in Handler : h # g => pc'[h] = pc[h]
    BY <1>2, <2>1 DEF UpsertListed, FindPhantoms, ClearPhantom, Domains
  <2>4. /\ DOMAIN call' = Handler
        /\ \A h \in Handler : h # g => call'[h] = call[h]
    BY <1>2 DEF UpsertListed, FindPhantoms, ClearPhantom, Domains
  <2>3. /\ Domains' /\ ~Verifying(g)'
        /\ \A h \in Handler : h # g => pc'[h] = pc[h] /\ call'[h] = call[h]
    BY <2>2, <2>4 DEF Domains, Verifying
  <2> QED
    BY <2>1, <2>3, OthersUntouched
<1>3. CASE Return(g) /\ ~ReconcileAssets(g)
  <2>1. SidesKept
    BY <1>3, RowsKept, ChainKept DEF UpsertListed, FindPhantoms, ClearPhantom, SidesKept
  <2> QED
    BY <1>3, <2>1, ReturnFacts, OthersUntouched
<1> QED
  BY <1>1, <1>2, <1>3

LEMMA WritersConcern ==
  ASSUME Domains, NEW g \in Handler, Forge(g) \/ ReadBack(g) \/ Restore(g) \/ Fails(g)
  PROVE  Domains' /\ \A h \in Handler : Concerns(h)
<1>1. SidesKept
  BY RowsKept, ChainKept DEF Forge, ReadBack, Restore, Fails, SidesKept
<1>2. CASE Return(g)
  BY <1>1, <1>2, ReturnFacts, OthersUntouched
<1>3. CASE ReadBack(g) /\ ~Return(g)
  <2>1. PICK c : /\ pc' = [pc EXCEPT ![g] = "restore"]
                 /\ call' = [call EXCEPT ![g] = c]
    BY <1>3 DEF ReadBack, Domains
  <2>2. /\ Domains' /\ ~Verifying(g)'
        /\ \A h \in Handler : h # g => pc'[h] = pc[h] /\ call'[h] = call[h]
    BY <2>1 DEF Domains, Verifying
  <2> QED
    BY <1>1, <2>2, OthersUntouched
<1> QED
  BY <1>2, <1>3 DEF Forge, Restore, Fails

LEMMA WorldConcerns ==
  ASSUME Domains,
         \/ Deploy \/ OfficeActs \/ OfficeSaves \/ CustodyMoves
         \/ OwnerSaved \/ Crash
  PROVE  Domains' /\ \A h \in Handler : Concerns(h)
<1>1. CASE Deploy \/ Crash
  BY <1>1 DEF Deploy, Crash, Domains, Verifying, Concerns
<1>2. CASE ~(Deploy \/ Crash)
  <2>1. UNCHANGED <<pc, call>>
    BY <1>2 DEF OfficeActs, OfficeSaves, CustodyMoves, OwnerSaved
  <2>2. SidesKept
    BY <1>2, RowsKept, ChainKept
    DEF OfficeActs, OfficeSaves, CustodyMoves, OwnerSaved, SidesKept
  <2> QED
    BY <2>1, <2>2 DEF Domains, Verifying, Concerns, Untouched
<1> QED
  BY <1>1, <1>2

LEMMA StepConcerns ==
  ASSUME Domains, Step
  PROVE  Domains' /\ \A h \in Handler : Concerns(h)
<1>1. ASSUME NEW g \in Handler, Calls(g) PROVE Domains' /\ \A h \in Handler : Concerns(h)
  BY <1>1, MintsConcern, AskConcerns, ScriptConcerns
  DEF Calls, Verify, SimulateTamper, RestoreFromChain
<1>2. ASSUME NEW g \in Handler, Proceed(g) PROVE Domains' /\ \A h \in Handler : Concerns(h)
  BY <1>2, MintsConcern, VerificationConcerns, WritersConcern, ScriptConcerns DEF Proceed
<1> QED
  BY <1>1, <1>2, WritersConcern, WorldConcerns DEF Step

-----------------------------------------------------------------------------
(* The invariant. *)

\* What is remembered of a verification is what it is like now, and all there was.
LEMMA Remembered ==
  ASSUME Remember, NEW h \in Handler, Verifying(h)'
  PROVE  /\ seen[h] \subseteq seen'[h]
         /\ "DRIFTED" \in seen'[h] \/ Agreed(call[h].target, call[h].tokenId)'
         /\ Agreed(call[h].target, call[h].tokenId)' => "AGREED" \in seen'[h]
         /\ "CHANGED" \in seen'[h] \/ (RowOf(call[h].target) = call[h].row)'
  BY DEF Remember, Situation, Agreed

LEMMA InvStep ==
  ASSUME IntegrityInv, [Step /\ Remember /\ OneMintPerToken']_integrityVars
  PROVE  IntegrityInv'
<1>1. CASE UNCHANGED integrityVars
  <2>1. /\ UNCHANGED <<pc, call, seen>>
        /\ \A target : RowOf(target)' = RowOf(target)
        /\ \A target, tokenId : Agreed(target, tokenId)' = Agreed(target, tokenId)
    <3>1. UNCHANGED <<deployed, contracts, rows, pc, call, seen>>
      BY <1>1 DEF integrityVars
    <3> QED
      BY <3>1, RowsKept, ChainKept DEF Agreed
  <2> QED
    BY <2>1 DEF IntegrityInv, Domains, UnmovedUnlessDrifted, HashesAreGrounded,
               VerdictsAreGrounded, Verifying
<1>2. CASE Step /\ Remember
  <2>1. Domains' /\ \A h \in Handler : Concerns(h)
    BY <1>2, StepConcerns DEF IntegrityInv
  <2>2. ASSUME NEW h \in Handler, Verifying(h)'
        PROVE  \/ "DRIFTED" \in seen'[h]
               \/ (Agreed(call[h].target, call[h].tokenId) /\ call[h].row = RowOf(call[h].target))'
    <3>1. CASE Begins(h)
      BY <1>2, <2>2, <3>1, Remembered DEF Begins
    <3>2. CASE Untouched(h) \/ Checks(h) \/ Compares(h)
      <4>1. /\ call'[h].target = call[h].target /\ call'[h].tokenId = call[h].tokenId
            /\ call'[h].row = call[h].row /\ Verifying(h) /\ SidesKept
        BY <2>2, <3>2 DEF Untouched, Checks, Compares, GoesOn, Verifying, SidesKept
      <4>2. \/ "DRIFTED" \in seen[h]
            \/ Agreed(call[h].target, call[h].tokenId) /\ call[h].row = RowOf(call[h].target)
        BY <4>1 DEF IntegrityInv, UnmovedUnlessDrifted
      <4>3. Agreed(call[h].target, call[h].tokenId)
               /\ Agreed(call[h].target, call[h].tokenId)' =>
                  RowOf(call[h].target)' = RowOf(call[h].target)
        BY <4>1 DEF Agreed, SidesKept
      <4> QED
        BY <1>2, <2>2, <4>1, <4>2, <4>3, Remembered
    <3> QED
      BY <2>1, <2>2, <3>1, <3>2 DEF Concerns
  <2>3. ASSUME NEW h \in Handler, pc'[h] = "answer"
        PROVE  /\ call'[h].verdict = "INTEGRITY_COMPROMISED" => "DRIFTED" \in seen'[h]
               /\ call'[h].read => \/ call'[h].verdict = "INTEGRITY_COMPROMISED"
                                   \/ "AGREED" \in seen'[h] \/ "CHANGED" \in seen'[h]
    <3>1. Verifying(h)'
      BY <2>3 DEF Verifying
    <3>2. CASE Untouched(h)
      BY <1>2, <2>3, <3>1, <3>2, Remembered
      DEF Untouched, IntegrityInv, VerdictsAreGrounded
    <3>3. CASE Compares(h)
      <4>1. seen[h] \subseteq seen'[h]
        BY <1>2, <3>1, Remembered
      <4>2. ASSUME call'[h].verdict = "INTEGRITY_COMPROMISED" PROVE "DRIFTED" \in seen'[h]
        <5>1. pc[h] = "compare" /\ Verifying(h)
          BY <3>3, <4>2 DEF Compares, Verifying
        <5>2. CASE "DRIFTED" \in seen[h]
          BY <4>1, <5>2
        <5>3. CASE "DRIFTED" \notin seen[h]
          <6>1. /\ Agreed(call[h].target, call[h].tokenId)
                /\ call[h].row = RowOf(call[h].target)
            BY <5>1, <5>3 DEF IntegrityInv, UnmovedUnlessDrifted
          <6>2. call[h].row = OnChain(call[h].target, call[h].tokenId)
            BY <6>1 DEF Agreed
          <6>3. /\ call[h].target \in Address /\ ~call[h].verified
                /\ identities[call[h].target].isActive
            BY <3>3, <4>2, <6>2 DEF Compares, Differs
          <6>4. ~call[h].row.state
            BY <5>1, <5>3, <6>3 DEF IntegrityInv, HashesAreGrounded
          <6>5. call[h].row.state = identities[call[h].target].isActive
            BY <6>2, <6>3 DEF OnChain
          <6> QED
            BY <6>3, <6>4, <6>5
        <5> QED
          BY <5>2, <5>3
      <4>3. ASSUME call'[h].read, call'[h].verdict # "INTEGRITY_COMPROMISED"
            PROVE  "AGREED" \in seen'[h] \/ "CHANGED" \in seen'[h]
        <5>1. /\ Readable(call[h].target, call[h].tokenId)
              /\ call[h].row = OnChain(call[h].target, call[h].tokenId)
          BY <3>3, <4>3 DEF Compares
        <5>2. RowOf(call[h].target) = call[h].row => Agreed(call[h].target, call[h].tokenId)
          BY <5>1 DEF Agreed
        <5>3. Agreed(call[h].target, call[h].tokenId) => Agreed(call[h].target, call[h].tokenId)'
          <6>1. \A target, tokenId : Agreed(target, tokenId)' = Agreed(target, tokenId)
            BY <3>3 DEF Compares, GoesOn
          <6>2. call'[h].target = call[h].target /\ call'[h].tokenId = call[h].tokenId
            BY <3>3 DEF Compares, GoesOn
          <6> QED
            BY <6>1, <6>2 DEF Agreed, Readable, RowOf, OnChain
        <5>4. (RowOf(call[h].target) = call[h].row)' => RowOf(call[h].target) = call[h].row
          BY <3>3 DEF Compares, GoesOn
        <5> QED
          BY <1>2, <3>1, <5>2, <5>3, <5>4, Remembered
      <4> QED
        BY <4>2, <4>3
    <3> QED
      BY <2>1, <2>3, <3>1, <3>2, <3>3 DEF Concerns, Begins, Checks
  <2>4. ASSUME NEW h \in Handler, pc'[h] = "compare", call'[h].target \in Address,
               ~call'[h].verified
        PROVE  "DRIFTED" \in seen'[h] \/ ~call'[h].row.state
    <3>1. Verifying(h)'
      BY <2>4 DEF Verifying
    <3>2. CASE Untouched(h)
      BY <1>2, <2>4, <3>1, <3>2, Remembered DEF Untouched, IntegrityInv, HashesAreGrounded
    <3>3. CASE Checks(h)
      <4>1. CASE "DRIFTED" \in seen[h]
        BY <1>2, <3>1, <4>1, Remembered
      <4>2. CASE "DRIFTED" \notin seen[h]
        <5>1. /\ Agreed(call[h].target, call[h].tokenId)
              /\ call[h].row = RowOf(call[h].target)
          BY <3>3, <4>2 DEF IntegrityInv, UnmovedUnlessDrifted, Checks, Verifying
        <5>2. call[h].row.state = identities[call[h].target].isActive
          BY <2>4, <3>3, <5>1 DEF Agreed, OnChain, Checks, GoesOn
        <5> QED
          BY <2>4, <3>3, <5>2 DEF Checks, GoesOn
      <4> QED
        BY <4>1, <4>2
    <3> QED
      BY <2>1, <2>4, <3>1, <3>2, <3>3 DEF Concerns, Begins, Compares
  <2> QED
    BY <2>1, <2>2, <2>3, <2>4
    DEF IntegrityInv, UnmovedUnlessDrifted, HashesAreGrounded, VerdictsAreGrounded
<1> QED
  BY <1>1, <1>2

\* What a verification has seen explains its verdict, in every reachable state.
THEOREM IntegrityInvHolds == IntegritySpec => []IntegrityInv
<1>1. IntegrityInit => IntegrityInv
  BY DEF IntegrityInit, IntegrityInv, Domains, UnmovedUnlessDrifted, HashesAreGrounded,
         VerdictsAreGrounded, Verifying
<1> QED
  BY <1>1, InvStep, PTL DEF IntegritySpec

\* INTEGRITY_COMPROMISED is reported only of what did differ from the chain at some
\* moment of the verification (verifyAssetIntegrity, verifyIdentityIntegrity), be it by
\* an insider's edit or by a change that had reached only one of the two.
THEOREM NoFalseAlarmHolds == IntegritySpec => []NoFalseAlarm
<1>1. IntegrityInv => NoFalseAlarm
  BY DEF IntegrityInv, VerdictsAreGrounded, NoFalseAlarm
<1> QED
  BY <1>1, IntegrityInvHolds, PTL

\* What was forged before a verification and stayed so is reported whenever the
\* chain was read, with the dossier or without it.
THEOREM TamperIsCaughtHolds == IntegritySpec => []TamperIsCaught
<1>1. IntegrityInv => TamperIsCaught
  BY DEF IntegrityInv, VerdictsAreGrounded, TamperIsCaught
<1> QED
  BY <1>1, IntegrityInvHolds, PTL
=============================================================================
