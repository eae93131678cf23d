----------------------------- MODULE Integrity ------------------------------
(***************************************************************************)
(* tamper.service.js and the routes of /api/verify: the audit check that   *)
(* compares a row with the chain and the dossier, the simulated insider    *)
(* who forges a clearance or a tier, and the repair from the chain.  A     *)
(* target is an employee or an asset.                                      *)
(***************************************************************************)
EXTENDS Assets

VARIABLE seen   \* history: what a verification's target was like since it began

integrityVars == <<deployed, contracts, rows, pc, call, faults, seen>>

\* The row of a target, in the terms the chain has it.
RowOf(target) ==
    IF target \in Address
    THEN [level |-> userRows[target].clearanceLevel, state |-> ~userRows[target].revoked]
    ELSE [level |-> assetRows[target].tier,
          state |-> <<assetRows[target].cid, assetRows[target].owner>>]

OnChain(target, tokenId) ==
    IF target \in Address
    THEN [level |-> identities[target].clearanceLevel, state |-> identities[target].isActive]
    ELSE [level |-> assets[tokenId].classificationTier,
          state |-> <<tokenURI[tokenId], custodians[tokenId]>>]

HasRow(target) == target \in Known \cup Recorded

TokenOf(target) == IF target \in Address THEN NoToken ELSE assetRows[target].tokenId

\* An identity can always be asked for; an asset when its token exists.
Readable(target, tokenId) ==
    deployed /\ (target \in Name => tokenId # NoToken /\ Exists(tokenId))

Ask(h, target, step) ==
    /\ HasRow(target)
    /\ Begin(h, step, [target |-> target, row |-> RowOf(target), tokenId |-> TokenOf(target),
                       verified |-> TRUE, read |-> FALSE, verdict |-> "NONE"])
    /\ UNCHANGED <<deployed, contracts, rows, faults>>

-----------------------------------------------------------------------------
(* verifyAssetIntegrity, verifyIdentityIntegrity *)

Verify(h, target) == Ask(h, target, IF target \in Address THEN "checkHash" ELSE "compare")

\* The first of two reads of an identity: verifyIdentity() is false for an
\* inactive record; the row has the hash that was registered.
CheckHash(h) ==
    /\ pc[h] = "checkHash"
    /\ pc' = [pc EXCEPT ![h] = "compare"]
    /\ call' = [call EXCEPT ![h].verified = identities[call[h].target].isActive]
    /\ UNCHANGED <<deployed, contracts, rows, faults>>

\* Mutant: the dossier is looked at first, and a failed fetch decides.
VerdictOnIdentityFetchFirst(matches, dossier) ==
    IF dossier = "FAILED" THEN "VERIFICATION_ERROR"
    ELSE IF matches THEN "INTEGRITY_OK" ELSE "INTEGRITY_COMPROMISED"

\* "The on-chain reads run whether or not IPFS answers, so a forged clearance is
\* still caught when the dossier gateway is down."  An identity without a
\* dossier was registered before there were any.
VerdictOnIdentity(matches, dossier) ==
    CASE ~matches                       -> "INTEGRITY_COMPROMISED"
      [] matches /\ dossier = "FAILED"  -> "VERIFICATION_ERROR"
      [] matches /\ dossier = "NONE"    -> "PARTIAL"
      [] matches /\ dossier = "FETCHED" -> "INTEGRITY_OK"

\* What the chain did not answer is skipped: for an identity it counts as no
\* drift, for an asset the verdict is PARTIAL.
Unread(target, dossier) ==
    IF target \in Address THEN VerdictOnIdentity(TRUE, dossier) ELSE "PARTIAL"

\* Mutant: verifyIdentity() counts for an inactive record, too.
MatchesIfActive(c) == c.row = OnChain(c.target, c.tokenId) /\ c.verified

\* "The hash check only means something while the identity is active on-chain",
\* as the second read has it.
Matches(c) ==
    /\ c.row = OnChain(c.target, c.tokenId)
    /\ c.target \in Address /\ identities[c.target].isActive => c.verified

Answer(h, verdict, read) ==
    /\ pc' = [pc EXCEPT ![h] = "answer"]
    /\ call' = [call EXCEPT ![h].read = read, ![h].verdict = verdict]

\* Only identities have dossiers.
Dossiers(target) == IF target \in Address THEN {"NONE", "FETCHED", "FAILED"} ELSE {"FETCHED"}

Compare(h) ==
    LET c == call[h]
    IN  /\ pc[h] = "compare"
        /\ \E dossier \in Dossiers(c.target) :
              /\ IF Readable(c.target, c.tokenId)
                 THEN Answer(h, IF c.target \in Address THEN VerdictOnIdentity(Matches(c), dossier)
                                ELSE IF Matches(c) THEN "INTEGRITY_OK"
                                ELSE "INTEGRITY_COMPROMISED", TRUE)
                 ELSE Answer(h, Unread(c.target, dossier), FALSE)
              /\ IF dossier = "FAILED" THEN Fault ELSE UNCHANGED faults
        /\ UNCHANGED <<deployed, contracts, rows>>

\* The chain cannot be reached, at the first read or at the second.
CompareUnread(h) ==
    /\ pc[h] \in {"checkHash", "compare"}
    /\ Fault
    /\ \E dossier \in Dossiers(call[h].target) \ {"FAILED"} :
          Answer(h, Unread(call[h].target, dossier), FALSE)
    /\ UNCHANGED <<deployed, contracts, rows>>

Answered(h) ==
    /\ pc[h] = "answer"
    /\ Return(h)
    /\ UNCHANGED <<deployed, contracts, rows, faults>>

-----------------------------------------------------------------------------
(* simulateTamper, restoreFromChain *)

Written(target, level) ==
    IF target \in Address
    THEN /\ userRows' = [userRows EXCEPT ![target].clearanceLevel = level]
         /\ UNCHANGED assetRows
    ELSE /\ assetRows' = [assetRows EXCEPT ![target].tier = level]
         /\ UNCHANGED userRows

SimulateTamper(h, target) == Ask(h, target, "forge")

\* The far end of the scale.
Forge(h) ==
    LET c == call[h]
    IN  /\ pc[h] = "forge"
        /\ Written(c.target, IF c.row.level = TopClearance THEN 1 ELSE TopClearance)
        /\ Return(h)
        /\ UNCHANGED <<deployed, contracts, faults>>

RestoreFromChain(h, target) == Ask(h, target, "readBack")

ReadBack(h) ==
    LET c == call[h]
        legible == /\ Readable(c.target, c.tokenId)
                   /\ c.target \in Address => identities[c.target].isActive
    IN  /\ pc[h] = "readBack"
        /\ IF legible
           THEN /\ pc' = [pc EXCEPT ![h] = "restore"]
                /\ call' = [call EXCEPT ![h].row = OnChain(c.target, c.tokenId)]
           ELSE Return(h)
        /\ UNCHANGED <<deployed, contracts, rows, faults>>

RestoredLevel(h) == call[h].row.level

Restore(h) ==
    /\ pc[h] = "restore"
    /\ Written(call[h].target, RestoredLevel(h))
    /\ Return(h)
    /\ UNCHANGED <<deployed, contracts, faults>>

-----------------------------------------------------------------------------

IntegrityInit ==
    /\ Init
    /\ deployed = FALSE
    /\ tokenURI = [t \in Token |-> CHOOSE a \in Name : TRUE]
    /\ assetRows = [a \in Name |-> NoRow]
    /\ userRows = [u \in Address |-> NoRow]
    /\ pc = [h \in Handler |-> "idle"]
    /\ call = [h \in Handler |-> NoCall]
    /\ faults = 0
    /\ seen = [h \in Handler |-> {}]

Calls(h) ==
    \/ \E name \in Name, u \in Address, tier \in Clearance, t \in Token \cup {NoToken} :
          MintAsset(h, name, u, tier, t)
    \/ ReconcileAssets(h)
    \/ \E target \in Address \cup Name :
          Verify(h, target) \/ SimulateTamper(h, target) \/ RestoreFromChain(h, target)

Proceed(h) ==
    \/ MintOnChain(h) \/ CheckClash(h) \/ SaveAsset(h)
    \/ UpsertListed(h) \/ FindPhantoms(h) \/ ClearPhantom(h)
    \/ CheckHash(h) \/ Compare(h) \/ CompareUnread(h) \/ Answered(h)
    \/ Forge(h) \/ ReadBack(h) \/ Restore(h)

\* IPFS, the database or the node's read fails; the call ends in an error.
Fails(h) ==
    /\ pc[h] \notin {"idle", "answer"}
    /\ Fault
    /\ Return(h)
    /\ UNCHANGED <<deployed, contracts, rows>>

Crash ==
    /\ \E h \in Handler : pc[h] # "idle"
    /\ Fault
    /\ pc' = [h \in Handler |-> "idle"]
    /\ call' = [h \in Handler |-> NoCall]
    /\ UNCHANGED <<deployed, contracts, rows>>

Step ==
    \/ \E h \in Handler : Calls(h) \/ Proceed(h) \/ Fails(h)
    \/ Deploy \/ OfficeActs \/ OfficeSaves \/ CustodyMoves \/ OwnerSaved
    \/ Crash

Situation(h) ==
    LET c == call[h]
    IN  {IF RowOf(c.target) = c.row THEN "SAME" ELSE "CHANGED",
         IF Readable(c.target, c.tokenId) /\ RowOf(c.target) = OnChain(c.target, c.tokenId)
         THEN "AGREED" ELSE "DRIFTED"}

Verifying(h) == pc[h] \in {"checkHash", "compare", "answer"}

Remember ==
    seen' = [h \in Handler |-> IF Verifying(h)' THEN seen[h] \cup Situation(h)' ELSE {}]

\* What callers see to before the deployment: no two mints name one token at once.
OneMintPerToken ==
    \A h, g \in Handler :
        h # g /\ {pc[h], pc[g]} \subseteq {"clash", "saveAsset"} =>
            call[h].row.tokenId # call[g].row.tokenId \/ call[h].row.tokenId = NoToken

IntegritySpec == IntegrityInit /\ [][Step /\ Remember /\ OneMintPerToken']_integrityVars

-----------------------------------------------------------------------------

\* Every variable has its type.
IntegrityTypeOK ==
    /\ TypeOK
    /\ assetRows \in [Name -> AssetRow \cup {NoRow}]
    /\ userRows \in [Address -> UserRow \cup {NoRow}]
    /\ \A h \in Handler : (pc[h] = "idle") = (call[h] = NoCall)

\* A row that was forged before a verification began and stayed as it was, while
\* the chain said something else all the time, is reported whenever the chain
\* could be read - also when the dossier gateway is down.
TamperIsCaught ==
    \A h \in Handler : pc[h] = "answer" /\ call[h].read /\ seen[h] = {"SAME", "DRIFTED"} =>
        call[h].verdict = "INTEGRITY_COMPROMISED"

\* INTEGRITY_COMPROMISED is not made up of reads at different times: although the row
\* and two values of the chain are read one after the other, at some moment of the
\* verification they did disagree.  A legitimate change that has reached only one of the
\* two by then disagrees too, and is reported like an insider's.
NoFalseAlarm ==
    \A h \in Handler : pc[h] = "answer" /\ call[h].verdict = "INTEGRITY_COMPROMISED" =>
        "DRIFTED" \in seen[h]
=============================================================================
