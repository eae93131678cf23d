------------------------------- MODULE Assets -------------------------------
(***************************************************************************)
(* asset.service.js: the asset table in front of AssetNFT.sol, and the     *)
(* script that puts the table in order.  The server may run before the contract *)
(* is configured; assets are then rows only.  A call runs in a handler;    *)
(* the others interleave with it at every await.                           *)
(***************************************************************************)
EXTENDS AssetNFT, TLC

CONSTANTS
    Name,       \* assets to be minted; also the CIDs of their metadata
    Handler,    \* calls in progress; reconcile-assets.js takes one as well
    Keeper,     \* the person reconcile-assets.js gives its assets to
    Listed,     \* the tokens it has the data of, in its order
    ListedName, \* which asset it takes each of them for
    Phantom,    \* the tokens it takes for unminted
    NoToken, NoRow, NoCall,
    MaxFaults   \* bound on crashes, database errors and failed reads and transactions

ASSUME AssetsAssumption ==
    /\ MaxFaults \in Nat /\ NoToken \notin Token
    /\ Keeper \in Address /\ Phantom \subseteq Token
    /\ Listed \in Seq(Token) /\ \A i \in DOMAIN Listed : ListedName[Listed[i]] \in Name

VARIABLES
    deployed,   \* the contract address is configured
    tokenURI,   \* AssetNFT's token URIs
    assetRows,  \* the Asset rows, by the asset they were created for
    userRows,   \* the User rows
    pc, call, faults

contracts == <<vars, tokenURI>>
rows == <<assetRows, userRows>>

AssetRow == [tokenId : Token \cup {NoToken}, cid : Name, tier : Clearance,
             owner : Address, onChain : BOOLEAN]
UserRow == [clearanceLevel : Clearance, revoked : BOOLEAN]

Known == {u \in Address : userRows[u] # NoRow}
Recorded == {a \in Name : assetRows[a] # NoRow}

\* tokenId is unique.
RowsOf(t) == {a \in Recorded : assetRows[a].tokenId = t}

\* An upsert by token: a row that has it is overwritten.
RowAt(t, name) ==
    IF t = NoToken \/ RowsOf(t) = {} THEN name ELSE CHOOSE a \in RowsOf(t) : TRUE

Begin(h, step, c) ==
    /\ pc[h] = "idle"
    /\ pc' = [pc EXCEPT ![h] = step]
    /\ call' = [call EXCEPT ![h] = c]

Return(h) ==
    /\ pc' = [pc EXCEPT ![h] = "idle"]
    /\ call' = [call EXCEPT ![h] = NoCall]

Goto(h, step) ==
    IF step = "idle" THEN Return(h) ELSE pc' = [pc EXCEPT ![h] = step] /\ UNCHANGED call

Fault == faults < MaxFaults /\ faults' = faults + 1

-----------------------------------------------------------------------------
(* mintAsset *)

\* The token a caller may name counts only while there is no contract.
MintAsset(h, name, owner, tier, tokenId) ==
    /\ assetRows[name] = NoRow
    /\ \A g \in Handler : call[g] # NoCall => call[g].target # name
    /\ owner \in Known
    /\ userRows[owner].clearanceLevel >= tier
    /\ Begin(h, IF deployed THEN "mint" ELSE IF tokenId = NoToken THEN "saveAsset" ELSE "clash",
             [target |-> name,
              row |-> [tokenId |-> tokenId, cid |-> name, tier |-> tier, owner |-> owner,
                       onChain |-> FALSE]])
    /\ UNCHANGED <<deployed, contracts, rows, faults>>

\* "must not be papered over with an off-chain-only row"
AfterFailedMint == "idle"

Mined(h) ==
    LET row == call[h].row
    IN  /\ InAsset(MintAssetDetailed(Admin, row.owner, row.tier))
        /\ tokenURI' = [tokenURI EXCEPT ![nextTokenId] = row.cid]

MintOnChain(h) ==
    /\ pc[h] = "mint"
    /\ \/ /\ Mined(h)
          /\ pc' = [pc EXCEPT ![h] = "saveAsset"]
          /\ call' = [call EXCEPT ![h].row.tokenId = nextTokenId, ![h].row.onChain = TRUE]
          /\ UNCHANGED faults
       \/ /\ ~Cleared(call[h].row.owner, call[h].row.tier)
          /\ Goto(h, AfterFailedMint)
          /\ UNCHANGED <<contracts, faults>>
       \/ Fault /\ Goto(h, AfterFailedMint) /\ (UNCHANGED contracts \/ Mined(h))
    /\ UNCHANGED <<deployed, rows>>

Clashes(t) == RowsOf(t) # {}

CheckClash(h) ==
    /\ pc[h] = "clash"
    /\ Goto(h, IF Clashes(call[h].row.tokenId) THEN "idle" ELSE "saveAsset")
    /\ UNCHANGED <<deployed, contracts, rows, faults>>

SaveAsset(h) ==
    LET row == call[h].row
    IN  /\ pc[h] = "saveAsset"
        /\ assetRows' = [assetRows EXCEPT ![RowAt(row.tokenId, call[h].target)] = row]
        /\ Return(h)
        /\ UNCHANGED <<deployed, contracts, userRows, faults>>

-----------------------------------------------------------------------------
(* reconcile-assets.js, run by hand.  It never asks the chain.  (A row it    *)
(* creates beside another one of the same name is left out.)               *)

ReconcileAssets(h) ==
    /\ Keeper \in Known
    /\ Begin(h, "upsert", [target |-> Keeper, todo |-> Listed, stale |-> {}])
    /\ UNCHANGED <<deployed, contracts, rows, faults>>

\* The tokens it lists get the owner, the tier and the data it has for them,
\* whoever has them by now.
UpsertListed(h) ==
    LET t == Head(call[h].todo)
        at == RowAt(t, ListedName[t])
    IN  /\ pc[h] = "upsert" /\ call[h].todo # <<>>
        /\ RowsOf(t) = {} => assetRows[at] = NoRow
        /\ assetRows' = [assetRows EXCEPT ![at] =
               [tokenId |-> t, cid |-> ListedName[t], tier |-> 1, owner |-> Keeper,
                onChain |-> TRUE]]
        /\ call' = [call EXCEPT ![h].todo = Tail(@)]
        /\ UNCHANGED <<deployed, contracts, userRows, pc, faults>>

\* "Clear phantom tokenIds so future on-chain mints start clean": the rows are
\* found, and cleared one by one.
FindPhantoms(h) ==
    /\ pc[h] = "upsert" /\ call[h].todo = <<>>
    /\ pc' = [pc EXCEPT ![h] = "clear"]
    /\ call' = [call EXCEPT ![h].stale = UNION {RowsOf(t) : t \in Phantom}]
    /\ UNCHANGED <<deployed, contracts, rows, faults>>

ClearPhantom(h) ==
    /\ pc[h] = "clear"
    /\ \/ \E a \in call[h].stale :
            /\ assetRows' = [assetRows EXCEPT ![a].tokenId = NoToken]
            /\ call' = [call EXCEPT ![h].stale = @ \ {a}]
            /\ UNCHANGED pc
       \/ call[h].stale = {} /\ Return(h) /\ UNCHANGED assetRows
    /\ UNCHANGED <<deployed, contracts, userRows, faults>>

-----------------------------------------------------------------------------

\* The contract is deployed, and the server restarts with its address; the rows
\* keep the tokens they were given before.
Deploy ==
    /\ ~deployed
    /\ deployed' = TRUE
    /\ pc' = [h \in Handler |-> "idle"]
    /\ call' = [h \in Handler |-> NoCall]
    /\ UNCHANGED <<contracts, rows, faults>>

-----------------------------------------------------------------------------
(* External here: the identity services, which write the chain first and    *)
(* the row afterwards, and the custody transfers, which do the same.        *)

OfficeActs ==
    /\ \E u \in Address, c \in Clearance, d \in DID, x \in Hash, s \in SBU :
          InRegistry(\/ RegisterIdentity(Admin, [user |-> u, did |-> d, hash |-> x,
                                                 clearance |-> c, sbu |-> s])
                     \/ UpdateClearance(Admin, u, c)
                     \/ RevokeIdentity(Admin, u))
    /\ UNCHANGED <<deployed, tokenURI, rows, pc, call, faults>>

OfficeSaves ==
    /\ \E u \in Address :
          /\ identities[u] # Unregistered
          /\ LET c == identities[u].clearanceLevel
                 r == ~identities[u].isActive
             IN  \/ userRows' = [userRows EXCEPT ![u] = [clearanceLevel |-> c, revoked |-> r]]
                 \/ u \in Known /\ userRows' = [userRows EXCEPT ![u].revoked = r]
    /\ UNCHANGED <<deployed, contracts, assetRows, pc, call, faults>>

CustodyMoves ==
    /\ \E t \in Token, c \in Address : InAsset(ReassignCustody(Admin, t, c))
    /\ UNCHANGED <<deployed, tokenURI, rows, pc, call, faults>>

OwnerSaved ==
    /\ \E a \in Recorded :
          /\ assetRows[a].tokenId # NoToken /\ Exists(assetRows[a].tokenId)
          /\ assetRows' = [assetRows EXCEPT ![a].owner = custodians[assetRows[a].tokenId]]
    /\ UNCHANGED <<deployed, contracts, userRows, pc, call, faults>>
=============================================================================
