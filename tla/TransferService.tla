-------------------------- MODULE TransferService ---------------------------
(***************************************************************************)
(* transfer.service.js: dual-authorised custody transfers.  Every HTTP     *)
(* call runs in a handler that other handlers interleave with at each      *)
(* await; the database, the pending transactions and the chain survive a   *)
(* crash of the process.                                                   *)
(*                                                                         *)
(* Rows are read once into `call'.  Reads that can only refuse (clearance, *)
(* SBU, cross-SBU pass, row not found) are the action Refuse.  Audit rows  *)
(* are left out: recordEvent's errors are swallowed and nothing reads them.*)
(***************************************************************************)
EXTENDS Naturals, Sequences, FiniteSets

CONSTANTS
    Request,        \* ids of transfer requests
    User,           \* people and sessions that call the service
    Unregistered,   \* sessions without a row in the user table (ADMIN_WALLETS)
    Manager,        \* callers canManageSbu holds for
    Asset,          \* rows of the asset table
    OnChain,        \* assets with a tokenId, the contract being configured
    Handler,        \* HTTP calls that may be in progress at once
    NoUser, NoTerms, NoRequest, NoAsset,
    MaxTx,          \* bound on the number of transactions sent
    MaxFaults       \* bound on crashes, database errors and lost receipts

ASSUME TransferAssumption ==
    /\ Unregistered \subseteq Manager /\ Manager \subseteq User
    /\ OnChain \subseteq Asset
    /\ NoUser \notin User
    /\ NoRequest \notin Request
    /\ NoAsset \notin Asset
    /\ MaxTx \in Nat /\ MaxFaults \in Nat

VARIABLES
    status,         \* TransferRequest.status, "NONE" before the row exists
    terms,          \* the columns of the request that never change
    approvedBy,     \* TransferRequest.approvedById
    txHash,         \* TransferRequest.txHash: an index of txs, 0 for NULL
    dbOwner,        \* Asset.ownerId
    txs,            \* reassignCustody transactions in the order of their nonces
    custodian,      \* AssetNFT.getCustodian of the assets on chain
    pc,             \* what each handler does next
    call,           \* what each handler has read and was asked for
    faults          \* how many faults have happened

db == <<status, terms, approvedBy, txHash, dbOwner>>
chain == <<txs, custodian>>
vars == <<db, chain, pc, call, faults>>

Registered == User \ Unregistered
Status == {"NONE", "PENDING", "APPROVED", "REJECTED", "EXECUTED"}
Terms == [asset : Asset, fromUser : Registered, toUser : Registered,
          requestedBy : Registered]
Transaction == [request : Request, asset : Asset, to : User,
                status : {"pending", "mined", "reverted"}]
Step == {"idle", "checkPending", "create", "claim", "submit", "wait",
         "commit", "release", "claimRejection"}
Call == [caller : User \cup {NoUser}, request : Request \cup {NoRequest},
         terms : Terms \cup {NoTerms}, tx : 0 .. MaxTx]
CallBy(caller, request, t) ==
    [caller |-> caller, request |-> request, terms |-> t, tx |-> 0]
NoCall == CallBy(NoUser, NoRequest, NoTerms)

\* A session without a database identity cannot be stored as an actor.
ActorIdOf(user) == IF user \in Unregistered THEN NoUser ELSE user

Init ==
    /\ status = [r \in Request |-> "NONE"]
    /\ terms = [r \in Request |-> NoTerms]
    /\ approvedBy = [r \in Request |-> NoUser]
    /\ txHash = [r \in Request |-> 0]
    /\ dbOwner \in [Asset -> Registered]
    /\ txs = << >>
    /\ custodian = dbOwner
    /\ pc = [h \in Handler |-> "idle"]
    /\ call = [h \in Handler |-> NoCall]
    /\ faults = 0

Goto(h, step) == pc' = [pc EXCEPT ![h] = step] /\ UNCHANGED call
Begin(h, step, c) ==
    /\ pc[h] = "idle"
    /\ pc' = [pc EXCEPT ![h] = step]
    /\ call' = [call EXCEPT ![h] = c]
Return(h) ==
    /\ pc' = [pc EXCEPT ![h] = "idle"]
    /\ call' = [call EXCEPT ![h] = NoCall]

-----------------------------------------------------------------------------
(* requestTransfer *)

Unraised == {r \in Request : status[r] = "NONE"}
Raising == {h \in Handler : pc[h] \in {"checkPending", "create"}}

\* The asset is read and the caller and the recipient are checked against it.
\* (A free id is kept for every call in progress: Request is bounded.)
RequestTransfer(h, caller, asset, toUser) ==
    /\ Cardinality(Unraised) > Cardinality(Raising)
    /\ caller \notin Unregistered
    /\ caller = dbOwner[asset] \/ caller \in Manager
    /\ toUser # dbOwner[asset]
    /\ Begin(h, "checkPending",
             CallBy(caller, NoRequest,
                    [asset |-> asset, fromUser |-> dbOwner[asset],
                     toUser |-> toUser, requestedBy |-> caller]))
    /\ UNCHANGED <<db, chain, faults>>

PendingFor(asset) ==
    {r \in Request : status[r] = "PENDING" /\ terms[r].asset = asset}

CheckPending(h) ==
    /\ pc[h] = "checkPending"
    /\ IF PendingFor(call[h].terms.asset) = {} THEN Goto(h, "create") ELSE Return(h)
    /\ UNCHANGED <<db, chain, faults>>

CreateRequest(h) ==
    /\ pc[h] = "create"
    /\ \E r \in Unraised :
          /\ status' = [status EXCEPT ![r] = "PENDING"]
          /\ terms' = [terms EXCEPT ![r] = call[h].terms]
    /\ Return(h)
    /\ UNCHANGED <<approvedBy, txHash, dbOwner, chain, faults>>

-----------------------------------------------------------------------------
(* approveTransfer *)

\* Mutant: the requester may decide.
MayDecideAlone(caller, r) == TRUE

\* Dual authorization: another person decides than the one who asked.
MayDecide(caller, r) == terms[r].requestedBy # caller

ApproveTransfer(h, caller, r) ==
    /\ status[r] = "PENDING"
    /\ MayDecide(caller, r)
    /\ caller \in Manager
    /\ dbOwner[terms[r].asset] = terms[r].fromUser
    /\ Begin(h, "claim", CallBy(caller, r, terms[r]))
    /\ UNCHANGED <<db, chain, faults>>

\* Mutant: the update matches the row whatever another approval did to it.
ClaimableTwice(r) == status[r] \in {"PENDING", "APPROVED"}

\* The WHERE clause of the updates that claim a request.
Claimable(r) == status[r] = "PENDING"

\* UPDATE ... WHERE status = 'PENDING': the handler whose update counts a row
\* goes on, any other answers 409.
Claim(h, decision, next) ==
    LET r == call[h].request
    IN  IF Claimable(r)
        THEN /\ status' = [status EXCEPT ![r] = decision]
             /\ approvedBy' = [approvedBy EXCEPT ![r] = ActorIdOf(call[h].caller)]
             /\ IF next = "idle" THEN Return(h) ELSE Goto(h, next)
             /\ UNCHANGED <<terms, txHash, dbOwner>>
        ELSE Return(h) /\ UNCHANGED db

ClaimApproval(h) ==
    /\ pc[h] = "claim"
    /\ Claim(h, "APPROVED", "submit")
    /\ UNCHANGED <<chain, faults>>

\* reassignCustodyOnChain sends reassignCustody, since no request carries a
\* signature.  Estimating gas or sending may fail; with no contract or no
\* tokenId it reports neither a transaction nor an error.
Submit(h) ==
    /\ pc[h] = "submit"
    /\ \/ call[h].terms.asset \notin OnChain /\ Goto(h, "commit") /\ UNCHANGED chain
       \/ call[h].terms.asset \in OnChain /\ Goto(h, "release") /\ UNCHANGED chain
       \/ /\ call[h].terms.asset \in OnChain
          /\ Len(txs) < MaxTx
          /\ txs' = Append(txs, [request |-> call[h].request,
                                 asset |-> call[h].terms.asset,
                                 to |-> call[h].terms.toUser, status |-> "pending"])
          /\ pc' = [pc EXCEPT ![h] = "wait"]
          /\ call' = [call EXCEPT ![h].tx = Len(txs) + 1]
          /\ UNCHANGED custodian
    /\ UNCHANGED <<db, faults>>

\* Mutant: tx.wait() is not awaited to the end.
SettledAtOnce(state) == TRUE

Settled(state) == state # "pending"

\* Mutant: the error the chain service reports is not looked at.
OutcomeIgnored(state) == "commit"

Outcome(state) == IF state = "mined" THEN "commit" ELSE "release"

\* tx.wait() resolves with the receipt or throws for a reverted transaction.
AwaitReceipt(h) ==
    LET state == txs[call[h].tx].status
    IN  /\ pc[h] = "wait"
        /\ Settled(state)
        /\ Goto(h, Outcome(state))
        /\ UNCHANGED <<db, chain, faults>>

\* Mutant: the release clears the approver and forgets the status.
ReleasedStatusKept(r) == status[r]

ReleasedStatus(r) == IF status[r] = "APPROVED" THEN "PENDING" ELSE status[r]

\* UPDATE ... WHERE status = 'APPROVED'
ReleaseClaim(h) ==
    LET r == call[h].request
    IN  /\ pc[h] = "release"
        /\ status' = [status EXCEPT ![r] = ReleasedStatus(r)]
        /\ approvedBy' = [approvedBy EXCEPT
                             ![r] = IF status[r] = "APPROVED" THEN NoUser ELSE @]
        /\ Return(h)
        /\ UNCHANGED <<terms, txHash, dbOwner, chain, faults>>

\* The $transaction writes both rows by their id, whatever they hold by now.
Commit(h) ==
    LET r == call[h].request
    IN  /\ pc[h] = "commit"
        /\ dbOwner' = [dbOwner EXCEPT ![call[h].terms.asset] = call[h].terms.toUser]
        /\ status' = [status EXCEPT ![r] = "EXECUTED"]
        /\ approvedBy' = [approvedBy EXCEPT ![r] = ActorIdOf(call[h].caller)]
        /\ txHash' = [txHash EXCEPT ![r] = call[h].tx]
        /\ Return(h)
        /\ UNCHANGED <<terms, chain, faults>>

-----------------------------------------------------------------------------
(* rejectTransfer *)

RejectTransfer(h, caller, r) ==
    /\ status[r] = "PENDING"
    /\ MayDecide(caller, r)
    /\ caller \in Manager \/ caller = terms[r].fromUser
    /\ Begin(h, "claimRejection", CallBy(caller, r, NoTerms))
    /\ UNCHANGED <<db, chain, faults>>

ClaimRejection(h) ==
    /\ pc[h] = "claimRejection"
    /\ Claim(h, "REJECTED", "idle")
    /\ UNCHANGED <<chain, faults>>

-----------------------------------------------------------------------------
(* The rest of the world *)

\* A gate outside the model refuses after the first read: nothing was written.
Refuse(h) ==
    /\ pc[h] \in {"checkPending", "claim"}
    /\ Return(h)
    /\ UNCHANGED <<db, chain, faults>>

NextToMine == {i \in DOMAIN txs : /\ txs[i].status = "pending"
                                  /\ \A j \in 1 .. i - 1 : txs[j].status # "pending"}

\* Nonces of the one signer order its transactions.  reassignCustody reverts
\* for the current custodian, and for one the clearance gate refuses.
Mine ==
    \E i \in NextToMine :
        /\ \/ /\ txs[i].to # custodian[txs[i].asset]
              /\ txs' = [txs EXCEPT ![i].status = "mined"]
              /\ custodian' = [custodian EXCEPT ![txs[i].asset] = txs[i].to]
           \/ /\ txs' = [txs EXCEPT ![i].status = "reverted"]
              /\ UNCHANGED custodian
        /\ UNCHANGED <<db, pc, call, faults>>

Fault == faults < MaxFaults /\ faults' = faults + 1

\* The connection breaks while waiting: tx.wait() throws, the transaction stays.
LoseReceipt(h) ==
    /\ pc[h] = "wait"
    /\ Fault
    /\ Goto(h, "release")
    /\ UNCHANGED <<db, chain>>

\* A query throws, and nothing in the service catches it.
DatabaseError(h) ==
    /\ pc[h] \in {"checkPending", "create", "claim", "release", "commit", "claimRejection"}
    /\ Fault
    /\ Return(h)
    /\ UNCHANGED <<db, chain>>

Crash ==
    /\ \E h \in Handler : pc[h] # "idle"
    /\ Fault
    /\ pc' = [h \in Handler |-> "idle"]
    /\ call' = [h \in Handler |-> NoCall]
    /\ UNCHANGED <<db, chain>>

Receive(h) ==
    \/ \E u \in User, a \in Asset, to \in Registered : RequestTransfer(h, u, a, to)
    \/ \E u \in User, r \in Request : ApproveTransfer(h, u, r) \/ RejectTransfer(h, u, r)

Proceed(h) ==
    \/ CheckPending(h) \/ CreateRequest(h)
    \/ ClaimApproval(h) \/ Submit(h) \/ AwaitReceipt(h) \/ ReleaseClaim(h) \/ Commit(h)
    \/ ClaimRejection(h)

Next ==
    \/ \E h \in Handler : Receive(h) \/ Proceed(h) \/ Refuse(h) \/ LoseReceipt(h)
                              \/ DatabaseError(h)
    \/ Mine
    \/ Crash

Spec == Init /\ [][Next]_vars

\* A call that was begun is not suspended for ever, and the chain goes on.
FairSpec == Spec /\ WF_vars(Mine) /\ \A h \in Handler : WF_vars(Proceed(h))

-----------------------------------------------------------------------------

\* Every variable has its type; no approver is a session without a row.
TypeOK ==
    /\ status \in [Request -> Status]
    /\ terms \in [Request -> Terms \cup {NoTerms}]
    /\ approvedBy \in [Request -> Registered \cup {NoUser}]
    /\ txHash \in [Request -> 0 .. MaxTx]
    /\ dbOwner \in [Asset -> Registered]
    /\ txs \in Seq(Transaction) /\ Len(txs) <= MaxTx
    /\ custodian \in [Asset -> User]
    /\ pc \in [Handler -> Step]
    /\ call \in [Handler -> Call]
    /\ faults \in 0 .. MaxFaults

\* The handlers that hold the claim on a request.
Claiming(h) == pc[h] \in {"submit", "wait", "commit", "release"}

\* The atomic claim of approveTransfer: "two concurrent approvals can't both
\* submit a custody transfer".  While one handler is between its claim and its
\* last write, the request is APPROVED by its caller and no other handler is
\* there: nothing rejects, releases, re-approves or executes it meanwhile.
ClaimExclusive ==
    \A h \in Handler : Claiming(h) =>
        /\ status[call[h].request] = "APPROVED"
        /\ approvedBy[call[h].request] = ActorIdOf(call[h].caller)
        /\ \A g \in Handler \ {h} : Claiming(g) => call[g].request # call[h].request

\* Dual authorization survives every race: whoever decided a request is not
\* who raised it.
DualAuthorization ==
    \A r \in Request : status[r] \in {"APPROVED", "EXECUTED", "REJECTED"} =>
        approvedBy[r] # terms[r].requestedBy

\* Transaction i was sent for request r, to hand its asset to its recipient.
SentFor(i, r) ==
    /\ i \in DOMAIN txs
    /\ txs[i].request = r
    /\ txs[i].to = terms[r].toUser

\* "A reported chain failure must not be recorded as an executed transfer": an
\* executed request for an asset on chain names a transaction of its own, sent
\* for it and mined, whatever receipts were lost before.
ExecutedWasMined ==
    \A r \in Request : status[r] = "EXECUTED" /\ terms[r].asset \in OnChain =>
        SentFor(txHash[r], r) /\ txs[txHash[r]].status = "mined"

\* What a handler remembers agrees with the rows it was read from, however
\* long ago: the columns it relies on do not change once a request is raised.
CallsAreGrounded ==
    /\ \A r \in Request : status[r] # "NONE" =>
          terms[r] \in Terms /\ terms[r].fromUser # terms[r].toUser
    /\ \A h \in Handler : pc[h] \in {"checkPending", "create"} =>
          call[h].terms \in Terms /\ call[h].terms.fromUser # call[h].terms.toUser
    /\ \A h \in Handler : pc[h] \in {"claim", "claimRejection"} \/ Claiming(h) =>
          /\ call[h].request \in Request
          /\ call[h].caller \in User
          /\ status[call[h].request] # "NONE"
          /\ terms[call[h].request].requestedBy # call[h].caller
    /\ \A h \in Handler : pc[h] = "claim" \/ Claiming(h) =>
          call[h].terms = terms[call[h].request]
    /\ \A h \in Handler :
          pc[h] = "wait" \/ (pc[h] = "commit" /\ call[h].terms.asset \in OnChain) =>
              SentFor(call[h].tx, call[h].request)
    /\ \A h \in Handler : pc[h] = "commit" /\ call[h].terms.asset \in OnChain =>
          txs[call[h].tx].status = "mined"

\* The inductive invariant behind the safety properties and the refinement.
TransferInv == /\ TypeOK
               /\ CallsAreGrounded
               /\ ClaimExclusive
               /\ DualAuthorization
               /\ ExecutedWasMined

\* Without faults, a request that may still be decided or was rejected has not
\* moved custody and will not: none of its transactions is pending or mined.
UnexecutedNeverMoved ==
    \A r \in Request : status[r] \in {"PENDING", "REJECTED"} =>
        \A i \in DOMAIN txs : txs[i].request = r => txs[i].status = "reverted"

\* Until something fails, a transaction that moved custody or still may is
\* accounted for: its request is executed, or a handler waits for its receipt
\* or is about to record it.
Awaited(i) == \E h \in Handler :
    pc[h] \in {"wait", "commit"} /\ call[h].tx = i /\ call[h].request = txs[i].request
MovesAreAccounted ==
    faults = 0 => \A i \in DOMAIN txs :
        txs[i].status = "reverted" \/ status[txs[i].request] = "EXECUTED" \/ Awaited(i)

Lifecycle == INSTANCE RequestLifecycle WITH decider <- approvedBy, owner <- dbOwner

\* The service implements the life of a request seen as atomic decisions, even
\* though Commit overwrites its rows unconditionally.
LifecycleSpec == Lifecycle!Spec

\* Without faults every approval is answered: the claim ends in EXECUTED, or
\* is released again "so it can be retried or rejected".
ClaimsAreResolved ==
    \A r \in Request : status[r] = "APPROVED" ~> status[r] # "APPROVED"
=============================================================================
