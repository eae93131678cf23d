------------------------------ MODULE Recovery ------------------------------
(***************************************************************************)
(* recovery.service.js: guardians, recovery requests and the two-step      *)
(* re-link of an identity to a new wallet.                                 *)
(***************************************************************************)
EXTENDS Directory

CONSTANTS
    Request,            \* ids of recovery requests
    Admin,              \* holders of an ADMIN session
    Own,                \* the wallets in each person's possession
    ApprovalThreshold,  \* RECOVERY_APPROVAL_THRESHOLD
    Quorum,             \* bound: nobody is left with fewer guardians, unless with none
    NoTerms, NoWallet

ASSUME RecoveryAssumption ==
    /\ Admin \subseteq Person
    /\ Own \in [Person -> SUBSET Wallet]
    /\ \A p, q \in Person : p # q => Own[p] \cap Own[q] = {}
    /\ ApprovalThreshold \in Nat \ {0} /\ Quorum \in Nat \ {0}
    /\ NoWallet \notin Wallet
    /\ IsFiniteSet(Person)
    /\ NoTerms \notin [person : Person, wallet : Wallet, requestedBy : Person]

VARIABLES
    guardians,  \* the Guardian rows
    status,     \* RecoveryRequest.status, "NONE" before the row exists
    terms,      \* the columns of the request that never change
    votes       \* the RecoveryApproval rows

requests == <<status, terms, votes>>
vars == <<users, chain, handlers, faults, guardians, requests>>

Terms == [person : Person, wallet : Wallet, requestedBy : Person]
Step == {"idle", "findOpen", "create", "vote", "markApproved", "markRejected",
         "checkTaken", "retire", "relink", "regrant", "commit"}

\* registerIdentity anchored everybody's wallet before recovery is needed.
Init ==
    /\ users \in [Person -> {u \in UserRow : u.managerId = NoPerson /\ ~u.revoked}]
    /\ \A p \in Person : users[p].wallet \in Own[p]
    /\ anchored = [w \in Wallet |-> IF \E p \in Person : users[p].wallet = w
                                    THEN CHOOSE p \in Person : users[p].wallet = w
                                    ELSE NoPerson]
    /\ holders = [w \in Wallet |-> {users[p].role : p \in {q \in Person : users[q].wallet = w}}]
    /\ guardians \in [Person -> SUBSET Person]
    /\ \A p \in Person : p \notin guardians[p]
    /\ status = [r \in Request |-> "NONE"]
    /\ terms = [r \in Request |-> NoTerms]
    /\ votes = [r \in Request |-> {}]
    /\ InitHandlers

-----------------------------------------------------------------------------
(* Guardians.  Rows are unique, and deleted by the id that was read. *)

AddGuardian(p, g) ==
    /\ p # g
    /\ guardians' = [guardians EXCEPT ![p] = @ \cup {g}]
    /\ UNCHANGED <<users, chain, handlers, faults, requests>>

RemoveGuardian(p, g) ==
    /\ g \in guardians[p]
    /\ guardians' = [guardians EXCEPT ![p] = @ \ {g}]
    /\ UNCHANGED <<users, chain, handlers, faults, requests>>

approvalThreshold(count) == IF count < ApprovalThreshold THEN count ELSE ApprovalThreshold

-----------------------------------------------------------------------------
(* requestRecovery *)

Free == {r \in Request : status[r] = "NONE"}
Raising == {h \in Handler : pc[h] \in {"findOpen", "create"}}

\* (A free id is kept for every call in progress: Request is bounded.)
RequestRecovery(h, by, p, wallet) ==
    /\ Cardinality(Free) > Cardinality(Raising)
    /\ p \in Known /\ ~users[p].revoked
    /\ ~WalletTaken(wallet)
    /\ by \in Admin \cup guardians[p]
    /\ guardians[p] # {}
    /\ Begin(h, "findOpen", [person |-> p, wallet |-> wallet, requestedBy |-> by])
    /\ UNCHANGED <<users, chain, faults, guardians, requests>>

OpenFor(p) == {r \in Request : status[r] \in {"PENDING", "APPROVED"} /\ terms[r].person = p}

FindOpen(h) ==
    /\ pc[h] = "findOpen"
    /\ Goto(h, IF OpenFor(call[h].person) = {} THEN "create" ELSE "idle")
    /\ UNCHANGED <<users, chain, faults, guardians, requests>>

CreateRequest(h) ==
    /\ pc[h] = "create"
    /\ \E r \in Free : /\ status' = [status EXCEPT ![r] = "PENDING"]
                       /\ terms' = [terms EXCEPT ![r] = call[h]]
    /\ Return(h)
    /\ UNCHANGED <<users, chain, faults, guardians, votes>>

-----------------------------------------------------------------------------
(* approveRecovery *)

\* Mutant: whoever asked for the recovery votes for it, too.
AnyGuardianVouches(g, r) == g \in guardians[terms[r].person]

MayVouch(g, r) == g \in guardians[terms[r].person] /\ g # terms[r].requestedBy

ApproveRecovery(h, g, r) ==
    /\ status[r] = "PENDING"
    /\ MayVouch(g, r)
    /\ Begin(h, "vote", [request |-> r, guardian |-> g, approvals |-> votes[r],
                         threshold |-> approvalThreshold(
                                           Cardinality(guardians[terms[r].person]))])
    /\ UNCHANGED <<users, chain, faults, guardians, requests>>

\* A second vote of one guardian breaks the unique constraint and throws.  The
\* votes that count are those that were read, and this one.
Vote(h) ==
    LET c == call[h]
    IN  /\ pc[h] = "vote"
        /\ votes' = [votes EXCEPT ![c.request] = @ \cup {c.guardian}]
        /\ Goto(h, IF /\ c.guardian \notin votes[c.request]
                      /\ Cardinality(c.approvals) + 1 >= c.threshold
                   THEN "markApproved" ELSE "idle")
        /\ UNCHANGED <<users, chain, faults, guardians, status, terms>>

\* UPDATE by id, whatever the status is by now.
MarkApproved(h) ==
    /\ pc[h] = "markApproved"
    /\ status' = [status EXCEPT ![call[h].request] = "APPROVED"]
    /\ Return(h)
    /\ UNCHANGED <<users, chain, faults, guardians, terms, votes>>

-----------------------------------------------------------------------------
(* rejectRecovery *)

RejectRecovery(h, by, r) ==
    /\ status[r] \notin {"NONE", "COMPLETED"}
    /\ by \in Admin \cup guardians[terms[r].person]
    /\ Begin(h, "markRejected", [request |-> r])
    /\ UNCHANGED <<users, chain, faults, guardians, requests>>

MarkRejected(h) ==
    /\ pc[h] = "markRejected"
    /\ status' = [status EXCEPT ![call[h].request] = "REJECTED"]
    /\ Return(h)
    /\ UNCHANGED <<users, chain, faults, guardians, terms, votes>>

-----------------------------------------------------------------------------
(* executeRecovery *)

\* Mutant: a pending request is executed.
ExecutableEarly(r) == status[r] \in {"PENDING", "APPROVED"}

Executable(r) == status[r] = "APPROVED"

\* The request is read with the user's row: the wallet to revoke is the one of
\* that moment.
ExecuteRecovery(h, r) ==
    /\ Executable(r)
    /\ Begin(h, "checkTaken", [request |-> r, old |-> users[terms[r].person].wallet,
                               role |-> users[terms[r].person].role])
    /\ UNCHANGED <<users, chain, faults, guardians, requests>>

Target(h) == terms[call[h].request].wallet

Subject(h) == terms[call[h].request].person

CheckTaken(h) ==
    /\ pc[h] = "checkTaken"
    /\ Goto(h, IF WalletTaken(Target(h)) THEN "idle" ELSE "retire")
    /\ UNCHANGED <<users, chain, faults, guardians, requests>>

\* Mutant: the error of the revocation is not looked at.
AfterFailedRetireAnyway == "relink"

\* A revocation that fails, for any reason, ends the call.
AfterFailedRetire == "idle"

RetireOld(h) ==
    /\ pc[h] = "retire"
    /\ Send(h, Active(call[h].old), Retire(call[h].old), "relink",
            AfterFailedRetire, AfterFailedRetire)
    /\ UNCHANGED <<users, guardians, requests>>

Relink(h) ==
    /\ pc[h] = "relink"
    /\ Send(h, TRUE, Anchor(Target(h), Subject(h)), "regrant", "idle", "idle")
    /\ UNCHANGED <<users, guardians, requests>>

\* The role is granted to the new wallet; the old one keeps it.
Regrant(h) ==
    /\ pc[h] = "regrant"
    /\ Send(h, TRUE, Grant(Target(h), call[h].role), "commit", "commit", "commit")
    /\ UNCHANGED <<users, guardians, requests>>

\* Mutant: only the request is updated.
RelinkedNothing(row, wallet) == row

Relinked(row, wallet) == [row EXCEPT !.wallet = wallet]

\* The $transaction fails as a whole if the wallet was taken meanwhile.
Commit(h) ==
    /\ pc[h] = "commit"
    /\ IF \E q \in Known \ {Subject(h)} : users[q].wallet = Target(h)
       THEN UNCHANGED <<users, status>>
       ELSE /\ users' = [users EXCEPT ![Subject(h)] = Relinked(@, Target(h))]
            /\ status' = [status EXCEPT ![call[h].request] = "COMPLETED"]
    /\ Return(h)
    /\ UNCHANGED <<chain, faults, guardians, terms, votes>>

-----------------------------------------------------------------------------

DatabaseError(h) ==
    /\ FailAt(h, Step \ {"idle", "retire", "relink", "regrant"})
    /\ UNCHANGED <<users, chain, guardians, requests>>

Crash == CrashHandlers /\ UNCHANGED <<users, chain, guardians, requests>>

Receive(h) ==
    \/ \E by, p \in Person : \E w \in Own[p] : RequestRecovery(h, by, p, w)
    \/ \E r \in Request : \E by \in Person : ApproveRecovery(h, by, r) \/ RejectRecovery(h, by, r)
    \/ \E r \in Request : ExecuteRecovery(h, r)

Proceed(h) ==
    \/ FindOpen(h) \/ CreateRequest(h)
    \/ Vote(h) \/ MarkApproved(h) \/ MarkRejected(h)
    \/ CheckTaken(h) \/ RetireOld(h) \/ Relink(h) \/ Regrant(h) \/ Commit(h)

Next ==
    \/ \E p, g \in Person : AddGuardian(p, g) \/ RemoveGuardian(p, g)
    \/ \E h \in Handler : Receive(h) \/ Proceed(h) \/ DatabaseError(h)
    \/ Crash

QuorumKept == \A p \in Person : guardians[p] = {} \/ Cardinality(guardians[p]) >= Quorum

Spec == Init /\ QuorumKept /\ [][Next /\ QuorumKept']_vars

-----------------------------------------------------------------------------

Idle == \A h \in Handler : pc[h] = "idle"

\* The wallets that are live for a person on chain.
Live(p) == {w \in Wallet : anchored[w] = p}

\* Every variable has its type.
TypeOK ==
    /\ DirectoryTypeOK
    /\ \A p \in Person : users[p] # NoRow => users[p].wallet \in Own[p]
    /\ guardians \in [Person -> SUBSET Person]
    /\ status \in [Request -> {"NONE", "PENDING", "APPROVED", "REJECTED", "COMPLETED"}]
    /\ terms \in [Request -> Terms \cup {NoTerms}]
    /\ votes \in [Request -> SUBSET Person]
    /\ pc \in [Handler -> Step]

\* "that threshold is the entire security property": whatever guardians vote at
\* once, are removed after their vote or see their vote lost, no request is
\* APPROVED or COMPLETED without the votes of enough others.
VouchedByOthers ==
    \A r \in Request : status[r] \in {"APPROVED", "COMPLETED"} =>
        /\ Cardinality(votes[r]) >= approvalThreshold(Quorum)
        /\ terms[r].requestedBy \notin votes[r]

\* The revocation is the lock of executeRecovery: between it and the re-link the
\* person has no live wallet, and no other execution for the person is there.
RelinkIsGuarded ==
    \A h \in Handler : pc[h] = "relink" =>
        /\ Live(Subject(h)) = {}
        /\ \A g \in Handler \ {h} : pc[g] = "relink" => Subject(g) # Subject(h)

\* Nobody ever has two live wallets, the lost one and its replacement or two
\* replacements, whatever executions race, fail or lose their receipts.
OneLiveWallet == \A p \in Person : Cardinality(Live(p)) <= 1

\* Handlers that have revoked a wallet of p and not yet written the new one.
Moving(p) == {h \in Handler : pc[h] \in {"relink", "regrant", "commit"} /\ Subject(h) = p}

\* Nobody goes back to a wallet that an execution still waits to revoke.
NoWayBack ==
    \A g, h \in Handler : pc[g] \in {"regrant", "commit"} /\ pc[h] = "retire" =>
        call[h].old # Target(g)

\* As long as nothing failed and nobody goes back to such a wallet, the wallet in the
\* database is the live one of its person, except while an execution is between its
\* revocation and its commit.
CacheFollowsChain ==
    faults = 0 => \A p \in Person : Moving(p) = {} => anchored[users[p].wallet] = p

OneOf(ws) == IF ws = {} THEN NoWallet ELSE CHOOSE w \in ws : TRUE

\* The live wallet of each person.
CurrentWallet == [p \in Person |-> OneOf(Live(p))]

Rotation == INSTANCE KeyRotation WITH
                Vouchers <- approvalThreshold(Quorum), live <- CurrentWallet

\* The service implements the exchange of wallets seen as atomic steps:
\* executeRecovery, although it takes two transactions and several awaits.
RotationSpec == Rotation!Spec
=============================================================================
