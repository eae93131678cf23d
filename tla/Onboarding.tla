----------------------------- MODULE Onboarding -----------------------------
(***************************************************************************)
(* registration.service.js and bulkImport.service.js: the two other ways   *)
(* into the user table.                                                    *)
(***************************************************************************)
EXTENDS IdentityService

CONSTANTS
    AdminWallets,   \* ADMIN_WALLETS: who may enter without an approval
    MaxBatch        \* identities in one transaction (250 in the code)

ASSUME OnboardingAssumption == AdminWallets \subseteq Wallet /\ MaxBatch \in Nat \ {0}

VARIABLE registrations  \* the RegistrationRequest row of each wallet

NoRegistration == [status |-> "NONE", person |-> NoPerson]
RegistrationRow == [status : {"PENDING", "APPROVED", "REJECTED"}, person : Person]

Pending(w) == registrations[w].status = "PENDING"

-----------------------------------------------------------------------------
(* submit: the checks, then the upsert, then the approval of a bootstrap    *)
(* administrator.                                                           *)

Submit(h, w, p) ==
    /\ Unregistered(p, w)
    /\ ~Pending(w) \/ w \in AdminWallets
    /\ \A v \in Wallet \ {w} : ~(Pending(v) /\ registrations[v].person = p)
    /\ Begin(h, "upsert", [rows |-> About(p, [wallet |-> w])])
    /\ UNCHANGED <<users, chain, faults, registrations>>

Upsert(h) ==
    LET w == Row(h).wallet
    IN  /\ pc[h] = "upsert"
        /\ registrations' = [registrations EXCEPT
                                ![w] = [status |-> "PENDING", person |-> Subject(h)]]
        /\ IF w \in AdminWallets
           THEN /\ pc' = [pc EXCEPT ![h] = "readRequest"]
                /\ call' = [call EXCEPT ![h] = [rows |-> @.rows, w |-> w, role |-> "ADMIN"]]
           ELSE Return(h)
        /\ UNCHANGED <<users, chain, faults>>

-----------------------------------------------------------------------------
(* approve *)

ApproveRegistration(h, w, role) ==
    /\ Pending(w)
    /\ Begin(h, "readRequest",
             [rows |-> About(registrations[w].person, [wallet |-> w]), w |-> w, role |-> role])
    /\ UNCHANGED <<users, chain, faults, registrations>>

\* The wallet or the employee code is registered already: only the role is
\* granted, to the wallet of the request.
MatchesExisting(h) == ~Unregistered(Subject(h), call[h].w)

\* Mutant: the request is marked first.
AfterReadingMarked == "markApproved"

AfterReading == "register"

ReadRequest(h) ==
    LET row == [wallet |-> call[h].w, role |-> call[h].role,
                managerId |-> NoPerson, revoked |-> FALSE]
    IN  /\ pc[h] = "readRequest"
        /\ IF Pending(call[h].w)
           THEN /\ pc' = [pc EXCEPT ![h] = IF MatchesExisting(h) THEN "grantExisting"
                                                                  ELSE AfterReading]
                /\ call' = [call EXCEPT ![h] = [rows |-> About(Subject(h), row), w |-> @.w,
                                                 role |-> @.role, next |-> "markApproved"]]
           ELSE Return(h)
        /\ UNCHANGED <<users, chain, faults, registrations>>

GrantExisting(h) ==
    /\ pc[h] = "grantExisting"
    /\ IF RolesConfigured
       THEN Send(h, TRUE, Grant(Row(h).wallet, Row(h).role), "markApproved",
                 "markApproved", "markApproved")
       ELSE Skip(h, "markApproved")
    /\ UNCHANGED <<users, registrations>>

\* UPDATE by id, whatever the status is by now.
MarkApproved(h) ==
    /\ pc[h] = "markApproved"
    /\ registrations' = [registrations EXCEPT ![call[h].w].status = "APPROVED"]
    /\ Return(h)
    /\ UNCHANGED <<users, chain, faults>>

-----------------------------------------------------------------------------
(* reject *)

RejectRegistration(h, w) ==
    /\ Pending(w)
    /\ Begin(h, "markRejected", [rows |-> About(registrations[w].person, [wallet |-> w])])
    /\ UNCHANGED <<users, chain, faults, registrations>>

MarkRejected(h) ==
    /\ pc[h] = "markRejected"
    /\ registrations' = [registrations EXCEPT ![Row(h).wallet].status = "REJECTED"]
    /\ Return(h)
    /\ UNCHANGED <<users, chain, faults>>

-----------------------------------------------------------------------------
(* importCsv: every row is checked and every dossier pinned before the      *)
(* first transaction; then batch after batch.                               *)

\* The rows that passed the check: no person and no wallet appears twice.
Files == {file \in UNION {[S -> NewRows] : S \in (SUBSET Person) \ {{}}} :
             \A p, q \in DOMAIN file : p # q => file[p].wallet # file[q].wallet}

ImportCsv(h, file) ==
    /\ Begin(h, "batch", [rows |-> file, left |-> DOMAIN file, chunk |-> {}, ungranted |-> {}])
    /\ \A p \in DOMAIN file : Unregistered(p, file[p].wallet)
    /\ UNCHANGED <<users, chain, faults, registrations>>

WalletsOf(h, S) == {call[h].rows[p].wallet : p \in S}

\* The next MaxBatch rows, in whatever order the file has them.
Chunks(left) == {S \in SUBSET left : \/ Cardinality(S) = MaxBatch
                                     \/ S = left /\ Cardinality(S) < MaxBatch}

\* The batch is mined: every wallet of it is registered, or it reverts.
Mined(h, S) ==
    /\ \A w \in WalletsOf(h, S) : ~Active(w)
    /\ anchored' = [w \in Wallet |->
          IF w \in WalletsOf(h, S)
          THEN CHOOSE p \in S : call[h].rows[p].wallet = w ELSE anchored[w]]
    /\ UNCHANGED holders

\* The import stops at a batch that is not confirmed: the registry is not
\* configured, the batch reverts since a wallet is active, or it was not sent or
\* its receipt was lost.
RegisterBatch(h) ==
    /\ pc[h] = "batch"
    /\ IF call[h].left = {} \/ ~IdentityConfigured
       THEN Return(h) /\ UNCHANGED <<chain, faults>>
       ELSE \E S \in Chunks(call[h].left) :
              \/ /\ Mined(h, S)
                 /\ pc' = [pc EXCEPT ![h] = "cache"]
                 /\ call' = [call EXCEPT ![h].left = @ \ S, ![h].chunk = S, ![h].ungranted = S]
                 /\ UNCHANGED faults
              \/ /\ \E w \in WalletsOf(h, S) : Active(w)
                 /\ Return(h) /\ UNCHANGED <<chain, faults>>
              \/ Fault /\ Return(h) /\ (UNCHANGED chain \/ Mined(h, S))
    /\ UNCHANGED <<users, registrations>>

\* Mutant: the rows of the last batch are not cached.
CachedRowsDropLast(c) == IF c.left = {} THEN {} ELSE c.chunk

CachedRows(c) == c.chunk

\* createMany with skipDuplicates
CacheRows(h) ==
    /\ pc[h] = "cache"
    /\ users' = [p \in Person |->
          IF p \in CachedRows(call[h]) /\ Unregistered(p, call[h].rows[p].wallet)
          THEN call[h].rows[p] ELSE users[p]]
    /\ Goto(h, "grantRows")
    /\ UNCHANGED <<chain, faults, registrations>>

\* A grant that failed is reported, and the next one follows.
GrantRows(h) ==
    LET Attempted(p) == /\ pc' = [pc EXCEPT ![h] = IF call[h].ungranted = {p}
                                                     THEN "batch" ELSE @]
                        /\ call' = [call EXCEPT ![h].ungranted = @ \ {p}]
        GrantRow(row) == Grant(row.wallet, row.role)
    IN  /\ pc[h] = "grantRows"
        /\ \E p \in call[h].ungranted :
              /\ Attempted(p)
              /\ IF RolesConfigured
                 THEN \/ GrantRow(call[h].rows[p]) /\ UNCHANGED faults
                      \/ Fault /\ (UNCHANGED chain \/ GrantRow(call[h].rows[p]))
                 ELSE UNCHANGED <<chain, faults>>
        /\ UNCHANGED <<users, registrations>>

OnboardingProceeds(h) ==
    \/ Upsert(h) \/ ReadRequest(h) \/ GrantExisting(h) \/ MarkApproved(h) \/ MarkRejected(h)
    \/ RegisterBatch(h) \/ CacheRows(h) \/ GrantRows(h)
=============================================================================
