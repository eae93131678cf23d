------------------------------ MODULE Accounts ------------------------------
(***************************************************************************)
(* The account services together, behind the routes of the administrator   *)
(* and of self-registration: two desks that work on one user table and one *)
(* identity registry.                                                      *)
(***************************************************************************)
EXTENDS Onboarding

CONSTANTS Personnel, Onboarders     \* the handlers of each desk

ASSUME DesksAssumption == Personnel \cup Onboarders \subseteq Handler

vars == <<users, chain, handlers, faults, registrations, configured>>

\* Rows come from the seed or from approved registrations, and are on chain.
Init ==
    /\ users \in [Person -> NewRows \cup {NoRow}]
    /\ \A p, q \in Known : p # q => users[p].wallet # users[q].wallet
    /\ anchored = [w \in Wallet |-> IF WalletTaken(w)
                                    THEN CHOOSE p \in Known : users[p].wallet = w
                                    ELSE NoPerson]
    /\ holders = [w \in Wallet |-> {users[p].role : p \in {q \in Known : users[q].wallet = w}}]
    /\ registrations \in [Wallet -> RegistrationRow \cup {NoRegistration}]
    /\ \A w \in Wallet : registrations[w] # NoRegistration =>
          registrations[w].status = "APPROVED" /\ anchored[w] = registrations[w].person
    /\ configured \in SUBSET ServiceContract
    /\ InitHandlers

PersonnelCall(h) ==
    /\ \E by \in Person, p \in Person :
          /\ MayAdminister(by)
          /\ \/ \E role \in Role : UpdateRole(h, p, role)
             \/ \E m \in Person \cup {NoPerson} : AssignManager(h, p, m)
             \/ RevokeIdentity(h, by, p)
    /\ UNCHANGED registrations

OnboardingCall(h) ==
    \/ /\ \E by \in Person : MayAdminister(by)
       /\ \/ /\ \E p \in Person : \/ \E row \in NewRows : RegisterIdentity(h, p, row, "idle")
                                  \/ ReinstateIdentity(h, p)
             /\ UNCHANGED registrations
          \/ \E w \in Wallet : \/ \E role \in Role : ApproveRegistration(h, w, role)
                               \/ RejectRegistration(h, w)
          \/ \E file \in Files : ImportCsv(h, file)
    \/ \E w \in Wallet, p \in Person : Submit(h, w, p)

Proceed(h) ==
    \/ IdentityProceeds(h) /\ UNCHANGED registrations
    \/ OnboardingProceeds(h)

ChainSteps == {"register", "grant", "updateClearance", "grantNew", "stripOld", "revoke",
               "strip", "reanchor", "regrant", "grantExisting", "batch", "grantRows"}

\* A query throws, or IPFS does before a registration.
Fails(h) ==
    /\ pc[h] \notin (ChainSteps \ {"register", "batch"}) \cup {"idle"}
    /\ Fault
    /\ Return(h)
    /\ UNCHANGED <<users, chain, registrations>>

\* The process dies, or is stopped, and starts again, possibly with other settings:
\* a contract's address is there by now, or is missing.
Restart ==
    /\ configured' \in SUBSET ServiceContract
    /\ \/ CrashHandlers
       \/ /\ \A h \in Handler : pc[h] = "idle"
          /\ configured' # configured
          /\ Fault
          /\ UNCHANGED handlers
    /\ UNCHANGED <<users, chain, registrations>>

Next ==
    \/ /\ \/ \E h \in Personnel : pc[h] = "idle" /\ PersonnelCall(h)
          \/ \E h \in Onboarders : pc[h] = "idle" /\ OnboardingCall(h)
          \/ \E h \in Handler : Proceed(h) \/ Fails(h)
       /\ UNCHANGED configured
    \/ Restart

-----------------------------------------------------------------------------
(* What the office sees to: no two calls at once about one person or wallet. *)

Concerned(h) == IF pc[h] = "idle" THEN {}
                ELSE DOMAIN call[h].rows \cup
                     {call[h].rows[p].wallet : p \in DOMAIN call[h].rows}

OneCallAtATime == \A h, g \in Handler : h # g => Concerned(h) \cap Concerned(g) = {}

Spec == Init /\ [][Next /\ OneCallAtATime']_vars

-----------------------------------------------------------------------------

\* Every variable has its type.
TypeOK ==
    /\ DirectoryTypeOK
    /\ registrations \in [Wallet -> RegistrationRow \cup {NoRegistration}]
    /\ configured \subseteq ServiceContract
    /\ \A h \in Handler : (pc[h] = "idle") = (call[h] = NoCall)

\* registerIdentity: "a mid-flight failure never leaves a DB row pointing at a
\* dossier/tx that doesn't actually exist".  On every path into the table a row
\* appears for a wallet that is active on chain, unless the process was started
\* without the registry's address: only then rows are made "off-chain only".
RowsAreAnchored ==
    [][\A p \in Person : users[p] = NoRow /\ users'[p] # NoRow =>
           anchored'[users'[p].wallet] # NoPerson \/ ~IdentityConfigured]_vars

InForce(p) == /\ users[p] # NoRow
              /\ ~users[p].revoked
              /\ Active(users[p].wallet)
              /\ users[p].role \in holders[users[p].wallet]

OutOfForce(p) == /\ users[p].revoked
                 /\ ~Active(users[p].wallet)
                 /\ users[p].role \notin holders[users[p].wallet]

\* The last step of a call without a warning.
CleanlyEnds(h) == pc[h] \in {"createUser", "saveRole", "unstamp", "stamp"} /\ pc'[h] # pc[h]

\* The role a role change replaces: the one the row had when the call read it.
Replaces(h, role) == pc[h] = "saveRole" /\ call[h].role # role /\ Row(h).role = role

\* A call that ends with neither an error nor a warning, under a process that has
\* both contracts, leaves chain and cache agreeing on whether its person is in
\* force and has the role of the row, however earlier calls that failed have left
\* them, and a role change has taken the role it replaced away: this is what "safe
\* to retry" and "safe to repeat" come to.  Of a role left over from an EARLIER
\* change nothing is said: no call takes it away again, whatever the comment at
\* updateRole promises, since only the role in the row is ever revoked.
CleanCallsAgree ==
    [][\A h \in Handler :
          (CleanlyEnds(h) /\ faults' = faults /\ Configured) =>
              \A p \in Person : p = Subject(h) =>
                  IF pc[h] = "stamp" THEN OutOfForce(p)'
                  ELSE /\ InForce(p)'
                       /\ \A role \in Role :
                             Replaces(h, role) => role \notin holders'[Row(h).wallet]]_vars

\* "Never lock everyone out of the admin console": whenever an administrator is
\* revoked, another one is left.
RevocationLeavesAnAdmin ==
    [][\A p \in Known : users[p].role = "ADMIN" /\ ~users[p].revoked /\ users'[p].revoked =>
           \E q \in Known : users'[q].role = "ADMIN" /\ ~users'[q].revoked]_vars

\* An approved registration has its identity, whatever became of the call.
ApprovedHasIdentity ==
    \A w \in Wallet : registrations[w].status = "APPROVED" =>
        ~Unregistered(registrations[w].person, w)

\* As long as nothing failed and both contracts are configured, and except for the
\* calls in progress: whoever is active on chain has a row, the revoked are
\* inactive, everybody else is active and has the role of the row.
CacheMirrorsChain ==
    LET busy == UNION {Concerned(h) : h \in Handler}
    IN  faults = 0 /\ Configured =>
        /\ \A w \in Wallet \ busy : Active(w) => WalletTaken(w)
        /\ \A p \in Known \ busy : IF users[p].revoked THEN ~Active(users[p].wallet)
                                                       ELSE InForce(p)
=============================================================================
