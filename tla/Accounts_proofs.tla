-------------------------- MODULE Accounts_proofs --------------------------
(***************************************************************************)
(* Proofs about the account services: a row appears for a wallet that is   *)
(* active, an approved registration has its identity, chain and cache      *)
(* agree as long as nothing fails, and a call that ends cleanly makes them *)
(* agree whatever failed before it, for any people, wallets, handlers and  *)
(* faults.                                                                 *)
(***************************************************************************)
EXTENDS Accounts, TLAPS

USE DirectoryAssumption, RowAssumption, IdentityAssumption, OnboardingAssumption

\* The types the proofs need.
StateTyped ==
    /\ users \in [Person -> UserRow \cup {NoRow}]
    /\ anchored \in [Wallet -> Person \cup {NoPerson}]
    /\ registrations \in [Wallet -> RegistrationRow \cup {NoRegistration}]
    /\ pc = [h \in Handler |-> pc[h]]
    /\ call = [h \in Handler |-> call[h]]

\* The steps of each operation.
RegisterSteps == {"register", "grant", "createUser", "createUserWarned"}
RoleSteps == {"updateClearance", "grantNew", "stripOld", "saveRole", "saveRoleWarned"}
ManagerSteps == {"readManager", "walk", "saveManager"}
RevokeSteps == {"countAdmins", "revoke", "strip", "stamp", "stampWarned"}
ReinstateSteps == {"reanchor", "regrant", "unstamp", "unstampWarned"}
BatchSteps == {"batch", "cache", "grantRows"}

\* A call is about people and wallets; all but an import about one of each.
Grounded(h) ==
    /\ pc[h] # "idle" =>
          /\ DOMAIN call[h].rows \subseteq Person
          /\ DOMAIN call[h].rows # {}
          /\ \A p \in DOMAIN call[h].rows : call[h].rows[p].wallet \in Wallet
    /\ pc[h] \notin BatchSteps \cup {"idle"} => \E p \in Person : DOMAIN call[h].rows = {p}

\* What a call carries.
Carries(h) ==
    LET c == call[h]
    IN  /\ pc[h] \in RegisterSteps =>
              Row(h) \in UserRow /\ c.next \in {"idle", "markApproved"}
        /\ pc[h] \in RoleSteps \cup {"readRequest"} => c.role \in Role
        /\ pc[h] \in ManagerSteps =>
              /\ c.manager \in Person \cup {NoPerson}
              /\ {"rows", "manager"} \subseteq DOMAIN c
        /\ pc[h] \in BatchSteps =>
              /\ {"rows", "left", "chunk"} \subseteq DOMAIN c
              /\ \A p \in DOMAIN c.rows : c.rows[p] \in UserRow
              /\ \A p, q \in DOMAIN c.rows : p # q => c.rows[p].wallet # c.rows[q].wallet
              /\ c.left \subseteq DOMAIN c.rows /\ c.chunk \subseteq DOMAIN c.rows

\* Whom a call changes has a row.
SubjectKnown(h) ==
    pc[h] \in RoleSteps \cup ManagerSteps \cup RevokeSteps \cup ReinstateSteps =>
        users[Subject(h)] # NoRow

\* Whom a call is about to give a row is active on chain, if there is a registry.
WalletsActive(h) ==
    /\ pc[h] \in RegisterSteps \ {"register"} /\ IdentityConfigured => Active(Row(h).wallet)
    /\ pc[h] = "cache" => \A p \in call[h].chunk : Active(call[h].rows[p].wallet)

\* The calls that end with an approved request.
Approving(h) ==
    \/ pc[h] \in {"readRequest", "grantExisting", "markApproved"}
    \/ pc[h] \in RegisterSteps /\ call[h].next = "markApproved"

\* A verdict is about the request that was read; an approval marks it for an identity.
ApprovesRequest(h) ==
    /\ Approving(h) => /\ call[h].w \in Wallet
                       /\ Row(h).wallet = call[h].w
                       /\ registrations[call[h].w].person = Subject(h)
    /\ pc[h] \in {"grantExisting", "markApproved"} => ~Unregistered(Subject(h), call[h].w)
    /\ pc[h] = "markRejected" => registrations[Row(h).wallet] \in RegistrationRow

\* A call has what its next steps rely on.
InOrder(h) ==
    Grounded(h) /\ Carries(h) /\ SubjectKnown(h) /\ WalletsActive(h) /\ ApprovesRequest(h)

AccountsInv ==
    /\ StateTyped
    /\ OneCallAtATime
    /\ \A h \in Handler : InOrder(h)
    /\ ApprovedHasIdentity

-----------------------------------------------------------------------------
(* One call and the others *)

\* The subject of a call that is about one person, and its row.
LEMMA OneSubject ==
  ASSUME NEW h \in Handler, Grounded(h), pc[h] \notin BatchSteps \cup {"idle"}
  PROVE  /\ Subject(h) \in Person /\ DOMAIN call[h].rows = {Subject(h)}
         /\ Row(h).wallet \in Wallet
         /\ {Subject(h), Row(h).wallet} \subseteq Concerned(h)
<1>1. PICK p \in Person : DOMAIN call[h].rows = {p}
  BY DEF Grounded
<1>2. Subject(h) = p
  BY <1>1 DEF Subject
<1> QED
  BY <1>1, <1>2 DEF Grounded, Row, Concerned

\* No row is taken away, and none changes its wallet.
RowsKept == \A p \in Person : users[p] # NoRow => users'[p] # NoRow /\ users'[p].wallet = users[p].wallet

\* Outside what a call is about the chain and the requests keep what others need.
RestKept(h) ==
    \A w \in Wallet : w \notin Concerned(h) =>
        /\ anchored[w] # NoPerson => anchored'[w] # NoPerson
        /\ registrations'[w] = registrations[w]

\* Whoever is registered stays so.
LEMMA RegisteredStays ==
  ASSUME StateTyped, RowsKept, NEW p, NEW w, ~Unregistered(p, w), p \in Person
  PROVE  ~Unregistered(p, w)'
BY DEF Unregistered, WalletTaken, Known, RowsKept

\* A step of one call leaves the others in order.
LEMMA OthersInOrder ==
  ASSUME AccountsInv, RowsKept, UNCHANGED configured,
         NEW h \in Handler, RestKept(h), NEW g \in Handler, g # h,
         pc'[g] = pc[g], call'[g] = call[g]
  PROVE  InOrder(g)'
<1> InOrder(g) /\ StateTyped
  BY DEF AccountsInv
<1> UNCHANGED <<Subject(g), Row(g)>>
  BY DEF Subject, Row
<1>1. \A w \in Wallet : w \in Concerned(g) => w \notin Concerned(h)
  BY DEF AccountsInv, OneCallAtATime
<1>2. Grounded(g)' /\ Carries(g)'
  BY DEF InOrder, Grounded, Carries
<1>3. SubjectKnown(g)'
  <2>1. CASE pc[g] \in RoleSteps \cup ManagerSteps \cup RevokeSteps \cup ReinstateSteps
    <3>1. pc[g] \notin BatchSteps \cup {"idle"}
      BY <2>1 DEF RoleSteps, ManagerSteps, RevokeSteps, ReinstateSteps, BatchSteps
    <3>2. Subject(g) \in Person /\ users[Subject(g)] # NoRow
      BY <2>1, <3>1, OneSubject DEF InOrder, SubjectKnown
    <3> QED
      BY <3>2 DEF RowsKept, SubjectKnown
  <2> QED
    BY <2>1 DEF SubjectKnown
<1>4. WalletsActive(g)'
  <2>1. CASE pc[g] \in RegisterSteps
    <3>1. pc[g] \notin BatchSteps \cup {"idle"}
      BY <2>1 DEF RegisterSteps, BatchSteps
    <3>2. Row(g).wallet \in Wallet /\ Row(g).wallet \in Concerned(g)
      BY <3>1, OneSubject DEF InOrder
    <3> QED
      BY <1>1, <2>1, <3>2
      DEF InOrder, WalletsActive, RestKept, Active, RegisterSteps, IdentityConfigured
  <2>2. CASE pc[g] = "cache"
    <3>1. ASSUME NEW p \in call[g].chunk
          PROVE  call[g].rows[p].wallet \in Wallet /\ call[g].rows[p].wallet \in Concerned(g)
      <4>1. p \in DOMAIN call[g].rows
        BY <2>2 DEF InOrder, Carries, BatchSteps
      <4> QED
        BY <2>2, <4>1 DEF InOrder, Grounded, Concerned
    <3> QED
      BY <1>1, <2>2, <3>1 DEF InOrder, WalletsActive, RestKept, Active, RegisterSteps
  <2> QED
    BY <2>1, <2>2 DEF WalletsActive
<1>5. ApprovesRequest(g)'
  <2>1. CASE Approving(g)
    <3>1. pc[g] \notin BatchSteps \cup {"idle"}
      BY <2>1 DEF Approving, RegisterSteps, BatchSteps
    <3>2. Row(g).wallet \in Concerned(g) /\ Subject(g) \in Person
      BY <3>1, OneSubject DEF InOrder
    <3>3. registrations'[call[g].w] = registrations[call[g].w]
      BY <1>1, <2>1, <3>2 DEF InOrder, ApprovesRequest, RestKept
    <3> QED
      BY <2>1, <3>2, <3>3, RegisteredStays DEF InOrder, ApprovesRequest, Approving
  <2>2. CASE pc[g] = "markRejected"
    <3>1. Row(g).wallet \in Concerned(g) /\ Row(g).wallet \in Wallet
      BY <2>2, OneSubject DEF InOrder, BatchSteps
    <3> QED
      BY <1>1, <2>2, <3>1 DEF InOrder, ApprovesRequest, RestKept, Approving, RegisterSteps
  <2>3. CASE ~Approving(g) /\ pc[g] # "markRejected"
    BY <2>3 DEF ApprovesRequest, Approving
  <2> QED
    BY <2>1, <2>2, <2>3 DEF Approving, RegisterSteps
<1> QED
  BY <1>2, <1>3, <1>4, <1>5 DEF InOrder

\* What a step of one call has to establish for the invariant.
LEMMA StepInOrder ==
  ASSUME AccountsInv, OneCallAtATime', UNCHANGED configured,
         StateTyped', RowsKept, NEW h \in Handler, RestKept(h),
         \A g \in Handler : g # h => pc'[g] = pc[g] /\ call'[g] = call[g],
         InOrder(h)',
         \A w \in Wallet : \/ registrations'[w] = registrations[w]
                           \/ registrations'[w].status # "APPROVED"
                           \/ ~Unregistered(registrations[w].person, w)
                              /\ registrations'[w].person = registrations[w].person
  PROVE  AccountsInv'
<1>1. \A g \in Handler : InOrder(g)'
  BY OthersInOrder
<1>2. ASSUME NEW w \in Wallet, registrations'[w].status = "APPROVED"
      PROVE  ~Unregistered(registrations[w].person, w)' /\ registrations'[w].person = registrations[w].person
  <2>1. /\ ~Unregistered(registrations[w].person, w)
        /\ registrations'[w].person = registrations[w].person
    BY <1>2 DEF AccountsInv, ApprovedHasIdentity
  <2>2. registrations'[w].person \in Person
    BY <1>2 DEF StateTyped, RegistrationRow, NoRegistration
  <2> QED
    BY <2>1, <2>2, RegisteredStays DEF AccountsInv
<1> QED
  BY <1>1, <1>2 DEF AccountsInv, ApprovedHasIdentity

-----------------------------------------------------------------------------
(* Steps that change neither rows nor requests, and take no wallet's record *)

\* A step that adds to the chain at most.
Adds == /\ UNCHANGED <<users, registrations>>
        /\ anchored' \in [Wallet -> Person \cup {NoPerson}]
        /\ \A w \in Wallet : anchored[w] # NoPerson => anchored'[w] # NoPerson

\* Such a step keeps the invariant when its own call is left in order.
LEMMA AddingStep ==
  ASSUME AccountsInv, OneCallAtATime', UNCHANGED configured,
         Adds, NEW h \in Handler, NEW step, NEW c,
         pc' = [pc EXCEPT ![h] = step], call' = [call EXCEPT ![h] = c], InOrder(h)'
  PROVE  AccountsInv'
<1>1. StateTyped'
  BY DEF AccountsInv, StateTyped, Adds
<1>2. \A g \in Handler : g # h => pc'[g] = pc[g] /\ call'[g] = call[g]
  BY DEF AccountsInv, StateTyped
<1>3. RowsKept /\ RestKept(h)
  BY DEF Adds, RowsKept, RestKept
<1>4. \A w \in Wallet : registrations'[w] = registrations[w]
  BY DEF Adds
<1> QED
  BY <1>1, <1>2, <1>3, <1>4, StepInOrder

\* An idle handler is in order.
LEMMA IdleInOrder ==
  ASSUME NEW h \in Handler, pc'[h] = "idle"
  PROVE  InOrder(h)'
BY DEF InOrder, Grounded, Carries, SubjectKnown, WalletsActive, ApprovesRequest, Approving,
       RegisterSteps, RoleSteps, ManagerSteps, RevokeSteps, ReinstateSteps, BatchSteps

\* A call that ends keeps the invariant, if it adds to the chain at most.
LEMMA ReturnInOrder ==
  ASSUME AccountsInv, OneCallAtATime', UNCHANGED configured,
         Adds, NEW h \in Handler, Return(h)
  PROVE  AccountsInv'
<1>1. pc'[h] = "idle"
  BY DEF Return, AccountsInv, StateTyped
<1> QED
  BY <1>1, IdleInOrder, AddingStep DEF Return

\* A call begins about one person.
LEMMA BeginsInOrder ==
  ASSUME AccountsInv, OneCallAtATime', UNCHANGED configured,
         UNCHANGED <<users, chain, registrations>>,
         NEW h \in Handler, NEW step, NEW c, NEW p \in Person, NEW row,
         Begin(h, step, c), c.rows = About(p, row), row.wallet \in Wallet,
         step \notin BatchSteps \cup RegisterSteps \cup {"idle", "grantExisting", "markApproved"},
         step \in RoleSteps \cup {"readRequest"} => c.role \in Role,
         step \in ManagerSteps =>
              /\ c.manager \in Person \cup {NoPerson}
              /\ {"rows", "manager"} \subseteq DOMAIN c,
         step \in RoleSteps \cup ManagerSteps \cup RevokeSteps \cup ReinstateSteps =>
              users[p] # NoRow,
         step = "readRequest" => c.w \in Wallet /\ row.wallet = c.w /\ registrations[c.w].person = p,
         step = "markRejected" => registrations[row.wallet] \in RegistrationRow
  PROVE  AccountsInv'
<1>1. pc'[h] = step /\ call'[h] = c
  BY DEF Begin, AccountsInv, StateTyped
<1>2. DOMAIN call'[h].rows = {p} /\ call'[h].rows[p] = row
  BY <1>1 DEF About
<1>3. Subject(h)' = p /\ Row(h)' = row
  BY <1>2 DEF Subject, Row
<1>4. InOrder(h)'
  <2>1. Grounded(h)'
    BY <1>2 DEF Grounded
  <2>2. Carries(h)' /\ WalletsActive(h)'
    BY <1>1 DEF Carries, WalletsActive, BatchSteps
  <2>3. SubjectKnown(h)'
    BY <1>1, <1>3 DEF SubjectKnown
  <2>4. ApprovesRequest(h)'
    BY <1>1, <1>3 DEF ApprovesRequest, Approving
  <2> QED
    BY <2>1, <2>2, <2>3, <2>4 DEF InOrder
<1>5. Adds
  BY DEF Adds, chain, AccountsInv, StateTyped
<1> QED
  BY <1>4, <1>5, AddingStep DEF Begin

\* The calls of the personnel desk begin in order.
LEMMA PersonnelBegins ==
  ASSUME AccountsInv, OneCallAtATime', UNCHANGED configured,
         NEW h \in Handler, PersonnelCall(h)
  PROVE  AccountsInv'
<1> USE DEF RegisterSteps, RoleSteps, ManagerSteps, RevokeSteps, ReinstateSteps, BatchSteps
<1> UNCHANGED <<users, chain, registrations>>
  BY DEF PersonnelCall, UpdateRole, AssignManager, RevokeIdentity
<1>0. \A p \in Known : p \in Person /\ users[p] # NoRow /\ users[p].wallet \in Wallet
  BY DEF Known, AccountsInv, StateTyped, UserRow
<1>1. ASSUME NEW p \in Person, NEW role \in Role, UpdateRole(h, p, role) PROVE AccountsInv'
  <2> DEFINE c == [rows |-> About(p, users[p]), role |-> role]
  <2>1. Begin(h, "updateClearance", c) /\ p \in Known
    BY <1>1 DEF UpdateRole
  <2>2. c.rows = About(p, users[p]) /\ c.role \in Role
    OBVIOUS
  <2> HIDE DEF c
  <2> QED
    BY <1>0, <2>1, <2>2, BeginsInOrder
<1>2. ASSUME NEW p \in Person, NEW m \in Person \cup {NoPerson}, AssignManager(h, p, m)
      PROVE  AccountsInv'
  <2> DEFINE c == [rows |-> About(p, users[p]), manager |-> m, at |-> m, seen |-> {p}]
  <2>1. PICK step \in {"saveManager", "readManager"} : Begin(h, step, c) /\ p \in Known
    BY <1>2 DEF AssignManager
  <2>2. /\ c.rows = About(p, users[p]) /\ c.manager \in Person \cup {NoPerson}
        /\ {"rows", "manager"} \subseteq DOMAIN c
    OBVIOUS
  <2> HIDE DEF c
  <2> QED
    BY <1>0, <2>1, <2>2, BeginsInOrder
<1>3. ASSUME NEW by \in Person, NEW p \in Person, RevokeIdentity(h, by, p) PROVE AccountsInv'
  <2> DEFINE c == [rows |-> About(p, users[p])]
  <2>1. PICK step \in {"countAdmins", "revoke"} : Begin(h, step, c) /\ p \in Known
    BY <1>3 DEF RevokeIdentity
  <2>2. c.rows = About(p, users[p])
    OBVIOUS
  <2> HIDE DEF c
  <2> QED
    BY <1>0, <2>1, <2>2, BeginsInOrder
<1> QED
  BY <1>1, <1>2, <1>3 DEF PersonnelCall

\* So do those of the onboarding desk, an import about all the people of a file.
LEMMA OnboardingBegins ==
  ASSUME AccountsInv, OneCallAtATime', UNCHANGED configured,
         NEW h \in Handler, OnboardingCall(h)
  PROVE  AccountsInv'
<1> USE DEF RegisterSteps, RoleSteps, ManagerSteps, RevokeSteps, ReinstateSteps, BatchSteps
<1> UNCHANGED <<users, chain, registrations>>
  BY DEF OnboardingCall, RegisterIdentity, ReinstateIdentity, ApproveRegistration,
         RejectRegistration, ImportCsv, Submit
<1> StateTyped
  BY DEF AccountsInv
<1>0. /\ \A p \in Known : p \in Person /\ users[p] # NoRow /\ users[p].wallet \in Wallet
      /\ \A w \in Wallet : Pending(w) => /\ registrations[w] \in RegistrationRow
                                         /\ registrations[w].person \in Person
  BY DEF Known, StateTyped, UserRow, Pending, RegistrationRow, NoRegistration
<1>1. ASSUME NEW p \in Person, NEW row \in NewRows, RegisterIdentity(h, p, row, "idle")
      PROVE  AccountsInv'
  <2> DEFINE c == [rows |-> About(p, row), next |-> "idle"]
  <2>1. Begin(h, "register", c) /\ row \in UserRow /\ row.wallet \in Wallet
    BY <1>1 DEF RegisterIdentity, NewRows, UserRow
  <2>2. pc'[h] = "register" /\ call'[h] = c
    BY <2>1 DEF Begin, StateTyped
  <2>3. DOMAIN c.rows = {p} /\ c.rows[p] = row /\ c.next = "idle"
    BY DEF About
  <2> HIDE DEF c
  <2>4. Subject(h)' = p /\ Row(h)' = row
    BY <2>2, <2>3 DEF Subject, Row
  <2>5. Grounded(h)'
    BY <2>1, <2>2, <2>3 DEF Grounded
  <2>6. Carries(h)' /\ SubjectKnown(h)' /\ WalletsActive(h)' /\ ApprovesRequest(h)'
    BY <2>1, <2>2, <2>3, <2>4 DEF Carries, SubjectKnown, WalletsActive, ApprovesRequest, Approving
  <2>7. Adds
    BY DEF Adds, chain, StateTyped
  <2> QED
    BY <2>1, <2>5, <2>6, <2>7, AddingStep DEF Begin, InOrder
<1>2. ASSUME NEW p \in Person, ReinstateIdentity(h, p) PROVE AccountsInv'
  <2> DEFINE c == [rows |-> About(p, users[p])]
  <2>1. Begin(h, "reanchor", c) /\ p \in Known
    BY <1>2 DEF ReinstateIdentity
  <2>2. c.rows = About(p, users[p])
    OBVIOUS
  <2> HIDE DEF c
  <2> QED
    BY <1>0, <2>1, <2>2, BeginsInOrder
<1>3. ASSUME NEW w \in Wallet, NEW role \in Role, ApproveRegistration(h, w, role)
      PROVE  AccountsInv'
  <2> DEFINE p == registrations[w].person
             row == [wallet |-> w]
             c == [rows |-> About(p, row), w |-> w, role |-> role]
  <2>1. Begin(h, "readRequest", c) /\ p \in Person
    BY <1>0, <1>3 DEF ApproveRegistration
  <2>2. c.rows = About(p, row) /\ row.wallet = w /\ c.w = w /\ c.role \in Role
    OBVIOUS
  <2> HIDE DEF c, row
  <2> QED
    BY <2>1, <2>2, BeginsInOrder
<1>4. ASSUME NEW w \in Wallet, RejectRegistration(h, w) PROVE AccountsInv'
  <2> DEFINE p == registrations[w].person
             row == [wallet |-> w]
             c == [rows |-> About(p, row)]
  <2>1. Begin(h, "markRejected", c) /\ p \in Person /\ registrations[w] \in RegistrationRow
    BY <1>0, <1>4 DEF RejectRegistration
  <2>2. c.rows = About(p, row) /\ row.wallet = w
    OBVIOUS
  <2> HIDE DEF c, row
  <2> QED
    BY <2>1, <2>2, BeginsInOrder
<1>5. ASSUME NEW file \in Files, ImportCsv(h, file) PROVE AccountsInv'
  <2> DEFINE c == [rows |-> file, left |-> DOMAIN file, chunk |-> {}, ungranted |-> {}]
  <2>1. Begin(h, "batch", c)
    BY <1>5 DEF ImportCsv
  <2>2. pc'[h] = "batch" /\ call'[h] = c
    BY <2>1 DEF Begin, StateTyped
  <2>3. /\ DOMAIN file \subseteq Person /\ DOMAIN file # {}
        /\ \A p \in DOMAIN file : file[p] \in UserRow /\ file[p].wallet \in Wallet
        /\ \A p, q \in DOMAIN file : p # q => file[p].wallet # file[q].wallet
    <3>1. PICK S \in (SUBSET Person) \ {{}} : file \in [S -> NewRows]
      BY DEF Files
    <3>2. DOMAIN file = S /\ \A p \in S : file[p] \in NewRows
      BY <3>1
    <3>3. \A row \in NewRows : row \in UserRow /\ row.wallet \in Wallet
      BY DEF NewRows, UserRow
    <3>4. \A p, q \in DOMAIN file : p # q => file[p].wallet # file[q].wallet
      BY DEF Files
    <3> QED
      BY <3>1, <3>2, <3>3, <3>4
  <2>4. /\ c.rows = file /\ c.left = DOMAIN file /\ c.chunk = {}
        /\ {"rows", "left", "chunk"} \subseteq DOMAIN c
    OBVIOUS
  <2> HIDE DEF c
  <2>5. Grounded(h)' /\ Carries(h)' /\ SubjectKnown(h)' /\ WalletsActive(h)' /\ ApprovesRequest(h)'
    BY <2>2, <2>3, <2>4
    DEF Grounded, Carries, SubjectKnown, WalletsActive, ApprovesRequest, Approving
  <2>6. Adds
    BY DEF Adds, chain, StateTyped
  <2> QED
    BY <2>1, <2>5, <2>6, AddingStep DEF Begin, InOrder
<1>6. ASSUME NEW w \in Wallet, NEW p \in Person, Submit(h, w, p) PROVE AccountsInv'
  <2> DEFINE row == [wallet |-> w]
             c == [rows |-> About(p, row)]
  <2>1. Begin(h, "upsert", c)
    BY <1>6 DEF Submit
  <2>2. c.rows = About(p, row) /\ row.wallet = w
    OBVIOUS
  <2> HIDE DEF c, row
  <2> QED
    BY <2>1, <2>2, BeginsInOrder
<1> QED
  BY <1>1, <1>2, <1>3, <1>4, <1>5, <1>6 DEF OnboardingCall

-----------------------------------------------------------------------------
(* The steps of a call in progress that write to the chain or only read *)

\* What a transaction leaves behind.
LEMMA SendOutcome ==
  ASSUME NEW h \in Handler, NEW accepted, NEW effect \in BOOLEAN, NEW ok, NEW reverted, NEW failed,
         Send(h, accepted, effect, ok, reverted, failed)
  PROVE  /\ effect \/ UNCHANGED chain
         /\ \/ effect /\ Goto(h, ok)
            \/ Goto(h, reverted)
            \/ Goto(h, failed)
BY DEF Send

\* A call about one person goes on: it carries what it carried.
LEMMA GoesOn ==
  ASSUME AccountsInv, OneCallAtATime', UNCHANGED configured,
         Adds, NEW h \in Handler, NEW step,
         pc' = [pc EXCEPT ![h] = step], UNCHANGED call,
         pc[h] \notin BatchSteps \cup {"idle"}, step \notin BatchSteps \cup {"idle"},
         \/ step = "grant" /\ pc[h] = "register" /\ anchored'[Row(h).wallet] # NoPerson
         \/ step = "createUser" /\ pc[h] = "register" /\ ~IdentityConfigured
         \/ step \in {"createUser", "createUserWarned"} /\ pc[h] = "grant"
         \/ step \in RoleSteps /\ pc[h] \in RoleSteps
         \/ step \in RevokeSteps /\ pc[h] \in RevokeSteps
         \/ step \in ReinstateSteps /\ pc[h] \in ReinstateSteps
         \/ step = "markApproved" /\ pc[h] = "grantExisting"
  PROVE  AccountsInv'
<1> USE DEF RegisterSteps, RoleSteps, ManagerSteps, RevokeSteps, ReinstateSteps, BatchSteps
<1> StateTyped /\ InOrder(h)
  BY DEF AccountsInv
<1>1. pc'[h] = step /\ UNCHANGED <<Subject(h), Row(h)>> /\ call'[h] = call[h]
  BY DEF StateTyped, Subject, Row
<1>2. Row(h).wallet \in Wallet /\ Subject(h) \in Person
  BY OneSubject DEF InOrder
<1>3. Grounded(h)'
  BY <1>1 DEF InOrder, Grounded
<1>4. Carries(h)' /\ SubjectKnown(h)'
  BY <1>1 DEF InOrder, Carries, SubjectKnown, Adds
<1>5. WalletsActive(h)'
  BY <1>1, <1>2 DEF InOrder, WalletsActive, Adds, Active, IdentityConfigured
<1>6. ApprovesRequest(h)'
  <2>1. Approving(h)' => Approving(h)
    BY <1>1 DEF Approving
  <2>2. Unregistered(Subject(h), call[h].w)' = Unregistered(Subject(h), call[h].w)
    BY <1>1 DEF Adds, Unregistered, WalletTaken, Known
  <2> QED
    BY <1>1, <2>1, <2>2 DEF InOrder, ApprovesRequest, Adds
<1> QED
  BY <1>1, <1>3, <1>4, <1>5, <1>6, AddingStep DEF InOrder, StateTyped

\* The transactions of calls about one person.
LEMMA TransactionsGoOn ==
  ASSUME AccountsInv, OneCallAtATime', UNCHANGED configured,
         UNCHANGED registrations, NEW h \in Handler,
         \/ RegisterOnChain(h) \/ GrantRole(h)
         \/ UpdateClearance(h) \/ GrantNew(h) \/ StripOld(h)
         \/ StripRole(h) \/ Reanchor(h) \/ Regrant(h)
         \/ GrantExisting(h)
  PROVE  AccountsInv'
<1> USE DEF RegisterSteps, RoleSteps, ManagerSteps, RevokeSteps, ReinstateSteps, BatchSteps
<1> StateTyped /\ InOrder(h)
  BY DEF AccountsInv
<1>1. pc[h] \notin BatchSteps \cup {"idle"} /\ UNCHANGED users
  BY DEF RegisterOnChain, GrantRole, UpdateClearance, GrantNew, StripOld, StripRole, Reanchor,
         Regrant, GrantExisting
<1>2. Row(h).wallet \in Wallet /\ Subject(h) \in Person
  BY <1>1, OneSubject DEF InOrder
<1>3. ASSUME NEW effect \in BOOLEAN, NEW accepted, NEW ok, NEW reverted, NEW failed,
             Send(h, accepted, effect, ok, reverted, failed),
             effect => UNCHANGED anchored
      PROVE  Adds /\ (Goto(h, ok) \/ Goto(h, reverted) \/ Goto(h, failed))
  <2>1. effect \/ UNCHANGED chain
    BY <1>3, SendOutcome
  <2>2. UNCHANGED anchored
    BY <1>3, <2>1 DEF chain
  <2>3. Goto(h, ok) \/ Goto(h, reverted) \/ Goto(h, failed)
    BY <1>3, SendOutcome
  <2> QED
    BY <1>1, <2>2, <2>3 DEF Adds, StateTyped
<1>4. \A w \in Wallet, p \in Person : Anchor(w, p) =>
          Adds /\ anchored'[w] # NoPerson
  BY <1>1 DEF Anchor, Adds, Active, StateTyped
<1>14. ASSUME NEW step, Skip(h, step)
       PROVE  Adds /\ Goto(h, step)
  BY <1>1, <1>14 DEF Skip, Adds, chain, StateTyped
<1>5. CASE RegisterOnChain(h) /\ ~IdentityConfigured
  <2>1. pc[h] = "register" /\ Skip(h, "createUser")
    BY <1>5 DEF RegisterOnChain
  <2> QED
    BY <1>1, <1>5, <1>14, <2>1, GoesOn DEF Goto
<1>15. CASE RegisterOnChain(h) /\ IdentityConfigured
  <2> DEFINE effect == Anchor(Row(h).wallet, Subject(h))
  <2>1. effect \in BOOLEAN /\ Send(h, TRUE, effect, "grant", "idle", "idle") /\ pc[h] = "register"
    BY <1>15 DEF RegisterOnChain, AfterFailedRegistration, Anchor
  <2>2. effect \/ UNCHANGED chain
    BY <2>1, SendOutcome
  <2>3. \/ effect /\ Goto(h, "grant")
        \/ Goto(h, "idle")
    BY <2>1, SendOutcome
  <2>4. Adds
    BY <1>1, <1>2, <1>4, <2>2 DEF Adds, chain, StateTyped
  <2>5. CASE effect /\ Goto(h, "grant")
    BY <1>1, <1>2, <1>4, <2>1, <2>4, <2>5, GoesOn DEF Goto
  <2> QED
    BY <2>3, <2>4, <2>5, ReturnInOrder DEF Goto
<1>6. CASE GrantRole(h)
  <2> DEFINE effect == Grant(Row(h).wallet, Row(h).role)
  <2>1. /\ effect \in BOOLEAN /\ (effect => UNCHANGED anchored) /\ pc[h] = "grant"
        /\ (Send(h, TRUE, effect, "createUser", "createUserWarned", "createUserWarned") \/ Skip(h, "createUser"))
    BY <1>6 DEF GrantRole, Grant
  <2> HIDE DEF effect
  <2>2. Adds /\ (Goto(h, "createUser") \/ Goto(h, "createUserWarned"))
    BY <1>3, <1>14, <2>1
  <2> QED
    BY <1>1, <2>1, <2>2, GoesOn DEF Goto
<1>7. CASE UpdateClearance(h)
  <2> DEFINE effect == UNCHANGED chain
  <2>1. /\ effect \in BOOLEAN /\ (effect => UNCHANGED anchored) /\ pc[h] = "updateClearance"
        /\ (Send(h, Active(Row(h).wallet), effect, "grantNew", "saveRoleWarned", "saveRoleWarned") \/ Skip(h, "grantNew"))
    BY <1>7 DEF UpdateClearance, chain
  <2> HIDE DEF effect
  <2>2. Adds /\ (Goto(h, "grantNew") \/ Goto(h, "saveRoleWarned"))
    BY <1>3, <1>14, <2>1
  <2> QED
    BY <1>1, <2>1, <2>2, GoesOn DEF Goto
<1>8. CASE GrantNew(h)
  <2> DEFINE effect == Grant(Row(h).wallet, call[h].role)
             ok == IF call[h].role = Row(h).role THEN "saveRole" ELSE "stripOld"
  <2>1. /\ effect \in BOOLEAN /\ (effect => UNCHANGED anchored) /\ pc[h] = "grantNew"
        /\ (Send(h, TRUE, effect, ok, "saveRoleWarned", "saveRoleWarned") \/ Skip(h, "saveRole"))
    BY <1>8 DEF GrantNew, Grant
  <2>2. ok \in {"saveRole", "stripOld"}
    OBVIOUS
  <2> HIDE DEF effect, ok
  <2>3. Adds /\ (Goto(h, ok) \/ Goto(h, "saveRole") \/ Goto(h, "saveRoleWarned"))
    BY <1>3, <1>14, <2>1
  <2> QED
    BY <1>1, <2>1, <2>2, <2>3, GoesOn DEF Goto
<1>9. CASE StripOld(h)
  <2> DEFINE effect == Strip(Row(h).wallet, OutgoingRole(call[h], Row(h)))
  <2>1. /\ effect \in BOOLEAN /\ (effect => UNCHANGED anchored) /\ pc[h] = "stripOld"
        /\ Send(h, TRUE, effect, "saveRole", "saveRoleWarned", "saveRoleWarned")
    BY <1>9 DEF StripOld, Strip
  <2> HIDE DEF effect
  <2>2. Adds /\ (Goto(h, "saveRole") \/ Goto(h, "saveRoleWarned"))
    BY <1>3, <2>1
  <2> QED
    BY <1>1, <2>1, <2>2, GoesOn DEF Goto
<1>10. CASE StripRole(h)
  <2> DEFINE effect == Strip(Row(h).wallet, Row(h).role)
  <2>1. /\ effect \in BOOLEAN /\ (effect => UNCHANGED anchored) /\ pc[h] = "strip"
        /\ (Send(h, TRUE, effect, "stamp", "stampWarned", "stampWarned") \/ Skip(h, "stamp"))
    BY <1>10 DEF StripRole, Strip
  <2> HIDE DEF effect
  <2>2. Adds /\ (Goto(h, "stamp") \/ Goto(h, "stampWarned"))
    BY <1>3, <1>14, <2>1
  <2> QED
    BY <1>1, <2>1, <2>2, GoesOn DEF Goto
<1>16. CASE Reanchor(h) /\ ~IdentityConfigured
  <2>1. pc[h] = "reanchor" /\ Skip(h, "unstamp")
    BY <1>16 DEF Reanchor
  <2> QED
    BY <1>1, <1>14, <2>1, GoesOn DEF Goto
<1>11. CASE Reanchor(h) /\ IdentityConfigured
  <2> DEFINE effect == Anchor(Row(h).wallet, Subject(h))
  <2>1. effect \in BOOLEAN /\ Send(h, TRUE, effect, "regrant", "idle", "idle") /\ pc[h] = "reanchor"
    BY <1>11 DEF Reanchor, Anchor
  <2>2. (effect \/ UNCHANGED chain) /\ (Goto(h, "regrant") \/ Goto(h, "idle"))
    BY <2>1, SendOutcome
  <2>3. Adds
    BY <1>1, <1>2, <1>4, <2>2 DEF Adds, chain, StateTyped
  <2>4. CASE Goto(h, "regrant")
    BY <1>1, <2>1, <2>3, <2>4, GoesOn DEF Goto
  <2> QED
    BY <2>2, <2>3, <2>4, ReturnInOrder DEF Goto
<1>12. CASE Regrant(h)
  <2> DEFINE effect == Grant(Row(h).wallet, Row(h).role)
  <2>1. /\ effect \in BOOLEAN /\ (effect => UNCHANGED anchored) /\ pc[h] = "regrant"
        /\ (Send(h, TRUE, effect, "unstamp", "unstampWarned", "unstampWarned") \/ Skip(h, "unstamp"))
    BY <1>12 DEF Regrant, Grant
  <2> HIDE DEF effect
  <2>2. Adds /\ (Goto(h, "unstamp") \/ Goto(h, "unstampWarned"))
    BY <1>3, <1>14, <2>1
  <2> QED
    BY <1>1, <2>1, <2>2, GoesOn DEF Goto
<1>13. CASE GrantExisting(h)
  <2> DEFINE effect == Grant(Row(h).wallet, Row(h).role)
  <2>1. /\ effect \in BOOLEAN /\ (effect => UNCHANGED anchored) /\ pc[h] = "grantExisting"
        /\ (Send(h, TRUE, effect, "markApproved", "markApproved", "markApproved") \/ Skip(h, "markApproved"))
    BY <1>13 DEF GrantExisting, Grant
  <2> HIDE DEF effect
  <2>2. Adds /\ Goto(h, "markApproved")
    BY <1>3, <1>14, <2>1
  <2> QED
    BY <1>1, <2>1, <2>2, GoesOn DEF Goto
<1> QED
  BY <1>5, <1>6, <1>7, <1>8, <1>9, <1>10, <1>11, <1>12, <1>13, <1>15, <1>16

-----------------------------------------------------------------------------
(* The steps that write a row or a request, or take a wallet's record *)

\* A call that ends with a changed row of its subject.
LEMMA ChangesRow ==
  ASSUME AccountsInv, OneCallAtATime', UNCHANGED configured,
         NEW h \in Handler, UNCHANGED <<chain, registrations>>,
         pc[h] \in RoleSteps \cup ManagerSteps \cup RevokeSteps \cup ReinstateSteps,
         NEW row \in UserRow, row.wallet = users[Subject(h)].wallet,
         users' = [users EXCEPT ![Subject(h)] = row], Return(h)
  PROVE  AccountsInv'
<1> StateTyped /\ InOrder(h)
  BY DEF AccountsInv
<1>1. pc[h] \notin BatchSteps \cup {"idle"}
  BY DEF RoleSteps, ManagerSteps, RevokeSteps, ReinstateSteps, BatchSteps
<1>2. Subject(h) \in Person /\ users[Subject(h)] # NoRow
  BY <1>1, OneSubject DEF InOrder, SubjectKnown
<1>3. StateTyped'
  BY <1>2 DEF StateTyped, Return, chain
<1>4. RowsKept /\ RestKept(h)
  BY <1>2 DEF StateTyped, RowsKept, RestKept, chain
<1>5. pc'[h] = "idle" /\ \A g \in Handler : g # h => pc'[g] = pc[g] /\ call'[g] = call[g]
  BY DEF Return, StateTyped
<1> QED
  BY <1>3, <1>4, <1>5, IdleInOrder, StepInOrder

\* A new role, manager or stamp.
LEMMA RowsAreSaved ==
  ASSUME AccountsInv, OneCallAtATime', UNCHANGED configured,
         NEW h \in Handler, UNCHANGED registrations,
         SaveRole(h) \/ SaveManager(h) \/ StampRevoked(h) \/ UnstampRevoked(h)
  PROVE  AccountsInv'
<1> USE DEF RoleSteps, ManagerSteps, RevokeSteps, ReinstateSteps, BatchSteps
<1> DEFINE p == Subject(h)
<1>0. /\ pc[h] \in RoleSteps \cup ManagerSteps \cup RevokeSteps \cup ReinstateSteps
      /\ UNCHANGED chain /\ Return(h)
  BY DEF SaveRole, SaveManager, StampRevoked, UnstampRevoked
<1>1. users[p] \in UserRow
  BY <1>0, OneSubject DEF AccountsInv, InOrder, SubjectKnown, StateTyped
<1>2. Carries(h)
  BY DEF AccountsInv, InOrder
<1>3. CASE SaveRole(h)
  <2>1. users' = [users EXCEPT ![p] = [users[p] EXCEPT !.role = call[h].role]]
    BY <1>3 DEF SaveRole
  <2>2. [users[p] EXCEPT !.role = call[h].role] \in UserRow
    BY <1>1, <1>2, <1>3 DEF SaveRole, Carries, UserRow
  <2>3. [users[p] EXCEPT !.role = call[h].role].wallet = users[p].wallet
    BY <1>1 DEF UserRow
  <2> QED
    BY <1>0, <2>1, <2>2, <2>3, ChangesRow
<1>4. CASE SaveManager(h)
  <2>1. users' = [users EXCEPT ![p] = [users[p] EXCEPT !.managerId = call[h].manager]]
    BY <1>4 DEF SaveManager
  <2>2. [users[p] EXCEPT !.managerId = call[h].manager] \in UserRow
    BY <1>1, <1>2, <1>4 DEF SaveManager, Carries, UserRow
  <2>3. [users[p] EXCEPT !.managerId = call[h].manager].wallet = users[p].wallet
    BY <1>1 DEF UserRow
  <2> QED
    BY <1>0, <2>1, <2>2, <2>3, ChangesRow
<1>5. ASSUME NEW stamp \in BOOLEAN, users' = [users EXCEPT ![p].revoked = stamp]
      PROVE  AccountsInv'
  <2>1. users' = [users EXCEPT ![p] = [users[p] EXCEPT !.revoked = stamp]]
    BY <1>5
  <2>2. [users[p] EXCEPT !.revoked = stamp] \in UserRow
    BY <1>1 DEF UserRow
  <2>3. [users[p] EXCEPT !.revoked = stamp].wallet = users[p].wallet
    BY <1>1 DEF UserRow
  <2> QED
    BY <1>0, <2>1, <2>2, <2>3, ChangesRow
<1> QED
  BY <1>3, <1>4, <1>5 DEF StampRevoked, UnstampRevoked

\* The walk up the reporting line and the count of administrators only read.
LEMMA ReadsGoOn ==
  ASSUME AccountsInv, OneCallAtATime', UNCHANGED configured,
         NEW h \in Handler, UNCHANGED registrations,
         ReadManager(h) \/ CountAdmins(h)
  PROVE  AccountsInv'
<1> USE DEF RegisterSteps, RoleSteps, ManagerSteps, RevokeSteps, ReinstateSteps, BatchSteps
<1> StateTyped /\ InOrder(h)
  BY DEF AccountsInv
<1>1. Adds /\ pc[h] \notin BatchSteps \cup {"idle"}
  BY DEF Adds, ReadManager, CountAdmins, chain, StateTyped
<1>2. CASE CountAdmins(h)
  <2>1. pc[h] = "countAdmins" /\ (Goto(h, "idle") \/ Goto(h, "revoke"))
    BY <1>2 DEF CountAdmins
  <2>2. CASE Goto(h, "revoke")
    BY <1>1, <2>1, <2>2, GoesOn DEF Goto
  <2> QED
    BY <1>1, <2>1, <2>2, ReturnInOrder DEF Goto
<1>3. CASE ReadManager(h) /\ ~Return(h)
  <2> DEFINE c == call[h]
  <2> DEFINE next == users[c.at].managerId
             met == c.seen \cup {next}
             step == IF LastHop(c, next) THEN "saveManager" ELSE "walk"
  <2>1. /\ pc[h] \in {"readManager", "walk"}
        /\ pc' = [pc EXCEPT ![h] = step]
        /\ call' = [call EXCEPT ![h] = [c EXCEPT !.at = next, !.seen = met]]
    BY <1>3 DEF ReadManager
  <2>2. {"rows", "manager"} \subseteq DOMAIN c
    BY <2>1 DEF InOrder, Carries
  <2> DEFINE d == [c EXCEPT !.at = next, !.seen = met]
  <2>3. DOMAIN d = DOMAIN c /\ d.rows = c.rows /\ d.manager = c.manager
    BY <2>2
  <2>7. step \in {"saveManager", "walk"}
    OBVIOUS
  <2> HIDE DEF next, met, step
  <2>4. pc'[h] = step /\ call'[h] = d
    BY <2>1 DEF StateTyped
  <2> HIDE DEF d
  <2>8. /\ call'[h].rows = c.rows /\ call'[h].manager = c.manager
        /\ {"rows", "manager"} \subseteq DOMAIN call'[h]
    BY <2>2, <2>3, <2>4
  <2>5. Subject(h)' = Subject(h)
    BY <2>8 DEF Subject
  <2>6. Grounded(h)' /\ Carries(h)' /\ SubjectKnown(h)' /\ WalletsActive(h)' /\ ApprovesRequest(h)'
    BY <1>1, <2>1, <2>4, <2>5, <2>7, <2>8
    DEF InOrder, Grounded, Carries, SubjectKnown, WalletsActive, ApprovesRequest, Approving, Adds
  <2> QED
    BY <1>1, <2>1, <2>6, AddingStep DEF InOrder, d
<1> QED
  BY <1>1, <1>2, <1>3, ReturnInOrder

\* The revocation takes the record of the call's own wallet only.
LEMMA RevokeGoesOn ==
  ASSUME AccountsInv, OneCallAtATime', UNCHANGED configured,
         NEW h \in Handler, UNCHANGED registrations, RevokeOnChain(h)
  PROVE  AccountsInv'
<1> USE DEF RegisterSteps, RoleSteps, ManagerSteps, RevokeSteps, ReinstateSteps, BatchSteps
<1> DEFINE w == Row(h).wallet
<1> StateTyped /\ InOrder(h)
  BY DEF AccountsInv
<1>1. pc[h] = "revoke" /\ UNCHANGED users
  BY DEF RevokeOnChain
<1>2. w \in Wallet /\ w \in Concerned(h)
  BY <1>1, OneSubject DEF InOrder
<1>3. (Retire(w) \/ UNCHANGED chain) /\ (Goto(h, "strip") \/ Goto(h, "idle"))
  <2>1. CASE ~IdentityConfigured
    BY <2>1 DEF RevokeOnChain, Skip
  <2>2. CASE IdentityConfigured
    <3>1. Retire(w) \in BOOLEAN /\ Send(h, Active(w), Retire(w), "strip", "strip", "idle")
      BY <2>2 DEF RevokeOnChain, Retire
    <3> QED
      BY <3>1, SendOutcome
  <2> QED
    BY <2>1, <2>2
<1>4. /\ anchored' \in [Wallet -> Person \cup {NoPerson}]
      /\ \A v \in Wallet : v # w => anchored'[v] = anchored[v]
  BY <1>2, <1>3 DEF Retire, chain, StateTyped
<1>5. StateTyped' /\ \A g \in Handler : g # h => pc'[g] = pc[g] /\ call'[g] = call[g]
  BY <1>1, <1>3, <1>4 DEF StateTyped, Goto, Return
<1>6. RowsKept /\ RestKept(h)
  BY <1>1, <1>2, <1>4 DEF RowsKept, RestKept
<1>7. CASE Goto(h, "strip")
  <2>1. pc'[h] = "strip" /\ call'[h] = call[h]
    BY <1>7 DEF Goto, StateTyped
  <2>2. Subject(h)' = Subject(h)
    BY <2>1 DEF Subject
  <2>3. InOrder(h)'
    BY <1>1, <2>1, <2>2
    DEF InOrder, Grounded, Carries, SubjectKnown, WalletsActive, ApprovesRequest, Approving
  <2> QED
    BY <1>5, <1>6, <2>3, StepInOrder
<1>8. CASE Goto(h, "idle")
  <2>1. pc'[h] = "idle"
    BY <1>8 DEF Goto, Return, StateTyped
  <2> QED
    BY <1>5, <1>6, <2>1, IdleInOrder, StepInOrder
<1> QED
  BY <1>3, <1>7, <1>8

\* A row is created for somebody who has none; the call may be an approval's.
LEMMA CreatesUser ==
  ASSUME AccountsInv, OneCallAtATime', UNCHANGED configured,
         NEW h \in Handler, UNCHANGED registrations, CreateUser(h)
  PROVE  AccountsInv'
<1> USE DEF RegisterSteps, RoleSteps, ManagerSteps, RevokeSteps, ReinstateSteps, BatchSteps
<1> DEFINE p == Subject(h)
<1> StateTyped /\ InOrder(h)
  BY DEF AccountsInv
<1>1. pc[h] \in {"createUser", "createUserWarned"} /\ UNCHANGED chain
  BY DEF CreateUser
<1>2. p \in Person /\ Row(h) \in UserRow /\ call[h].next \in {"idle", "markApproved"}
  BY <1>1, OneSubject DEF InOrder, Carries
<1>3. CASE ~Unregistered(p, Row(h).wallet)
  <2>1. Return(h) /\ Adds
    BY <1>1, <1>3 DEF CreateUser, Adds, chain, StateTyped
  <2> QED
    BY <2>1, ReturnInOrder
<1>4. CASE Unregistered(p, Row(h).wallet)
  <2>1. users' = [users EXCEPT ![p] = Row(h)] /\ Goto(h, call[h].next) /\ users[p] = NoRow
    BY <1>4 DEF CreateUser, Unregistered
  <2>2. users'[p] # NoRow /\ users' \in [Person -> UserRow \cup {NoRow}]
    BY <1>2, <2>1 DEF StateTyped
  <2>3. StateTyped' /\ \A g \in Handler : g # h => pc'[g] = pc[g] /\ call'[g] = call[g]
    BY <1>1, <2>1, <2>2 DEF StateTyped, Goto, Return, chain
  <2>4. RowsKept /\ RestKept(h)
    BY <1>1, <2>1 DEF RowsKept, RestKept, chain, StateTyped
  <2>5. CASE call[h].next = "idle"
    <3>1. pc'[h] = "idle"
      BY <2>1, <2>5 DEF Goto, Return, StateTyped
    <3> QED
      BY <2>3, <2>4, <3>1, IdleInOrder, StepInOrder
  <2>6. CASE call[h].next = "markApproved"
    <3>1. pc'[h] = "markApproved" /\ call'[h] = call[h]
      BY <2>1, <2>6 DEF Goto, StateTyped
    <3>2. Subject(h)' = p /\ Row(h)' = Row(h)
      BY <3>1 DEF Subject, Row
    <3>3. Approving(h)
      BY <1>1, <2>6 DEF Approving
    <3>4. ~Unregistered(p, call[h].w)'
      BY <2>2, <3>1, <3>2 DEF Unregistered
    <3>5. ApprovesRequest(h)'
      BY <3>1, <3>2, <3>3, <3>4 DEF InOrder, ApprovesRequest, Unregistered, WalletTaken, Known
    <3>6. Grounded(h)' /\ Carries(h)' /\ SubjectKnown(h)' /\ WalletsActive(h)'
      BY <1>1, <3>1 DEF InOrder, Grounded, Carries, SubjectKnown, WalletsActive
    <3> QED
      BY <2>3, <2>4, <3>5, <3>6, StepInOrder DEF InOrder
  <2> QED
    BY <1>2, <2>5, <2>6
<1> QED
  BY <1>3, <1>4

\* The requests of one wallet are written, by a call that is about it.
LEMMA RequestWritten ==
  ASSUME AccountsInv, OneCallAtATime', UNCHANGED configured,
         NEW h \in Handler, UNCHANGED <<users, chain>>,
         NEW w \in Wallet, w \in Concerned(h), NEW row \in RegistrationRow,
         registrations' = [registrations EXCEPT ![w] = row],
         row.status = "APPROVED" => /\ ~Unregistered(registrations[w].person, w)
                                    /\ row.person = registrations[w].person,
         NEW step, NEW c, pc' = [pc EXCEPT ![h] = step], call' = [call EXCEPT ![h] = c], InOrder(h)'
  PROVE  AccountsInv'
<1> StateTyped
  BY DEF AccountsInv
<1>1. StateTyped' /\ \A g \in Handler : g # h => pc'[g] = pc[g] /\ call'[g] = call[g]
  BY DEF StateTyped, chain
<1>2. RowsKept /\ RestKept(h)
  BY DEF RowsKept, RestKept, chain, StateTyped
<1>3. \A v \in Wallet : IF v = w THEN registrations'[v] = row ELSE registrations'[v] = registrations[v]
  BY DEF StateTyped
<1> QED
  BY <1>1, <1>2, <1>3, StepInOrder

\* A request is filed, and approved at once for a bootstrap administrator.
LEMMA UpsertGoesOn ==
  ASSUME AccountsInv, OneCallAtATime', UNCHANGED configured,
         NEW h \in Handler, Upsert(h)
  PROVE  AccountsInv'
<1> USE DEF RegisterSteps, RoleSteps, ManagerSteps, RevokeSteps, ReinstateSteps, BatchSteps
<1> DEFINE w == Row(h).wallet
           p == Subject(h)
           row == [status |-> "PENDING", person |-> p]
           c == [rows |-> call[h].rows, w |-> w, role |-> "ADMIN"]
<1> StateTyped /\ InOrder(h)
  BY DEF AccountsInv
<1>1. /\ pc[h] = "upsert" /\ UNCHANGED <<users, chain>>
      /\ registrations' = [registrations EXCEPT ![w] = row]
  BY DEF Upsert
<1>2. /\ w \in Wallet /\ w \in Concerned(h) /\ p \in Person
      /\ DOMAIN call[h].rows = {p} /\ row \in RegistrationRow /\ row.status = "PENDING"
      /\ row.person = p
  BY <1>1, OneSubject DEF InOrder, RegistrationRow
<1>3. CASE Return(h)
  <2>1. pc'[h] = "idle"
    BY <1>3 DEF Return, StateTyped
  <2> HIDE DEF w, row
  <2> QED
    BY <1>1, <1>2, <1>3, <2>1, IdleInOrder, RequestWritten DEF Return
<1>4. CASE ~Return(h)
  <2>1. pc' = [pc EXCEPT ![h] = "readRequest"] /\ call' = [call EXCEPT ![h] = c]
    BY <1>4 DEF Upsert
  <2>2. /\ pc'[h] = "readRequest" /\ call'[h].rows = call[h].rows
        /\ call'[h].w = w /\ call'[h].role = "ADMIN"
    BY <2>1 DEF StateTyped
  <2>3. Subject(h)' = p /\ Row(h)' = Row(h)
    BY <2>2 DEF Subject, Row
  <2>4. registrations'[w] = row
    BY <1>1, <1>2 DEF StateTyped
  <2> HIDE DEF w, row, c, p
  <2>5. Row(h)'.wallet = w
    BY <2>3 DEF w
  <2>6. ApprovesRequest(h)'
    BY <1>2, <2>2, <2>3, <2>4, <2>5 DEF ApprovesRequest, Approving
  <2>7. Grounded(h)' /\ Carries(h)' /\ SubjectKnown(h)' /\ WalletsActive(h)'
    BY <1>1, <2>2 DEF InOrder, Grounded, Carries, SubjectKnown, WalletsActive
  <2> QED
    BY <1>1, <1>2, <2>1, <2>6, <2>7, RequestWritten DEF InOrder
<1> QED
  BY <1>3, <1>4

\* The call ends with a verdict on the request; an approval is for an identity.
LEMMA VerdictGoesOn ==
  ASSUME AccountsInv, OneCallAtATime', UNCHANGED configured,
         NEW h \in Handler, MarkApproved(h) \/ MarkRejected(h)
  PROVE  AccountsInv'
<1> USE DEF RegisterSteps, RoleSteps, ManagerSteps, RevokeSteps, ReinstateSteps, BatchSteps
<1> DEFINE w == Row(h).wallet
           p == Subject(h)
<1> StateTyped /\ InOrder(h)
  BY DEF AccountsInv
<1>1. pc[h] \in {"markApproved", "markRejected"} /\ UNCHANGED <<users, chain>> /\ Return(h)
  BY DEF MarkApproved, MarkRejected
<1>2. w \in Wallet /\ w \in Concerned(h) /\ p \in Person
  BY <1>1, OneSubject DEF InOrder
<1>3. pc'[h] = "idle"
  BY <1>1 DEF Return, StateTyped
<1>4. CASE MarkApproved(h)
  <2>1. /\ pc[h] = "markApproved"
        /\ registrations' = [registrations EXCEPT ![call[h].w] =
                                [registrations[call[h].w] EXCEPT !.status = "APPROVED"]]
    BY <1>4 DEF MarkApproved
  <2>2. call[h].w = w /\ registrations[w].person = p /\ ~Unregistered(p, w)
    BY <2>1 DEF InOrder, ApprovesRequest, Approving
  <2>3. registrations[w] \in RegistrationRow
    BY <1>2, <2>2 DEF StateTyped, RegistrationRow, NoRegistration
  <2> DEFINE row == [registrations[w] EXCEPT !.status = "APPROVED"]
  <2>4. row \in RegistrationRow /\ row.person = p
    BY <2>2, <2>3 DEF RegistrationRow
  <2>5. registrations' = [registrations EXCEPT ![w] = row]
    BY <2>1, <2>2
  <2> HIDE DEF row, w, p
  <2> QED
    BY <1>1, <1>2, <1>3, <2>2, <2>4, <2>5, IdleInOrder, RequestWritten DEF Return
<1>5. CASE MarkRejected(h)
  <2> DEFINE row == [registrations[w] EXCEPT !.status = "REJECTED"]
  <2>1. registrations' = [registrations EXCEPT ![w] = row]
    BY <1>5 DEF MarkRejected
  <2>2. registrations[w] \in RegistrationRow
    BY <1>5 DEF MarkRejected, InOrder, ApprovesRequest
  <2>3. row \in RegistrationRow /\ row.status = "REJECTED"
    BY <2>2 DEF RegistrationRow
  <2> HIDE DEF row, w, p
  <2> QED
    BY <1>1, <1>2, <1>3, <2>1, <2>3, IdleInOrder, RequestWritten DEF Return
<1> QED
  BY <1>4, <1>5

\* The request is read again before the approval acts on it.
LEMMA ReadRequestGoesOn ==
  ASSUME AccountsInv, OneCallAtATime', UNCHANGED configured,
         NEW h \in Handler, ReadRequest(h)
  PROVE  AccountsInv'
<1> USE DEF RegisterSteps, RoleSteps, ManagerSteps, RevokeSteps, ReinstateSteps, BatchSteps
<1> DEFINE p == Subject(h)
           w == call[h].w
           row == [wallet |-> w, role |-> call[h].role, managerId |-> NoPerson, revoked |-> FALSE]
           c == [rows |-> About(p, row), w |-> w, role |-> call[h].role, next |-> "markApproved"]
           step == IF MatchesExisting(h) THEN "grantExisting" ELSE "register"
<1> StateTyped /\ InOrder(h)
  BY DEF AccountsInv
<1>1. pc[h] = "readRequest" /\ Adds
  BY DEF ReadRequest, Adds, chain, StateTyped
<1>2. /\ p \in Person /\ w \in Wallet /\ call[h].role \in Role
      /\ registrations[w].person = p
  BY <1>1, OneSubject DEF InOrder, ApprovesRequest, Approving, Carries
<1>3. row \in UserRow /\ row.wallet = w
  BY <1>2 DEF UserRow
<1>4. CASE Return(h)
  BY <1>1, <1>4, ReturnInOrder
<1>5. CASE ~Return(h)
  <2>1. pc' = [pc EXCEPT ![h] = step] /\ call' = [call EXCEPT ![h] = c]
    BY <1>5 DEF ReadRequest, AfterReading
  <2>2. pc'[h] = step /\ call'[h] = c
    BY <2>1 DEF StateTyped
  <2>3. /\ DOMAIN c.rows = {p} /\ c.rows[p] = row /\ c.w = w /\ c.next = "markApproved"
        /\ c.role = call[h].role
    BY DEF About
  <2>4. /\ step \in {"grantExisting", "register"}
        /\ step = "grantExisting" => ~Unregistered(p, w)
    BY DEF MatchesExisting
  <2>5. \A q \in Person, v \in Wallet : Unregistered(q, v)' = Unregistered(q, v)
    BY <1>1 DEF Adds, Unregistered, WalletTaken, Known
  <2> HIDE DEF c, row, step
  <2>6. Subject(h)' = p /\ Row(h)' = row
    BY <2>2, <2>3 DEF Subject, Row
  <2>7. Grounded(h)'
    BY <1>2, <1>3, <2>2, <2>3 DEF Grounded
  <2>8. Carries(h)' /\ SubjectKnown(h)' /\ WalletsActive(h)'
    BY <1>2, <1>3, <2>2, <2>3, <2>4, <2>6 DEF Carries, SubjectKnown, WalletsActive
  <2>9. ApprovesRequest(h)'
    <3> SUFFICES ASSUME NEW q \in Person, NEW v \in Wallet, q = p, v = w
                 PROVE  ApprovesRequest(h)'
      BY <1>2
    <3>1. /\ registrations'[v].person = q /\ Subject(h)' = q
          /\ call'[h].w = v /\ Row(h)'.wallet = v
          /\ step = "grantExisting" => ~Unregistered(q, v)'
      BY <1>1, <1>2, <1>3, <2>2, <2>3, <2>4, <2>5, <2>6 DEF Adds
    <3> QED
      BY <2>2, <2>4, <3>1 DEF ApprovesRequest, Approving, Unregistered, WalletTaken, Known
  <2> QED
    BY <1>1, <2>1, <2>7, <2>8, <2>9, AddingStep DEF InOrder
<1> QED
  BY <1>4, <1>5

\* A step of an import that goes on with its rows.
LEMMA ImportGoesOn ==
  ASSUME AccountsInv, OneCallAtATime', UNCHANGED configured,
         Adds, NEW h \in Handler, pc[h] \in BatchSteps,
         NEW step \in BatchSteps, pc' = [pc EXCEPT ![h] = step], NEW c,
         call' = [call EXCEPT ![h] = c], {"rows", "left", "chunk"} \subseteq DOMAIN c,
         c.rows = call[h].rows, c.left \subseteq DOMAIN c.rows, c.chunk \subseteq DOMAIN c.rows,
         step = "cache" => \A p \in c.chunk : anchored'[c.rows[p].wallet] # NoPerson
  PROVE  AccountsInv'
<1> USE DEF RegisterSteps, RoleSteps, ManagerSteps, RevokeSteps, ReinstateSteps, BatchSteps
<1>1. pc'[h] = step /\ call'[h] = c /\ InOrder(h)
  BY DEF AccountsInv, StateTyped
<1>2. Grounded(h)' /\ Carries(h)'
  BY <1>1 DEF InOrder, Grounded, Carries
<1>3. SubjectKnown(h)' /\ WalletsActive(h)' /\ ApprovesRequest(h)'
  BY <1>1 DEF SubjectKnown, WalletsActive, ApprovesRequest, Approving, Active
<1> QED
  BY <1>2, <1>3, AddingStep DEF InOrder

\* A batch: all its wallets are active afterwards, or the import stops.
LEMMA RegisterBatchGoesOn ==
  ASSUME AccountsInv, OneCallAtATime', UNCHANGED configured,
         NEW h \in Handler, RegisterBatch(h)
  PROVE  AccountsInv'
<1> StateTyped /\ InOrder(h)
  BY DEF AccountsInv
<1>1. pc[h] = "batch" /\ UNCHANGED <<users, registrations>>
  BY DEF RegisterBatch
<1>2. {"rows", "left", "chunk"} \subseteq DOMAIN call[h]
      /\ call[h].left \subseteq DOMAIN call[h].rows /\ DOMAIN call[h].rows \subseteq Person
      /\ \A p \in DOMAIN call[h].rows : call[h].rows[p].wallet \in Wallet
  BY <1>1 DEF InOrder, Carries, Grounded, BatchSteps
<1>3. ASSUME NEW S \in Chunks(call[h].left), Mined(h, S)
      PROVE  /\ S \subseteq call[h].left /\ Adds
             /\ \A p \in S : anchored'[call[h].rows[p].wallet] # NoPerson
  <2>1. anchored' = [w \in Wallet |->
              IF w \in WalletsOf(h, S)
              THEN CHOOSE p \in S : call[h].rows[p].wallet = w ELSE anchored[w]]
    BY <1>3 DEF Mined
  <2>3. S \subseteq call[h].left
    BY DEF Chunks
  <2>5. \A w \in Wallet : w \in WalletsOf(h, S) => anchored'[w] \in Person
    <3> SUFFICES ASSUME NEW w \in Wallet, w \in WalletsOf(h, S) PROVE anchored'[w] \in Person
      OBVIOUS
    <3>1. \E p \in S : call[h].rows[p].wallet = w
      BY DEF WalletsOf
    <3>2. anchored'[w] = CHOOSE p \in S : call[h].rows[p].wallet = w
      BY <2>1
    <3>3. (CHOOSE p \in S : call[h].rows[p].wallet = w) \in S
      BY <3>1
    <3> QED
      BY <1>2, <2>3, <3>2, <3>3
  <2>6. \A w \in Wallet : w \notin WalletsOf(h, S) => anchored'[w] = anchored[w]
    BY <2>1
  <2>7. anchored' = [w \in Wallet |-> anchored'[w]]
    BY <2>1
  <2>8. Adds
    BY <1>1, <2>5, <2>6, <2>7 DEF Adds, StateTyped
  <2>9. \A p \in S : anchored'[call[h].rows[p].wallet] # NoPerson
    BY <1>2, <2>3, <2>5 DEF WalletsOf
  <2> QED
    BY <2>3, <2>8, <2>9
<1>4. CASE Return(h)
  <2>1. Adds
    <3>1. CASE UNCHANGED chain
      BY <1>1, <3>1 DEF Adds, chain, StateTyped
    <3>2. CASE ~UNCHANGED chain
      <4>1. \E S \in Chunks(call[h].left) : Mined(h, S)
        BY <3>2 DEF RegisterBatch, chain
      <4> QED
        BY <1>3, <4>1
    <3> QED
      BY <3>1, <3>2
  <2> QED
    BY <1>4, <2>1, ReturnInOrder
<1>5. CASE ~Return(h)
  <2>1. PICK S \in Chunks(call[h].left) :
          /\ Mined(h, S)
          /\ pc' = [pc EXCEPT ![h] = "cache"]
          /\ call' = [call EXCEPT ![h] =
                [call[h] EXCEPT !.left = call[h].left \ S, !.chunk = S, !.ungranted = S]]
    <3>1. PICK S \in Chunks(call[h].left) :
            /\ Mined(h, S)
            /\ pc' = [pc EXCEPT ![h] = "cache"]
            /\ call' = [call EXCEPT ![h].left = @ \ S, ![h].chunk = S, ![h].ungranted = S]
      BY <1>5 DEF RegisterBatch
    <3> QED
      BY <3>1
  <2> DEFINE c == [call[h] EXCEPT !.left = call[h].left \ S, !.chunk = S, !.ungranted = S]
  <2>2. /\ {"rows", "left", "chunk"} \subseteq DOMAIN c
        /\ c.rows = call[h].rows /\ c.chunk = S /\ c.left = call[h].left \ S
    BY <1>2
  <2>3. /\ S \subseteq call[h].left /\ Adds
        /\ \A p \in S : anchored'[call[h].rows[p].wallet] # NoPerson
    BY <1>3, <2>1
  <2> HIDE DEF c
  <2> QED
    BY <1>1, <1>2, <2>1, <2>2, <2>3, ImportGoesOn DEF BatchSteps, c
<1> QED
  BY <1>4, <1>5

\* The rows of a batch are created, those that are new.
LEMMA CacheGoesOn ==
  ASSUME AccountsInv, OneCallAtATime', UNCHANGED configured,
         NEW h \in Handler, CacheRows(h)
  PROVE  AccountsInv'
<1> USE DEF RegisterSteps, RoleSteps, ManagerSteps, RevokeSteps, ReinstateSteps, BatchSteps
<1> StateTyped /\ InOrder(h)
  BY DEF AccountsInv
<1>1. /\ pc[h] = "cache" /\ UNCHANGED <<chain, registrations, call>>
      /\ pc' = [pc EXCEPT ![h] = "grantRows"]
      /\ users' = [p \in Person |->
            IF p \in call[h].chunk /\ Unregistered(p, call[h].rows[p].wallet)
            THEN call[h].rows[p] ELSE users[p]]
  BY DEF CacheRows, CachedRows, Goto
<1>2. \A p \in call[h].chunk : call[h].rows[p] \in UserRow
  BY <1>1 DEF InOrder, Carries
<1>3. StateTyped' /\ \A g \in Handler : g # h => pc'[g] = pc[g] /\ call'[g] = call[g]
  BY <1>1, <1>2 DEF StateTyped, chain
<1>4. RowsKept /\ RestKept(h)
  BY <1>1 DEF RowsKept, RestKept, Unregistered, chain
<1>5. pc'[h] = "grantRows" /\ call'[h] = call[h]
  BY <1>1 DEF StateTyped
<1>6. InOrder(h)'
  BY <1>1, <1>5
  DEF InOrder, Grounded, Carries, SubjectKnown, WalletsActive, ApprovesRequest, Approving
<1> QED
  BY <1>1, <1>3, <1>4, <1>6, StepInOrder

\* The roles of a batch are granted one by one.
LEMMA GrantRowsGoesOn ==
  ASSUME AccountsInv, OneCallAtATime', UNCHANGED configured,
         NEW h \in Handler, GrantRows(h)
  PROVE  AccountsInv'
<1> StateTyped /\ InOrder(h)
  BY DEF AccountsInv
<1>1. /\ pc[h] = "grantRows" /\ UNCHANGED <<users, registrations, anchored>>
  BY DEF GrantRows, Grant, chain
<1>2. PICK p \in call[h].ungranted :
        /\ pc' = [pc EXCEPT ![h] = IF call[h].ungranted = {p} THEN "batch" ELSE pc[h]]
        /\ call' = [call EXCEPT ![h] = [call[h] EXCEPT !.ungranted = call[h].ungranted \ {p}]]
  BY DEF GrantRows
<1> DEFINE c == [call[h] EXCEPT !.ungranted = call[h].ungranted \ {p}]
           step == IF call[h].ungranted = {p} THEN "batch" ELSE pc[h]
<1>3. /\ {"rows", "left", "chunk"} \subseteq DOMAIN call[h]
      /\ call[h].left \subseteq DOMAIN call[h].rows /\ call[h].chunk \subseteq DOMAIN call[h].rows
  BY <1>1 DEF InOrder, Carries, BatchSteps
<1>4. /\ {"rows", "left", "chunk"} \subseteq DOMAIN c /\ c.rows = call[h].rows
      /\ c.chunk = call[h].chunk /\ c.left = call[h].left
  BY <1>3
<1>5. step \in {"batch", "grantRows"}
  BY <1>1
<1>6. Adds
  BY <1>1 DEF Adds, StateTyped
<1>7. pc' = [pc EXCEPT ![h] = step] /\ call' = [call EXCEPT ![h] = c]
  BY <1>2
<1> HIDE DEF c, step
<1> QED
  BY <1>1, <1>3, <1>4, <1>5, <1>6, <1>7, ImportGoesOn DEF BatchSteps

-----------------------------------------------------------------------------
(* The invariant and the properties *)

\* At the start nobody is at work, and approved registrations are people's.
LEMMA InitInOrder == Init => AccountsInv
<1> SUFFICES ASSUME Init PROVE AccountsInv
  OBVIOUS
<1>1. \A p \in Person : users[p] \in UserRow \cup {NoRow}
  BY DEF Init, NewRows
<1>2. \A w \in Wallet : anchored[w] \in Person \cup {NoPerson} /\ (Active(w) => WalletTaken(w))
  <2> TAKE w \in Wallet
  <2>1. CASE WalletTaken(w)
    <3>1. \E p \in Known : users[p].wallet = w
      BY <2>1 DEF WalletTaken
    <3>2. anchored[w] = CHOOSE p \in Known : users[p].wallet = w
      BY <2>1 DEF Init
    <3>3. (CHOOSE p \in Known : users[p].wallet = w) \in Known
      BY <3>1
    <3> QED
      BY <2>1, <3>2, <3>3 DEF Known
  <2>2. CASE ~WalletTaken(w)
    BY <2>2 DEF Init, Active
  <2> QED
    BY <2>1, <2>2
<1>3. StateTyped
  <2>1. users \in [Person -> UserRow \cup {NoRow}]
    BY <1>1 DEF Init
  <2>2. anchored \in [Wallet -> Person \cup {NoPerson}]
    BY <1>2 DEF Init
  <2> QED
    BY <2>1, <2>2 DEF Init, InitHandlers, StateTyped
<1>4. OneCallAtATime
  BY DEF Init, InitHandlers, OneCallAtATime, Concerned
<1>5. \A h \in Handler : InOrder(h)
  BY DEF Init, InitHandlers, InOrder, Grounded, Carries, SubjectKnown, WalletsActive,
         ApprovesRequest, Approving, RegisterSteps, RoleSteps, ManagerSteps, RevokeSteps,
         ReinstateSteps, BatchSteps
<1>6. ApprovedHasIdentity
  <2> SUFFICES ASSUME NEW w \in Wallet, registrations[w].status = "APPROVED"
               PROVE  ~Unregistered(registrations[w].person, w)
    BY DEF ApprovedHasIdentity
  <2>1. registrations[w] # NoRegistration
    BY DEF NoRegistration
  <2>2. registrations[w].person \in Person /\ anchored[w] = registrations[w].person
    BY <2>1 DEF Init, RegistrationRow
  <2> QED
    BY <1>2, <2>2 DEF Active, Unregistered
<1> QED
  BY <1>3, <1>4, <1>5, <1>6 DEF AccountsInv

\* Every step keeps the invariant.
LEMMA StepKeepsOrder ==
  ASSUME AccountsInv, Next, OneCallAtATime'
  PROVE  AccountsInv'
<1>6. UNCHANGED configured \/ Restart
  BY DEF Next
<1>1. ASSUME NEW h \in Handler, Proceed(h), UNCHANGED configured PROVE AccountsInv'
  <2>1. CASE IdentityProceeds(h) /\ UNCHANGED registrations
    BY <1>1, <2>1, TransactionsGoOn, CreatesUser, RowsAreSaved, ReadsGoOn, RevokeGoesOn
    DEF IdentityProceeds
  <2>2. CASE OnboardingProceeds(h)
    <3>1. GrantExisting(h) => UNCHANGED registrations
      BY DEF GrantExisting
    <3> QED
      BY <1>1, <2>2, <3>1, UpsertGoesOn, ReadRequestGoesOn, TransactionsGoOn, VerdictGoesOn,
         RegisterBatchGoesOn, CacheGoesOn, GrantRowsGoesOn
      DEF OnboardingProceeds
  <2> QED
    BY <1>1, <2>1, <2>2 DEF Proceed
<1>2. ASSUME NEW h \in Handler, Fails(h), UNCHANGED configured PROVE AccountsInv'
  BY <1>2, ReturnInOrder DEF Fails, Adds, chain, AccountsInv, StateTyped
<1>3. CASE Restart
  <2>1. UNCHANGED <<users, chain, registrations>> /\ \A h \in Handler : pc'[h] = "idle"
    BY <1>3 DEF Restart, CrashHandlers, handlers
  <2>2. \A h \in Handler : InOrder(h)'
    BY <2>1, IdleInOrder
  <2>3. StateTyped'
    BY <1>3, <2>1 DEF Restart, CrashHandlers, handlers, chain, AccountsInv, StateTyped
  <2> QED
    BY <2>1, <2>2, <2>3
    DEF AccountsInv, ApprovedHasIdentity, Unregistered, WalletTaken, Known, chain
<1>4. ASSUME NEW h \in Personnel, PersonnelCall(h), UNCHANGED configured PROVE AccountsInv'
  BY <1>4, PersonnelBegins, DesksAssumption
<1>5. ASSUME NEW h \in Onboarders, OnboardingCall(h), UNCHANGED configured PROVE AccountsInv'
  BY <1>5, OnboardingBegins, DesksAssumption
<1> QED
  BY <1>1, <1>2, <1>3, <1>4, <1>5, <1>6 DEF Next

\* A stuttering step changes nothing that the invariant is about.
LEMMA StutterKeepsOrder ==
  ASSUME AccountsInv, UNCHANGED vars
  PROVE  AccountsInv'
<1>1. UNCHANGED <<users, anchored, registrations, pc, call, configured>>
  BY DEF vars, handlers, chain
<1>2. ASSUME NEW h \in Handler PROVE InOrder(h)'
  <2>1. Subject(h)' = Subject(h) /\ Row(h)' = Row(h)
    BY <1>1 DEF Subject, Row
  <2>2. InOrder(h)
    BY DEF AccountsInv
  <2>3. Grounded(h)' /\ Carries(h)' /\ SubjectKnown(h)' /\ WalletsActive(h)'
    BY <1>1, <2>1, <2>2
    DEF InOrder, Grounded, Carries, SubjectKnown, WalletsActive, Active, IdentityConfigured
  <2>4. Unregistered(Subject(h), call[h].w)' = Unregistered(Subject(h), call[h].w)
    BY <1>1, <2>1 DEF Unregistered, WalletTaken, Known
  <2>5. ApprovesRequest(h)'
    BY <1>1, <2>1, <2>2, <2>4 DEF InOrder, ApprovesRequest, Approving
  <2> QED
    BY <2>3, <2>5 DEF InOrder
<1>3. StateTyped'
  BY <1>1 DEF AccountsInv, StateTyped
<1>4. OneCallAtATime'
  BY <1>1 DEF AccountsInv, OneCallAtATime, Concerned
<1>5. ApprovedHasIdentity'
  BY <1>1 DEF AccountsInv, ApprovedHasIdentity, Unregistered, WalletTaken, Known
<1> QED
  BY <1>2, <1>3, <1>4, <1>5 DEF AccountsInv

\* A call's people have, or are about to have, what its last steps rely on: rows where it
\* changes one, an active wallet where it creates one, an identity where it approves.
THEOREM AccountsInvHolds == Spec => []AccountsInv
<1>1. Init => AccountsInv
  BY InitInOrder
<1>2. AccountsInv /\ [Next /\ OneCallAtATime']_vars => AccountsInv'
  BY StepKeepsOrder, StutterKeepsOrder
<1> QED
  BY <1>1, <1>2, PTL DEF Spec

\* An approved registration has its identity, whatever became of the call.
THEOREM ApprovedHasIdentityHolds == Spec => []ApprovedHasIdentity
<1>1. AccountsInv => ApprovedHasIdentity
  BY DEF AccountsInv
<1> QED
  BY <1>1, AccountsInvHolds, PTL

\* The steps that change a row.
LEMMA UsersChange ==
  ASSUME Next
  PROVE  \/ UNCHANGED users
         \/ \E h \in Handler : \/ CreateUser(h) \/ CacheRows(h)
                               \/ SaveRole(h) \/ SaveManager(h)
                               \/ StampRevoked(h) \/ UnstampRevoked(h)
BY DesksAssumption
DEF Next, PersonnelCall, UpdateRole, AssignManager, RevokeIdentity,
    OnboardingCall, RegisterIdentity, ReinstateIdentity, ApproveRegistration, RejectRegistration,
    ImportCsv, Submit, Proceed, IdentityProceeds, RegisterOnChain, GrantRole, UpdateClearance,
    GrantNew, StripOld, ReadManager, CountAdmins, RevokeOnChain, StripRole, Reanchor, Regrant,
    OnboardingProceeds, Upsert, ReadRequest, GrantExisting, MarkApproved, MarkRejected,
    RegisterBatch, GrantRows, Fails, Restart

\* Whoever changes a row changes one that is there; two steps create one.
LEMMA RowsAreCreated ==
  ASSUME AccountsInv, Next, NEW p \in Person, users[p] = NoRow, users'[p] # NoRow
  PROVE  \E h \in Handler : CreateUser(h) \/ CacheRows(h)
<1>1. PICK h \in Handler : \/ CreateUser(h) \/ CacheRows(h)
                           \/ SaveRole(h) \/ SaveManager(h) \/ StampRevoked(h) \/ UnstampRevoked(h)
  BY UsersChange
<1>2. ASSUME SaveRole(h) \/ SaveManager(h) \/ StampRevoked(h) \/ UnstampRevoked(h) PROVE FALSE
  <2>1. users[Subject(h)] # NoRow
    BY <1>2
    DEF AccountsInv, InOrder, SubjectKnown, SaveRole, SaveManager, StampRevoked, UnstampRevoked,
        RoleSteps, ManagerSteps, RevokeSteps, ReinstateSteps
  <2>2. \A q \in Person : q # Subject(h) => users'[q] = users[q]
    BY <1>2 DEF AccountsInv, StateTyped, SaveRole, SaveManager, StampRevoked, UnstampRevoked
  <2> QED
    BY <2>1, <2>2
<1> QED
  BY <1>1, <1>2

\* On every path into the table a row appears for a wallet that is active on chain,
\* unless the process knows no registry.
THEOREM RowsAreAnchoredHolds == Spec => RowsAreAnchored
<1> DEFINE Anchored == \A p \in Person : users[p] = NoRow /\ users'[p] # NoRow =>
                           anchored'[users'[p].wallet] # NoPerson \/ ~IdentityConfigured
<1>1. AccountsInv /\ [Next /\ OneCallAtATime']_vars => [Anchored]_vars
  <2> SUFFICES ASSUME AccountsInv, Next, NEW p \in Person, users[p] = NoRow, users'[p] # NoRow,
                      IdentityConfigured
               PROVE  anchored'[users'[p].wallet] # NoPerson
    OBVIOUS
  <2>1. PICK h \in Handler : CreateUser(h) \/ CacheRows(h)
    BY RowsAreCreated
  <2>2. StateTyped /\ InOrder(h)
    BY DEF AccountsInv
  <2>3. CASE CreateUser(h)
    <3>1. p = Subject(h) /\ users'[p] = Row(h) /\ UNCHANGED anchored
      BY <2>2, <2>3 DEF CreateUser, StateTyped, chain
    <3> QED
      BY <2>2, <2>3, <3>1 DEF CreateUser, InOrder, WalletsActive, Active, RegisterSteps
  <2>4. CASE CacheRows(h)
    <3>1. p \in call[h].chunk /\ users'[p] = call[h].rows[p] /\ UNCHANGED anchored
      BY <2>4 DEF CacheRows, CachedRows, chain
    <3> QED
      BY <2>2, <2>4, <3>1 DEF CacheRows, InOrder, WalletsActive, Active
  <2> QED
    BY <2>1, <2>3, <2>4
<1> QED
  BY <1>1, AccountsInvHolds, PTL DEF Spec, RowsAreAnchored

-----------------------------------------------------------------------------
(* Chain and cache.  What the steps of a call rely on, and what they leave  *)
(* behind when nothing fails.                                               *)

\* The chain agrees with the row of p.
Mirrored(p) == IF users[p].revoked THEN ~Active(users[p].wallet) ELSE InForce(p)

\* Whoever is active has a row.
Claimed(w) == Active(w) => WalletTaken(w)

\* The unique constraint on walletAddress holds.
OwnWallets == \A p, q \in Known : p # q => users[p].wallet # users[q].wallet

\* What the call of one person has done so far, whatever failed before it.
Prepared(h) ==
    LET p == Subject(h)
        w == Row(h).wallet
        role == Row(h).role
    IN  /\ pc[h] \in RegisterSteps => Unregistered(p, w) /\ ~Row(h).revoked
        /\ pc[h] = "createUser" => role \in holders[w]
        /\ pc[h] \in RoleSteps \cup RevokeSteps \cup ReinstateSteps => users[p] = Row(h)
        /\ pc[h] \in RoleSteps \cup RevokeSteps => ~Row(h).revoked
        /\ pc[h] \in {"grantNew", "stripOld", "saveRole", "regrant", "unstamp"} => Active(w)
        /\ pc[h] \in {"stripOld", "saveRole"} => call[h].role \in holders[w]
        /\ pc[h] = "stripOld" => call[h].role # role
        /\ pc[h] = "saveRole" /\ call[h].role # role => role \notin holders[w]
        /\ pc[h] \in {"strip", "stamp", "stampWarned"} => ~Active(w)
        /\ pc[h] = "stamp" => role \notin holders[w]
        /\ pc[h] = "unstamp" => role \in holders[w]

\* The rows an import has not come to have neither a person nor a wallet in the table.
ImportPrepared(h) ==
    LET c == call[h]
    IN  pc[h] \in BatchSteps =>
            /\ "ungranted" \in DOMAIN c
            /\ \A p, q \in DOMAIN c.rows : p # q => c.rows[p].wallet # c.rows[q].wallet
            /\ \A p \in DOMAIN c.rows : ~c.rows[p].revoked
            /\ \A p \in c.left : Unregistered(p, c.rows[p].wallet)
            /\ c.ungranted \subseteq DOMAIN c.rows \ c.left
            /\ pc[h] = "cache" => /\ c.ungranted = c.chunk
                                  /\ \A p \in c.chunk : Unregistered(p, c.rows[p].wallet)

WarnedSteps == {"createUserWarned", "saveRoleWarned", "stampWarned", "unstampWarned"}

\* Before these steps a call has changed nothing that the chain is compared with.
RestingSteps == {"upsert", "readRequest", "grantExisting", "markApproved", "markRejected",
                 "updateClearance", "countAdmins"} \cup ManagerSteps

\* A call when nothing has failed yet.
Untroubled(h) ==
    LET c == call[h]
    IN  /\ pc[h] \notin WarnedSteps
        /\ pc[h] \in RestingSteps => /\ users[Subject(h)] # NoRow => Mirrored(Subject(h))
                                     /\ Claimed(Row(h).wallet)
        /\ pc[h] \in BatchSteps =>
              /\ \A p \in c.left : ~Active(c.rows[p].wallet)
              /\ pc[h] = "batch" => c.ungranted = {}
              /\ \A p \in DOMAIN c.rows \ c.left :
                    /\ Active(c.rows[p].wallet)
                    /\ pc[h] # "cache" \/ p \notin c.ungranted => users[p] = c.rows[p]
                    /\ p \notin c.ungranted => c.rows[p].role \in holders[c.rows[p].wallet]

\* CacheMirrorsChain, of a process that has both contracts.
MirrorsChain ==
    LET busy == UNION {Concerned(h) : h \in Handler}
    IN  faults = 0 =>
        /\ \A w \in Wallet \ busy : Claimed(w)
        /\ \A p \in Known \ busy : Mirrored(p)

MirrorInv ==
    /\ faults \in Nat
    /\ holders = [w \in Wallet |-> holders[w]]
    /\ OwnWallets
    /\ \A h \in Handler : Prepared(h) /\ ImportPrepared(h)
    /\ faults = 0 => \A h \in Handler : Untroubled(h)
    /\ MirrorsChain
-----------------------------------------------------------------------------
(* One step and the calls it is not part of *)

\* A step of h changes the row of no other person, and what the chain holds of none.
Spares(h) ==
    /\ \A p \in Person \ Concerned(h) :
          /\ users'[p] = users[p]
          /\ p \in Known => /\ Active(users[p].wallet)' = Active(users[p].wallet)
                            /\ holders[users[p].wallet] \subseteq holders'[users[p].wallet]
    /\ \A w \in Wallet \ Concerned(h) :
          /\ Active(w)' = Active(w) /\ holders'[w] = holders[w]
          /\ WalletTaken(w)' = WalletTaken(w)

\* A call leaves what it was about as the cache has it.
LeavesMirrored(h) ==
    \A x \in Concerned(h) \ Concerned(h)' : /\ x \in Known' => Mirrored(x)'
                                            /\ x \in Wallet => Claimed(x)'

\* Rows that are spared stay mirrored, wallets claimed.
LEMMA SparedStayMirrored ==
  ASSUME StateTyped, NEW h \in Handler, Spares(h), NEW p \in Person \ Concerned(h), p \in Known,
         Mirrored(p)
  PROVE  p \in Known' /\ Mirrored(p)'
BY DEF Spares, Mirrored, InForce, Known

LEMMA SparedStayClaimed ==
  ASSUME NEW h \in Handler, Spares(h), NEW w \in Wallet \ Concerned(h), Claimed(w)
  PROVE  Claimed(w)'
BY DEF Spares, Claimed

\* A wallet that is spared keeps its record and roles, and stays free.
LEMMA SparedStayUnregistered ==
  ASSUME NEW h \in Handler, Spares(h), NEW p \in Person \ Concerned(h),
         NEW w \in Wallet \ Concerned(h), Unregistered(p, w)
  PROVE  Unregistered(p, w)'
BY DEF Spares, Unregistered

\* What other calls have done is still done.
LEMMA OthersPrepared ==
  ASSUME AccountsInv, MirrorInv, NEW h \in Handler, Spares(h), NEW g \in Handler, g # h,
         pc'[g] = pc[g], call'[g] = call[g]
  PROVE  Prepared(g)' /\ ImportPrepared(g)' /\ (faults = 0 => Untroubled(g)')
<1> /\ InOrder(g) /\ StateTyped /\ Prepared(g) /\ ImportPrepared(g)
    /\ faults = 0 => Untroubled(g)
  BY DEF AccountsInv, MirrorInv
<1>0. Subject(g)' = Subject(g) /\ Row(g)' = Row(g)
  BY DEF Subject, Row
<1>1. \A x \in Concerned(g) : x \notin Concerned(h)
  BY DEF AccountsInv, OneCallAtATime
<1>2. CASE pc[g] \notin BatchSteps \cup {"idle"}
  <2>1. PICK p \in Person \ Concerned(h), w \in Wallet \ Concerned(h) :
            Subject(g) = p /\ Row(g).wallet = w
    BY <1>1, <1>2, OneSubject DEF InOrder
  <2>2. /\ users'[p] = users[p] /\ Active(w)' = Active(w) /\ holders'[w] = holders[w]
        /\ Unregistered(p, w) => Unregistered(p, w)'
        /\ Claimed(w) => Claimed(w)'
        /\ p \in Known /\ Mirrored(p) => Mirrored(p)'
    BY SparedStayUnregistered, SparedStayMirrored, SparedStayClaimed DEF Spares
  <2>3. Subject(g)' = p /\ Row(g)'.wallet = w
    BY <1>0, <2>1
  <2>4. Prepared(g)'
    BY <1>0, <2>1, <2>2, <2>3, Zenon DEF Prepared
  <2>5. ImportPrepared(g)'
    BY <1>2 DEF ImportPrepared
  <2>6. ASSUME faults = 0 PROVE Untroubled(g)'
    <3>1. pc[g] \in RestingSteps => /\ users[p] # NoRow => Mirrored(p)
                                    /\ Claimed(w)
      BY <2>1, <2>6 DEF Untroubled
    <3>2. pc[g] \in RestingSteps => /\ users'[p] # NoRow => Mirrored(p)'
                                    /\ Claimed(w)'
      BY <2>2, <3>1 DEF Known
    <3> QED
      BY <1>2, <2>3, <2>6, <3>2 DEF Untroubled
  <2> QED
    BY <2>4, <2>5, <2>6
<1>3. CASE pc[g] \in BatchSteps
  <2> DEFINE c == call[g]
  <2>1. \A p \in DOMAIN c.rows : /\ p \in Person \ Concerned(h)
                                 /\ c.rows[p].wallet \in Wallet \ Concerned(h)
    BY <1>1, <1>3 DEF InOrder, Grounded, Concerned, BatchSteps
  <2>2. c.left \subseteq DOMAIN c.rows /\ c.chunk \subseteq DOMAIN c.rows
    BY <1>3 DEF InOrder, Carries
  <2>3. Prepared(g)'
    BY <1>3 DEF Prepared, BatchSteps, RegisterSteps, RoleSteps, RevokeSteps, ReinstateSteps
  <2>4. \A p \in DOMAIN c.rows : Unregistered(p, c.rows[p].wallet) =>
            Unregistered(p, c.rows[p].wallet)'
    BY <2>1, SparedStayUnregistered
  <2>5. ImportPrepared(g)'
    BY <1>3, <2>2, <2>4 DEF ImportPrepared
  <2>6. \A p \in DOMAIN c.rows : /\ users'[p] = users[p]
                                 /\ Active(c.rows[p].wallet)' = Active(c.rows[p].wallet)
                                 /\ holders'[c.rows[p].wallet] = holders[c.rows[p].wallet]
    BY <2>1 DEF Spares
  <2>7. ASSUME faults = 0 PROVE Untroubled(g)'
    BY <1>3, <2>2, <2>6, <2>7
    DEF Untroubled, BatchSteps, RestingSteps, ManagerSteps, WarnedSteps
  <2> QED
    BY <2>3, <2>5, <2>7
<1>4. CASE pc[g] = "idle"
  BY <1>4 DEF Prepared, ImportPrepared, Untroubled, BatchSteps, RegisterSteps, RoleSteps, RevokeSteps,
     ReinstateSteps, RestingSteps, ManagerSteps, WarnedSteps
<1> QED
  BY <1>2, <1>3, <1>4

\* What a step of one call has to establish.
LEMMA StepMirrors ==
  ASSUME AccountsInv, AccountsInv', MirrorInv, NEW h \in Handler, Spares(h),
         \A g \in Handler : g # h => pc'[g] = pc[g] /\ call'[g] = call[g],
         faults' = faults \/ faults' \in Nat \ {0},
         holders' = [w \in Wallet |-> holders'[w]], OwnWallets',
         Prepared(h)', ImportPrepared(h)', faults' = 0 => Untroubled(h)' /\ LeavesMirrored(h)
  PROVE  MirrorInv'
<1> DEFINE busy == UNION {Concerned(g) : g \in Handler}
<1>1. \A g \in Handler : Prepared(g)' /\ ImportPrepared(g)'
  BY OthersPrepared
<1>2. ASSUME faults' = 0 PROVE faults = 0 /\ \A g \in Handler : Untroubled(g)'
  BY <1>2, OthersPrepared
<1>3. \A g \in Handler : g # h => Concerned(g)' = Concerned(g)
  BY DEF Concerned
<1>4. ASSUME faults' = 0, NEW x, x \notin busy', x \notin Concerned(h)
      PROVE  x \notin busy
  BY <1>3, <1>4
<1>5. ASSUME faults' = 0, NEW w \in Wallet, w \notin busy' PROVE Claimed(w)'
  <2>1. CASE w \in Concerned(h)
    BY <1>5, <2>1 DEF LeavesMirrored
  <2>2. CASE w \notin Concerned(h)
    <3>1. w \notin busy /\ faults = 0
      BY <1>2, <1>4, <1>5, <2>2
    <3>2. Claimed(w)
      BY <3>1 DEF MirrorInv, MirrorsChain, Claimed
    <3> QED
      BY <2>2, <3>2, SparedStayClaimed
  <2> QED
    BY <2>1, <2>2
<1>6. ASSUME faults' = 0, NEW p \in Known', p \notin busy' PROVE Mirrored(p)'
  <2>1. CASE p \in Concerned(h)
    BY <1>6, <2>1 DEF LeavesMirrored
  <2>2. CASE p \notin Concerned(h)
    <3>1. p \notin busy /\ faults = 0
      BY <1>2, <1>4, <1>6, <2>2
    <3>2. p \in Person /\ p \in Known
      BY <2>2 DEF Known, Spares
    <3>3. Mirrored(p)
      BY <3>1, <3>2 DEF MirrorInv, MirrorsChain, Mirrored
    <3> QED
      BY <2>2, <3>2, <3>3, SparedStayMirrored DEF AccountsInv
  <2> QED
    BY <2>1, <2>2
<1>7. MirrorsChain'
  BY <1>5, <1>6 DEF MirrorsChain, Claimed, Mirrored
<1>8. faults' \in Nat
  BY DEF MirrorInv
<1> QED
  BY <1>1, <1>2, <1>7, <1>8 DEF MirrorInv
-----------------------------------------------------------------------------
(* A step of a call about one person *)

\* Nobody else has the wallet of a call that registers, changes, revokes or reinstates.
LEMMA NobodyElses ==
  ASSUME AccountsInv, MirrorInv, NEW h \in Handler,
         pc[h] \in RegisterSteps \cup RoleSteps \cup RevokeSteps \cup ReinstateSteps
  PROVE  \A q \in Known : q # Subject(h) => users[q].wallet # Row(h).wallet
<1>1. Prepared(h) /\ OwnWallets /\ InOrder(h)
  BY DEF MirrorInv, AccountsInv
<1>2. CASE pc[h] \in RegisterSteps
  BY <1>1, <1>2 DEF Prepared, Unregistered, WalletTaken
<1>3. CASE pc[h] \in RoleSteps \cup RevokeSteps \cup ReinstateSteps
  <2>1. users[Subject(h)] = Row(h) /\ users[Subject(h)] # NoRow
    BY <1>1, <1>3 DEF Prepared, InOrder, SubjectKnown
  <2>2. Subject(h) \in Person
    BY <1>1, <1>3, OneSubject
    DEF InOrder, RoleSteps, RevokeSteps, ReinstateSteps, BatchSteps
  <2> QED
    BY <1>1, <2>1, <2>2 DEF OwnWallets, Known
<1> QED
  BY <1>2, <1>3

\* A call that is over needs nothing.
LEMMA IdlePrepared ==
  ASSUME NEW h \in Handler, pc'[h] = "idle"
  PROVE  Prepared(h)' /\ ImportPrepared(h)' /\ Untroubled(h)'
BY DEF Prepared, ImportPrepared, Untroubled, RegisterSteps, RoleSteps, RevokeSteps, ReinstateSteps,
       BatchSteps, RestingSteps, ManagerSteps, WarnedSteps

\* It writes to the row of its person and to the chain at its wallet at most.
Writes(h, p, w, row, a, s, step, c) ==
    /\ Subject(h) = p /\ Row(h).wallet = w
    /\ users' = [users EXCEPT ![p] = row]
    /\ anchored' = [anchored EXCEPT ![w] = a] /\ holders' = [holders EXCEPT ![w] = s]
    /\ pc' = [pc EXCEPT ![h] = step] /\ call' = [call EXCEPT ![h] = c]
    /\ step # "idle" => DOMAIN c.rows = {p} /\ c.rows[p].wallet = w

LEMMA OneMirrors ==
  ASSUME AccountsInv, AccountsInv', MirrorInv,
         NEW h \in Handler, pc[h] \notin BatchSteps \cup {"idle"},
         NEW p \in Person, NEW w \in Wallet, NEW row \in UserRow \cup {NoRow}, NEW a, NEW s,
         NEW step, step \notin BatchSteps, NEW c, Writes(h, p, w, row, a, s, step, c),
         users[p] # NoRow => row # NoRow /\ row.wallet = users[p].wallet,
         users[p] = NoRow => row = NoRow \/ (row.wallet = w /\ ~WalletTaken(w)),
         \/ \A q \in Known : q # p => users[q].wallet # w
         \/ a = anchored[w] /\ holders[w] \subseteq s,
         faults' = faults \/ faults' \in Nat \ {0},
         Prepared(h)', faults' = 0 => Untroubled(h)',
         faults' = 0 /\ step = "idle" => (row # NoRow => Mirrored(p)') /\ Claimed(w)'
  PROVE  MirrorInv'
<1>0. /\ StateTyped /\ StateTyped' /\ OwnWallets
      /\ holders = [v \in Wallet |-> holders[v]]
  BY DEF AccountsInv, MirrorInv
<1> USE DEF Writes
<1>1. /\ Concerned(h) = {p, w} /\ p \notin Wallet /\ w \notin Person
      /\ Concerned(h)' = IF step = "idle" THEN {} ELSE {p, w}
  <2>1. DOMAIN call[h].rows = {p} /\ call[h].rows[p].wallet = w
    BY OneSubject DEF AccountsInv, InOrder, Row
  <2>2. pc'[h] = step /\ call'[h] = c
    BY <1>0 DEF StateTyped
  <2> QED
    BY <2>1, <2>2 DEF Concerned
<1>2. Spares(h)
  <2>1. ASSUME NEW q \in Person, q # p
        PROVE  /\ users'[q] = users[q]
               /\ q \in Known => /\ Active(users[q].wallet)' = Active(users[q].wallet)
                                 /\ holders[users[q].wallet] \subseteq holders'[users[q].wallet]
    <3>1. users'[q] = users[q]
      BY <1>0, <2>1 DEF StateTyped
    <3>2. q \in Known => users[q].wallet \in Wallet
      BY <1>0 DEF Known, StateTyped, UserRow
    <3>3. \A v \in Wallet : v # w => anchored'[v] = anchored[v] /\ holders'[v] = holders[v]
      BY <1>0 DEF StateTyped
    <3>4. anchored'[w] = a /\ holders'[w] = s
      BY <1>0 DEF StateTyped
    <3> QED
      BY <2>1, <3>1, <3>2, <3>3, <3>4 DEF Active
  <2>2. ASSUME NEW v \in Wallet, v # w
        PROVE  Active(v)' = Active(v) /\ holders'[v] = holders[v] /\ WalletTaken(v)' = WalletTaken(v)
    <3>1. anchored'[v] = anchored[v] /\ holders'[v] = holders[v]
      BY <1>0, <2>2 DEF StateTyped
    <3>2. users'[p] = row /\ \A q \in Person : q # p => users'[q] = users[q]
      BY <1>0 DEF StateTyped
    <3>3. WalletTaken(v)' = WalletTaken(v)
      BY <2>2, <3>2 DEF WalletTaken, Known
    <3> QED
      BY <3>1, <3>3 DEF Active
  <2> QED
    BY <1>1, <2>1, <2>2 DEF Spares
<1>3. OwnWallets'
  <2>1. users'[p] = row /\ \A q \in Person : q # p => users'[q] = users[q]
    BY <1>0 DEF StateTyped
  <2>2. users[p] = NoRow /\ row # NoRow => \A q \in Known : users[q].wallet # row.wallet
    BY DEF WalletTaken
  <2> QED
    BY <1>0, <2>1, <2>2 DEF OwnWallets, Known
<1>4. pc'[h] = step /\ \A g \in Handler : g # h => pc'[g] = pc[g] /\ call'[g] = call[g]
  BY <1>0 DEF StateTyped
<1>5. ImportPrepared(h)'
  BY <1>4 DEF ImportPrepared
<1>6. faults' = 0 => LeavesMirrored(h)
  <2>1. p \in Known' => row # NoRow
    BY <1>0 DEF Known, StateTyped
  <2> QED
    BY <1>1, <2>1 DEF LeavesMirrored, Known
<1>7. holders' = [v \in Wallet |-> holders'[v]]
  BY <1>0
<1> QED
  BY <1>2, <1>3, <1>4, <1>5, <1>6, <1>7, StepMirrors

\* What a handler does next.
LEMMA GoesTo ==
  ASSUME StateTyped, NEW h \in Handler, NEW step, Goto(h, step)
  PROVE  /\ pc' = [pc EXCEPT ![h] = step]
         /\ pc'[h] = step
         /\ step # "idle" => call'[h] = call[h]
         /\ call' = [call EXCEPT ![h] = call'[h]]
BY DEF StateTyped, Goto, Return

\* A transaction of a call about one person: its effect, if any, is on the wallet's
\* record and roles.
Transacts(h, p, w, effect, a, s) ==
    /\ pc[h] \notin BatchSteps \cup {"idle"}
    /\ Subject(h) = p /\ Row(h).wallet = w
    /\ UNCHANGED users
    /\ effect => anchored' = [anchored EXCEPT ![w] = a] /\ holders' = [holders EXCEPT ![w] = s]

\* What has to hold for however the transaction ends.
At(h, step) == pc'[h] = step /\ (step # "idle" => call'[h] = call[h])

Ready(h) == Prepared(h)' /\ (faults' = 0 /\ faults = 0 => pc'[h] # "idle" /\ Untroubled(h)')

Outcomes(h, accepted, effect, ok, reverted, failed) ==
    /\ {ok, reverted, failed} \cap BatchSteps = {} /\ ok # "idle"
    /\ effect /\ At(h, ok) => Ready(h)
    /\ ~accepted /\ UNCHANGED chain /\ At(h, reverted) => Ready(h)
    /\ (effect \/ UNCHANGED chain) /\ At(h, failed) => Prepared(h)'

LEMMA TransactionMirrors ==
  ASSUME AccountsInv, AccountsInv', MirrorInv, NEW h \in Handler,
         NEW p \in Person, NEW w \in Wallet, NEW accepted \in BOOLEAN, NEW effect \in BOOLEAN, NEW ok, NEW reverted, NEW failed,
         Send(h, accepted, effect, ok, reverted, failed),
         NEW a, NEW s, Transacts(h, p, w, effect, a, s),
         \/ \A q \in Known : q # p => users[q].wallet # w
         \/ a = anchored[w] /\ holders[w] \subseteq s,
         Outcomes(h, accepted, effect, ok, reverted, failed)
  PROVE  MirrorInv'
<1>0. /\ StateTyped /\ holders = [v \in Wallet |-> holders[v]] /\ faults \in Nat
  BY DEF AccountsInv, MirrorInv
<1> USE DEF Transacts, Outcomes, At, Ready
<1>1. DOMAIN call[h].rows = {p} /\ call[h].rows[p].wallet = w
  BY OneSubject DEF AccountsInv, InOrder, Row
<1>2. /\ users' = [users EXCEPT ![p] = users[p]]
      /\ users[p] \in UserRow \cup {NoRow}
  BY <1>0 DEF StateTyped
<1>3. UNCHANGED chain => /\ anchored' = [anchored EXCEPT ![w] = anchored[w]]
                         /\ holders' = [holders EXCEPT ![w] = holders[w]]
  BY <1>0 DEF StateTyped, chain
<1>4. ASSUME NEW step, step \notin BatchSteps, Goto(h, step), faults' = faults \/ faults' \in Nat \ {0},
             effect \/ UNCHANGED chain, Prepared(h)', faults' = 0 => step # "idle" /\ Untroubled(h)'
      PROVE  MirrorInv'
  <2>1. /\ pc' = [pc EXCEPT ![h] = step] /\ call' = [call EXCEPT ![h] = call'[h]]
        /\ step # "idle" => call'[h] = call[h]
    BY <1>0, <1>4, GoesTo
  <2>2. step # "idle" => DOMAIN call'[h].rows = {p} /\ call'[h].rows[p].wallet = w
    BY <1>1, <2>1
  <2>3. ~(faults' = 0 /\ step = "idle")
    BY <1>4
  <2>4. PICK row, c :
            /\ row \in UserRow \cup {NoRow}
            /\ row = users[p] /\ users' = [users EXCEPT ![p] = row]
            /\ c = call'[h] /\ call' = [call EXCEPT ![h] = c]
    BY <1>2, <2>1
  <2>5. CASE effect
    <3>1. Writes(h, p, w, row, a, s, step, c)
      BY <2>1, <2>2, <2>4, <2>5 DEF Writes
    <3> QED
      BY <1>4, <2>3, <2>4, <3>1, OneMirrors
  <2>6. CASE UNCHANGED chain
    <3>1. PICK a0, s0 : /\ a0 = anchored[w] /\ s0 = holders[w]
                        /\ anchored' = [anchored EXCEPT ![w] = a0]
                        /\ holders' = [holders EXCEPT ![w] = s0]
      BY <1>3, <2>6
    <3>2. Writes(h, p, w, row, a0, s0, step, c)
      BY <2>1, <2>2, <2>4, <3>1 DEF Writes
    <3> QED
      BY <1>4, <2>3, <2>4, <3>1, <3>2, OneMirrors
  <2> QED
    BY <1>4, <2>5, <2>6
<1>5. CASE effect /\ Goto(h, ok) /\ UNCHANGED faults
  BY <1>0, <1>4, <1>5, GoesTo
<1>6. CASE ~accepted /\ UNCHANGED chain /\ Goto(h, reverted) /\ UNCHANGED faults
  BY <1>0, <1>4, <1>6, GoesTo
<1>7. CASE Fault /\ Goto(h, failed) /\ (UNCHANGED chain \/ effect)
  <2>1. faults' \in Nat \ {0} /\ faults' # 0
    BY <1>0, <1>7 DEF Fault
  <2> QED
    BY <1>0, <1>4, <1>7, <2>1, GoesTo
<1> QED
  BY <1>5, <1>6, <1>7 DEF Send

\* The calls of one person, as constants.
LEMMA AsConstants ==
  ASSUME AccountsInv, MirrorInv, NEW h \in Handler, pc[h] \notin BatchSteps \cup {"idle"}
  PROVE  \E p, w, role :
            /\ p \in Person /\ w \in Wallet
            /\ Subject(h) = p /\ Row(h).wallet = w /\ Row(h).role = role
            /\ pc[h] \in RegisterSteps \cup RoleSteps \cup RevokeSteps \cup ReinstateSteps =>
                   \A q \in Known : q # p => users[q].wallet # w
BY OneSubject, NobodyElses DEF AccountsInv, InOrder

\* Registering: the record, then the role.
LEMMA RegisterMirrors ==
  ASSUME AccountsInv, AccountsInv', MirrorInv, IdentityConfigured, RolesConfigured,
         NEW h \in Handler, RegisterOnChain(h) \/ GrantRole(h)
  PROVE  MirrorInv'
<1> USE DEF RegisterSteps, RoleSteps, ManagerSteps, RevokeSteps, ReinstateSteps, BatchSteps,
            WarnedSteps, RestingSteps
<1>1. /\ pc[h] \in RegisterSteps /\ UNCHANGED users /\ Prepared(h)
      /\ holders = [v \in Wallet |-> holders[v]] /\ StateTyped
  BY DEF RegisterOnChain, GrantRole, MirrorInv, AccountsInv
<1>2. PICK p, w, role :
        /\ p \in Person /\ w \in Wallet
        /\ Subject(h) = p /\ Row(h).wallet = w /\ Row(h).role = role
        /\ \A q \in Known : q # p => users[q].wallet # w
  BY <1>1, AsConstants
<1>3. call'[h] = call[h] => Subject(h)' = p /\ Row(h)' = Row(h)
  BY <1>2 DEF Subject, Row
<1>4. Unregistered(p, w) /\ Unregistered(p, w)' /\ ~Row(h).revoked
  BY <1>1, <1>2 DEF Prepared, Unregistered, WalletTaken, Known
<1>5. pc'[h] = "idle" => Prepared(h)'
  BY IdlePrepared
<1>6. CASE RegisterOnChain(h)
  <2> DEFINE effect == Anchor(w, p)
             a == IF Active(w) THEN anchored[w] ELSE p
             s == holders[w]
  <2>1. Transacts(h, p, w, effect, a, s)
    BY <1>1, <1>2 DEF Anchor, Transacts, StateTyped
  <2>2. effect \in BOOLEAN /\ Send(h, TRUE, effect, "grant", "idle", "idle")
    BY <1>2, <1>6 DEF RegisterOnChain, AfterFailedRegistration, Anchor
  <2>3. Outcomes(h, TRUE, effect, "grant", "idle", "idle")
    <3>1. At(h, "grant") => Ready(h)
      BY <1>2, <1>3, <1>4 DEF Prepared, Untroubled, At, Ready
    <3> QED
      BY <1>5, <3>1 DEF Outcomes, At
  <2> HIDE DEF effect, a, s
  <2> QED
    BY <1>2, <2>1, <2>2, <2>3, TransactionMirrors
<1>7. CASE GrantRole(h)
  <2> DEFINE effect == Grant(w, role)
             a == anchored[w]
             s == holders[w] \cup {role}
  <2>1. Transacts(h, p, w, effect, a, s)
    BY <1>1, <1>2 DEF Grant, Transacts, StateTyped
  <2>2. /\ effect \in BOOLEAN
        /\ Send(h, TRUE, effect, "createUser", "createUserWarned", "createUserWarned")
    BY <1>2, <1>7 DEF GrantRole, Grant
  <2>3. Outcomes(h, TRUE, effect, "createUser", "createUserWarned", "createUserWarned")
    <3>1. effect /\ At(h, "createUser") => Ready(h)
      BY <1>1, <1>2, <1>3, <1>4, <2>1 DEF Prepared, Untroubled, Transacts, At, Ready
    <3>2. At(h, "createUserWarned") => Prepared(h)'
      BY <1>2, <1>3, <1>4 DEF Prepared, At
    <3> QED
      BY <3>1, <3>2 DEF Outcomes
  <2> HIDE DEF effect, a, s
  <2> QED
    BY <1>2, <2>1, <2>2, <2>3, TransactionMirrors
<1> QED
  BY <1>6, <1>7

\* Changing the role: the new one is granted before the old one is taken.
LEMMA RoleMirrors ==
  ASSUME AccountsInv, AccountsInv', MirrorInv, IdentityConfigured, RolesConfigured,
         NEW h \in Handler,
         UpdateClearance(h) \/ GrantNew(h) \/ StripOld(h)
  PROVE  MirrorInv'
<1> USE DEF RegisterSteps, RoleSteps, ManagerSteps, RevokeSteps, ReinstateSteps, BatchSteps,
            WarnedSteps, RestingSteps
<1>1. /\ pc[h] \in RoleSteps \ {"saveRole", "saveRoleWarned"} /\ UNCHANGED users /\ Prepared(h)
      /\ holders = [v \in Wallet |-> holders[v]] /\ StateTyped
  BY DEF UpdateClearance, GrantNew, StripOld, MirrorInv, AccountsInv
<1>2. PICK p, w, role :
        /\ p \in Person /\ w \in Wallet
        /\ Subject(h) = p /\ Row(h).wallet = w /\ Row(h).role = role
        /\ \A q \in Known : q # p => users[q].wallet # w
  BY <1>1, AsConstants
<1>3. call'[h] = call[h] => Subject(h)' = p /\ Row(h)' = Row(h)
  BY <1>2 DEF Subject, Row
<1>4. PICK new : call[h].role = new
  OBVIOUS
<1>5. users[p] = Row(h) /\ users'[p] = Row(h) /\ ~Row(h).revoked
  BY <1>1, <1>2 DEF Prepared
<1>6. At(h, "saveRoleWarned") => Prepared(h)'
  BY <1>2, <1>3, <1>5 DEF Prepared, At
<1>7. CASE UpdateClearance(h)
  <2> DEFINE effect == Active(w) /\ UNCHANGED chain
             a == anchored[w]
             s == holders[w]
  <2>1. Transacts(h, p, w, effect, a, s)
    BY <1>1, <1>2 DEF Transacts, StateTyped, chain
  <2>2. /\ effect \in BOOLEAN /\ Active(w) \in BOOLEAN
        /\ Send(h, Active(w), effect, "grantNew", "saveRoleWarned", "saveRoleWarned")
    BY <1>2, <1>7, Zenon DEF UpdateClearance, Send, Active
  <2>3. Outcomes(h, Active(w), effect, "grantNew", "saveRoleWarned", "saveRoleWarned")
    <3>1. effect /\ At(h, "grantNew") => Ready(h)
      <4>1. effect => Active(w)'
        BY DEF Active, chain
      <4> QED
        BY <1>2, <1>3, <1>5, <4>1 DEF Prepared, Untroubled, At, Ready
    <3>2. ~Active(w) /\ At(h, "saveRoleWarned") => Ready(h)
      <4>1. faults = 0 => Active(w)
        <5>1. pc[h] = "updateClearance" /\ users[p] # NoRow
          BY <1>1, <1>2, <1>7 DEF UpdateClearance, AccountsInv, InOrder, SubjectKnown
        <5> QED
          BY <1>2, <1>5, <5>1 DEF Untroubled, MirrorInv, Mirrored, InForce
      <4> QED
        BY <1>6, <4>1 DEF Ready
    <3> QED
      BY <1>6, <3>1, <3>2 DEF Outcomes
  <2>4. PICK accepted \in BOOLEAN : accepted = Active(w)
    BY DEF Active
  <2> HIDE DEF effect, a, s
  <2>5. Send(h, accepted, effect, "grantNew", "saveRoleWarned", "saveRoleWarned")
    BY <2>2, <2>4
  <2>6. Outcomes(h, accepted, effect, "grantNew", "saveRoleWarned", "saveRoleWarned")
    BY <2>3, <2>4
  <2> QED
    BY <1>2, <2>1, <2>2, <2>5, <2>6, TransactionMirrors
<1>8. CASE GrantNew(h)
  <2> DEFINE effect == Grant(w, new)
             a == anchored[w]
             s == holders[w] \cup {new}
  <2>0. PICK ok : ok = IF new = role THEN "saveRole" ELSE "stripOld"
    OBVIOUS
  <2>1. Transacts(h, p, w, effect, a, s)
    BY <1>1, <1>2 DEF Grant, Transacts, StateTyped
  <2>2. /\ effect \in BOOLEAN
        /\ Send(h, TRUE, effect, ok, "saveRoleWarned", "saveRoleWarned")
    BY <1>2, <1>4, <1>8, <2>0 DEF GrantNew, Grant
  <2>3. Outcomes(h, TRUE, effect, ok, "saveRoleWarned", "saveRoleWarned")
    <3>1. effect /\ At(h, ok) => Ready(h)
      <4>1. effect => new \in holders'[w] /\ Active(w)'
        BY <1>1, <1>8, <1>2 DEF GrantNew, Grant, Prepared, Active
      <4> QED
        BY <1>2, <1>3, <1>4, <1>5, <2>0, <4>1 DEF Prepared, Untroubled, At, Ready
    <3> QED
      BY <1>6, <2>0, <3>1 DEF Outcomes
  <2> HIDE DEF effect, a, s
  <2> QED
    BY <1>2, <2>1, <2>2, <2>3, TransactionMirrors
<1>9. CASE StripOld(h)
  <2> DEFINE effect == Strip(w, role)
             a == anchored[w]
             s == holders[w] \ {role}
  <2>1. Transacts(h, p, w, effect, a, s)
    BY <1>1, <1>2 DEF Strip, Transacts, StateTyped
  <2>2. /\ effect \in BOOLEAN
        /\ Send(h, TRUE, effect, "saveRole", "saveRoleWarned", "saveRoleWarned")
    BY <1>2, <1>9 DEF StripOld, OutgoingRole, Strip
  <2>3. Outcomes(h, TRUE, effect, "saveRole", "saveRoleWarned", "saveRoleWarned")
    <3>1. effect /\ At(h, "saveRole") => Ready(h)
      <4>1. new \in holders[w] /\ new # role /\ Active(w)
        BY <1>1, <1>2, <1>4, <1>9 DEF StripOld, Prepared
      <4>2. effect => new \in holders'[w] /\ role \notin holders'[w] /\ Active(w)'
        BY <1>1, <1>2, <4>1 DEF Strip, Active
      <4> QED
        BY <1>2, <1>3, <1>4, <1>5, <4>2 DEF Prepared, Untroubled, At, Ready
    <3> QED
      BY <1>6, <3>1 DEF Outcomes
  <2> HIDE DEF effect, a, s
  <2> QED
    BY <1>2, <2>1, <2>2, <2>3, TransactionMirrors
<1> QED
  BY <1>7, <1>8, <1>9

\* Revoking: the record, then the role.
LEMMA RevokeMirrors ==
  ASSUME AccountsInv, AccountsInv', MirrorInv, IdentityConfigured, RolesConfigured,
         NEW h \in Handler, RevokeOnChain(h) \/ StripRole(h)
  PROVE  MirrorInv'
<1> USE DEF RegisterSteps, RoleSteps, ManagerSteps, RevokeSteps, ReinstateSteps, BatchSteps,
            WarnedSteps, RestingSteps
<1>1. /\ pc[h] \in {"revoke", "strip"} /\ UNCHANGED users /\ Prepared(h)
      /\ holders = [v \in Wallet |-> holders[v]] /\ StateTyped
  BY DEF RevokeOnChain, StripRole, MirrorInv, AccountsInv
<1>2. PICK p, w, role :
        /\ p \in Person /\ w \in Wallet
        /\ Subject(h) = p /\ Row(h).wallet = w /\ Row(h).role = role
        /\ \A q \in Known : q # p => users[q].wallet # w
  BY <1>1, AsConstants
<1>3. call'[h] = call[h] => Subject(h)' = p /\ Row(h)' = Row(h)
  BY <1>2 DEF Subject, Row
<1>4. users[p] = Row(h) /\ users'[p] = Row(h) /\ ~Row(h).revoked
  BY <1>1, <1>2 DEF Prepared
<1>5. pc'[h] = "idle" => Prepared(h)'
  BY IdlePrepared
<1>6. At(h, "strip") /\ ~Active(w)' => Ready(h)
  BY <1>2, <1>3, <1>4 DEF Prepared, Untroubled, At, Ready
<1>7. CASE RevokeOnChain(h)
  <2> DEFINE effect == Retire(w)
             a == NoPerson
             s == holders[w]
  <2>1. Transacts(h, p, w, effect, a, s)
    BY <1>1, <1>2 DEF Retire, Transacts, StateTyped
  <2>2. PICK accepted \in BOOLEAN : accepted = Active(w)
    BY DEF Active
  <2>3. effect \in BOOLEAN /\ Send(h, accepted, effect, "strip", "strip", "idle")
    BY <1>2, <1>7, <2>2 DEF RevokeOnChain, Retire
  <2>4. Outcomes(h, accepted, effect, "strip", "strip", "idle")
    <3>1. effect => ~Active(w)'
      BY <1>1, <1>2 DEF Retire, Active, StateTyped
    <3>2. ~accepted /\ UNCHANGED chain => ~Active(w)'
      BY <2>2 DEF chain, Active
    <3> QED
      BY <1>5, <1>6, <3>1, <3>2 DEF Outcomes, At
  <2> HIDE DEF effect, a, s
  <2> QED
    BY <1>2, <2>1, <2>3, <2>4, TransactionMirrors
<1>8. CASE StripRole(h)
  <2> DEFINE effect == Strip(w, role)
             a == anchored[w]
             s == holders[w] \ {role}
  <2>1. Transacts(h, p, w, effect, a, s)
    BY <1>1, <1>2 DEF Strip, Transacts, StateTyped
  <2>2. /\ effect \in BOOLEAN
        /\ Send(h, TRUE, effect, "stamp", "stampWarned", "stampWarned")
    BY <1>2, <1>8 DEF StripRole, Strip
  <2>3. Outcomes(h, TRUE, effect, "stamp", "stampWarned", "stampWarned")
    <3>1. ~Active(w)
      BY <1>2, <1>8, <1>1 DEF StripRole, Prepared
    <3>2. effect \/ UNCHANGED chain => ~Active(w)'
      BY <3>1 DEF Strip, Active, chain
    <3>3. effect => role \notin holders'[w]
      BY <1>1, <1>2 DEF Strip
    <3>4. effect /\ At(h, "stamp") => Ready(h)
      BY <1>2, <1>3, <1>4, <3>2, <3>3 DEF Prepared, Untroubled, At, Ready
    <3>5. (effect \/ UNCHANGED chain) /\ At(h, "stampWarned") => Prepared(h)'
      BY <1>2, <1>3, <1>4, <3>2 DEF Prepared, At
    <3> QED
      BY <3>4, <3>5 DEF Outcomes
  <2> HIDE DEF effect, a, s
  <2> QED
    BY <1>2, <2>1, <2>2, <2>3, TransactionMirrors
<1> QED
  BY <1>7, <1>8

\* Reinstating: the record, then the role.
LEMMA ReinstateMirrors ==
  ASSUME AccountsInv, AccountsInv', MirrorInv, IdentityConfigured, RolesConfigured,
         NEW h \in Handler, Reanchor(h) \/ Regrant(h)
  PROVE  MirrorInv'
<1> USE DEF RegisterSteps, RoleSteps, ManagerSteps, RevokeSteps, ReinstateSteps, BatchSteps,
            WarnedSteps, RestingSteps
<1>1. /\ pc[h] \in {"reanchor", "regrant"} /\ UNCHANGED users /\ Prepared(h)
      /\ holders = [v \in Wallet |-> holders[v]] /\ StateTyped
  BY DEF Reanchor, Regrant, MirrorInv, AccountsInv
<1>2. PICK p, w, role :
        /\ p \in Person /\ w \in Wallet
        /\ Subject(h) = p /\ Row(h).wallet = w /\ Row(h).role = role
        /\ \A q \in Known : q # p => users[q].wallet # w
  BY <1>1, AsConstants
<1>3. call'[h] = call[h] => Subject(h)' = p /\ Row(h)' = Row(h)
  BY <1>2 DEF Subject, Row
<1>4. users[p] = Row(h) /\ users'[p] = Row(h)
  BY <1>1, <1>2 DEF Prepared
<1>5. pc'[h] = "idle" => Prepared(h)'
  BY IdlePrepared
<1>6. CASE Reanchor(h)
  <2> DEFINE effect == Anchor(w, p)
             a == IF Active(w) THEN anchored[w] ELSE p
             s == holders[w]
  <2>1. Transacts(h, p, w, effect, a, s)
    BY <1>1, <1>2 DEF Anchor, Transacts, StateTyped
  <2>2. effect \in BOOLEAN /\ Send(h, TRUE, effect, "regrant", "idle", "idle")
    BY <1>2, <1>6 DEF Reanchor, Anchor
  <2>3. Outcomes(h, TRUE, effect, "regrant", "idle", "idle")
    <3>1. effect => Active(w)'
      BY <1>1, <1>2 DEF Anchor, Active, StateTyped
    <3>2. effect /\ At(h, "regrant") => Ready(h)
      BY <1>2, <1>3, <1>4, <3>1 DEF Prepared, Untroubled, At, Ready
    <3> QED
      BY <1>5, <3>2 DEF Outcomes, At
  <2> HIDE DEF effect, a, s
  <2> QED
    BY <1>2, <2>1, <2>2, <2>3, TransactionMirrors
<1>7. CASE Regrant(h)
  <2> DEFINE effect == Grant(w, role)
             a == anchored[w]
             s == holders[w] \cup {role}
  <2>1. Transacts(h, p, w, effect, a, s)
    BY <1>1, <1>2 DEF Grant, Transacts, StateTyped
  <2>2. /\ effect \in BOOLEAN
        /\ Send(h, TRUE, effect, "unstamp", "unstampWarned", "unstampWarned")
    BY <1>2, <1>7 DEF Regrant, Grant
  <2>3. Outcomes(h, TRUE, effect, "unstamp", "unstampWarned", "unstampWarned")
    <3>1. effect => Active(w)' /\ role \in holders'[w]
      BY <1>1, <1>2, <1>7 DEF Grant, Regrant, Active, Prepared
    <3>2. effect /\ At(h, "unstamp") => Ready(h)
      BY <1>2, <1>3, <1>4, <3>1 DEF Prepared, Untroubled, At, Ready
    <3>3. At(h, "unstampWarned") => Prepared(h)'
      BY <1>2, <1>3, <1>4 DEF Prepared, At
    <3> QED
      BY <3>2, <3>3 DEF Outcomes
  <2> HIDE DEF effect, a, s
  <2> QED
    BY <1>2, <2>1, <2>2, <2>3, TransactionMirrors
<1> QED
  BY <1>6, <1>7

\* A grant to whom the table has already: an approval that finds the person or
\* the wallet registered.
LEMMA GrantExistingMirrors ==
  ASSUME AccountsInv, AccountsInv', MirrorInv, IdentityConfigured, RolesConfigured,
         NEW h \in Handler, GrantExisting(h)
  PROVE  MirrorInv'
<1> USE DEF RegisterSteps, RoleSteps, ManagerSteps, RevokeSteps, ReinstateSteps, BatchSteps,
            WarnedSteps, RestingSteps
<1>1. /\ pc[h] = "grantExisting" /\ UNCHANGED users
      /\ holders = [v \in Wallet |-> holders[v]] /\ StateTyped
  BY DEF GrantExisting, MirrorInv, AccountsInv
<1>2. PICK p, w, role :
        /\ p \in Person /\ w \in Wallet
        /\ Subject(h) = p /\ Row(h).wallet = w /\ Row(h).role = role
  BY <1>1, AsConstants
<1>3. call'[h] = call[h] => Subject(h)' = p /\ Row(h)' = Row(h)
  BY <1>2 DEF Subject, Row
<1> DEFINE effect == Grant(w, role)
           a == anchored[w]
           s == holders[w] \cup {role}
<1>4. Transacts(h, p, w, effect, a, s)
  BY <1>1, <1>2 DEF Grant, Transacts, StateTyped
<1>5. /\ effect \in BOOLEAN
      /\ Send(h, TRUE, effect, "markApproved", "markApproved", "markApproved")
  BY <1>2 DEF GrantExisting, Grant
<1>6. Outcomes(h, TRUE, effect, "markApproved", "markApproved", "markApproved")
  <2>1. At(h, "markApproved") => Prepared(h)'
    BY DEF Prepared, At
  <2>2. effect /\ At(h, "markApproved") => Ready(h)
    <3>1. users[p] = NoRow \/ users[p] \in UserRow
      BY <1>1, <1>2 DEF StateTyped
    <3>2. effect /\ users[p] # NoRow /\ Mirrored(p) => Mirrored(p)'
      BY <1>1, <3>1 DEF Grant, Mirrored, InForce, Active, UserRow
    <3>3. effect /\ Claimed(w) => Claimed(w)'
      BY <1>1 DEF Grant, Claimed, Active, WalletTaken, Known
    <3>4. faults = 0 => (users[p] # NoRow => Mirrored(p)) /\ Claimed(w)
      BY <1>1, <1>2 DEF MirrorInv, Untroubled
    <3> QED
      BY <1>1, <1>2, <1>3, <2>1, <3>2, <3>3, <3>4 DEF Untroubled, At, Ready
  <2> QED
    BY <2>1, <2>2 DEF Outcomes
<1>7. a = anchored[w] /\ holders[w] \subseteq s
  OBVIOUS
<1> HIDE DEF effect, a, s
<1> QED
  BY <1>2, <1>4, <1>5, <1>6, <1>7, TransactionMirrors

-----------------------------------------------------------------------------
(* Steps that save a row, and those that only read *)

\* A call that saves the row of its person leaves it mirrored.
LEMMA SaveMirrors ==
  ASSUME AccountsInv, AccountsInv', MirrorInv, IdentityConfigured, RolesConfigured,
        
         NEW h \in Handler, pc[h] \notin BatchSteps \cup {"idle"},
         NEW p \in Person, NEW w \in Wallet, Subject(h) = p, Row(h).wallet = w,
         NEW row \in UserRow, users' = [users EXCEPT ![p] = row], UNCHANGED <<chain, faults>>,
         users[p] # NoRow => row.wallet = users[p].wallet,
         users[p] = NoRow => row.wallet = w /\ ~WalletTaken(w),
         NEW step \in {"idle", "markApproved"}, Goto(h, step),
         faults = 0 => Mirrored(p)' /\ Claimed(w)'
  PROVE  MirrorInv'
<1> USE DEF RegisterSteps, RoleSteps, ManagerSteps, RevokeSteps, ReinstateSteps, BatchSteps,
            WarnedSteps, RestingSteps
<1>0. StateTyped /\ holders = [v \in Wallet |-> holders[v]]
  BY DEF AccountsInv, MirrorInv
<1>1. /\ pc' = [pc EXCEPT ![h] = step] /\ pc'[h] = step
      /\ call' = [call EXCEPT ![h] = call'[h]]
      /\ step # "idle" => call'[h] = call[h]
  BY <1>0, GoesTo
<1>2. DOMAIN call[h].rows = {p} /\ call[h].rows[p].wallet = w
  BY OneSubject DEF AccountsInv, InOrder, Row
<1>8. /\ anchored' = [anchored EXCEPT ![w] = anchored[w]]
      /\ holders' = [holders EXCEPT ![w] = holders[w]]
  BY <1>0 DEF StateTyped, chain
<1>3. PICK c, a, s : /\ c = call'[h] /\ call' = [call EXCEPT ![h] = c]
                     /\ a = anchored[w] /\ anchored' = [anchored EXCEPT ![w] = a]
                     /\ s = holders[w] /\ holders' = [holders EXCEPT ![w] = s]
  BY <1>1, <1>8
<1>4. Writes(h, p, w, row, a, s, step, c)
  BY <1>1, <1>2, <1>3 DEF Writes
<1>5. row # NoRow
  OBVIOUS
<1>6. step # "idle" => Subject(h)' = p /\ Row(h)'.wallet = w
  <2>1. call'[h] = call[h] => Subject(h)' = Subject(h) /\ Row(h)' = Row(h)
    BY DEF Subject, Row
  <2> QED
    BY <1>1, <2>1
<1>7. Prepared(h)' /\ (faults' = 0 => Untroubled(h)')
  BY <1>1, <1>6, IdlePrepared DEF Prepared, Untroubled
<1> QED
  BY <1>3, <1>4, <1>5, <1>7, OneMirrors

LEMMA SavesMirror ==
  ASSUME AccountsInv, AccountsInv', MirrorInv, IdentityConfigured, RolesConfigured,
         NEW h \in Handler,
         CreateUser(h) \/ SaveRole(h) \/ SaveManager(h) \/ StampRevoked(h) \/ UnstampRevoked(h)
  PROVE  MirrorInv'
<1> USE DEF RegisterSteps, RoleSteps, ManagerSteps, RevokeSteps, ReinstateSteps, BatchSteps,
            WarnedSteps, RestingSteps
<1>0. /\ StateTyped /\ Prepared(h) /\ InOrder(h) /\ pc[h] \notin BatchSteps \cup {"idle"}
      /\ faults = 0 => Untroubled(h)
  BY DEF MirrorInv, AccountsInv, CreateUser, SaveRole, SaveManager, StampRevoked, UnstampRevoked
<1>1. PICK p \in Person, w \in Wallet :
        Subject(h) = p /\ Row(h).wallet = w
  BY <1>0, AsConstants
<1>2. users[p] = NoRow \/ users[p] \in UserRow
  BY <1>0 DEF StateTyped
<1>3. CASE CreateUser(h)
  <2>1. PICK row \in UserRow, step \in {"idle", "markApproved"} : row = Row(h) /\ step = call[h].next
    BY <1>0, <1>3 DEF CreateUser, InOrder, Carries
  <2>2. Unregistered(p, w) /\ Active(w) /\ ~row.revoked
        /\ (faults = 0 => row.role \in holders[w])
    BY <1>0, <1>1, <1>3, <2>1 DEF CreateUser, Prepared, Untroubled, InOrder, WalletsActive
  <2>3. /\ users' = [users EXCEPT ![p] = row] /\ Goto(h, step) /\ UNCHANGED <<chain, faults>>
        /\ users[p] = NoRow /\ ~WalletTaken(w) /\ row.wallet = w
    BY <1>1, <1>3, <2>1, <2>2 DEF CreateUser, Unregistered
  <2>4. faults = 0 => Mirrored(p)' /\ Claimed(w)'
    BY <1>0, <2>2, <2>3 DEF StateTyped, Mirrored, InForce, Claimed, WalletTaken, Known, Active, chain
  <2> QED
    BY <1>0, <1>1, <2>3, <2>4, SaveMirrors
<1>4. ASSUME NEW row \in UserRow, users' = [users EXCEPT ![p] = row], UNCHANGED <<chain, faults>>,
             users[p] # NoRow, row.wallet = users[p].wallet, Return(h),
             faults = 0 => Mirrored(p)' /\ Claimed(w)'
      PROVE  MirrorInv'
  <2>1. Goto(h, "idle")
    BY <1>4 DEF Goto
  <2> QED
    BY <1>0, <1>1, <1>4, <2>1, SaveMirrors
<1>5. CASE SaveManager(h)
  <2>1. PICK m \in Person \cup {NoPerson} : m = call[h].manager
    BY <1>0, <1>5 DEF SaveManager, InOrder, Carries
  <2>2. users[p] # NoRow /\ users[p] \in UserRow
    BY <1>0, <1>1, <1>2, <1>5 DEF SaveManager, InOrder, SubjectKnown
  <2>3. PICK row : row = [users[p] EXCEPT !.managerId = m]
    OBVIOUS
  <2>4. /\ row \in UserRow /\ row.wallet = users[p].wallet /\ row.role = users[p].role
        /\ row.revoked = users[p].revoked
    BY <2>2, <2>3 DEF UserRow
  <2>5. users' = [users EXCEPT ![p] = row] /\ UNCHANGED <<chain, faults>> /\ Return(h)
    BY <1>1, <1>5, <2>1, <2>3 DEF SaveManager
  <2>6. faults = 0 => Mirrored(p) /\ Claimed(w)
    BY <1>0, <1>1, <1>5, <2>2 DEF SaveManager, Untroubled
  <2>7. users'[p] = row /\ row # NoRow /\ \A q \in Person : q # p => users'[q] = users[q]
    BY <1>0, <2>4, <2>5 DEF StateTyped
  <2>8. faults = 0 => Mirrored(p)' /\ Claimed(w)'
    BY <2>4, <2>5, <2>6, <2>7 DEF Mirrored, InForce, Claimed, WalletTaken, Known, Active, chain
  <2> QED
    BY <1>4, <2>2, <2>4, <2>5, <2>8
<1>6. CASE SaveRole(h)
  <2>1. PICK role \in Role : role = call[h].role
    BY <1>0, <1>6 DEF SaveRole, InOrder, Carries
  <2>2. users[p] # NoRow /\ users[p] \in UserRow /\ users[p].wallet = w /\ ~users[p].revoked
    BY <1>0, <1>1, <1>2, <1>6 DEF SaveRole, InOrder, SubjectKnown, Prepared
  <2>3. PICK row : row = [users[p] EXCEPT !.role = role]
    OBVIOUS
  <2>4. row \in UserRow /\ row.wallet = users[p].wallet /\ row.role = role /\ ~row.revoked
    BY <2>2, <2>3 DEF UserRow
  <2>5. users' = [users EXCEPT ![p] = row] /\ UNCHANGED <<chain, faults>> /\ Return(h)
    BY <1>1, <1>6, <2>1, <2>3 DEF SaveRole
  <2>6. faults = 0 => Active(w) /\ role \in holders[w]
    BY <1>0, <1>1, <1>6, <2>1 DEF SaveRole, Untroubled, Prepared
  <2>7. users'[p] = row /\ row # NoRow
    BY <1>0, <2>4, <2>5 DEF StateTyped
  <2>8. faults = 0 => Mirrored(p)' /\ Claimed(w)'
    BY <2>2, <2>4, <2>5, <2>6, <2>7 DEF Mirrored, InForce, Claimed, WalletTaken, Known, Active, chain
  <2> QED
    BY <1>4, <2>2, <2>4, <2>5, <2>8
<1>7. CASE StampRevoked(h)
  <2>2. users[p] # NoRow /\ users[p] \in UserRow /\ users[p].wallet = w
    BY <1>0, <1>1, <1>2, <1>7 DEF StampRevoked, InOrder, SubjectKnown, Prepared
  <2>3. PICK row : row = [users[p] EXCEPT !.revoked = TRUE]
    OBVIOUS
  <2>4. row \in UserRow /\ row.wallet = users[p].wallet /\ row.revoked
    BY <2>2, <2>3 DEF UserRow
  <2>5. users' = [users EXCEPT ![p] = row] /\ UNCHANGED <<chain, faults>> /\ Return(h)
    BY <1>1, <1>7, <2>3 DEF StampRevoked
  <2>6. ~Active(w)
    BY <1>0, <1>1, <1>7 DEF StampRevoked, Prepared
  <2>7. users'[p] = row
    BY <1>0, <2>5 DEF StateTyped
  <2>8. Mirrored(p)' /\ Claimed(w)'
    BY <2>2, <2>4, <2>5, <2>6, <2>7 DEF Mirrored, Claimed, Active, chain
  <2> QED
    BY <1>4, <2>2, <2>4, <2>5, <2>8
<1>8. CASE UnstampRevoked(h)
  <2>2. users[p] # NoRow /\ users[p] \in UserRow /\ users[p] = Row(h) /\ users[p].wallet = w
    BY <1>0, <1>1, <1>2, <1>8 DEF UnstampRevoked, InOrder, SubjectKnown, Prepared
  <2>3. PICK row : row = [users[p] EXCEPT !.revoked = FALSE]
    OBVIOUS
  <2>4. row \in UserRow /\ row.wallet = users[p].wallet /\ row.role = users[p].role /\ ~row.revoked
    BY <2>2, <2>3 DEF UserRow
  <2>5. users' = [users EXCEPT ![p] = row] /\ UNCHANGED <<chain, faults>> /\ Return(h)
    BY <1>1, <1>8, <2>3 DEF UnstampRevoked
  <2>6. faults = 0 => Active(w) /\ users[p].role \in holders[w]
    BY <1>0, <1>1, <1>8, <2>2 DEF UnstampRevoked, Untroubled, Prepared
  <2>7. users'[p] = row /\ row # NoRow
    BY <1>0, <2>4, <2>5 DEF StateTyped
  <2>8. faults = 0 => Mirrored(p)' /\ Claimed(w)'
    BY <2>2, <2>4, <2>5, <2>6, <2>7 DEF Mirrored, InForce, Claimed, WalletTaken, Known, Active, chain
  <2> QED
    BY <1>4, <2>2, <2>4, <2>5, <2>8
<1> QED
  BY <1>3, <1>5, <1>6, <1>7, <1>8

\* A call that has changed nothing goes on, or ends.
LEMMA RestMirrors ==
  ASSUME AccountsInv, AccountsInv', MirrorInv, NEW h \in Handler,
         pc[h] \in RestingSteps, UNCHANGED <<users, chain, faults>>,
         NEW p \in Person, NEW w \in Wallet, Subject(h) = p, Row(h).wallet = w,
         NEW step, step \notin BatchSteps \cup WarnedSteps, NEW c,
         pc' = [pc EXCEPT ![h] = step], call' = [call EXCEPT ![h] = c],
         step # "idle" => DOMAIN c.rows = {p} /\ c.rows[p].wallet = w,
         step = "idle" \/ Prepared(h)'
  PROVE  MirrorInv'
<1> USE DEF RegisterSteps, RoleSteps, ManagerSteps, RevokeSteps, ReinstateSteps, BatchSteps,
            WarnedSteps, RestingSteps
<1>0. /\ StateTyped /\ holders = [v \in Wallet |-> holders[v]]
      /\ faults = 0 => Untroubled(h)
  BY DEF AccountsInv, MirrorInv
<1>1. pc'[h] = step /\ call'[h] = c
  BY <1>0 DEF StateTyped
<1>8. /\ users' = [users EXCEPT ![p] = users[p]] /\ users[p] \in UserRow \cup {NoRow}
      /\ anchored' = [anchored EXCEPT ![w] = anchored[w]]
      /\ holders' = [holders EXCEPT ![w] = holders[w]]
  BY <1>0 DEF StateTyped, chain
<1>2. PICK row, a, s :
        /\ row \in UserRow \cup {NoRow}
        /\ row = users[p] /\ users' = [users EXCEPT ![p] = row]
        /\ a = anchored[w] /\ anchored' = [anchored EXCEPT ![w] = a]
        /\ s = holders[w] /\ holders' = [holders EXCEPT ![w] = s]
  BY <1>8
<1>3. Writes(h, p, w, row, a, s, step, c)
  BY <1>2 DEF Writes
<1>4. faults = 0 => (users[p] # NoRow => Mirrored(p)) /\ Claimed(w)
  BY <1>0 DEF Untroubled
<1>5. faults = 0 => (users[p] # NoRow => Mirrored(p)') /\ Claimed(w)'
  BY <1>4 DEF Mirrored, InForce, Claimed, WalletTaken, Known, Active, chain
<1>6. step # "idle" => Subject(h)' = p /\ Row(h)'.wallet = w
  BY <1>1 DEF Subject, Row
<1>7. Prepared(h)' /\ (faults' = 0 => Untroubled(h)')
  BY <1>1, <1>5, <1>6, IdlePrepared DEF Untroubled
<1> QED
  BY <1>2, <1>3, <1>5, <1>7, OneMirrors

LEMMA ReadsMirror ==
  ASSUME AccountsInv, AccountsInv', MirrorInv, NEW h \in Handler,
         \/ ReadManager(h) \/ CountAdmins(h) \/ Upsert(h) \/ ReadRequest(h)
         \/ MarkApproved(h) \/ MarkRejected(h)
  PROVE  MirrorInv'
<1> USE DEF RegisterSteps, RoleSteps, ManagerSteps, RevokeSteps, ReinstateSteps, BatchSteps,
            WarnedSteps, RestingSteps
<1>0. /\ StateTyped /\ Prepared(h) /\ InOrder(h) /\ pc[h] \in RestingSteps
      /\ UNCHANGED <<users, chain, faults>>
  BY DEF MirrorInv, AccountsInv, ReadManager, CountAdmins, Upsert, ReadRequest, MarkApproved,
         MarkRejected
<1>1. PICK p \in Person, w \in Wallet : Subject(h) = p /\ Row(h).wallet = w
  BY <1>0, AsConstants
<1>2. DOMAIN call[h].rows = {p} /\ call[h].rows[p].wallet = w
  BY <1>0, <1>1, OneSubject DEF InOrder, Row
<1>3. ASSUME Return(h) PROVE MirrorInv'
  BY <1>0, <1>1, <1>3, RestMirrors DEF Return
<1>4. ASSUME NEW step, NEW c, pc' = [pc EXCEPT ![h] = step], call' = [call EXCEPT ![h] = c]
      PROVE  pc'[h] = step /\ call'[h] = c
  BY <1>0, <1>4 DEF StateTyped
<1>5. CASE ReadManager(h)
  <2>1. CASE ~Return(h)
    <3>1. PICK step \in {"walk", "saveManager"} : pc' = [pc EXCEPT ![h] = step]
      BY <1>5, <2>1 DEF ReadManager
    <3>2. PICK c : call' = [call EXCEPT ![h] = c] /\ c.rows = call[h].rows
      <4> DEFINE next == users[call[h].at].managerId
                 walked == [call[h] EXCEPT !.at = next, !.seen = @ \cup {next}]
      <4>1. call' = [call EXCEPT ![h] = walked]
        BY <1>5, <2>1 DEF ReadManager
      <4>2. "rows" \in DOMAIN call[h]
        BY <1>0, <1>5 DEF ReadManager, InOrder, Carries
      <4>3. walked.rows = call[h].rows
        BY <4>2
      <4> HIDE DEF walked
      <4> QED
        BY <4>1, <4>3
    <3>3. Prepared(h)'
      BY <1>4, <3>1, <3>2 DEF Prepared
    <3> QED
      BY <1>0, <1>1, <1>2, <3>1, <3>2, <3>3, RestMirrors
  <2> QED
    BY <1>3, <2>1
<1>6. CASE CountAdmins(h)
  <2>1. CASE Return(h)
    BY <1>3, <2>1
  <2>2. CASE ~Return(h)
    <3>1. Goto(h, "revoke")
      BY <1>6, <2>2 DEF CountAdmins, Goto
    <3>2. pc' = [pc EXCEPT ![h] = "revoke"] /\ pc'[h] = "revoke" /\ call'[h] = call[h]
          /\ call' = [call EXCEPT ![h] = call[h]]
      BY <1>0, <3>1 DEF Goto, StateTyped
    <3>3. Prepared(h)'
      BY <1>0, <1>6, <3>2 DEF CountAdmins, Prepared, Subject, Row
    <3> QED
      BY <1>0, <1>1, <1>2, <3>2, <3>3, RestMirrors
  <2> QED
    BY <2>1, <2>2
<1>7. CASE Upsert(h)
  <2>1. CASE Return(h)
    BY <1>3, <2>1
  <2>2. CASE ~Return(h)
    <3>1. PICK c : /\ pc' = [pc EXCEPT ![h] = "readRequest"]
                   /\ call' = [call EXCEPT ![h] = c] /\ c.rows = call[h].rows
      BY <1>1, <1>7, <2>2 DEF Upsert
    <3>2. Prepared(h)'
      BY <1>4, <3>1 DEF Prepared
    <3> QED
      BY <1>0, <1>1, <1>2, <3>1, <3>2, RestMirrors
  <2> QED
    BY <2>1, <2>2
<1>8. CASE ReadRequest(h)
  <2>1. CASE Return(h)
    BY <1>3, <2>1
  <2>2. CASE ~Return(h)
    <3>0. call[h].w = w
      BY <1>0, <1>1, <1>8 DEF ReadRequest, InOrder, ApprovesRequest, Approving
    <3>1. PICK row : row = [wallet |-> w, role |-> call[h].role, managerId |-> NoPerson,
                            revoked |-> FALSE]
      OBVIOUS
    <3>2. PICK c : c = [rows |-> About(p, row), w |-> call[h].w, role |-> call[h].role,
                        next |-> "markApproved"]
      OBVIOUS
    <3>3. PICK step \in {"grantExisting", "register"} :
             /\ step = "register" => Unregistered(p, w)
             /\ pc' = [pc EXCEPT ![h] = step] /\ call' = [call EXCEPT ![h] = c]
      BY <1>1, <1>8, <2>2, <3>0, <3>1, <3>2 DEF ReadRequest, MatchesExisting, AfterReading
    <3>4. DOMAIN c.rows = {p} /\ c.rows[p] = row /\ row.wallet = w /\ ~row.revoked
      BY <3>1, <3>2 DEF About
    <3>5. Prepared(h)'
      <4>1. Subject(h)' = p /\ Row(h)' = row /\ pc'[h] = step
        BY <1>4, <3>3, <3>4 DEF Subject, Row
      <4>2. Unregistered(p, w)' = Unregistered(p, w)
        BY <1>0 DEF Unregistered, WalletTaken, Known
      <4> QED
        BY <3>3, <3>4, <4>1, <4>2 DEF Prepared
    <3> QED
      BY <1>0, <1>1, <3>3, <3>4, <3>5, RestMirrors
  <2> QED
    BY <2>1, <2>2
<1>9. CASE MarkApproved(h) \/ MarkRejected(h)
  BY <1>3, <1>9 DEF MarkApproved, MarkRejected
<1> QED
  BY <1>5, <1>6, <1>7, <1>8, <1>9

-----------------------------------------------------------------------------
(* The beginning of a call *)

\* Whom a new call is about is nobody else's business.
LEMMA FreshlyMirrored ==
  ASSUME AccountsInv, AccountsInv', MirrorInv, UNCHANGED <<users, chain, faults>>,
         NEW h \in Handler, pc[h] = "idle",
         \A g \in Handler : g # h => pc'[g] = pc[g] /\ call'[g] = call[g], faults = 0
  PROVE  \A x \in Concerned(h)' : /\ x \in Known => Mirrored(x)'
                                  /\ x \in Wallet => Claimed(x)'
<1> TAKE x \in Concerned(h)'
<1>1. \A g \in Handler : g # h => Concerned(g)' = Concerned(g)
  BY DEF Concerned
<1>2. \A g \in Handler : x \notin Concerned(g)
  <2>1. Concerned(h) = {}
    BY DEF Concerned
  <2> QED
    BY <1>1, <2>1 DEF AccountsInv, OneCallAtATime
<1>3. (x \in Known => Mirrored(x)) /\ (x \in Wallet => Claimed(x))
  BY <1>2 DEF MirrorInv, MirrorsChain, Mirrored, Claimed
<1> QED
  BY <1>3 DEF Mirrored, InForce, Claimed, WalletTaken, Known, Active, chain

\* A call begins with nothing changed yet.
LEMMA BeginMirrors ==
  ASSUME AccountsInv, AccountsInv', MirrorInv, UNCHANGED <<users, chain, faults>>,
         NEW h \in Handler, NEW step, NEW c, Begin(h, step, c),
         Prepared(h)', ImportPrepared(h)', faults = 0 => Untroubled(h)'
  PROVE  MirrorInv'
<1>1. /\ \A g \in Handler : g # h => pc'[g] = pc[g] /\ call'[g] = call[g]
      /\ holders' = [w \in Wallet |-> holders'[w]]
  BY DEF Begin, AccountsInv, StateTyped, MirrorInv, chain
<1>2. Concerned(h) = {}
  BY DEF Begin, Concerned
<1>3. Spares(h)
  BY <1>2 DEF Spares, Active, WalletTaken, Known, chain
<1>4. OwnWallets'
  BY DEF MirrorInv, OwnWallets, Known
<1>5. LeavesMirrored(h)
  BY <1>2 DEF LeavesMirrored
<1> QED
  BY <1>1, <1>3, <1>4, <1>5, StepMirrors

\* About one person.
LEMMA OneBeginMirrors ==
  ASSUME AccountsInv, AccountsInv', MirrorInv, UNCHANGED <<users, chain, faults>>,
         NEW h \in Handler, NEW step, NEW c, Begin(h, step, c),
         NEW p \in Person, NEW row, c.rows = About(p, row), row.wallet \in Wallet,
         step \in {"register", "updateClearance", "readManager", "saveManager", "countAdmins",
                   "revoke", "reanchor", "upsert", "readRequest", "markRejected"},
         step = "register" => Unregistered(p, row.wallet) /\ ~row.revoked,
         step \in RoleSteps \cup RevokeSteps \cup ReinstateSteps => row = users[p],
         step \in RoleSteps \cup RevokeSteps => ~row.revoked
  PROVE  MirrorInv'
<1> USE DEF RegisterSteps, RoleSteps, ManagerSteps, RevokeSteps, ReinstateSteps, BatchSteps,
            WarnedSteps, RestingSteps
<1>1. /\ pc[h] = "idle" /\ pc'[h] = step /\ call'[h] = c
      /\ \A g \in Handler : g # h => pc'[g] = pc[g] /\ call'[g] = call[g]
  BY DEF Begin, AccountsInv, StateTyped
<1>2. DOMAIN call'[h].rows = {p} /\ call'[h].rows[p] = row
  BY <1>1 DEF About
<1>3. Subject(h)' = p /\ Row(h)' = row
  BY <1>2 DEF Subject, Row
<1>4. Unregistered(p, row.wallet)' = Unregistered(p, row.wallet)
  BY DEF Unregistered, WalletTaken, Known
<1>5. Prepared(h)'
  BY <1>1, <1>3, <1>4 DEF Prepared
<1>6. ImportPrepared(h)'
  BY <1>1 DEF ImportPrepared
<1>7. ASSUME faults = 0 PROVE Untroubled(h)'
  <2>1. p \in Concerned(h)' /\ row.wallet \in Concerned(h)'
    BY <1>1, <1>2 DEF Concerned
  <2>2. (users'[p] # NoRow => Mirrored(p)') /\ Claimed(row.wallet)'
    BY <1>1, <1>7, <2>1, FreshlyMirrored DEF Known
  <2> QED
    BY <1>1, <1>3, <2>2 DEF Untroubled
<1> QED
  BY <1>5, <1>6, <1>7, BeginMirrors

LEMMA PersonnelMirrors ==
  ASSUME AccountsInv, AccountsInv', MirrorInv, NEW h \in Handler, PersonnelCall(h)
  PROVE  MirrorInv'
<1> USE DEF RegisterSteps, RoleSteps, ManagerSteps, RevokeSteps, ReinstateSteps, BatchSteps
<1> UNCHANGED <<users, chain, faults>>
  BY DEF PersonnelCall, UpdateRole, AssignManager, RevokeIdentity
<1>0. \A p \in Known : p \in Person /\ users[p].wallet \in Wallet
  BY DEF Known, AccountsInv, StateTyped, UserRow
<1>1. ASSUME NEW p \in Person, NEW role \in Role, UpdateRole(h, p, role) PROVE MirrorInv'
  <2>1. PICK c, row : /\ Begin(h, "updateClearance", c) /\ c.rows = About(p, row)
                      /\ row = users[p] /\ p \in Known /\ ~row.revoked
    BY <1>1 DEF UpdateRole
  <2> QED
    BY <1>0, <2>1, OneBeginMirrors
<1>2. ASSUME NEW p \in Person, NEW m \in Person \cup {NoPerson}, AssignManager(h, p, m)
      PROVE  MirrorInv'
  <2>1. PICK step, c, row :
            /\ step \in {"saveManager", "readManager"}
            /\ Begin(h, step, c) /\ c.rows = About(p, row) /\ row = users[p] /\ p \in Known
    BY <1>2 DEF AssignManager
  <2> QED
    BY <1>0, <2>1, OneBeginMirrors
<1>3. ASSUME NEW by \in Person, NEW p \in Person, RevokeIdentity(h, by, p) PROVE MirrorInv'
  <2>1. PICK step, c, row :
            /\ step \in {"countAdmins", "revoke"}
            /\ Begin(h, step, c) /\ c.rows = About(p, row)
            /\ row = users[p] /\ p \in Known /\ ~row.revoked
    BY <1>3 DEF RevokeIdentity
  <2> QED
    BY <1>0, <2>1, OneBeginMirrors
<1> QED
  BY <1>1, <1>2, <1>3 DEF PersonnelCall

LEMMA OnboardingMirrors ==
  ASSUME AccountsInv, AccountsInv', MirrorInv, NEW h \in Handler, OnboardingCall(h)
  PROVE  MirrorInv'
<1> USE DEF RegisterSteps, RoleSteps, ManagerSteps, RevokeSteps, ReinstateSteps, BatchSteps
<1> UNCHANGED <<users, chain, faults>>
  BY DEF OnboardingCall, RegisterIdentity, ReinstateIdentity, ApproveRegistration,
         RejectRegistration, ImportCsv, Submit
<1> StateTyped
  BY DEF AccountsInv
<1>0. /\ \A p \in Known : p \in Person /\ users[p].wallet \in Wallet
      /\ \A w \in Wallet : Pending(w) => registrations[w].person \in Person
  BY DEF Known, StateTyped, UserRow, Pending, NoRegistration, RegistrationRow
<1>1. ASSUME NEW p \in Person, NEW row \in NewRows, RegisterIdentity(h, p, row, "idle")
      PROVE  MirrorInv'
  <2>1. PICK c : /\ Begin(h, "register", c) /\ c.rows = About(p, row)
                 /\ Unregistered(p, row.wallet)
    BY <1>1 DEF RegisterIdentity
  <2>2. row.wallet \in Wallet /\ ~row.revoked
    BY DEF NewRows, UserRow
  <2> QED
    BY <2>1, <2>2, OneBeginMirrors
<1>2. ASSUME NEW p \in Person, ReinstateIdentity(h, p) PROVE MirrorInv'
  <2>1. PICK c, row : /\ Begin(h, "reanchor", c) /\ c.rows = About(p, row)
                      /\ row = users[p] /\ p \in Known
    BY <1>2 DEF ReinstateIdentity
  <2> QED
    BY <1>0, <2>1, OneBeginMirrors
<1>3. ASSUME NEW w \in Wallet, NEW p \in Person, NEW step \in {"readRequest", "markRejected", "upsert"},
             NEW c, Begin(h, step, c), c.rows = About(p, [wallet |-> w])
      PROVE  MirrorInv'
  <2>1. PICK row : row = [wallet |-> w]
    OBVIOUS
  <2>2. row.wallet \in Wallet /\ c.rows = About(p, row)
    BY <1>3, <2>1
  <2> QED
    BY <1>3, <2>2, OneBeginMirrors
<1>4. ASSUME NEW w \in Wallet, NEW role \in Role, ApproveRegistration(h, w, role) PROVE MirrorInv'
  <2>1. PICK c : /\ Begin(h, "readRequest", c) /\ Pending(w)
                 /\ c.rows = About(registrations[w].person, [wallet |-> w])
    BY <1>4 DEF ApproveRegistration
  <2> QED
    BY <1>0, <1>3, <2>1
<1>5. ASSUME NEW w \in Wallet, RejectRegistration(h, w) PROVE MirrorInv'
  <2>1. PICK c : /\ Begin(h, "markRejected", c) /\ Pending(w)
                 /\ c.rows = About(registrations[w].person, [wallet |-> w])
    BY <1>5 DEF RejectRegistration
  <2> QED
    BY <1>0, <1>3, <2>1
<1>6. ASSUME NEW w \in Wallet, NEW p \in Person, Submit(h, w, p) PROVE MirrorInv'
  <2>1. PICK c : Begin(h, "upsert", c) /\ c.rows = About(p, [wallet |-> w])
    BY <1>6 DEF Submit
  <2> QED
    BY <1>3, <2>1
<1>7. ASSUME NEW file \in Files, ImportCsv(h, file) PROVE MirrorInv'
  <2>1. PICK c : /\ Begin(h, "batch", c) /\ c.rows = file /\ c.left = DOMAIN file
                 /\ c.ungranted = {} /\ "ungranted" \in DOMAIN c
                 /\ \A p \in DOMAIN file : Unregistered(p, file[p].wallet)
    BY <1>7 DEF ImportCsv
  <2>2. /\ DOMAIN file \subseteq Person
        /\ \A p \in DOMAIN file : file[p].wallet \in Wallet /\ ~file[p].revoked
        /\ \A p, q \in DOMAIN file : p # q => file[p].wallet # file[q].wallet
    BY DEF Files, NewRows, UserRow
  <2>3. /\ pc[h] = "idle" /\ pc'[h] = "batch" /\ call'[h] = c
        /\ \A g \in Handler : g # h => pc'[g] = pc[g] /\ call'[g] = call[g]
    BY <2>1 DEF Begin, StateTyped
  <2>4. Prepared(h)'
    BY <2>3 DEF Prepared
  <2>5. \A p \in DOMAIN file : Unregistered(p, file[p].wallet)'
    BY <2>1 DEF Unregistered, WalletTaken, Known
  <2>6. ImportPrepared(h)'
    BY <2>1, <2>2, <2>3, <2>5 DEF ImportPrepared
  <2>7. ASSUME faults = 0 PROVE Untroubled(h)'
    <3>1. \A p \in DOMAIN file : file[p].wallet \in Concerned(h)'
      BY <2>1, <2>3 DEF Concerned
    <3>2. \A p \in DOMAIN file : Claimed(file[p].wallet)'
      BY <2>2, <2>3, <2>7, <3>1, FreshlyMirrored
    <3>3. \A p \in DOMAIN file : ~Active(file[p].wallet)'
      BY <2>5, <3>2 DEF Unregistered, Claimed
    <3> QED
      BY <2>1, <2>3, <3>3 DEF Untroubled, WarnedSteps, RestingSteps
  <2> QED
    BY <2>1, <2>4, <2>6, <2>7, BeginMirrors
<1> QED
  BY <1>1, <1>2, <1>4, <1>5, <1>6, <1>7 DEF OnboardingCall

-----------------------------------------------------------------------------
(* The import *)

\* What an import does to the table and the chain, it does to its own rows.
Imports(h, rows) ==
    /\ rows = call[h].rows
    /\ \A p \in Person :
          \/ users'[p] = users[p]
          \/ p \in DOMAIN rows /\ users'[p] = rows[p] /\ Unregistered(p, rows[p].wallet)
    /\ \A w \in Wallet :
          /\ \/ anchored'[w] = anchored[w]
             \/ ~WalletTaken(w) /\ \E p \in DOMAIN rows : rows[p].wallet = w
          /\ \/ holders'[w] = holders[w]
             \/ holders[w] \subseteq holders'[w] /\ \E p \in DOMAIN rows : rows[p].wallet = w
    /\ holders' = [w \in Wallet |-> holders'[w]]
    /\ pc'[h] \in BatchSteps => call'[h].rows = rows
    /\ faults' = 0 /\ pc'[h] = "idle" =>
          \A p \in DOMAIN rows : Mirrored(p)' /\ Claimed(rows[p].wallet)'

LEMMA ImportMirrors ==
  ASSUME AccountsInv, AccountsInv', MirrorInv, NEW h \in Handler, pc[h] \in BatchSteps,
         NEW rows, Imports(h, rows),
         \A g \in Handler : g # h => pc'[g] = pc[g] /\ call'[g] = call[g],
         faults' = faults \/ faults' \in Nat \ {0},
         pc'[h] \in BatchSteps \cup {"idle"}, ImportPrepared(h)', faults' = 0 => Untroubled(h)'
  PROVE  MirrorInv'
<1> USE DEF Imports
<1>0. /\ StateTyped /\ StateTyped' /\ OwnWallets
      /\ \A p \in DOMAIN rows : p \in Person /\ rows[p].wallet \in Wallet /\ rows[p] \in UserRow
      /\ \A p, q \in DOMAIN rows : p # q => rows[p].wallet # rows[q].wallet
  BY DEF AccountsInv, InOrder, Grounded, Carries, MirrorInv, ImportPrepared, BatchSteps
<1>1. Concerned(h) = DOMAIN rows \cup {rows[p].wallet : p \in DOMAIN rows}
  BY DEF Concerned, BatchSteps
<1>2. \A q \in Known : users[q].wallet \in Wallet /\ q \in Person
  BY <1>0 DEF Known, StateTyped, UserRow
<1>3. Spares(h)
  <2>1. ASSUME NEW q \in Person \ Concerned(h)
        PROVE  /\ users'[q] = users[q]
               /\ q \in Known => /\ Active(users[q].wallet)' = Active(users[q].wallet)
                                 /\ holders[users[q].wallet] \subseteq holders'[users[q].wallet]
    <3>1. users'[q] = users[q]
      BY <1>1, <2>1
    <3>2. q \in Known => WalletTaken(users[q].wallet)
      BY DEF WalletTaken
    <3> QED
      BY <1>2, <3>1, <3>2 DEF Active
  <2>2. ASSUME NEW v \in Wallet \ Concerned(h)
        PROVE  Active(v)' = Active(v) /\ holders'[v] = holders[v] /\ WalletTaken(v)' = WalletTaken(v)
    <3>1. \A p \in DOMAIN rows : rows[p].wallet # v
      BY <1>1, <2>2
    <3>2. anchored'[v] = anchored[v] /\ holders'[v] = holders[v]
      BY <3>1
    <3>3. \A p \in Person : users'[p] = users[p] \/ (users[p] = NoRow /\ users'[p] # NoRow /\ users'[p].wallet # v)
      BY <1>0, <3>1 DEF Unregistered
    <3>4. WalletTaken(v)' = WalletTaken(v)
      BY <3>3 DEF WalletTaken, Known
    <3> QED
      BY <3>2, <3>4 DEF Active
  <2> QED
    BY <2>1, <2>2 DEF Spares
<1>4. OwnWallets'
  <2>1. ASSUME NEW p \in Known', NEW q \in Known', p # q, users'[p] # users[p]
        PROVE  users'[p].wallet # users'[q].wallet
    <3>1. p \in DOMAIN rows /\ users'[p] = rows[p] /\ ~WalletTaken(rows[p].wallet)
      BY <2>1 DEF Known, Unregistered
    <3>2. CASE users'[q] = users[q]
      BY <2>1, <3>1, <3>2 DEF WalletTaken, Known
    <3>3. CASE users'[q] # users[q]
      <4>1. q \in DOMAIN rows /\ users'[q] = rows[q]
        BY <2>1, <3>3 DEF Known
      <4> QED
        BY <1>0, <2>1, <3>1, <4>1
    <3> QED
      BY <3>2, <3>3
  <2>2. ASSUME NEW p \in Known', NEW q \in Known', p # q, users'[p] = users[p], users'[q] = users[q]
        PROVE  users'[p].wallet # users'[q].wallet
    BY <1>0, <2>2 DEF OwnWallets, Known
  <2> QED
    BY <2>1, <2>2 DEF OwnWallets
<1>5. Prepared(h)'
  BY DEF Prepared, BatchSteps, RegisterSteps, RoleSteps, RevokeSteps, ReinstateSteps
<1>6. ASSUME faults' = 0 PROVE LeavesMirrored(h)
  <2>1. CASE pc'[h] = "idle"
    <3>1. \A x \in Concerned(h) : /\ x \in Known' => x \in DOMAIN rows
                                  /\ x \in Wallet => \E p \in DOMAIN rows : rows[p].wallet = x
      BY <1>0, <1>1 DEF Known
    <3> QED
      BY <1>6, <2>1, <3>1 DEF LeavesMirrored
  <2>2. CASE pc'[h] # "idle"
    <3>1. Concerned(h)' = Concerned(h)
      BY <1>1, <2>2 DEF Concerned
    <3> QED
      BY <3>1 DEF LeavesMirrored
  <2> QED
    BY <2>1, <2>2
<1> QED
  BY <1>3, <1>4, <1>5, <1>6, StepMirrors

\* One batch: its wallets become active, or the import stops.
LEMMA RegisterBatchMirrors ==
  ASSUME AccountsInv, AccountsInv', MirrorInv, IdentityConfigured, RolesConfigured,
         NEW h \in Handler, RegisterBatch(h)
  PROVE  MirrorInv'
<1> USE DEF BatchSteps
<1> PICK rows, left : rows = call[h].rows /\ left = call[h].left
  OBVIOUS
<1>0. /\ StateTyped /\ pc[h] = "batch" /\ ImportPrepared(h) /\ faults \in Nat
      /\ faults = 0 => Untroubled(h)
      /\ \A p \in DOMAIN rows : p \in Person /\ rows[p].wallet \in Wallet /\ rows[p] \in UserRow
      /\ left \subseteq DOMAIN rows /\ {"rows", "left", "chunk", "ungranted"} \subseteq DOMAIN call[h]
      /\ holders = [w \in Wallet |-> holders[w]]
      /\ UNCHANGED users
  <2>1. pc[h] = "batch" /\ UNCHANGED users
    BY DEF RegisterBatch
  <2> QED
    BY <2>1 DEF AccountsInv, InOrder, Grounded, Carries, MirrorInv, ImportPrepared
<1>1. /\ \A p, q \in DOMAIN rows : p # q => rows[p].wallet # rows[q].wallet
      /\ \A p \in DOMAIN rows : ~rows[p].revoked
      /\ \A p \in left : Unregistered(p, rows[p].wallet)
      /\ call[h].ungranted \subseteq DOMAIN rows \ left
  BY <1>0 DEF ImportPrepared
<1> DEFINE Batched ==
        /\ \A w \in Wallet : \/ anchored'[w] = anchored[w]
                             \/ ~WalletTaken(w) /\ \E p \in DOMAIN rows : rows[p].wallet = w
        /\ UNCHANGED holders
<1>7. ASSUME NEW S \in Chunks(call[h].left), Mined(h, S)
      PROVE  /\ S \subseteq left /\ Batched
             /\ \A w \in Wallet \ WalletsOf(h, S) : anchored'[w] = anchored[w]
             /\ \A p \in S : /\ Active(rows[p].wallet)' /\ rows[p].wallet \in Wallet
                             /\ ~WalletTaken(rows[p].wallet)
  <2>0. /\ anchored' = [w \in Wallet |-> IF w \in WalletsOf(h, S)
                                         THEN CHOOSE p \in S : call[h].rows[p].wallet = w
                                         ELSE anchored[w]]
        /\ UNCHANGED holders
    BY <1>7 DEF Mined
  <2>1. S \subseteq left
    BY DEF Chunks
  <2>5. ASSUME NEW p \in S
        PROVE  Active(rows[p].wallet)' /\ rows[p].wallet \in Wallet /\ ~WalletTaken(rows[p].wallet)
    <3>1. p \in DOMAIN rows /\ rows[p].wallet \in Wallet /\ rows[p].wallet \in WalletsOf(h, S)
      BY <1>0, <2>1 DEF WalletsOf
    <3>2. anchored'[rows[p].wallet] \in S /\ S \subseteq Person
      BY <1>0, <2>0, <2>1, <3>1
    <3> QED
      BY <1>1, <2>1, <3>1, <3>2 DEF Active, Unregistered
  <2>6. \A w \in Wallet \ WalletsOf(h, S) : anchored'[w] = anchored[w]
    BY <2>0
  <2>7. Batched
    BY <1>0, <2>0, <2>1, <2>5, <2>6 DEF WalletsOf
  <2> QED
    BY <2>1, <2>5, <2>6, <2>7
<1>2. ASSUME Return(h), faults' = faults \/ faults' \in Nat \ {0},
             faults' = 0 => left = {} /\ UNCHANGED chain, Batched
      PROVE  MirrorInv'
  <2>1. pc'[h] = "idle" /\ \A g \in Handler : g # h => pc'[g] = pc[g] /\ call'[g] = call[g]
    BY <1>0, <1>2 DEF Return, StateTyped
  <2>2. ImportPrepared(h)' /\ Untroubled(h)'
    BY <2>1, IdlePrepared
  <2>3. ASSUME faults' = 0, NEW p \in DOMAIN rows PROVE Mirrored(p)' /\ Claimed(rows[p].wallet)'
    <3>1. /\ Active(rows[p].wallet) /\ users[p] = rows[p]
          /\ rows[p].role \in holders[rows[p].wallet]
      BY <1>0, <1>2, <2>3 DEF Untroubled
    <3>2. users'[p] = rows[p] /\ rows[p] # NoRow /\ p \in Person /\ ~rows[p].revoked
      BY <1>0, <1>1, <3>1
    <3> QED
      BY <1>2, <2>3, <3>1, <3>2 DEF Mirrored, InForce, Claimed, WalletTaken, Known, Active, chain
  <2>4. Imports(h, rows)
    BY <1>0, <1>2, <2>1, <2>3 DEF Imports
  <2> QED
    BY <1>0, <1>2, <2>1, <2>2, <2>4, ImportMirrors
<1>3. CASE left = {}
  BY <1>2, <1>3 DEF RegisterBatch, chain
<1>4. ASSUME NEW S \in Chunks(call[h].left), \E w \in WalletsOf(h, S) : Active(w), Return(h),
             UNCHANGED <<chain, faults>>
      PROVE  MirrorInv'
  <2>1. faults # 0
    BY <1>0, <1>4 DEF Untroubled, Chunks, WalletsOf
  <2> QED
    BY <1>2, <1>4, <2>1 DEF chain
<1>5. ASSUME NEW S \in Chunks(call[h].left), Fault, Return(h), UNCHANGED chain \/ Mined(h, S)
      PROVE  MirrorInv'
  <2>1. faults' \in Nat \ {0} /\ faults' # 0
    BY <1>0, <1>5 DEF Fault
  <2>2. Batched
    BY <1>5, <1>7 DEF Batched, chain
  <2> QED
    BY <1>2, <1>5, <2>1, <2>2
<1>6. ASSUME NEW S \in Chunks(call[h].left), Mined(h, S),
             pc' = [pc EXCEPT ![h] = "cache"],
             call' = [call EXCEPT ![h].left = @ \ S, ![h].chunk = S, ![h].ungranted = S],
             UNCHANGED faults
      PROVE  MirrorInv'
  <2>1. /\ S \subseteq left /\ Batched
        /\ \A w \in Wallet \ WalletsOf(h, S) : anchored'[w] = anchored[w]
        /\ \A p \in S : Active(rows[p].wallet)' /\ rows[p].wallet \in Wallet
    BY <1>6, <1>7
  <2>2. /\ pc'[h] = "cache" /\ \A g \in Handler : g # h => pc'[g] = pc[g] /\ call'[g] = call[g]
        /\ DOMAIN call'[h] = DOMAIN call[h]
        /\ call'[h].rows = rows /\ call'[h].left = left \ S
        /\ call'[h].chunk = S /\ call'[h].ungranted = S
    BY <1>0, <1>6 DEF StateTyped
  <2>3. \A p \in DOMAIN rows : Unregistered(p, rows[p].wallet)' = Unregistered(p, rows[p].wallet)
    BY <1>0 DEF Unregistered, WalletTaken, Known
  <2>4. ImportPrepared(h)'
    BY <1>0, <1>1, <2>1, <2>2, <2>3 DEF ImportPrepared
  <2>8. ASSUME faults = 0 PROVE Untroubled(h)'
    <3>1. ASSUME NEW p \in left \ S PROVE ~Active(rows[p].wallet)'
      <4>1. rows[p].wallet \notin WalletsOf(h, S) /\ rows[p].wallet \in Wallet
        BY <1>0, <1>1, <2>1 DEF WalletsOf
      <4> QED
        BY <1>0, <2>1, <2>8, <4>1 DEF Untroubled, Active
    <3>2. ASSUME NEW p \in DOMAIN rows \ left
          PROVE  /\ Active(rows[p].wallet)' /\ users'[p] = rows[p]
                 /\ rows[p].role \in holders'[rows[p].wallet]
      <4>1. rows[p].wallet \notin WalletsOf(h, S) /\ rows[p].wallet \in Wallet
        BY <1>0, <1>1, <2>1 DEF WalletsOf
      <4> QED
        BY <1>0, <2>1, <2>8, <4>1 DEF Untroubled, Active
    <3> QED
      BY <2>1, <2>2, <3>1, <3>2 DEF Untroubled, WarnedSteps, RestingSteps, ManagerSteps
  <2>9. Imports(h, rows)
    BY <1>0, <2>1, <2>2 DEF Imports
  <2>10. pc[h] \in BatchSteps /\ pc'[h] \in BatchSteps /\ UNCHANGED faults
    BY <1>0, <1>6, <2>2
  <2> QED
    BY <2>2, <2>4, <2>8, <2>9, <2>10, ImportMirrors
<1> QED
  BY <1>3, <1>4, <1>5, <1>6, Zenon DEF RegisterBatch

\* The rows of the batch are cached, and its roles granted one by one.
LEMMA CacheRowsMirrors ==
  ASSUME AccountsInv, AccountsInv', MirrorInv, NEW h \in Handler, CacheRows(h)
  PROVE  MirrorInv'
<1> USE DEF BatchSteps
<1> PICK rows, left, chunk :
       rows = call[h].rows /\ left = call[h].left /\ chunk = call[h].chunk
  OBVIOUS
<1>0. /\ StateTyped /\ pc[h] = "cache" /\ ImportPrepared(h)
      /\ faults = 0 => Untroubled(h)
      /\ \A p \in DOMAIN rows : p \in Person /\ rows[p].wallet \in Wallet /\ rows[p] \in UserRow
      /\ left \subseteq DOMAIN rows /\ chunk \subseteq DOMAIN rows
      /\ holders = [w \in Wallet |-> holders[w]]
      /\ UNCHANGED <<chain, faults>>
  BY DEF AccountsInv, InOrder, Grounded, Carries, MirrorInv, CacheRows
<1>1. /\ \A p, q \in DOMAIN rows : p # q => rows[p].wallet # rows[q].wallet
      /\ \A p \in left \cup chunk : Unregistered(p, rows[p].wallet)
      /\ call[h].ungranted = chunk /\ chunk \cap left = {}
  BY <1>0 DEF ImportPrepared
<1>2. users' = [p \in Person |-> IF p \in chunk THEN rows[p] ELSE users[p]]
  BY <1>1 DEF CacheRows, CachedRows
<1>3. /\ pc'[h] = "grantRows" /\ call'[h] = call[h]
      /\ \A g \in Handler : g # h => pc'[g] = pc[g] /\ call'[g] = call[g]
  BY <1>0 DEF CacheRows, Goto, StateTyped
<1>4. ASSUME NEW p \in left PROVE Unregistered(p, rows[p].wallet)'
  <2>1. \A q \in Person : \/ users'[q] = users[q]
                          \/ q \in chunk /\ users'[q] = rows[q] /\ rows[q].wallet # rows[p].wallet
    BY <1>0, <1>1, <1>2
  <2>2. Unregistered(p, rows[p].wallet) /\ users'[p] = users[p]
    BY <1>0, <1>1, <1>2
  <2> QED
    BY <2>1, <2>2 DEF Unregistered, WalletTaken, Known
<1>5. ImportPrepared(h)'
  BY <1>0, <1>3, <1>4 DEF ImportPrepared
<1>6. ASSUME faults = 0 PROVE Untroubled(h)'
  <2>1. \A p \in DOMAIN rows \ left : users'[p] = rows[p]
    BY <1>0, <1>1, <1>2, <1>6 DEF Untroubled
  <2> QED
    BY <1>0, <1>1, <1>3, <1>6, <2>1
    DEF Untroubled, Active, chain, WarnedSteps, RestingSteps, ManagerSteps
<1>7. Imports(h, rows)
  BY <1>0, <1>1, <1>2, <1>3 DEF Imports, chain
<1> QED
  BY <1>0, <1>3, <1>5, <1>6, <1>7, ImportMirrors

LEMMA GrantRowsMirrors ==
  ASSUME AccountsInv, AccountsInv', MirrorInv, IdentityConfigured, RolesConfigured,
         NEW h \in Handler, GrantRows(h)
  PROVE  MirrorInv'
<1> USE DEF BatchSteps
<1> PICK rows, left : rows = call[h].rows /\ left = call[h].left
  OBVIOUS
<1>0. /\ StateTyped /\ pc[h] = "grantRows" /\ ImportPrepared(h) /\ faults \in Nat
      /\ faults = 0 => Untroubled(h)
      /\ \A p \in DOMAIN rows : p \in Person /\ rows[p].wallet \in Wallet
      /\ left \subseteq DOMAIN rows /\ {"rows", "left", "chunk", "ungranted"} \subseteq DOMAIN call[h]
      /\ holders = [w \in Wallet |-> holders[w]]
      /\ UNCHANGED users
  BY DEF AccountsInv, InOrder, Grounded, Carries, MirrorInv, ImportPrepared, GrantRows
<1>1. PICK p \in call[h].ungranted :
        /\ pc' = [pc EXCEPT ![h] = IF call[h].ungranted = {p} THEN "batch" ELSE @]
        /\ call' = [call EXCEPT ![h].ungranted = @ \ {p}]
        /\ \/ Grant(rows[p].wallet, rows[p].role) /\ UNCHANGED faults
           \/ Fault /\ (UNCHANGED chain \/ Grant(rows[p].wallet, rows[p].role))
  BY DEF GrantRows
<1>2. p \in DOMAIN rows \ left /\ rows[p].wallet \in Wallet
  BY <1>0 DEF ImportPrepared
<1>3. /\ \A g \in Handler : g # h => pc'[g] = pc[g] /\ call'[g] = call[g]
      /\ pc'[h] \in {"batch", "grantRows"}
      /\ pc'[h] = "batch" => call[h].ungranted = {p}
      /\ DOMAIN call'[h] = DOMAIN call[h] /\ call'[h].rows = rows /\ call'[h].left = left
      /\ call'[h].ungranted = call[h].ungranted \ {p}
  BY <1>0, <1>1 DEF StateTyped
<1>4. \A q \in DOMAIN rows : Unregistered(q, rows[q].wallet)' = Unregistered(q, rows[q].wallet)
  BY <1>0 DEF Unregistered, WalletTaken, Known
<1>5. ImportPrepared(h)'
  BY <1>0, <1>3, <1>4 DEF ImportPrepared
<1>6. /\ faults' = faults \/ faults' \in Nat \ {0}
      /\ \A w \in Wallet : anchored'[w] = anchored[w]
      /\ \A w \in Wallet : holders[w] \subseteq holders'[w]
      /\ \A w \in Wallet : w # rows[p].wallet => holders'[w] = holders[w]
      /\ holders' = [w \in Wallet |-> holders'[w]]
      /\ faults' = 0 => rows[p].role \in holders'[rows[p].wallet]
  BY <1>0, <1>1, <1>2 DEF Grant, Fault, chain
<1>7. ASSUME faults' = 0 PROVE Untroubled(h)'
  <2>1. Untroubled(h)
    BY <1>0, <1>6, <1>7
  <2>2. \A q \in DOMAIN rows : Active(rows[q].wallet)' = Active(rows[q].wallet)
    BY <1>0, <1>6 DEF Active
  <2>3. \A q \in DOMAIN rows \ left : /\ Active(rows[q].wallet) /\ users'[q] = rows[q]
                                      /\ q \notin call[h].ungranted \ {p} =>
                                            rows[q].role \in holders'[rows[q].wallet]
    BY <1>0, <1>6, <1>7, <2>1 DEF Untroubled
  <2>4. \A q \in left : ~Active(rows[q].wallet)
    BY <1>0, <2>1 DEF Untroubled
  <2> QED
    BY <1>0, <1>3, <2>2, <2>3, <2>4 DEF Untroubled, WarnedSteps, RestingSteps, ManagerSteps
<1>8. Imports(h, rows)
  BY <1>0, <1>2, <1>3, <1>6 DEF Imports
<1> QED
  BY <1>0, <1>3, <1>5, <1>6, <1>7, <1>8, ImportMirrors

-----------------------------------------------------------------------------
(* Faults, the beginning, and every step *)

LEMMA FailsMirrors ==
  ASSUME AccountsInv, AccountsInv', MirrorInv, NEW h \in Handler, Fails(h)
  PROVE  MirrorInv'
<1>1. /\ pc'[h] = "idle" /\ \A g \in Handler : g # h => pc'[g] = pc[g] /\ call'[g] = call[g]
      /\ faults' \in Nat \ {0} /\ faults' # 0
      /\ holders' = [w \in Wallet |-> holders'[w]]
  BY DEF Fails, Fault, Return, AccountsInv, StateTyped, MirrorInv, chain
<1>2. Prepared(h)' /\ ImportPrepared(h)'
  BY <1>1, IdlePrepared
<1>3. Spares(h)
  BY DEF Fails, Spares, Active, WalletTaken, Known, chain
<1>4. OwnWallets'
  BY DEF Fails, MirrorInv, OwnWallets, Known
<1> QED
  BY <1>1, <1>2, <1>3, <1>4, StepMirrors

\* What holds of the table and the chain under any settings.
TableInv ==
    /\ faults \in Nat
    /\ holders = [w \in Wallet |-> holders[w]]
    /\ OwnWallets

\* Roles and faults change by transactions and faults only.
LEMMA RolesAndFaults ==
  ASSUME Next, TableInv
  PROVE  faults' \in Nat /\ holders' = [w \in Wallet |-> holders'[w]]
<1> USE DEF TableInv, Fault, chain
<1>1. ASSUME NEW h \in Handler, Proceed(h)
      PROVE  faults' \in Nat /\ holders' = [w \in Wallet |-> holders'[w]]
  <2>1. CASE RegisterOnChain(h) \/ GrantRole(h) \/ UpdateClearance(h)
    BY <2>1 DEF RegisterOnChain, GrantRole, UpdateClearance, Send, Skip, Anchor, Grant
  <2>2. CASE GrantNew(h) \/ StripOld(h) \/ StripRole(h)
    BY <2>2 DEF GrantNew, StripOld, StripRole, Send, Skip, Grant, Strip
  <2>3. CASE RevokeOnChain(h) \/ Reanchor(h) \/ Regrant(h) \/ GrantExisting(h)
    BY <2>3 DEF RevokeOnChain, Reanchor, Regrant, GrantExisting, Send, Skip, Retire, Anchor, Grant
  <2>4. CASE RegisterBatch(h)
    <3>1. UNCHANGED holders /\ (UNCHANGED faults \/ Fault)
      BY <2>4 DEF RegisterBatch, Mined
    <3> QED
      BY <3>1
  <2>5. CASE GrantRows(h)
    <3>1. PICK p : /\ \/ Grant(call[h].rows[p].wallet, call[h].rows[p].role)
                      \/ UNCHANGED chain
                   /\ UNCHANGED faults \/ Fault
      BY <2>5 DEF GrantRows
    <3> QED
      BY <3>1 DEF Grant
  <2> QED
    BY <1>1, <2>1, <2>2, <2>3, <2>4, <2>5
    DEF Proceed, IdentityProceeds, OnboardingProceeds, CreateUser, SaveRole, ReadManager, SaveManager,
        CountAdmins, StampRevoked, UnstampRevoked, Upsert, ReadRequest, MarkApproved, MarkRejected,
        CacheRows
<1>2. ASSUME NEW h \in Handler, PersonnelCall(h) \/ OnboardingCall(h) PROVE UNCHANGED <<faults, holders>>
  BY <1>2
  DEF PersonnelCall, UpdateRole, AssignManager, RevokeIdentity,
      OnboardingCall, RegisterIdentity, ReinstateIdentity, ApproveRegistration, RejectRegistration,
      ImportCsv, Submit
<1>3. ASSUME NEW h \in Handler, Fails(h)
      PROVE  faults' \in Nat /\ holders' = [w \in Wallet |-> holders'[w]]
  BY <1>3 DEF Fails
<1>4. ASSUME Restart PROVE faults' \in Nat /\ holders' = [w \in Wallet |-> holders'[w]]
  BY <1>4 DEF Restart, CrashHandlers
<1> QED
  BY <1>1, <1>2, <1>3, <1>4, DesksAssumption DEF Next

\* No two rows get one wallet.
LEMMA WalletsStayOwn ==
  ASSUME AccountsInv, Next, OwnWallets
  PROVE  OwnWallets'
<1>0. StateTyped
  BY DEF AccountsInv
<1>1. CASE UNCHANGED users
  BY <1>1 DEF OwnWallets, Known
<1>2. ASSUME NEW h \in Handler,
             SaveRole(h) \/ SaveManager(h) \/ StampRevoked(h) \/ UnstampRevoked(h)
      PROVE  OwnWallets'
  <2>1. users[Subject(h)] # NoRow
    BY <1>2
    DEF AccountsInv, InOrder, SubjectKnown, SaveRole, SaveManager, StampRevoked, UnstampRevoked,
        RoleSteps, ManagerSteps, RevokeSteps, ReinstateSteps
  <2>3. \A q \in Person : users[q] \in UserRow \cup {NoRow}
    BY <1>0 DEF StateTyped
  <2>4. \/ \E v : users' = [users EXCEPT ![Subject(h)] = [@ EXCEPT !.role = v]]
        \/ \E v : users' = [users EXCEPT ![Subject(h)] = [@ EXCEPT !.managerId = v]]
        \/ \E v : users' = [users EXCEPT ![Subject(h)] = [@ EXCEPT !.revoked = v]]
    BY <1>2 DEF SaveRole, SaveManager, StampRevoked, UnstampRevoked
  <2>5. \A q \in Person : q # Subject(h) => users'[q] = users[q]
    BY <1>0, <2>4 DEF StateTyped
  <2>6. Subject(h) \in Person => users'[Subject(h)].wallet = users[Subject(h)].wallet
    BY <1>0, <2>1, <2>3, <2>4 DEF StateTyped, UserRow
  <2>2. \A q \in Person : /\ users'[q] # NoRow => users[q] # NoRow
                          /\ users[q] # NoRow => users'[q].wallet = users[q].wallet
    BY <2>1, <2>5, <2>6
  <2>7. \A q \in Known' : q \in Known /\ users'[q].wallet = users[q].wallet
    BY <2>2 DEF Known
  <2> QED
    BY <2>7 DEF OwnWallets
<1>3. ASSUME NEW h \in Handler, CreateUser(h) PROVE OwnWallets'
  <2>1. CASE UNCHANGED users
    BY <1>1, <2>1
  <2>2. CASE ~UNCHANGED users
    <3>1. /\ Unregistered(Subject(h), Row(h).wallet)
          /\ users' = [users EXCEPT ![Subject(h)] = Row(h)]
      BY <1>3, <2>2 DEF CreateUser
    <3>2. \A q \in Person : \/ users'[q] = users[q]
                            \/ (q = Subject(h) /\ users'[q] = Row(h))
      BY <1>0, <3>1 DEF StateTyped
    <3> QED
      BY <3>1, <3>2 DEF OwnWallets, Known, Unregistered, WalletTaken
  <2> QED
    BY <2>1, <2>2
<1>4. ASSUME NEW h \in Handler, CacheRows(h) PROVE OwnWallets'
  <2>1. PICK rows : rows = call[h].rows
    OBVIOUS
  <2>2. /\ \A p, q \in DOMAIN rows : p # q => rows[p].wallet # rows[q].wallet
        /\ call[h].chunk \subseteq DOMAIN rows
    BY <1>4, <2>1 DEF AccountsInv, InOrder, Carries, CacheRows, BatchSteps
  <2>3. \A q \in Person : \/ users'[q] = users[q]
                         \/ /\ q \in DOMAIN rows /\ users'[q] = rows[q]
                            /\ ~WalletTaken(rows[q].wallet)
    BY <1>4, <2>1, <2>2 DEF CacheRows, CachedRows, Unregistered
  <2> QED
    BY <2>2, <2>3 DEF OwnWallets, Known, WalletTaken
<1> QED
  BY <1>1, <1>2, <1>3, <1>4, UsersChange

LEMMA StepKeepsTable ==
  ASSUME AccountsInv, TableInv, [Next /\ OneCallAtATime']_vars
  PROVE  TableInv'
<1>1. CASE Next
  BY <1>1, RolesAndFaults, WalletsStayOwn DEF TableInv
<1>2. CASE UNCHANGED vars
  BY <1>2 DEF vars, chain, TableInv, OwnWallets, Known
<1> QED
  BY <1>1, <1>2

LEMMA RestartMirrors ==
  ASSUME TableInv, Restart
  PROVE  MirrorInv'
<1>1. /\ \A h \in Handler : pc'[h] = "idle"
      /\ faults' \in Nat \ {0}
      /\ holders' = [w \in Wallet |-> holders'[w]]
  BY DEF Restart, CrashHandlers, Fault, TableInv, chain, handlers
<1>2. \A h \in Handler : Prepared(h)' /\ ImportPrepared(h)'
  BY <1>1, IdlePrepared
<1>3. OwnWallets'
  BY DEF Restart, TableInv, OwnWallets, Known
<1> QED
  BY <1>1, <1>2, <1>3 DEF MirrorInv, MirrorsChain

LEMMA InitMirrors == Init => MirrorInv
<1> SUFFICES ASSUME Init PROVE MirrorInv
  OBVIOUS
<1> USE DEF Init, InitHandlers
<1>1. /\ faults = 0 /\ \A h \in Handler : pc[h] = "idle"
      /\ OwnWallets
  BY DEF OwnWallets
<1>2. holders = [w \in Wallet |-> holders[w]]
  BY Zenon
<1>3. \A h \in Handler : Prepared(h) /\ ImportPrepared(h) /\ Untroubled(h)
  BY <1>1 DEF Prepared, ImportPrepared, Untroubled, RegisterSteps, RoleSteps, RevokeSteps, ReinstateSteps,
     BatchSteps, RestingSteps, ManagerSteps, WarnedSteps
<1>4. ASSUME NEW w \in Wallet PROVE Active(w) <=> WalletTaken(w)
  <2>1. WalletTaken(w) => (CHOOSE p \in Known : users[p].wallet = w) \in Known
    BY DEF WalletTaken
  <2> QED
    BY <2>1, DirectoryAssumption DEF Active, Known
<1>5. ASSUME NEW p \in Known PROVE ~users[p].revoked /\ InForce(p)
  <2>1. users[p] \in NewRows /\ users[p].wallet \in Wallet /\ ~users[p].revoked /\ users[p] # NoRow
    BY DEF Known, NewRows, UserRow
  <2>2. holders[users[p].wallet] =
            {users[q].role : q \in {q \in Known : users[q].wallet = users[p].wallet}}
    BY <2>1
  <2>3. Active(users[p].wallet)
    BY <1>4, <2>1 DEF WalletTaken
  <2> QED
    BY <2>1, <2>2, <2>3 DEF InForce
<1>6. MirrorsChain
  BY <1>4, <1>5 DEF MirrorsChain, Claimed, Mirrored
<1> QED
  BY <1>1, <1>2, <1>3, <1>6 DEF MirrorInv

LEMMA ProceedMirrors ==
  ASSUME AccountsInv, AccountsInv', MirrorInv, IdentityConfigured, RolesConfigured,
         NEW h \in Handler, Proceed(h)
  PROVE  MirrorInv'
<1>1. CASE RegisterOnChain(h) \/ GrantRole(h)
  BY <1>1, RegisterMirrors
<1>2. CASE UpdateClearance(h) \/ GrantNew(h) \/ StripOld(h)
  BY <1>2, RoleMirrors
<1>3. CASE RevokeOnChain(h) \/ StripRole(h)
  BY <1>3, RevokeMirrors
<1>4. CASE Reanchor(h) \/ Regrant(h)
  BY <1>4, ReinstateMirrors
<1>5. CASE \/ CreateUser(h) \/ SaveRole(h) \/ SaveManager(h) \/ StampRevoked(h) \/ UnstampRevoked(h)
  BY <1>5, SavesMirror
<1>6. CASE \/ ReadManager(h) \/ CountAdmins(h) \/ Upsert(h) \/ ReadRequest(h)
           \/ MarkApproved(h) \/ MarkRejected(h)
  BY <1>6, ReadsMirror
<1>7. CASE GrantExisting(h) \/ RegisterBatch(h) \/ CacheRows(h) \/ GrantRows(h)
  BY <1>7, GrantExistingMirrors, RegisterBatchMirrors, CacheRowsMirrors, GrantRowsMirrors
<1> QED
  BY <1>1, <1>2, <1>3, <1>4, <1>5, <1>6, <1>7
  DEF Proceed, IdentityProceeds, OnboardingProceeds

LEMMA StepKeepsMirrored ==
  ASSUME AccountsInv, AccountsInv', TableInv, Configured => MirrorInv,
         [Next /\ OneCallAtATime']_vars
  PROVE  Configured' => MirrorInv'
<1> SUFFICES ASSUME Configured' PROVE MirrorInv'
  OBVIOUS
<1>1. CASE Next
  <2>1. CASE Restart
    BY <2>1, RestartMirrors
  <2>2. CASE ~Restart
    <3>1. MirrorInv /\ IdentityConfigured /\ RolesConfigured
      BY <1>1, <2>2 DEF Next, Configured, IdentityConfigured, RolesConfigured
    <3> QED
      BY <1>1, <2>2, <3>1, PersonnelMirrors, OnboardingMirrors, ProceedMirrors, FailsMirrors,
         DesksAssumption
      DEF Next
  <2> QED
    BY <2>1, <2>2
<1>2. CASE UNCHANGED vars
  <2>0. MirrorInv
    BY <1>2 DEF vars, Configured, IdentityConfigured, RolesConfigured
  <2>1. \A h \in Handler : /\ Subject(h)' = Subject(h) /\ Row(h)' = Row(h)
                           /\ Concerned(h)' = Concerned(h)
    BY <1>2 DEF vars, handlers, Subject, Row, Concerned
  <2>2. /\ \A p : Mirrored(p)' = Mirrored(p) /\ InForce(p)' = InForce(p)
        /\ \A w : /\ Claimed(w)' = Claimed(w) /\ WalletTaken(w)' = WalletTaken(w)
                  /\ Active(w)' = Active(w)
        /\ \A p, w : Unregistered(p, w)' = Unregistered(p, w)
        /\ Known' = Known
    BY <1>2 DEF vars, chain, Mirrored, InForce, Claimed, WalletTaken, Known, Active, Unregistered
  <2> QED
    BY <1>2, <2>0, <2>1, <2>2
    DEF vars, chain, handlers, MirrorInv, OwnWallets, Prepared, ImportPrepared, Untroubled,
        MirrorsChain
<1> QED
  BY <1>1, <1>2

\* The table's keys and the faults so far, whatever is configured.
THEOREM TableInvHolds == Spec => []TableInv
<1>1. Init => TableInv
  BY InitMirrors DEF MirrorInv, TableInv
<1>2. AccountsInv /\ TableInv /\ [Next /\ OneCallAtATime']_vars => TableInv'
  BY StepKeepsTable
<1> QED
  BY <1>1, <1>2, AccountsInvHolds, PTL DEF Spec

\* What every call in progress relies on holds under a process that has both contracts,
\* and as long as nothing fails the cache agrees with the chain about everybody no call
\* is concerned with.
THEOREM MirrorInvHolds == Spec => [](Configured => MirrorInv)
<1>1. AccountsInv /\ AccountsInv' /\ TableInv /\ (Configured => MirrorInv)
        /\ [Next /\ OneCallAtATime']_vars => (Configured' => MirrorInv')
  BY StepKeepsMirrored
<1>2. Init => (Configured => MirrorInv)
  BY InitMirrors
<1> QED
  BY <1>1, <1>2, AccountsInvHolds, TableInvHolds, PTL DEF Spec

\* As long as no transaction, query or process fails and both contracts are configured,
\* chain and cache agree on every person and every wallet that no call is at work on,
\* for any people, wallets and calls.
THEOREM CacheMirrorsChainHolds == Spec => []CacheMirrorsChain
<1>1. (Configured => MirrorInv) => CacheMirrorsChain
  BY DEF MirrorInv, MirrorsChain, CacheMirrorsChain, Claimed, Mirrored
<1> QED
  BY <1>1, MirrorInvHolds, PTL

-----------------------------------------------------------------------------
(* Calls that end cleanly *)

\* A step of one call is a step of no other.
LEMMA OneStepsAtATime ==
  ASSUME StateTyped, NEW g \in Handler, NEW h \in Handler, h # g,
         PersonnelCall(g) \/ OnboardingCall(g) \/ Proceed(g)
  PROVE  pc'[h] = pc[h]
<1>1. CASE PersonnelCall(g) \/ OnboardingCall(g)
  BY <1>1 DEF PersonnelCall, OnboardingCall, UpdateRole, AssignManager, RevokeIdentity, RegisterIdentity,
     ReinstateIdentity, ApproveRegistration, RejectRegistration, ImportCsv, Submit, Begin, StateTyped
<1>2. ASSUME NEW step, Goto(g, step) PROVE pc'[h] = pc[h]
  BY <1>2 DEF Goto, Return, StateTyped
<1>3. ASSUME NEW accepted, NEW effect, NEW ok, NEW reverted, NEW failed,
             Send(g, accepted, effect, ok, reverted, failed)
      PROVE  pc'[h] = pc[h]
  BY <1>2, <1>3 DEF Send
<1>4. ASSUME Return(g) PROVE pc'[h] = pc[h]
  BY <1>4 DEF Return, StateTyped
<1>7. ASSUME NEW step, Skip(g, step) PROVE pc'[h] = pc[h]
  BY <1>2, <1>7 DEF Skip
<1>5. CASE IdentityProceeds(g)
  <2>1. CASE \/ RegisterOnChain(g) \/ GrantRole(g) \/ UpdateClearance(g) \/ GrantNew(g) \/ StripOld(g)
             \/ RevokeOnChain(g) \/ StripRole(g) \/ Reanchor(g) \/ Regrant(g)
    BY <1>3, <1>7, <2>1, Zenon
    DEF RegisterOnChain, GrantRole, UpdateClearance, GrantNew, StripOld, RevokeOnChain, StripRole,
        Reanchor, Regrant
  <2>2. CASE \/ CreateUser(g) \/ SaveRole(g) \/ SaveManager(g) \/ CountAdmins(g)
             \/ StampRevoked(g) \/ UnstampRevoked(g)
    BY <1>2, <1>4, <2>2
    DEF CreateUser, SaveRole, SaveManager, CountAdmins, StampRevoked, UnstampRevoked
  <2>3. CASE ReadManager(g)
    <3>1. PICK step : Return(g) \/ pc' = [pc EXCEPT ![g] = step]
      BY <2>3, Zenon DEF ReadManager
    <3> QED
      BY <1>4, <3>1 DEF StateTyped
  <2> QED
    BY <1>5, <2>1, <2>2, <2>3 DEF IdentityProceeds
<1>6. CASE OnboardingProceeds(g)
  <2>1. CASE GrantExisting(g)
    BY <1>3, <1>7, <2>1, Zenon DEF GrantExisting
  <2>2. CASE MarkApproved(g) \/ MarkRejected(g) \/ CacheRows(g)
    BY <1>2, <1>4, <2>2 DEF MarkApproved, MarkRejected, CacheRows
  <2>3. CASE Upsert(g) \/ ReadRequest(g) \/ RegisterBatch(g) \/ GrantRows(g)
    <3>1. PICK step : Return(g) \/ pc' = [pc EXCEPT ![g] = step]
      <4>1. CASE Upsert(g)
        BY <4>1, Zenon DEF Upsert
      <4>2. CASE ReadRequest(g)
        BY <4>2, Zenon DEF ReadRequest
      <4>3. CASE RegisterBatch(g)
        BY <4>3, Zenon DEF RegisterBatch
      <4>4. CASE GrantRows(g)
        BY <4>4, Zenon DEF GrantRows
      <4> QED
        BY <2>3, <4>1, <4>2, <4>3, <4>4
    <3> QED
      BY <1>4, <3>1 DEF StateTyped
  <2> QED
    BY <1>6, <2>1, <2>2, <2>3 DEF OnboardingProceeds
<1> QED
  BY <1>1, <1>5, <1>6 DEF Proceed

LEMMA CleanStepAgrees ==
  ASSUME AccountsInv, MirrorInv, IdentityConfigured, Next,
         NEW h \in Handler, CleanlyEnds(h), faults' = faults, NEW p \in Person, p = Subject(h)
  PROVE  IF pc[h] = "stamp" THEN OutOfForce(p)'
         ELSE /\ InForce(p)'
              /\ \A role \in Role : Replaces(h, role) => role \notin holders'[Row(h).wallet]
<1> USE DEF RegisterSteps, RoleSteps, ManagerSteps, RevokeSteps, ReinstateSteps, BatchSteps
<1>0. /\ StateTyped /\ Prepared(h) /\ InOrder(h) /\ pc'[h] # pc[h] /\ faults \in Nat
      /\ pc[h] \in {"createUser", "saveRole", "unstamp", "stamp"}
  BY DEF AccountsInv, MirrorInv, CleanlyEnds
<1>1. CreateUser(h) \/ SaveRole(h) \/ StampRevoked(h) \/ UnstampRevoked(h)
  <2>1. ~Fault
    BY <1>0 DEF Fault
  <2>2. PICK g \in Handler : PersonnelCall(g) \/ OnboardingCall(g) \/ Proceed(g)
    BY <2>1, DesksAssumption DEF Next, Fails, Restart, CrashHandlers
  <2>3. g = h
    BY <1>0, <2>2, OneStepsAtATime
  <2>4. ~PersonnelCall(h) /\ ~OnboardingCall(h)
    BY <1>0 DEF PersonnelCall, OnboardingCall, UpdateRole, AssignManager, RevokeIdentity,
       RegisterIdentity, ReinstateIdentity, ApproveRegistration, RejectRegistration, ImportCsv, Submit,
       Begin
  <2> QED
    BY <1>0, <2>2, <2>3, <2>4
    DEF Proceed, IdentityProceeds, OnboardingProceeds, RegisterOnChain, GrantRole, UpdateClearance,
        GrantNew, StripOld, ReadManager, SaveManager, CountAdmins, RevokeOnChain, StripRole, Reanchor,
        Regrant, Upsert, ReadRequest, GrantExisting, MarkApproved, MarkRejected, RegisterBatch,
        CacheRows, GrantRows
<1>2. PICK w : w = Row(h).wallet
  OBVIOUS
<1>3. UNCHANGED chain /\ \A v : Active(v)' = Active(v)
  BY <1>1 DEF CreateUser, SaveRole, StampRevoked, UnstampRevoked, Active, chain
<1>4. users[p] = NoRow \/ users[p] \in UserRow
  BY <1>0 DEF StateTyped
<1>5. CASE pc[h] = "createUser"
  <2>1. CreateUser(h)
    BY <1>0, <1>1, <1>5 DEF SaveRole, StampRevoked, UnstampRevoked
  <2>2. Row(h) \in UserRow /\ Unregistered(p, w) /\ ~Row(h).revoked /\ Active(w) /\ Row(h).role \in holders[w]
    BY <1>0, <1>2, <1>5 DEF Prepared, InOrder, Carries, WalletsActive
  <2>3. users'[p] = Row(h)
    BY <1>0, <1>2, <2>1, <2>2 DEF CreateUser, StateTyped
  <2> QED
    BY <1>2, <1>3, <1>5, <2>2, <2>3 DEF InForce, Replaces, chain
<1>6. CASE pc[h] = "saveRole"
  <2>1. SaveRole(h)
    BY <1>0, <1>1, <1>6 DEF CreateUser, StampRevoked, UnstampRevoked
  <2>2. /\ users[p] = Row(h) /\ users[p] # NoRow /\ ~Row(h).revoked
        /\ Active(w) /\ call[h].role \in holders[w] /\ call[h].role \in Role
        /\ call[h].role # Row(h).role => Row(h).role \notin holders[w]
    BY <1>0, <1>2, <1>6 DEF Prepared, InOrder, Carries, SubjectKnown
  <2>3. users'[p] = [users[p] EXCEPT !.role = call[h].role]
    BY <1>0, <2>1 DEF SaveRole, StateTyped
  <2>4. /\ users'[p] \in UserRow /\ users'[p].wallet = w /\ ~users'[p].revoked
        /\ users'[p].role = call[h].role
    BY <1>2, <1>4, <2>2, <2>3 DEF UserRow
  <2> QED
    BY <1>2, <1>3, <1>6, <2>2, <2>4 DEF InForce, Replaces, chain
<1>7. CASE pc[h] = "unstamp"
  <2>1. UnstampRevoked(h)
    BY <1>0, <1>1, <1>7 DEF CreateUser, StampRevoked, SaveRole
  <2>2. /\ users[p] = Row(h) /\ users[p] # NoRow
        /\ Active(w) /\ Row(h).role \in holders[w]
    BY <1>0, <1>2, <1>7 DEF Prepared, InOrder, SubjectKnown
  <2>3. users'[p] = [users[p] EXCEPT !.revoked = FALSE]
    BY <1>0, <2>1 DEF UnstampRevoked, StateTyped
  <2>4. /\ users'[p] \in UserRow /\ users'[p].wallet = w /\ ~users'[p].revoked
        /\ users'[p].role = Row(h).role
    BY <1>2, <1>4, <2>2, <2>3 DEF UserRow
  <2> QED
    BY <1>3, <1>7, <2>2, <2>4 DEF InForce, Replaces, chain
<1>8. CASE pc[h] = "stamp"
  <2>1. StampRevoked(h)
    BY <1>0, <1>1, <1>8 DEF CreateUser, UnstampRevoked, SaveRole
  <2>2. /\ users[p] = Row(h) /\ users[p] # NoRow
        /\ ~Active(w) /\ Row(h).role \notin holders[w]
    BY <1>0, <1>2, <1>8 DEF Prepared, InOrder, SubjectKnown
  <2>3. users'[p] = [users[p] EXCEPT !.revoked = TRUE]
    BY <1>0, <2>1 DEF StampRevoked, StateTyped
  <2>4. users'[p].wallet = w /\ users'[p].revoked /\ users'[p].role = Row(h).role
    BY <1>2, <1>4, <2>2, <2>3 DEF UserRow
  <2> QED
    BY <1>3, <1>8, <2>2, <2>4 DEF OutOfForce, chain
<1> QED
  BY <1>0, <1>5, <1>6, <1>7, <1>8

\* A call that ends with neither an error nor a warning, under a process that has both
\* contracts, leaves chain and cache agreeing on whether its person is in force and has
\* the role of the row, whatever failed before it, and takes away the role it replaces.
THEOREM CleanCallsAgreeHolds == Spec => CleanCallsAgree
<1>1. AccountsInv /\ (Configured => MirrorInv) /\ [Next /\ OneCallAtATime']_vars =>
        [\A h \in Handler :
          (CleanlyEnds(h) /\ faults' = faults /\ Configured) =>
              \A p \in Person : p = Subject(h) =>
                  IF pc[h] = "stamp" THEN OutOfForce(p)'
                  ELSE /\ InForce(p)'
                       /\ \A role \in Role :
                             Replaces(h, role) => role \notin holders'[Row(h).wallet]]_vars
  BY CleanStepAgrees DEF Configured
<1> QED
  BY <1>1, AccountsInvHolds, MirrorInvHolds, PTL DEF Spec, CleanCallsAgree
=============================================================================
