-------------------------- MODULE IdentityService ---------------------------
(***************************************************************************)
(* identity.service.js: registering, changing, revoking and reinstating    *)
(* identities.  A step whose name ends in Warned goes on after a reported  *)
(* chain failure: the answer of the call carries chain.warning.            *)
(***************************************************************************)
EXTENDS Directory

CONSTANT Admin  \* holders of a token with the ADMIN role

ASSUME IdentityAssumption == Admin \subseteq Person

ServiceContract == {"IdentityRegistry", "AccessControl"}

VARIABLE configured     \* the contracts whose addresses the process was started with

IdentityConfigured == "IdentityRegistry" \in configured
RolesConfigured == "AccessControl" \in configured
Configured == IdentityConfigured /\ RolesConfigured

\* "Skipped": the contract is not configured, and no error is reported.
Skip(h, step) == Goto(h, step) /\ UNCHANGED <<chain, faults>>

\* Only the revocation is looked up in the database on every request; the role
\* is the token's, whatever the row says by now.
MayAdminister(by) == by \in Admin \cap Known /\ ~users[by].revoked

\* A call is about some people, with the rows it was given or has read.
About(p, row) == [q \in {p} |-> row]
Subject(h) == CHOOSE p \in DOMAIN call[h].rows : TRUE
Row(h) == call[h].rows[Subject(h)]

-----------------------------------------------------------------------------
(* registerIdentity *)

NewRows == {u \in UserRow : u.managerId = NoPerson /\ ~u.revoked}

Unregistered(p, wallet) == users[p] = NoRow /\ ~WalletTaken(wallet)

\* The dossier is pinned between the check and the registration.
RegisterIdentity(h, p, row, next) ==
    /\ Unregistered(p, row.wallet)
    /\ Begin(h, "register", [rows |-> About(p, row), next |-> next])
    /\ UNCHANGED <<users, chain, faults>>

\* Mutant: a failed registration on chain is only reported.
AfterFailedRegistrationGoesOn == "grant"

AfterFailedRegistration == "idle"

\* Without the registry the identity is "created off-chain only".
RegisterOnChain(h) ==
    /\ pc[h] = "register"
    /\ IF IdentityConfigured
       THEN Send(h, TRUE, Anchor(Row(h).wallet, Subject(h)), "grant",
                 AfterFailedRegistration, AfterFailedRegistration)
       ELSE Skip(h, "createUser")
    /\ UNCHANGED users

GrantRole(h) ==
    /\ pc[h] = "grant"
    /\ IF RolesConfigured
       THEN Send(h, TRUE, Grant(Row(h).wallet, Row(h).role), "createUser",
                 "createUserWarned", "createUserWarned")
       ELSE Skip(h, "createUser")
    /\ UNCHANGED users

\* The unique constraints decide between two registrations.
CreateUser(h) ==
    /\ pc[h] \in {"createUser", "createUserWarned"}
    /\ IF Unregistered(Subject(h), Row(h).wallet)
       THEN users' = [users EXCEPT ![Subject(h)] = Row(h)] /\ Goto(h, call[h].next)
       ELSE UNCHANGED users /\ Return(h)
    /\ UNCHANGED <<chain, faults>>

-----------------------------------------------------------------------------
(* updateRole *)

UpdateRole(h, p, role) ==
    /\ p \in Known /\ ~users[p].revoked
    /\ Begin(h, "updateClearance", [rows |-> About(p, users[p]), role |-> role])
    /\ UNCHANGED <<users, chain, faults>>

UpdateClearance(h) ==
    /\ pc[h] = "updateClearance"
    /\ IF IdentityConfigured
       THEN Send(h, Active(Row(h).wallet), UNCHANGED chain, "grantNew",
                 "saveRoleWarned", "saveRoleWarned")
       ELSE Skip(h, "grantNew")
    /\ UNCHANGED users

\* "Grant first, then revoke, so a failed revoke never leaves the wallet
\* role-less."
GrantNew(h) ==
    /\ pc[h] = "grantNew"
    /\ IF RolesConfigured
       THEN Send(h, TRUE, Grant(Row(h).wallet, call[h].role),
                 IF call[h].role = Row(h).role THEN "saveRole" ELSE "stripOld",
                 "saveRoleWarned", "saveRoleWarned")
       ELSE Skip(h, "saveRole")
    /\ UNCHANGED users

\* Mutant: the roles are swapped.
OutgoingRoleIsNew(c, row) == c.role

OutgoingRole(c, row) == row.role

StripOld(h) ==
    /\ pc[h] = "stripOld"
    /\ Send(h, TRUE, Strip(Row(h).wallet, OutgoingRole(call[h], Row(h))), "saveRole",
            "saveRoleWarned", "saveRoleWarned")
    /\ UNCHANGED users

SaveRole(h) ==
    /\ pc[h] \in {"saveRole", "saveRoleWarned"}
    /\ users' = [users EXCEPT ![Subject(h)].role = call[h].role]
    /\ Return(h)
    /\ UNCHANGED <<chain, faults>>

-----------------------------------------------------------------------------
(* updateOrgAssignment *)

\* `at' is the row the walk reads next, `seen' the people it has met.
AssignManager(h, p, manager) ==
    /\ p \in Known /\ ~users[p].revoked
    /\ manager # p
    /\ Begin(h, IF manager = NoPerson THEN "saveManager" ELSE "readManager",
             [rows |-> About(p, users[p]), manager |-> manager, at |-> manager, seen |-> {p}])
    /\ UNCHANGED <<users, chain, faults>>

\* The root, or a cycle elsewhere: "not this call's problem".
LastHop(c, next) == next = NoPerson \/ next \in c.seen

\* One row of the walk up the reporting line; the first is the manager's own.
ReadManager(h) ==
    LET c == call[h]
        next == users[c.at].managerId
    IN  /\ pc[h] \in {"readManager", "walk"}
        /\ IF \/ pc[h] = "readManager" /\ (c.at \notin Known \/ users[c.at].revoked)
              \/ next = Subject(h)
           THEN Return(h)
           ELSE /\ pc' = [pc EXCEPT ![h] = IF LastHop(c, next) THEN "saveManager" ELSE "walk"]
                /\ call' = [call EXCEPT ![h].at = next, ![h].seen = @ \cup {next}]
        /\ UNCHANGED <<users, chain, faults>>

SaveManager(h) ==
    /\ pc[h] = "saveManager"
    /\ users' = [users EXCEPT ![Subject(h)].managerId = call[h].manager]
    /\ Return(h)
    /\ UNCHANGED <<chain, faults>>

-----------------------------------------------------------------------------
(* revokeIdentity *)

RevokeIdentity(h, by, p) ==
    /\ p \in Known \ {by} /\ ~users[p].revoked
    /\ Begin(h, IF users[p].role = "ADMIN" THEN "countAdmins" ELSE "revoke",
             [rows |-> About(p, users[p])])
    /\ UNCHANGED <<users, chain, faults>>

OtherAdmins(p) == {q \in Known \ {p} : users[q].role = "ADMIN" /\ ~users[q].revoked}

CountAdmins(h) ==
    /\ pc[h] = "countAdmins"
    /\ Goto(h, IF OtherAdmins(Subject(h)) = {} THEN "idle" ELSE "revoke")
    /\ UNCHANGED <<users, chain, faults>>

\* "Identity not active" is taken for a revocation that was done before; here a
\* registry that is not configured is an error.
RevokeOnChain(h) ==
    /\ pc[h] = "revoke"
    /\ IF IdentityConfigured
       THEN Send(h, Active(Row(h).wallet), Retire(Row(h).wallet), "strip", "strip", "idle")
       ELSE Skip(h, "idle")
    /\ UNCHANGED users

StripRole(h) ==
    /\ pc[h] = "strip"
    /\ IF RolesConfigured
       THEN Send(h, TRUE, Strip(Row(h).wallet, Row(h).role), "stamp",
                 "stampWarned", "stampWarned")
       ELSE Skip(h, "stamp")
    /\ UNCHANGED users

StampRevoked(h) ==
    /\ pc[h] \in {"stamp", "stampWarned"}
    /\ users' = [users EXCEPT ![Subject(h)].revoked = TRUE]
    /\ Return(h)
    /\ UNCHANGED <<chain, faults>>

-----------------------------------------------------------------------------
(* reinstateIdentity: also of an identity that is not revoked. *)

ReinstateIdentity(h, p) ==
    /\ p \in Known
    /\ Begin(h, "reanchor", [rows |-> About(p, users[p])])
    /\ UNCHANGED <<users, chain, faults>>

Reanchor(h) ==
    /\ pc[h] = "reanchor"
    /\ IF IdentityConfigured
       THEN Send(h, TRUE, Anchor(Row(h).wallet, Subject(h)), "regrant", "idle", "idle")
       ELSE Skip(h, "unstamp")
    /\ UNCHANGED users

Regrant(h) ==
    /\ pc[h] = "regrant"
    /\ IF RolesConfigured
       THEN Send(h, TRUE, Grant(Row(h).wallet, Row(h).role), "unstamp",
                 "unstampWarned", "unstampWarned")
       ELSE Skip(h, "unstamp")
    /\ UNCHANGED users

UnstampRevoked(h) ==
    /\ pc[h] \in {"unstamp", "unstampWarned"}
    /\ users' = [users EXCEPT ![Subject(h)].revoked = FALSE]
    /\ Return(h)
    /\ UNCHANGED <<chain, faults>>

-----------------------------------------------------------------------------

IdentityProceeds(h) ==
    \/ RegisterOnChain(h) \/ GrantRole(h) \/ CreateUser(h)
    \/ UpdateClearance(h) \/ GrantNew(h) \/ StripOld(h) \/ SaveRole(h)
    \/ ReadManager(h) \/ SaveManager(h)
    \/ CountAdmins(h) \/ RevokeOnChain(h) \/ StripRole(h) \/ StampRevoked(h)
    \/ Reanchor(h) \/ Regrant(h) \/ UnstampRevoked(h)
=============================================================================
