----------------------------- MODULE MCAccounts -----------------------------
(***************************************************************************)
(* Ada administers, Bo may do so too, Cy is a user; one desk for personnel, *)
(* one for onboarding.  Two offices: in one everybody was seeded and the   *)
(* reporting lines change; in the other Ada has registered herself and the *)
(* others are still to be onboarded.                                       *)
(***************************************************************************)
EXTENDS Accounts

CONSTANTS ada, bo, cy, wAda, wBo, wCy, h1, h2

MCPerson == {ada, bo, cy}
MCWallet == {wAda, wBo, wCy}

OwnWallet(p) == CASE p = ada -> wAda [] p = bo -> wBo [] p = cy -> wCy

RolesOf(p) == CASE p = ada -> {"ADMIN"} [] p = bo -> Role [] p = cy -> {"USER"}
ManagersOf(p) == CASE p = ada -> {bo} [] p = bo -> {cy, NoPerson} [] p = cy -> {bo}

Seeded == registrations[wAda] = NoRegistration

MCInit ==
    /\ Init
    /\ Known = IF Seeded THEN Person ELSE {ada}
    /\ \A w \in {wBo, wCy} : registrations[w] = NoRegistration
    /\ \A p \in Known : users[p].wallet = OwnWallet(p) /\ users[p].role \in RolesOf(p)
    /\ configured = ServiceContract

\* The settings a restart may bring.
Settings == IF Seeded THEN {ServiceContract, {"IdentityRegistry"}}
                      ELSE {ServiceContract, {}}

\* Everybody is onboarded with a wallet of his own, and only Bo's role changes.
Planned ==
    \A h \in Handler : call[h] # NoCall =>
        \A p \in DOMAIN call[h].rows :
            LET c == call[h]
            IN  /\ c.rows[p].wallet = OwnWallet(p)
                /\ "role" \in DOMAIN c.rows[p] => c.rows[p].role \in RolesOf(p)
                /\ "role" \in DOMAIN c => c.role \in RolesOf(p)
                /\ "manager" \in DOMAIN c => Seeded /\ Configured /\ c.manager \in ManagersOf(p)

\* Nothing is called but revocations.
Revoking == \A h \in Handler : pc[h] \notin {"updateClearance", "readManager", "saveManager"}

RevokeSpec == MCInit /\ [][Next /\ OneCallAtATime' /\ Planned' /\ Revoking']_vars

MCSpec == MCInit /\ [][Next /\ OneCallAtATime' /\ Planned' /\ configured' \in Settings']_vars

MCHandler == {h1, h2}
MCPersonnel == {h1}
MCOnboarders == {h2}
=============================================================================
