----------------------------- MODULE MCRecovery -----------------------------
(***************************************************************************)
(* Sam has lost his wallet.  Gail and Gus are his guardians, Ada is the    *)
(* administrator and may become one.  Only Sam has guardians, and the      *)
(* office leaves him Quorum of them.  He may find the wallet and ask for   *)
(* it again, but not while an execution still waits to revoke it.          *)
(***************************************************************************)
EXTENDS Recovery, TLC

CONSTANTS sam, gail, gus, ada, lost, new1, new2, wGail, wGus, wAda, r1, r2, h1, h2

MCPerson == {sam, gail, gus, ada}
MCWallet == {lost, new1, new2, wGail, wGus, wAda}
MCOwn == [p \in MCPerson |-> CASE p = sam -> {lost, new1, new2}
                               [] p = gail -> {wGail}
                               [] p = gus -> {wGus}
                               [] p = ada -> {wAda}]

OnlySam == \A p \in Person \ {sam} : guardians[p] = {}

MCInit ==
    /\ Init
    /\ OnlySam
    /\ users[sam].wallet = lost
    /\ guardians[sam] = {gail, gus}
    /\ \A p \in Person : users[p].role = IF p = ada THEN "ADMIN" ELSE "USER"

MCSpec == MCInit /\ [][Next /\ QuorumKept' /\ OnlySam' /\ NoWayBack']_vars

MCHandler == {h1, h2}
MCRequest == {r1, r2}
Guardians == gail :> gus @@ gus :> gail @@ wGail :> wGus @@ wGus :> wGail
Symmetry == Permutations(MCHandler) \cup Permutations(MCRequest)
                \cup Permutations({new1, new2}) \cup {Guardians}
=============================================================================
