------------------------------- MODULE MCSeed -------------------------------
(***************************************************************************)
(* Two people of one role and the applicant, one asset, an operator with  *)
(* a wallet of his own.                                                    *)
(***************************************************************************)
EXTENDS Seed, TLC

CONSTANTS suresh, priya, karthik, o1, g1, g2, g3

MCKey == {suresh, priya}
MCWallet == {o1, g1, g2, g3}
MCOwn == {o1}
MCRoleOf == [k \in MCKey \cup {karthik} |-> "USER"]

Symmetry == Permutations({g1, g2, g3})
=============================================================================
