---------------------------- MODULE MCIntegrity -----------------------------
(***************************************************************************)
(* An employee and the administrator, two assets that want the one token,  *)
(* two calls at once.                                                      *)
(***************************************************************************)
EXTENDS Integrity

CONSTANTS emp, radio, sdr, h1, h2

MCName == {radio, sdr}

MCListed == <<FirstTokenId>>

MCListedName == [t \in {FirstTokenId} |-> sdr]

MCPhantom == {FirstTokenId + 1}

MCHandler == {h1, h2}

\* The administrator keeps the top clearance and is the other custodian; so does
\* the employee until the contract is deployed, and assets without a token have
\* the lowest tier.  One token is minted; sdr is never minted on chain, it has a
\* token by its row only or by the script.  While the employee's clearance or
\* standing is off the top, on chain or in the row, there is no asset row.  Calls
\* that overlap are about the employee, or all about assets, the script among
\* these; one of them may verify.
AtTop(u) == identities[u] # Unregistered =>
                identities[u].isActive /\ identities[u].clearanceLevel = TopClearance

AtTopRow == [clearanceLevel |-> TopClearance, revoked |-> FALSE]

OnAssets(h) == pc[h] \in {"upsert", "clear"} \/ call[h].target # emp

Planned ==
    /\ AtTop(Admin) /\ nextTokenId <= FirstTokenId + 1
    /\ deployed \/ \A u \in Address : AtTop(u) /\ (u \in Known => ~userRows[u].revoked)
    /\ deployed => Address \subseteq Known /\ identities[Admin].isActive
    /\ Recorded # {} => AtTop(emp) /\ (emp \in Known => userRows[emp] = AtTopRow)
    /\ Admin \in Known => userRows[Admin] = AtTopRow
    /\ \A h \in Handler : pc[h] \notin {"idle", "upsert", "clear"} =>
          /\ call[h].target # Admin
          /\ pc[h] = "mint" => call[h].target = radio
          /\ pc[h] = "mint" => call[h].row.tier = TopClearance
          /\ ~deployed => pc[h] \in {"clash", "saveAsset"} /\ call[h].row.tier = 1
                          /\ call[h].row.owner = emp
    /\ \A h, g \in Handler : h # g /\ pc[h] # "idle" /\ pc[g] # "idle" =>
          /\ OnAssets(h) <=> OnAssets(g)
          /\ ~(Verifying(h) /\ Verifying(g))

MCSpec == IntegrityInit /\ [][Step /\ Remember /\ OneMintPerToken' /\ Planned']_integrityVars

Symmetry == Permutations(MCHandler)
=============================================================================
