----------------------------- MODULE MCTransfer -----------------------------
(***************************************************************************)
(* A small office: two managers, a third person who may hold assets, a     *)
(* developer session without an identity, and one asset on chain.          *)
(***************************************************************************)
EXTENDS TransferService, TLC

CONSTANTS alice, bob, carol, dev, tracked, loose, r1, r2, h1, h2

MCUser == {alice, bob, carol, dev}
MCThreeUsers == {alice, bob, dev}
MCUnregistered == {dev}
MCManager == {alice, bob, dev}
MCAsset == {tracked}
MCBothAssets == {tracked, loose}
MCOnChain == {tracked}
MCRequest == {r1, r2}
MCHandler == {h1, h2}

\* Ids and handlers are interchangeable, and so are the two managers.
Symmetry == Permutations(MCRequest) \cup Permutations(MCHandler)
                \cup Permutations({alice, bob})
=============================================================================
