------------------------------ MODULE MCIndexer -----------------------------
(***************************************************************************)
(* Two transactions that register or move things for two subjects.         *)
(***************************************************************************)
EXTENDS Indexer, TLC

CONSTANTS t1, t2, registered, other, s1, s2, api

MCTx == {t1, t2}
MCType == {registered}
MCOneSubject == {s1}
MCRecorder == {api}
=============================================================================
