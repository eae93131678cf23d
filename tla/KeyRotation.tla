---------------------------- MODULE KeyRotation ----------------------------
(***************************************************************************)
(* What guardian recovery promises: a person has at most one live wallet,  *)
(* and it is exchanged for another only after enough people other than the *)
(* one who asked have vouched for it.  Each step is atomic.                *)
(***************************************************************************)
EXTENDS Naturals, FiniteSets

CONSTANTS
    Person, Wallet, Request,
    Vouchers,   \* how many people must have vouched
    NoWallet, NoTerms

VARIABLES
    live,       \* the active wallet of each person
    terms,      \* what each request asks for
    votes       \* who vouched for it

vars == <<live, terms, votes>>

Terms == [person : Person, wallet : Wallet, requestedBy : Person]

Init ==
    /\ live \in [Person -> Wallet \cup {NoWallet}]
    /\ terms = [r \in Request |-> NoTerms]
    /\ votes = [r \in Request |-> {}]

Raise(r) ==
    /\ terms[r] = NoTerms
    /\ \E t \in Terms : terms' = [terms EXCEPT ![r] = t]
    /\ UNCHANGED <<live, votes>>

Vouch(r, g) ==
    /\ terms[r] # NoTerms
    /\ g # terms[r].requestedBy
    /\ votes' = [votes EXCEPT ![r] = @ \cup {g}]
    /\ UNCHANGED <<live, terms>>

Vouched(r) == terms[r] # NoTerms /\ Cardinality(votes[r]) >= Vouchers

Retire(r) ==
    /\ Vouched(r)
    /\ live[terms[r].person] # NoWallet
    /\ live' = [live EXCEPT ![terms[r].person] = NoWallet]
    /\ UNCHANGED <<terms, votes>>

Rebind(r) ==
    /\ Vouched(r)
    /\ live[terms[r].person] = NoWallet
    /\ live' = [live EXCEPT ![terms[r].person] = terms[r].wallet]
    /\ UNCHANGED <<terms, votes>>

Next == \E r \in Request :
            Raise(r) \/ (\E g \in Person : Vouch(r, g)) \/ Retire(r) \/ Rebind(r)

Spec == Init /\ [][Next]_vars
=============================================================================
