-------------------------- MODULE RequestLifecycle --------------------------
(***************************************************************************)
(* What the transfer service promises its callers about transfer requests: *)
(* the life of a request as schema.prisma's TransferStatus names it, seen  *)
(* without handlers, transactions or the chain.  Each step is atomic.      *)
(***************************************************************************)
CONSTANTS
    Request,    \* ids of transfer requests
    User,       \* people and sessions that call the service
    Asset,      \* rows of the asset table
    NoUser,     \* SQL NULL in a column that refers to a user
    NoTerms     \* the terms of a request that was never raised

VARIABLES
    status,     \* status of each request, "NONE" before it is raised
    terms,      \* what was asked: asset, outgoing and incoming custodian, requester
    decider,    \* who approved or rejected the request
    owner       \* the cached custodian of each asset

vars == <<status, terms, decider, owner>>

Terms == [asset : Asset, fromUser : User, toUser : User, requestedBy : User]

Init ==
    /\ status = [r \in Request |-> "NONE"]
    /\ terms = [r \in Request |-> NoTerms]
    /\ decider = [r \in Request |-> NoUser]
    /\ owner \in [Asset -> User]

Raise(r) ==
    /\ status[r] = "NONE"
    /\ \E t \in Terms :
          /\ t.fromUser # t.toUser
          /\ terms' = [terms EXCEPT ![r] = t]
    /\ status' = [status EXCEPT ![r] = "PENDING"]
    /\ UNCHANGED <<decider, owner>>

\* Separation of duties: the requester never decides.
Decide(r, outcome) ==
    /\ status[r] = "PENDING"
    /\ \E d \in User \cup {NoUser} :
          /\ d # terms[r].requestedBy
          /\ decider' = [decider EXCEPT ![r] = d]
    /\ status' = [status EXCEPT ![r] = outcome]
    /\ UNCHANGED <<terms, owner>>

Release(r) ==
    /\ status[r] = "APPROVED"
    /\ status' = [status EXCEPT ![r] = "PENDING"]
    /\ decider' = [decider EXCEPT ![r] = NoUser]
    /\ UNCHANGED <<terms, owner>>

\* Custody moves in the cache with the execution of an approved request, and
\* by nothing else.
Execute(r) ==
    /\ status[r] = "APPROVED"
    /\ status' = [status EXCEPT ![r] = "EXECUTED"]
    /\ owner' = [owner EXCEPT ![terms[r].asset] = terms[r].toUser]
    /\ UNCHANGED <<terms, decider>>

Next == \E r \in Request :
            \/ Raise(r)
            \/ Decide(r, "APPROVED")
            \/ Decide(r, "REJECTED")
            \/ Release(r)
            \/ Execute(r)

Spec == Init /\ [][Next]_vars
=============================================================================
