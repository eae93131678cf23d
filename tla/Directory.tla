----------------------------- MODULE Directory -----------------------------
(***************************************************************************)
(* What the account services share: the user table, the chain as           *)
(* chain.service.js reaches it, and the HTTP calls in progress.  A call    *)
(* runs in a handler; other handlers interleave with it at every await.    *)
(* Clearance follows the role in every operation and is left out.          *)
(***************************************************************************)
EXTENDS Naturals, FiniteSets

CONSTANTS
    Person,     \* employee codes: keys of user rows and subjects of DIDs
    Wallet,
    Role,
    Handler,    \* HTTP calls that may be in progress at once
    NoPerson, NoRow, NoCall,
    MaxFaults   \* bound on crashes, database errors and failed transactions

ASSUME DirectoryAssumption ==
    /\ NoPerson \notin Person
    /\ Person \cap Wallet = {}
    /\ "ADMIN" \in Role
    /\ MaxFaults \in Nat

VARIABLES
    users,      \* the User rows
    anchored,   \* IdentityRegistry: whose active record a wallet has
    holders,    \* AccessControl: the roles a wallet has
    pc,         \* what each handler does next
    call,       \* what each handler was asked for and has read
    faults      \* how many faults have happened

chain == <<anchored, holders>>
handlers == <<pc, call>>

UserRow == [wallet : Wallet, role : Role, managerId : Person \cup {NoPerson},
            revoked : BOOLEAN]

ASSUME RowAssumption == NoRow \notin UserRow

Known == {p \in Person : users[p] # NoRow}

\* The unique constraint on walletAddress.
WalletTaken(w) == \E p \in Known : users[p].wallet = w

Active(w) == anchored[w] # NoPerson

InitHandlers ==
    /\ pc = [h \in Handler |-> "idle"]
    /\ call = [h \in Handler |-> NoCall]
    /\ faults = 0

Begin(h, step, c) ==
    /\ pc[h] = "idle"
    /\ pc' = [pc EXCEPT ![h] = step]
    /\ call' = [call EXCEPT ![h] = c]

Return(h) ==
    /\ pc' = [pc EXCEPT ![h] = "idle"]
    /\ call' = [call EXCEPT ![h] = NoCall]

Goto(h, step) ==
    IF step = "idle" THEN Return(h) ELSE pc' = [pc EXCEPT ![h] = step] /\ UNCHANGED call

Fault == faults < MaxFaults /\ faults' = faults + 1

\* The handler sends a transaction and waits for it.  It is mined, or reverts,
\* or an error is reported: nothing was sent, or the receipt was lost.
Send(h, accepted, effect, ok, reverted, failed) ==
    \/ accepted /\ effect /\ Goto(h, ok) /\ UNCHANGED faults
    \/ ~accepted /\ UNCHANGED chain /\ Goto(h, reverted) /\ UNCHANGED faults
    \/ Fault /\ Goto(h, failed) /\ (UNCHANGED chain \/ (accepted /\ effect))

\* registerIdentityOnChain reports a wallet that is active already, whoever's
\* record it has, as registered.
Anchor(w, p) ==
    /\ anchored' = [anchored EXCEPT ![w] = IF Active(w) THEN @ ELSE p]
    /\ UNCHANGED holders

\* revokeIdentityOnChain
Retire(w) == anchored' = [anchored EXCEPT ![w] = NoPerson] /\ UNCHANGED holders

\* grantRoleOnChain, revokeRoleOnChain
Grant(w, role) == holders' = [holders EXCEPT ![w] = @ \cup {role}] /\ UNCHANGED anchored
Strip(w, role) == holders' = [holders EXCEPT ![w] = @ \ {role}] /\ UNCHANGED anchored

\* A gate outside the model, IPFS or the database refuses; the call ends.
FailAt(h, steps) == pc[h] \in steps /\ Fault /\ Return(h)

\* The process dies and restarts.
CrashHandlers ==
    /\ \E h \in Handler : pc[h] # "idle"
    /\ Fault
    /\ pc' = [h \in Handler |-> "idle"]
    /\ call' = [h \in Handler |-> NoCall]

DirectoryTypeOK ==
    /\ users \in [Person -> UserRow \cup {NoRow}]
    /\ anchored \in [Wallet -> Person \cup {NoPerson}]
    /\ holders \in [Wallet -> SUBSET Role]
    /\ faults \in 0 .. MaxFaults
=============================================================================
