------------------------------ MODULE AuditLog ------------------------------
(***************************************************************************)
(* AuditLog.sol: the append-only security log that the three other         *)
(* contracts anchor their state changes in.  Time stamps and free text are *)
(* left out; `details' is kept where the text decides the meaning of an    *)
(* entry (the direction of a lockdown).                                    *)
(***************************************************************************)
EXTENDS Naturals, Sequences

CONSTANTS
    Address,        \* externally owned accounts, address(0) excluded
    NoAddress,      \* address(0)
    Admin,          \* `admin' and `deployer' of all four contracts (deploy.js)
    Contract,       \* the contracts that write to the log
    AuditCaller,    \* contracts that isAuthorizedCaller holds for
    MaxLog          \* bound on the number of entries

ASSUME AuditLogAssumption ==
    /\ Admin \in Address
    /\ NoAddress \notin Address
    /\ AuditCaller \subseteq Contract
    /\ MaxLog \in Nat

VARIABLE logs       \* LogEntry[] logs

\* A log entry.  `entity' is a role, a zone, a token or Nothing: the model
\* never compares entities of entries of different types.
Entry(type, actor, target, entity, details) ==
    [type |-> type, actor |-> actor, target |-> target,
     entity |-> entity, details |-> details]

InitAuditLog == logs = << >>

\* logEvent, called inside try {} catch {}: an unauthorised caller's entry is
\* silently dropped and the calling transaction still succeeds.
LogEvent(caller, entry) ==
    IF caller \in AuditCaller
    THEN Len(logs) < MaxLog /\ logs' = Append(logs, entry)
    ELSE UNCHANGED logs

\* The last entry among those satisfying About satisfies Holds.
LastSays(About(_), Holds(_)) ==
    \E i \in DOMAIN logs :
        /\ About(logs[i]) /\ Holds(logs[i])
        /\ \A j \in DOMAIN logs : j > i => ~About(logs[j])

NeverLogged(About(_)) == \A i \in DOMAIN logs : ~About(logs[i])
=============================================================================
