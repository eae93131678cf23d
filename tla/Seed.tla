-------------------------------- MODULE Seed --------------------------------
(***************************************************************************)
(* scripts/seed-demo.js: fills the database, and the chain if it is told   *)
(* to, with the demonstration data.  It is meant to be run again after a   *)
(* failure or a rehearsal, with the same wallets or with others.  A dry    *)
(* run writes nothing and is left out; the lockdown of a zone the script   *)
(* configures is the business of Facility.                                 *)
(***************************************************************************)
EXTENDS Naturals, Sequences, FiniteSets

CONSTANTS
    Key,            \* IDENTITIES: one key for each person of the dataset
    Applicant,      \* APPLICANT, who only has a registration request
    RoleOf,         \* the role of each identity, and the one the applicant gets
    PassUser,       \* PASS.user
    Wallet,
    Own,            \* the wallets the operator has besides
    Asset,
    Handed,         \* TRANSFER.asset, held by TRANSFER.from
    NoKey, NoWallet, NoAsset,
    MaxFlags,       \* bound on the wallets named on the command line
    MaxTransfers,   \* bound on the transfer requests of a rehearsal
    MaxFaults       \* bound on crashes, database errors and failed transactions

ASSUME SeedAssumption ==
    /\ Applicant \notin Key /\ NoKey \notin Key
    /\ NoWallet \notin Wallet /\ Own \subseteq Wallet
    /\ Handed \in Asset /\ NoAsset \notin Asset
    /\ RoleOf \in [Key \cup {Applicant} -> STRING] /\ PassUser \in Key
    /\ MaxFlags \in Nat /\ MaxTransfers \in Nat /\ MaxFaults \in Nat

VARIABLES
    users,      \* the wallet of each person in the database
    request,    \* the applicant's RegistrationRequest
    zoned,      \* whether the zones are there
    rows,       \* how many Asset rows have a name
    tokens,     \* how many tokens were minted for it
    moved,      \* whether Handed has left TRANSFER.from
    transfers,  \* the TransferRequest rows of Handed
    passes,     \* how many pass rows with PASS_MARKER each person has
    logged,     \* what auditOnce has recorded
    file,       \* .demo-wallets.json; a torn one is read as an empty one
    mishap,     \* whether the file was torn, or written over unread
    run,        \* the script in progress
    faults

database == <<users, request, zoned, rows, moved, transfers, passes, logged>>
vars == <<database, tokens, file, mishap, run, faults>>

Role == Key \cup {Applicant}
Unset == [k \in Role |-> NoWallet]

Idle == [step |-> "off", mode |-> "offchain", address |-> Unset, person |-> [k \in Key |-> NoKey],
         stored |-> Unset, generated |-> {}, todo |-> {}, asset |-> NoAsset,
         movedThen |-> FALSE, again |-> FALSE]

Init ==
    /\ users = Unset
    /\ request = [status |-> "NONE", wallet |-> NoWallet]
    /\ zoned = FALSE
    /\ rows = [a \in Asset |-> 0] /\ tokens = [a \in Asset |-> 0]
    /\ moved = FALSE /\ transfers = <<>>
    /\ passes = [k \in Role |-> 0] /\ logged = {}
    /\ file = Unset /\ mishap = FALSE
    /\ run = Idle
    /\ faults = 0

Goto(step, todo) == run' = [run EXCEPT !.step = step, !.todo = todo]
Fault == faults < MaxFaults /\ faults' = faults + 1

InUse == {users[k] : k \in Role} \cup {request.wallet}

\* A wallet that is generated is none of those that can be found anywhere.
Taken == InUse \cup {file[k] : k \in Role}

-----------------------------------------------------------------------------
(* parseArgs, and the wallets of the first part of seed(). *)

\* A wallet of the file may be named for any role.
Flags == {f \in [Role -> Own \cup {file[k] : k \in Role} \cup {NoWallet}] :
             /\ \A k, j \in Role : f[k] = f[j] => k = j \/ f[k] = NoWallet
             /\ Cardinality({k \in Role : f[k] # NoWallet}) <= MaxFlags}

Supplied(flags, stored, k) == IF flags[k] # NoWallet THEN flags[k] ELSE stored[k]

\* findFirst of the employee code or of the supplied wallet, among all people.
Existing(flags, stored, k) ==
    {j \in Role : users[j] # NoWallet /\ (j = k \/ users[j] = Supplied(flags, stored, k))}

MayStandFor(j, k) == j = k \/ RoleOf[j] = RoleOf[k]

Persons(flags, stored) ==
    LET Found(k) == IF Existing(flags, stored, k) = {} THEN {NoKey}
                    ELSE Existing(flags, stored, k)
    IN  {p \in [Key -> UNION {Found(k) : k \in Key}] : \A k \in Key : p[k] \in Found(k)}

\* What is known of a role's wallet: the row's, then what was supplied.
KnownWallet(flags, stored, p, k) ==
    IF k = Applicant
    THEN IF request.status # "NONE" THEN request.wallet ELSE Supplied(flags, stored, k)
    ELSE IF p[k] # NoKey THEN users[p[k]] ELSE Supplied(flags, stored, k)

\* A file that cannot be read or parsed is taken for an empty one.
ReadWalletFile(stored) ==
    \/ stored = file /\ UNCHANGED faults
    \/ stored = Unset /\ Fault

\* A wallet that belongs to somebody of another role ends the run.
StartWith(mode, flags, stored) ==
    \E p \in Persons(flags, stored) :
        LET known == [k \in Role |-> KnownWallet(flags, stored, p, k)]
            new == {k \in Role : known[k] = NoWallet}
            Address(fresh) == [k \in Role |-> IF k \in new THEN fresh[k] ELSE known[k]]
        IN  /\ \A k \in Key : p[k] # NoKey => MayStandFor(p[k], k)
            /\ \E fresh \in [new -> Wallet \ (Own \cup Taken)] :
                  /\ \A k, j \in new : fresh[k] = fresh[j] => k = j
                  /\ run' = [Idle EXCEPT !.step = "keys", !.mode = mode, !.person = p,
                                         !.address = Address(fresh), !.stored = stored,
                                         !.generated = new,
                                         !.again = request.status # "NONE"
                                                   \/ users[Applicant] # NoWallet]

Start(mode, flags) ==
    /\ run.step = "off"
    /\ \E stored \in {file, Unset} : ReadWalletFile(stored) /\ StartWith(mode, flags, stored)
    /\ UNCHANGED <<database, tokens, file, mishap>>

\* Mutant: only the new wallets are written.
SavedNewOnly(k) == IF k \in run.generated THEN run.address[k] ELSE NoWallet

\* The file is written over with what was read of it and the new wallets.
Saved(k) == IF k \in run.generated THEN run.address[k] ELSE run.stored[k]

Unborn == {k \in Key : run.person[k] = NoKey}

\* "Persist generated keys before any write."
PersistKeys ==
    /\ run.step = "keys"
    /\ IF run.generated = {}
       THEN UNCHANGED <<file, mishap>>
       ELSE /\ file' = [k \in Role |-> Saved(k)]
            /\ mishap' = (mishap \/ run.stored # file)
    /\ Goto("identities", Unborn)
    /\ UNCHANGED <<database, tokens, faults>>

-----------------------------------------------------------------------------
(* Identities.  On chain, registerIdentity anchors the wallet before it       *)
(* writes the row and takes one that is anchored already for registered, so *)
(* that what a failed run anchored makes no difference here.               *)

CreateIdentity(k) ==
    /\ run.step = "identities" /\ k \in run.todo
    /\ \A j \in Role : users[j] # run.address[k]
    /\ users' = [users EXCEPT ![k] = run.address[k]]
    /\ run' = [run EXCEPT !.todo = @ \ {k}, !.person[k] = k]
    /\ UNCHANGED <<request, zoned, rows, moved, transfers, passes, logged,
                   tokens, file, mishap, faults>>

\* auditOnce looks its row up first; on chain the indexer writes the rows.
LogIdentities ==
    /\ run.step = "identities" /\ run.todo = {}
    /\ logged' = IF run.mode = "onchain" THEN logged
                 ELSE logged \cup {<<"IDENTITY_CREATED", k>> : k \in Key}
    /\ Goto("zones", {})
    /\ UNCHANGED <<users, request, zoned, rows, moved, transfers, passes,
                   tokens, file, mishap, faults>>

SeedZones ==
    /\ run.step = "zones"
    /\ zoned' = TRUE
    /\ Goto("assets", Asset)
    /\ UNCHANGED <<users, request, rows, moved, transfers, passes, logged,
                   tokens, file, mishap, faults>>

-----------------------------------------------------------------------------
(* Assets are looked up by their name. *)

\* Mutant: they are looked up by a token.
SeededToken(a) == tokens[a] > 0 /\ rows[a] > 0

Seeded(a) == rows[a] > 0

SkipAsset(a) ==
    /\ run.step = "assets" /\ a \in run.todo /\ Seeded(a)
    /\ run' = [run EXCEPT !.todo = @ \ {a},
                          !.movedThen = IF a = Handed THEN moved ELSE @]
    /\ UNCHANGED <<database, tokens, file, mishap, faults>>

\* mintAsset: a token, and then the row.
MintAsset(a) ==
    /\ run.step = "assets" /\ run.mode = "onchain" /\ a \in run.todo /\ ~Seeded(a)
    /\ tokens' = [tokens EXCEPT ![a] = @ + 1]
    /\ run' = [run EXCEPT !.step = "assetRow", !.asset = a]
    /\ UNCHANGED <<database, file, mishap, faults>>

\* The new row is the custodian's, whoever asks for the transfer is one of them.
AssetRow(a) ==
    /\ \/ run.step = "assetRow" /\ run.asset = a
          /\ run' = [run EXCEPT !.step = "assets", !.todo = @ \ {a}]
       \/ run.step = "assets" /\ run.mode = "offchain" /\ a \in run.todo /\ ~Seeded(a)
          /\ run' = [run EXCEPT !.step = "assetLog", !.asset = a]
    /\ rows' = [rows EXCEPT ![a] = @ + 1]
    /\ UNCHANGED <<users, request, zoned, moved, transfers, passes, logged,
                   tokens, file, mishap, faults>>

LogAsset(a) ==
    /\ run.step = "assetLog" /\ run.asset = a
    /\ logged' = logged \cup {<<"ASSET_MINTED", a>>}
    /\ run' = [run EXCEPT !.step = "assets", !.todo = @ \ {a}]
    /\ UNCHANGED <<users, request, zoned, rows, moved, transfers, passes,
                   tokens, file, mishap, faults>>

AssetsDone ==
    /\ run.step = "assets" /\ run.todo = {}
    /\ Goto("transfer", {})
    /\ UNCHANGED <<database, tokens, file, mishap, faults>>

-----------------------------------------------------------------------------
(* The transfer, the pass and the request.                                 *)

Pending == {i \in DOMAIN transfers : transfers[i] = "PENDING"}

\* The owner is the one read with the assets.
SeedTransfer ==
    /\ run.step = "transfer"
    /\ \/ /\ Pending # {} \/ run.movedThen
          /\ UNCHANGED transfers
          /\ Goto("pass", {})
       \/ /\ Pending = {} /\ ~run.movedThen
          /\ Len(transfers) < MaxTransfers
          /\ transfers' = Append(transfers, "PENDING")
          /\ Goto("transferLog", {})
    /\ UNCHANGED <<users, request, zoned, rows, moved, passes, logged,
                   tokens, file, mishap, faults>>

LogTransfer ==
    /\ run.step = "transferLog"
    /\ logged' = logged \cup {<<"TRANSFER_REQUESTED", Handed>>}
    /\ Goto("pass", {})
    /\ UNCHANGED <<users, request, zoned, rows, moved, transfers, passes,
                   tokens, file, mishap, faults>>

\* The pass is looked up by the person who stands for PASS.user in this run,
\* the SBU and the marker, and prolonged if that person has it.
SeedPass ==
    /\ run.step = "pass"
    /\ passes' = [passes EXCEPT ![run.person[PassUser]] = IF @ = 0 THEN 1 ELSE @]
    /\ Goto("request", {})
    /\ UNCHANGED <<users, request, zoned, rows, moved, transfers, logged,
                   tokens, file, mishap, faults>>

\* A request that was there when the run began is left alone, whatever has been
\* decided about it; and none is made for an applicant who was registered then.
SeedRequest ==
    /\ run.step = "request"
    /\ request' = IF run.again THEN request
                  ELSE [status |-> "PENDING", wallet |-> run.address[Applicant]]
    /\ run' = Idle
    /\ UNCHANGED <<users, zoned, rows, moved, transfers, passes, logged,
                   tokens, file, mishap, faults>>

-----------------------------------------------------------------------------

\* An error, a mint that failed or whose receipt was lost, a crash: "completed
\* steps are kept", and what was sent may be mined all the same; the file may be
\* torn while it is written.
Fails ==
    /\ run.step # "off"
    /\ Fault
    /\ run' = Idle
    /\ \/ UNCHANGED <<file, mishap>>
       \/ run.step = "keys" /\ run.generated # {} /\ file' = Unset /\ mishap' = TRUE
    /\ \/ UNCHANGED tokens
       \/ \E a \in run.todo \cap Asset :
             /\ run.step = "assets" /\ run.mode = "onchain" /\ ~Seeded(a)
             /\ tokens' = [tokens EXCEPT ![a] = @ + 1]
    /\ UNCHANGED database

\* Two roles were given one wallet, one of them by the file: the unique
\* constraint refuses the second.
WalletClash ==
    /\ run.step = "identities"
    /\ \E k \in run.todo, j \in Role : users[j] = run.address[k]
    /\ run' = Idle
    /\ UNCHANGED <<database, tokens, file, mishap, faults>>

\* The rehearsal, during a run or between runs: the office decides about the
\* pending request and the pending transfer, or registers the applicant without
\* one, with a wallet of his own.
Enrol(w) ==
    /\ users[Applicant] = NoWallet /\ w \notin {users[k] : k \in Role}
    /\ users' = [users EXCEPT ![Applicant] = w]

Rehearse ==
    /\ \/ /\ request.status = "PENDING"
          /\ request' = [request EXCEPT !.status = "DECIDED"]
          /\ UNCHANGED users \/ Enrol(request.wallet)
          /\ UNCHANGED <<transfers, moved>>
       \/ \E w \in Own : Enrol(w) /\ UNCHANGED <<request, transfers, moved>>
       \/ \E i \in Pending :
            /\ \/ transfers' = [transfers EXCEPT ![i] = "REJECTED"] /\ UNCHANGED moved
               \/ transfers' = [transfers EXCEPT ![i] = "EXECUTED"] /\ moved' = TRUE
            /\ UNCHANGED <<users, request>>
    /\ UNCHANGED <<zoned, rows, passes, logged, tokens, file, mishap, run, faults>>

Next ==
    \/ /\ run.step = "off"
       /\ \E mode \in {"onchain", "offchain"}, flags \in Flags : Start(mode, flags)
    \/ PersistKeys
    \/ \E k \in Key : CreateIdentity(k)
    \/ LogIdentities \/ SeedZones
    \/ \E a \in Asset : SkipAsset(a) \/ MintAsset(a) \/ AssetRow(a) \/ LogAsset(a)
    \/ AssetsDone \/ SeedTransfer \/ LogTransfer \/ SeedPass \/ SeedRequest
    \/ Fails \/ WalletClash \/ Rehearse

Spec == Init /\ [][Next]_vars
-----------------------------------------------------------------------------

\* "Persist generated keys before any write": whoever the database knows under a
\* wallet that is not one of the operator's, its key is in the file, over all
\* failures, runs with other wallets and wallets that go from one role to
\* another - unless the file itself was torn, or written over by a run that could
\* not read it, which takes the keys of earlier runs; even then the run that goes
\* on has the keys it generated in the file before it writes anything else.
KeysAreKept ==
    /\ ~mishap => \A w \in InUse \ (Own \cup {NoWallet}) : \E k \in Role : file[k] = w
    /\ run.step \notin {"off", "keys"} =>
           \A k \in run.generated : file[k] = run.address[k]

\* "Re-running is safe": a name has one asset at most, nobody has two of the
\* script's passes, no two people have one wallet and the asset is offered at
\* most once, whatever the rehearsal decided; on chain an asset gets a second
\* token only after a failure between its mint and its row.  (A run in which
\* somebody else stands for PASS.user makes a pass for that person too.)
RerunAddsNothing ==
    /\ \A a \in Asset : rows[a] <= 1 /\ tokens[a] <= 1 + faults
    /\ Cardinality(Pending) <= 1
    /\ \A k \in Role : passes[k] <= 1
    /\ \A k, j \in Role : users[k] = users[j] => k = j \/ users[k] = NoWallet
=============================================================================
