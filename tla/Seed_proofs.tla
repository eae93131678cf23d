----------------------------- MODULE Seed_proofs -----------------------------
(***************************************************************************)
(* Proofs about the demonstration seed, run again and again: no key of a   *)
(* wallet in use is lost, and nothing is there twice - for any people,     *)
(* wallets, assets, command lines and failures.                            *)
(***************************************************************************)
EXTENDS Seed, FiniteSetTheorems, TLAPS

AnyWallet == Wallet \cup {NoWallet}

Decision == {"PENDING", "REJECTED", "EXECUTED"}

Fields == {"step", "mode", "address", "person", "stored", "generated", "todo", "asset", "movedThen", "again"}

IsRun(r) ==
    /\ DOMAIN r = Fields
    /\ r.address \in [Role -> AnyWallet] /\ r.stored \in [Role -> AnyWallet]
    /\ r.generated \subseteq Role

InFile(w) == \E k \in Role : file[k] = w

SeedTyped ==
    /\ users \in [Role -> AnyWallet]
    /\ request \in [status : {"NONE", "PENDING", "DECIDED"}, wallet : AnyWallet]
    /\ request.status # "NONE" => request.wallet \in Wallet
    /\ file \in [Role -> AnyWallet]
    /\ rows \in [Asset -> Nat] /\ tokens \in [Asset -> Nat]
    /\ transfers \in Seq(Decision)
    /\ passes \in [Role -> Nat] /\ faults \in Nat /\ mishap \in BOOLEAN
    /\ IsRun(run)

\* Of the wallets that are not the operator's, a run uses those whose keys are in
\* the file, unless something happened to the file, and those it is about to write
\* there, in places that were free when it read the file.
RunKeepsKeys ==
    run.step # "off" =>
        /\ run.address \in [Role -> Wallet]
        /\ run.step = "keys" => \A k \in run.generated : run.stored[k] = NoWallet
        /\ run.step # "keys" => \A k \in run.generated : file[k] = run.address[k]
        /\ ~mishap => \A k \in Role : run.address[k] \notin Own =>
               InFile(run.address[k]) \/ (run.step = "keys" /\ k \in run.generated)

\* The first part of KeysAreKept.
KnownKeysKept == ~mishap => \A w \in InUse \ (Own \cup {NoWallet}) : InFile(w)

\* An asset has a second token only if a failure came between a token and its row.
TokensAreCounted ==
    \A a \in Asset :
        /\ rows[a] <= 1 /\ tokens[a] <= 1 + faults
        /\ run.step = "assetRow" /\ run.asset = a => rows[a] = 0
        /\ rows[a] = 0 /\ ~(run.step = "assetRow" /\ run.asset = a) => tokens[a] <= faults

OneOffer == \A i, j \in Pending : i = j

PassesOnce == \A k \in Role : passes[k] <= 1

WalletsDiffer == \A k, j \in Role : users[k] = users[j] => k = j \/ users[k] = NoWallet

SeedInv ==
    /\ SeedTyped /\ KnownKeysKept /\ RunKeepsKeys
    /\ TokensAreCounted /\ OneOffer /\ WalletsDiffer /\ PassesOnce

-----------------------------------------------------------------------------
(* What the steps have in common. *)

LEMMA Assumed ==
  /\ Applicant \notin Key /\ NoKey \notin Key /\ NoWallet \notin Wallet /\ NoWallet \notin Own
  /\ Handed \in Asset /\ NoAsset \notin Asset /\ Own \subseteq Wallet
  BY SeedAssumption

LEMMA IdleTyped ==
  /\ IsRun(Idle) /\ Idle.step = "off"
  /\ Unset \in [Role -> AnyWallet] /\ \A k \in Role : Unset[k] = NoWallet
<1>1. Unset \in [Role -> AnyWallet] /\ \A k \in Role : Unset[k] = NoWallet
  BY DEF Unset, AnyWallet
<1>2. DOMAIN Idle = Fields /\ Idle.address = Unset /\ Idle.stored = Unset
      /\ Idle.generated = {} /\ Idle.step = "off"
  BY DEF Idle, Fields
<1> QED
  BY <1>1, <1>2 DEF IsRun

\* A run goes on to another step.
LEMMA GotoFacts ==
  ASSUME SeedTyped, NEW step, NEW todo, Goto(step, todo)
  PROVE  /\ IsRun(run)' /\ run'.step = step
         /\ run'.address = run.address /\ run'.generated = run.generated
         /\ run'.asset = run.asset
  BY DEF SeedTyped, Goto, IsRun, Fields

\* Where a run is, without keys to write, does not matter for the keys.
LEMMA KeysKept ==
  ASSUME SeedInv, UNCHANGED <<file, mishap>>,
         \/ run'.step = "off"
         \/ /\ run'.step # "keys" /\ run.step \notin {"off", "keys"}
            /\ run'.address = run.address /\ run'.generated = run.generated
         \/ UNCHANGED run
  PROVE  RunKeepsKeys'
  BY DEF SeedInv, RunKeepsKeys, InFile

-----------------------------------------------------------------------------
(* The beginning of a run. *)

\* What is known of a role: a wallet of the operator's, one whose key is in the
\* file, or nothing, and then there was nothing to read.
LEMMA KnownIsKept ==
  ASSUME SeedInv, NEW flags \in Flags, NEW stored \in {file, Unset},
         NEW p \in Persons(flags, stored), NEW k \in Role
  PROVE  /\ KnownWallet(flags, stored, p, k) \in AnyWallet
         /\ ~mishap => \/ KnownWallet(flags, stored, p, k) \in Own \cup {NoWallet}
                       \/ InFile(KnownWallet(flags, stored, p, k))
         /\ KnownWallet(flags, stored, p, k) = NoWallet => stored[k] = NoWallet
<1>1. /\ users \in [Role -> AnyWallet] /\ file \in [Role -> AnyWallet]
      /\ request.wallet \in AnyWallet /\ Unset \in [Role -> AnyWallet]
      /\ \A j \in Role : Unset[j] = NoWallet
  BY DEF SeedInv, SeedTyped, Unset, AnyWallet
<1>2. flags[k] \in Own \cup {file[j] : j \in Role} \cup {NoWallet}
  BY DEF Flags
<1>3. /\ Supplied(flags, stored, k) \in AnyWallet
      /\ Supplied(flags, stored, k) \in Own \cup {NoWallet} \/ InFile(Supplied(flags, stored, k))
      /\ Supplied(flags, stored, k) = NoWallet => stored[k] = NoWallet
  BY <1>1, <1>2, Assumed DEF Supplied, InFile, AnyWallet
<1>4. CASE k = Applicant
  <2>1. ~mishap => request.wallet \in Own \cup {NoWallet} \/ InFile(request.wallet)
    BY DEF SeedInv, KnownKeysKept, InUse, InFile
  <2>2. request.status # "NONE" => request.wallet # NoWallet
    BY Assumed DEF SeedInv, SeedTyped
  <2> QED
    BY <1>1, <1>3, <1>4, <2>1, <2>2 DEF KnownWallet
<1>5. CASE k # Applicant
  <2>1. k \in Key /\ p[k] \in Existing(flags, stored, k) \cup {NoKey}
    BY <1>5 DEF Role, Persons
  <2>2. p[k] # NoKey => p[k] \in Role /\ users[p[k]] # NoWallet
    BY <2>1 DEF Existing
  <2>3. p[k] # NoKey => (~mishap => users[p[k]] \in Own \cup {NoWallet} \/ InFile(users[p[k]]))
    BY <2>2 DEF SeedInv, KnownKeysKept, InUse, InFile
  <2> QED
    BY <1>1, <1>3, <1>5, <2>2, <2>3 DEF KnownWallet
<1> QED
  BY <1>4, <1>5

Known(flags, stored, p) == [k \in Role |-> KnownWallet(flags, stored, p, k)]
New(flags, stored, p) == {k \in Role : Known(flags, stored, p)[k] = NoWallet}

Begins(mode, stored, p, known, new, fresh) ==
    run' = [Idle EXCEPT !.step = "keys", !.mode = mode, !.person = p,
               !.address = [k \in Role |-> IF k \in new THEN fresh[k] ELSE known[k]],
               !.stored = stored, !.generated = new,
               !.again = request.status # "NONE" \/ users[Applicant] # NoWallet]

LEMMA StartKeeps ==
  ASSUME SeedInv, NEW mode \in {"onchain", "offchain"}, NEW flags \in Flags, Start(mode, flags)
  PROVE  SeedInv'
<1>1. UNCHANGED <<database, tokens, file, mishap>> /\ run.step = "off"
  BY DEF Start
<1>2. PICK stored \in {file, Unset} : ReadWalletFile(stored) /\ StartWith(mode, flags, stored)
  BY DEF Start
<1>3. PICK p \in Persons(flags, stored) :
             \E fresh \in [New(flags, stored, p) -> Wallet \ (Own \cup Taken)] :
                Begins(mode, stored, p, Known(flags, stored, p), New(flags, stored, p), fresh)
  BY <1>2 DEF StartWith, Known, New, Begins
<1>4. PICK known \in [Role -> AnyWallet] :
          /\ known = Known(flags, stored, p)
          /\ \A k \in Role : known[k] = KnownWallet(flags, stored, p, k)
  <2>1. \A k \in Role : KnownWallet(flags, stored, p, k) \in AnyWallet
    BY KnownIsKept
  <2>2. Known(flags, stored, p) \in [Role -> AnyWallet]
    BY <2>1 DEF Known
  <2>3. \A k \in Role : Known(flags, stored, p)[k] = KnownWallet(flags, stored, p, k)
    BY DEF Known
  <2> QED
    BY <2>2, <2>3
<1>5. PICK new \in SUBSET Role :
          new = New(flags, stored, p) /\ \A k \in Role : k \in new <=> known[k] = NoWallet
  <2>1. New(flags, stored, p) \in SUBSET Role
    BY DEF New
  <2>2. \A k \in Role : k \in New(flags, stored, p) <=> known[k] = NoWallet
    BY <1>4 DEF New
  <2> QED
    BY <2>1, <2>2
<1>6. PICK fresh \in [new -> Wallet \ (Own \cup Taken)] :
          Begins(mode, stored, p, known, new, fresh)
  BY <1>3, <1>4, <1>5
<1>7. PICK address \in [Role -> Wallet] :
          address = [k \in Role |-> IF k \in new THEN fresh[k] ELSE known[k]]
  <2>1. [k \in Role |-> IF k \in new THEN fresh[k] ELSE known[k]] \in [Role -> Wallet]
    BY <1>5 DEF AnyWallet
  <2> QED
    BY <2>1
<1>8. /\ run'.step = "keys" /\ run'.address = address /\ run'.generated = new
      /\ run'.stored = stored /\ DOMAIN run' = Fields
  BY <1>6, <1>7, IdleTyped DEF Begins, IsRun, Fields
<1>9. faults' \in Nat /\ faults' >= faults /\ stored \in [Role -> AnyWallet]
  BY <1>2, IdleTyped DEF SeedInv, SeedTyped, ReadWalletFile, Fault, Unset, AnyWallet
<1>10. SeedTyped'
  BY <1>1, <1>8, <1>9 DEF SeedInv, SeedTyped, database, IsRun, AnyWallet
<1>11. KnownKeysKept'
  BY <1>1 DEF SeedInv, KnownKeysKept, database, InUse, InFile
<1>12. RunKeepsKeys'
  <2>1. \A k \in new : stored[k] = NoWallet
    BY <1>4, <1>5, KnownIsKept
  <2>2. ASSUME NEW k \in Role \ new, ~mishap, address[k] \notin Own PROVE InFile(address[k])
    <3>1. address[k] = known[k] /\ known[k] = KnownWallet(flags, stored, p, k)
          /\ known[k] # NoWallet
      BY <1>4, <1>5, <1>7
    <3> QED
      BY <2>2, <3>1, KnownIsKept
  <2> QED
    BY <1>1, <1>8, <2>1, <2>2 DEF RunKeepsKeys, InFile
<1>13. TokensAreCounted'
  BY <1>1, <1>8, <1>9 DEF SeedInv, SeedTyped, TokensAreCounted, database
<1>14. OneOffer' /\ WalletsDiffer' /\ PassesOnce'
  BY <1>1 DEF SeedInv, PassesOnce, OneOffer, WalletsDiffer, Pending, database
<1> QED
  BY <1>10, <1>11, <1>12, <1>13, <1>14 DEF SeedInv

\* The keys that were generated are written, in places that are free if what was
\* read is what was there.
LEMMA PersistKeeps ==
  ASSUME SeedInv, PersistKeys
  PROVE  SeedInv'
<1>1. /\ UNCHANGED <<database, tokens, faults>> /\ run.step = "keys"
      /\ IsRun(run)' /\ run'.step = "identities"
      /\ run'.address = run.address /\ run'.generated = run.generated
  BY GotoFacts DEF SeedInv, PersistKeys
<1>2. /\ file \in [Role -> AnyWallet] /\ run.address \in [Role -> Wallet]
      /\ run.stored \in [Role -> AnyWallet] /\ run.generated \subseteq Role
      /\ \A k \in run.generated : run.stored[k] = NoWallet
      /\ ~mishap => \A k \in Role : run.address[k] \notin Own =>
             InFile(run.address[k]) \/ k \in run.generated
      /\ \A k \in Role : run.address[k] # NoWallet
  BY <1>1, Assumed DEF SeedInv, SeedTyped, IsRun, RunKeepsKeys
<1>3. /\ file' \in [Role -> AnyWallet] /\ mishap' \in BOOLEAN
      /\ \A k \in run.generated : file'[k] = run.address[k]
      /\ mishap => mishap'
      /\ ~mishap' => \A k \in Role \ run.generated : file'[k] = file[k]
      /\ ~mishap' => \A k \in run.generated : file[k] = NoWallet
  <2>1. CASE run.generated = {}
    BY <1>2, <2>1 DEF PersistKeys, SeedInv, SeedTyped
  <2>2. CASE run.generated # {}
    <3>1. file' = [k \in Role |-> IF k \in run.generated THEN run.address[k] ELSE run.stored[k]]
          /\ mishap' = (mishap \/ run.stored # file)
      BY <2>2 DEF PersistKeys, Saved
    <3>2. mishap \in BOOLEAN
      BY DEF SeedInv, SeedTyped
    <3>3. file' \in [Role -> AnyWallet]
          /\ \A k \in Role : file'[k] = IF k \in run.generated THEN run.address[k] ELSE run.stored[k]
      BY <1>2, <3>1 DEF AnyWallet
    <3>4. /\ mishap' \in BOOLEAN /\ (mishap => mishap')
          /\ ~mishap' => run.stored = file
      BY <3>1, <3>2
    <3> QED
      BY <1>2, <3>3, <3>4
  <2> QED
    BY <2>1, <2>2
<1>4. ASSUME ~mishap', NEW w, InFile(w), w # NoWallet PROVE InFile(w)'
  BY <1>2, <1>3, <1>4 DEF InFile
<1>5. SeedTyped'
  BY <1>1, <1>3 DEF SeedInv, SeedTyped, database
<1>6. KnownKeysKept'
  <2>1. InUse' = InUse
    BY <1>1 DEF InUse, database
  <2>2. ASSUME ~mishap', NEW w \in InUse \ (Own \cup {NoWallet}) PROVE InFile(w)'
    BY <1>3, <1>4, <2>2 DEF SeedInv, KnownKeysKept
  <2> QED
    BY <2>1, <2>2 DEF KnownKeysKept
<1>7. RunKeepsKeys'
  <2>1. ASSUME ~mishap', NEW k \in Role, run.address[k] \notin Own PROVE InFile(run.address[k])'
    <3>1. CASE k \in run.generated
      BY <1>1, <1>3, <3>1 DEF InFile
    <3>2. CASE k \notin run.generated
      <4>1. PICK w \in Wallet : w = run.address[k]
        BY <1>2
      <4>2. InFile(w) /\ w # NoWallet
        BY <1>2, <1>3, <2>1, <3>2, <4>1
      <4>3. InFile(w)'
        BY <1>4, <2>1, <4>2
      <4>4. run'.address[k] = w
        BY <1>1, <4>1
      <4> QED
        BY <1>1, <4>1, <4>3 DEF InFile
    <3> QED
      BY <3>1, <3>2
  <2> QED
    BY <1>1, <1>2, <1>3, <2>1 DEF RunKeepsKeys, InFile
<1>8. TokensAreCounted' /\ OneOffer' /\ WalletsDiffer' /\ PassesOnce'
  BY <1>1 DEF SeedInv, PassesOnce, TokensAreCounted, OneOffer, WalletsDiffer, Pending, database
<1> QED
  BY <1>5, <1>6, <1>7, <1>8 DEF SeedInv

-----------------------------------------------------------------------------
(* The steps of a run that write to the database or to the chain. *)

\* Who is created has a wallet nobody has, and its key is in the file.
LEMMA CreateIdentityKeeps ==
  ASSUME SeedInv, NEW k \in Key, CreateIdentity(k)
  PROVE  SeedInv'
<1>1. /\ UNCHANGED <<request, zoned, rows, moved, transfers, passes, logged,
                     tokens, file, mishap, faults>>
      /\ run.step = "identities" /\ \A j \in Role : users[j] # run.address[k]
      /\ users' = [users EXCEPT ![k] = run.address[k]]
  BY DEF CreateIdentity
<1>2. IsRun(run)' /\ run'.step = run.step /\ run'.address = run.address
      /\ run'.generated = run.generated
  BY DEF SeedInv, SeedTyped, IsRun, Fields, CreateIdentity
<1>3. k \in Role /\ run.address[k] \in Wallet /\ users \in [Role -> AnyWallet]
      /\ (~mishap => run.address[k] \in Own \/ InFile(run.address[k]))
  BY <1>1 DEF SeedInv, SeedTyped, RunKeepsKeys, Role
<1>4. users' \in [Role -> AnyWallet] /\ users'[k] = run.address[k]
      /\ \A j \in Role \ {k} : users'[j] = users[j]
  BY <1>1, <1>3 DEF AnyWallet
<1>5. SeedTyped'
  BY <1>1, <1>2, <1>4 DEF SeedInv, SeedTyped
<1>6. KnownKeysKept'
  BY <1>1, <1>3, <1>4, <1>2 DEF SeedInv, KnownKeysKept, InUse, InFile
<1>7. RunKeepsKeys'
  BY <1>1, <1>2, KeysKept
<1>8. WalletsDiffer'
  BY <1>1, <1>4 DEF PassesOnce, SeedInv, WalletsDiffer
<1>9. TokensAreCounted' /\ OneOffer' /\ PassesOnce'
  BY <1>1, <1>2 DEF SeedInv, TokensAreCounted, OneOffer, PassesOnce, Pending
<1> QED
  BY <1>5, <1>6, <1>7, <1>8, <1>9 DEF SeedInv

\* A step of the run that leaves identities, assets and the transfer alone.
LEMMA MinorSteps ==
  ASSUME SeedInv, UNCHANGED <<users, request, rows, tokens, transfers, file, mishap, faults>>,
         IsRun(run)', passes' \in [Role -> Nat], PassesOnce',
         run.step # "assetRow", run'.step # "assetRow",
         \/ run'.step = "off"
         \/ /\ run'.step # "keys" /\ run.step \notin {"off", "keys"}
            /\ run'.address = run.address /\ run'.generated = run.generated
  PROVE  SeedInv'
<1>1. RunKeepsKeys'
  BY KeysKept
<1>2. SeedTyped' /\ KnownKeysKept' /\ OneOffer' /\ WalletsDiffer' /\ TokensAreCounted'
  BY DEF PassesOnce, SeedInv, SeedTyped, KnownKeysKept, InUse, InFile, OneOffer, WalletsDiffer, Pending, TokensAreCounted
<1> QED
  BY <1>1, <1>2 DEF SeedInv

LEMMA MinorStepsKeep ==
  ASSUME SeedInv,
         \/ LogIdentities \/ SeedZones \/ AssetsDone \/ LogTransfer \/ SeedPass
         \/ \E a \in Asset : SkipAsset(a) \/ LogAsset(a)
         \/ WalletClash
  PROVE  SeedInv'
<1> USE DEF database
<1>1. CASE LogIdentities
  <2>1. /\ UNCHANGED <<users, request, rows, tokens, transfers, passes, file, mishap, faults>>
        /\ run.step = "identities" /\ Goto("zones", {})
    BY <1>1 DEF LogIdentities
  <2> QED
    BY <2>1, GotoFacts, MinorSteps DEF SeedInv, SeedTyped, PassesOnce
<1>2. CASE SeedZones
  <2>1. /\ UNCHANGED <<users, request, rows, tokens, transfers, passes, file, mishap, faults>>
        /\ run.step = "zones" /\ Goto("assets", Asset)
    BY <1>2 DEF SeedZones
  <2> QED
    BY <2>1, GotoFacts, MinorSteps DEF SeedInv, SeedTyped, PassesOnce
<1>3. CASE AssetsDone
  <2>1. /\ UNCHANGED <<users, request, rows, tokens, transfers, passes, file, mishap, faults>>
        /\ run.step = "assets" /\ Goto("transfer", {})
    BY <1>3 DEF AssetsDone
  <2> QED
    BY <2>1, GotoFacts, MinorSteps DEF SeedInv, SeedTyped, PassesOnce
<1>4. CASE LogTransfer
  <2>1. /\ UNCHANGED <<users, request, rows, tokens, transfers, passes, file, mishap, faults>>
        /\ run.step = "transferLog" /\ Goto("pass", {})
    BY <1>4 DEF LogTransfer
  <2> QED
    BY <2>1, GotoFacts, MinorSteps DEF SeedInv, SeedTyped, PassesOnce
<1>5. CASE SeedPass
  <2>1. /\ UNCHANGED <<users, request, rows, tokens, transfers, file, mishap, faults>>
        /\ run.step = "pass" /\ Goto("request", {})
        /\ passes' = [passes EXCEPT ![run.person[PassUser]] = IF @ = 0 THEN 1 ELSE @]
    BY <1>5 DEF SeedPass
  <2>2. passes' \in [Role -> Nat] /\ PassesOnce'
    <3>1. passes \in [Role -> Nat] /\ \A k \in Role : passes[k] <= 1
      BY DEF SeedInv, SeedTyped, PassesOnce
    <3>2. PICK x : x = run.person[PassUser]
      OBVIOUS
    <3>3. passes' = [passes EXCEPT ![x] = IF @ = 0 THEN 1 ELSE @]
      BY <2>1, <3>2
    <3>4. CASE x \in Role
      <4>1. /\ passes' \in [Role -> Nat] /\ passes'[x] = IF passes[x] = 0 THEN 1 ELSE passes[x]
            /\ \A k \in Role \ {x} : passes'[k] = passes[k]
        BY <3>1, <3>3, <3>4
      <4> QED
        BY <3>1, <4>1 DEF PassesOnce
    <3>5. CASE x \notin Role
      <4>1. passes' = passes
        BY <3>1, <3>3, <3>5
      <4> QED
        BY <3>1, <4>1 DEF PassesOnce
    <3> QED
      BY <3>4, <3>5
  <2> QED
    BY <2>1, <2>2, GotoFacts, MinorSteps DEF SeedInv, SeedTyped
<1>6. CASE \E a \in Asset : SkipAsset(a) \/ LogAsset(a)
  <2>1. /\ UNCHANGED <<users, request, rows, tokens, transfers, passes, file, mishap, faults>>
        /\ run.step \in {"assets", "assetLog"} /\ run'.step = "assets"
        /\ run'.address = run.address /\ run'.generated = run.generated /\ IsRun(run)'
    BY <1>6 DEF SkipAsset, LogAsset, SeedInv, SeedTyped, IsRun, Fields
  <2> QED
    BY <2>1, MinorSteps DEF SeedInv, SeedTyped, PassesOnce
<1>7. CASE WalletClash
  <2>1. /\ UNCHANGED <<users, request, rows, tokens, transfers, passes, file, mishap, faults>>
        /\ run.step = "identities" /\ IsRun(run)' /\ run'.step = "off"
    BY <1>7, IdleTyped DEF WalletClash
  <2> QED
    BY <2>1, MinorSteps DEF SeedInv, SeedTyped, PassesOnce
<1> QED
  BY <1>1, <1>2, <1>3, <1>4, <1>5, <1>6, <1>7

\* A token, of an asset without a row.
LEMMA MintAssetKeeps ==
  ASSUME SeedInv, NEW a \in Asset, MintAsset(a)
  PROVE  SeedInv'
<1>1. /\ UNCHANGED <<database, file, mishap, faults>>
      /\ run.step = "assets" /\ rows[a] = 0
      /\ tokens' = [tokens EXCEPT ![a] = @ + 1]
  BY DEF MintAsset, Seeded, SeedInv, SeedTyped
<1>2. IsRun(run)' /\ run'.step = "assetRow" /\ run'.asset = a /\ run'.address = run.address
      /\ run'.generated = run.generated
  BY DEF SeedInv, SeedTyped, IsRun, Fields, MintAsset
<1>3. SeedTyped'
  BY <1>1, <1>2 DEF SeedInv, SeedTyped, database
<1>4. RunKeepsKeys'
  BY <1>1, <1>2, KeysKept
<1>5. TokensAreCounted'
  BY <1>1, <1>2 DEF SeedInv, SeedTyped, TokensAreCounted, database
<1>6. KnownKeysKept' /\ OneOffer' /\ WalletsDiffer' /\ PassesOnce'
  BY <1>1 DEF PassesOnce, SeedInv, KnownKeysKept, InUse, InFile, OneOffer, WalletsDiffer, Pending, database
<1> QED
  BY <1>3, <1>4, <1>5, <1>6 DEF SeedInv

LEMMA AssetRowKeeps ==
  ASSUME SeedInv, NEW a \in Asset, AssetRow(a)
  PROVE  SeedInv'
<1>1. /\ UNCHANGED <<users, request, transfers, passes, tokens, file, mishap, faults>>
      /\ rows' = [rows EXCEPT ![a] = @ + 1] /\ rows[a] = 0
      /\ run.step \in {"assets", "assetRow"}
      /\ run.step = "assetRow" => run.asset = a
  BY DEF AssetRow, Seeded, SeedInv, SeedTyped, TokensAreCounted
<1>2. IsRun(run)' /\ run'.step \in {"assets", "assetLog"} /\ run'.address = run.address
      /\ run'.generated = run.generated
  BY DEF SeedInv, SeedTyped, IsRun, Fields, AssetRow
<1>3. SeedTyped'
  BY <1>1, <1>2 DEF SeedInv, SeedTyped
<1>4. RunKeepsKeys'
  BY <1>1, <1>2, KeysKept
<1>5. TokensAreCounted'
  BY <1>1, <1>2 DEF SeedInv, SeedTyped, TokensAreCounted
<1>6. KnownKeysKept' /\ OneOffer' /\ WalletsDiffer' /\ PassesOnce'
  BY <1>1 DEF PassesOnce, SeedInv, KnownKeysKept, InUse, InFile, OneOffer, WalletsDiffer, Pending
<1> QED
  BY <1>3, <1>4, <1>5, <1>6 DEF SeedInv

\* Handed is offered when no offer is pending.
LEMMA SeedTransferKeeps ==
  ASSUME SeedInv, SeedTransfer
  PROVE  SeedInv'
<1>1. /\ UNCHANGED <<users, request, rows, passes, tokens, file, mishap, faults>>
      /\ run.step = "transfer" /\ IsRun(run)' /\ run'.step \in {"pass", "transferLog"}
      /\ run'.address = run.address
      /\ run'.generated = run.generated
  BY GotoFacts DEF SeedTransfer, SeedInv
<1>2. CASE UNCHANGED transfers
  BY <1>1, <1>2, MinorSteps DEF SeedInv, SeedTyped, PassesOnce
<1>3. CASE Pending = {} /\ transfers' = Append(transfers, "PENDING")
  <2>1. transfers \in Seq(Decision)
    BY DEF SeedInv, SeedTyped
  <2>2. /\ transfers' \in Seq(Decision) /\ Len(transfers') = Len(transfers) + 1
        /\ \A i \in 1..Len(transfers) : transfers'[i] = transfers[i]
    BY <1>3, <2>1 DEF Decision
  <2>3. \A i \in Pending' : i = Len(transfers) + 1
    BY <1>3, <2>1, <2>2 DEF Pending
  <2>4. OneOffer'
    BY <2>3 DEF OneOffer
  <2>5. SeedTyped'
    BY <1>1, <2>2 DEF SeedInv, SeedTyped
  <2>6. RunKeepsKeys'
    BY <1>1, KeysKept
  <2>7. KnownKeysKept' /\ TokensAreCounted' /\ WalletsDiffer' /\ PassesOnce'
    BY <1>1 DEF PassesOnce, SeedInv, KnownKeysKept, InUse, InFile, WalletsDiffer, TokensAreCounted
  <2> QED
    BY <2>4, <2>5, <2>6, <2>7 DEF SeedInv
<1> QED
  BY <1>2, <1>3 DEF SeedTransfer

\* The applicant's wallet is one whose key is in the file.
LEMMA SeedRequestKeeps ==
  ASSUME SeedInv, SeedRequest
  PROVE  SeedInv'
<1>1. /\ UNCHANGED <<users, rows, transfers, passes, tokens, file, mishap, faults>>
      /\ run.step = "request" /\ IsRun(run)' /\ run'.step = "off"
  BY IdleTyped DEF SeedRequest
<1>2. /\ run.address \in [Role -> Wallet] /\ Applicant \in Role
      /\ ~mishap => run.address[Applicant] \in Own \/ InFile(run.address[Applicant])
  BY <1>1 DEF SeedInv, RunKeepsKeys, Role
<1>3. CASE UNCHANGED request
  BY <1>1, <1>3, MinorSteps DEF SeedInv, SeedTyped, PassesOnce
<1>4. CASE request' = [status |-> "PENDING", wallet |-> run.address[Applicant]]
  <2>1. SeedTyped'
    BY <1>1, <1>2, <1>4 DEF SeedInv, SeedTyped, AnyWallet
  <2>2. KnownKeysKept'
    BY <1>1, <1>2, <1>4 DEF SeedInv, KnownKeysKept, InUse, InFile
  <2>3. RunKeepsKeys'
    BY <1>1, KeysKept
  <2>4. TokensAreCounted' /\ OneOffer' /\ WalletsDiffer' /\ PassesOnce'
    BY <1>1 DEF PassesOnce, SeedInv, TokensAreCounted, OneOffer, WalletsDiffer, Pending
  <2> QED
    BY <2>1, <2>2, <2>3, <2>4 DEF SeedInv
<1> QED
  BY <1>3, <1>4 DEF SeedRequest

-----------------------------------------------------------------------------
(* Failures, and the rehearsal between two runs. *)

LEMMA FailsKeeps ==
  ASSUME SeedInv, Fails
  PROVE  SeedInv'
<1>1. /\ UNCHANGED database /\ faults' = faults + 1 /\ run.step # "off"
      /\ IsRun(run)' /\ run'.step = "off"
      /\ UNCHANGED <<file, mishap>> \/ (file' = Unset /\ mishap' = TRUE)
  BY IdleTyped DEF Fails, Fault
<1>2. \/ UNCHANGED tokens
      \/ \E a \in Asset : run.step = "assets" /\ rows[a] = 0
                          /\ tokens' = [tokens EXCEPT ![a] = @ + 1]
  <2>1. \A a \in Asset : ~Seeded(a) => rows[a] = 0
    BY DEF Seeded, SeedInv, SeedTyped
  <2>2. \/ UNCHANGED tokens
        \/ \E a \in Asset : run.step = "assets" /\ ~Seeded(a)
                            /\ tokens' = [tokens EXCEPT ![a] = @ + 1]
    BY DEF Fails
  <2> QED
    BY <2>1, <2>2
<1>3. tokens' \in [Asset -> Nat] /\ faults' \in Nat
  <2>1. tokens \in [Asset -> Nat] /\ faults \in Nat
    BY DEF SeedInv, SeedTyped
  <2>2. ASSUME NEW a \in Asset, tokens' = [tokens EXCEPT ![a] = @ + 1]
        PROVE  tokens' \in [Asset -> Nat]
    BY <2>1, <2>2
  <2> QED
    BY <1>1, <1>2, <2>1, <2>2
<1>4. SeedTyped'
  BY <1>1, <1>3, IdleTyped DEF SeedInv, SeedTyped, database
<1>5. RunKeepsKeys'
  BY <1>1 DEF RunKeepsKeys
<1>6. TokensAreCounted'
  <2>1. CASE UNCHANGED tokens
    BY <1>1, <2>1 DEF SeedInv, SeedTyped, TokensAreCounted, database
  <2>2. ASSUME NEW a \in Asset, run.step = "assets", rows[a] = 0,
               tokens' = [tokens EXCEPT ![a] = @ + 1]
        PROVE  TokensAreCounted'
    BY <1>1, <2>2 DEF SeedInv, SeedTyped, TokensAreCounted, database
  <2> QED
    BY <1>2, <2>1, <2>2
<1>7. KnownKeysKept' /\ OneOffer' /\ WalletsDiffer' /\ PassesOnce'
  BY <1>1 DEF PassesOnce, SeedInv, KnownKeysKept, InUse, InFile, OneOffer, WalletsDiffer, Pending, database
<1> QED
  BY <1>4, <1>5, <1>6, <1>7 DEF SeedInv

LEMMA RehearseKeeps ==
  ASSUME SeedInv, Rehearse
  PROVE  SeedInv'
<1>1. UNCHANGED <<rows, passes, tokens, file, mishap, run, faults>>
  BY DEF Rehearse
<1>2. \/ UNCHANGED users
      \/ \E w \in Own \cup {request.wallet} :
            w \notin {users[k] : k \in Role} /\ users' = [users EXCEPT ![Applicant] = w]
            /\ (w = request.wallet => w \in Own \/ request.status = "PENDING")
  BY DEF Rehearse, Enrol
<1>3. /\ request' \in [status : {"NONE", "PENDING", "DECIDED"}, wallet : AnyWallet]
      /\ request'.wallet = request.wallet
      /\ request'.status # "NONE" => request.wallet \in Wallet
  <2>1. \/ UNCHANGED request
        \/ request.status = "PENDING" /\ request' = [request EXCEPT !.status = "DECIDED"]
    BY DEF Rehearse
  <2> QED
    BY <2>1 DEF SeedInv, SeedTyped
<1>4. transfers' \in Seq(Decision) /\ Pending' \subseteq Pending
  <2>1. CASE UNCHANGED transfers
    BY <2>1 DEF SeedInv, SeedTyped, Pending
  <2>2. ASSUME NEW i \in Pending, NEW s \in {"REJECTED", "EXECUTED"},
               transfers' = [transfers EXCEPT ![i] = s]
        PROVE  transfers' \in Seq(Decision) /\ Pending' \subseteq Pending
    <3>1. transfers \in Seq(Decision) /\ s \in Decision /\ i \in 1..Len(transfers) /\ s # "PENDING"
      BY <2>2 DEF SeedInv, SeedTyped, Pending, Decision
    <3>2. transfers' \in Seq(Decision)
      BY <2>2, <3>1
    <3>3. DOMAIN transfers' = DOMAIN transfers
          /\ \A j \in DOMAIN transfers : transfers'[j] = IF j = i THEN s ELSE transfers[j]
      BY <2>2, <3>1
    <3> QED
      BY <3>1, <3>2, <3>3 DEF Pending
  <2>3. \/ UNCHANGED transfers
        \/ \E i \in Pending :
              \/ transfers' = [transfers EXCEPT ![i] = "REJECTED"]
              \/ transfers' = [transfers EXCEPT ![i] = "EXECUTED"]
    BY DEF Rehearse
  <2> QED
    BY <2>1, <2>2, <2>3
<1>5. /\ users' \in [Role -> AnyWallet] /\ WalletsDiffer'
      /\ \A k \in Role : users'[k] \in Own \cup InUse
  <2>1. /\ users \in [Role -> AnyWallet] /\ Own \subseteq AnyWallet /\ request.wallet \in AnyWallet
        /\ WalletsDiffer /\ \A k \in Role : users[k] \in InUse
        /\ request.wallet \in InUse
    BY Assumed DEF SeedInv, SeedTyped, AnyWallet, InUse
  <2>2. CASE UNCHANGED users
    BY <2>1, <2>2 DEF WalletsDiffer
  <2>3. ASSUME NEW w \in Own \cup {request.wallet}, w \notin {users[k] : k \in Role},
               users' = [users EXCEPT ![Applicant] = w]
        PROVE  users' \in [Role -> AnyWallet] /\ WalletsDiffer'
               /\ \A k \in Role : users'[k] \in Own \cup InUse
    <3>1. /\ \A k \in Role : users'[k] = IF k = Applicant THEN w ELSE users[k]
          /\ users' \in [Role -> AnyWallet]
      BY <2>1, <2>3
    <3> QED
      BY <2>1, <2>3, <3>1 DEF WalletsDiffer
  <2> QED
    BY <1>2, <2>2, <2>3
<1>6. SeedTyped'
  BY <1>1, <1>3, <1>4, <1>5 DEF SeedInv, SeedTyped
<1>7. KnownKeysKept'
  <2>1. request.wallet \in InUse
    BY DEF InUse
  <2>2. InUse' \subseteq Own \cup InUse
    BY <1>3, <1>5, <2>1 DEF InUse
  <2> QED
    BY <1>1, <2>2 DEF SeedInv, KnownKeysKept, InFile
<1>8. RunKeepsKeys'
  BY <1>1, KeysKept
<1>9. TokensAreCounted' /\ OneOffer' /\ PassesOnce'
  BY <1>1, <1>4 DEF PassesOnce, SeedInv, TokensAreCounted, OneOffer
<1> QED
  BY <1>5, <1>6, <1>7, <1>8, <1>9 DEF SeedInv

-----------------------------------------------------------------------------

LEMMA InitKeeps ==
  ASSUME Init
  PROVE  SeedInv
<1>1. run.step = "off" /\ IsRun(run)
  BY IdleTyped DEF Init
<1>2. SeedTyped
  <2>1. /\ users \in [Role -> AnyWallet] /\ file \in [Role -> AnyWallet]
        /\ passes \in [Role -> Nat] /\ faults \in Nat /\ mishap \in BOOLEAN
    BY IdleTyped DEF Init
  <2>2. /\ rows \in [Asset -> Nat] /\ tokens \in [Asset -> Nat] /\ transfers \in Seq(Decision)
    BY DEF Init
  <2>3. /\ request \in [status : {"NONE", "PENDING", "DECIDED"}, wallet : AnyWallet]
        /\ request.status = "NONE"
    BY DEF Init, AnyWallet
  <2> QED
    BY <1>1, <2>1, <2>2, <2>3 DEF SeedTyped
<1>3. RunKeepsKeys
  BY <1>1 DEF RunKeepsKeys
<1>4. KnownKeysKept /\ OneOffer /\ WalletsDiffer /\ TokensAreCounted /\ PassesOnce
  BY <1>1, IdleTyped DEF PassesOnce, Init, KnownKeysKept, InUse, InFile, OneOffer, WalletsDiffer, TokensAreCounted, Pending
<1> QED
  BY <1>2, <1>3, <1>4 DEF SeedInv

LEMMA StutterKeeps ==
  ASSUME SeedInv, UNCHANGED vars
  PROVE  SeedInv'
<1>1. UNCHANGED <<users, request, rows, tokens, transfers, passes, file, mishap, run, faults>>
  BY DEF vars, database
<1> QED
  BY <1>1, KeysKept DEF PassesOnce, SeedInv, SeedTyped, KnownKeysKept, InUse, InFile, OneOffer, WalletsDiffer, Pending,
                        TokensAreCounted

\* The wallets a run uses are known by their keys, tokens are ahead of rows only
\* by failures, and one offer is pending at most.
THEOREM SeedInvHolds == Spec => []SeedInv
<1>1. ASSUME SeedInv, [Next]_vars PROVE SeedInv'
  BY <1>1, StartKeeps, PersistKeeps, CreateIdentityKeeps, MinorStepsKeep, MintAssetKeeps,
     AssetRowKeeps, SeedTransferKeeps, SeedRequestKeeps, FailsKeeps, RehearseKeeps,
     StutterKeeps DEF Next
<1> QED
  BY <1>1, InitKeeps, PTL DEF Spec

\* "Persist generated keys before any write": no key of a wallet that the
\* database knows is lost, unless the key file itself was torn or written over
\* unread; and a run's own keys are in the file before its other writes.
THEOREM KeysAreKeptHolds == Spec => []KeysAreKept
<1>1. SeedInv => KeysAreKept
  BY DEF SeedInv, KnownKeysKept, RunKeepsKeys, KeysAreKept, InFile
<1> QED
  BY <1>1, SeedInvHolds, PTL

\* "Re-running is safe": one asset of a name, one wallet of a person, one pass of
\* the script's for a person, one offer at a time, and a token more than the row
\* only for a failure.
THEOREM RerunAddsNothingHolds == Spec => []RerunAddsNothing
<1>1. ASSUME SeedInv PROVE Cardinality(Pending) <= 1
  <2>1. CASE Pending = {}
    BY <2>1, FS_EmptySet
  <2>2. CASE Pending # {}
    <3>1. PICK i \in Pending : TRUE
      BY <2>2
    <3>2. Pending = {i}
      BY <1>1, <3>1 DEF SeedInv, OneOffer
    <3>3. Cardinality({i}) = 1
      BY FS_Singleton
    <3>4. Cardinality(Pending) = 1
      BY <3>2, <3>3
    <3> QED
      BY <3>4
  <2> QED
    BY <2>1, <2>2
<1>2. SeedInv => RerunAddsNothing
  BY <1>1 DEF PassesOnce, SeedInv, TokensAreCounted, WalletsDiffer, RerunAddsNothing
<1> QED
  BY <1>2, SeedInvHolds, PTL
=============================================================================
