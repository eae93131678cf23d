# BELTAL (TrustChain): a verification development

BELTAL keeps identities, zone access and the custody of defence assets on four
Solidity contracts, with a Node back end in front of them, PostgreSQL as a cache,
and a React portal.  These TLA+ modules model the parts in which order, failure and
concurrency decide whether the system is right.  TLC checks them on small
instances; TLAPS proves the central results for every value of the constants.

Run TLC with `tlc -config <run>.cfg <MC module>` and the proofs with
`tlapm <module>_proofs.tla`, in this directory.

## 1. Inventory

| part | state | operations | interacts with |
|---|---|---|---|
| `IdentityRegistry.sol` | identity records, DID to wallet, authorised callers | register (single, batch), update clearance, revoke | logs to AuditLog; read by AccessControl and AssetNFT |
| `AccessControl.sol` | roles, zones, lockdowns, temporary passes | grant, revoke, createZone, pass, lockdown, canAccessZone | logs to AuditLog; its roles gate AssetNFT |
| `AssetNFT.sol` | custodians, custody history, per-token nonces, maintenance flag | mint, reassignCustody, transferCustody (EIP-712), maintenance, managers | clearance gate reads IdentityRegistry; logs to AuditLog |
| `AuditLog.sol` | append-only entries, authorised callers | logEvent, inside the callers' try/catch | written by the other three |
| `chain.service.js` | the back end's signer | one function per contract call; an error is returned, not thrown | all services to the contracts |
| `transfer.service.js` | TransferRequest, Asset.ownerId | request, approve, reject | database, chain service, `recordEvent` |
| `indexer.service.js` | IndexerCheckpoint, AuditEvent, its copy of the checkpoint | syncOnce on a timer | RPC node, database |
| `audit.service.js` | AuditEvent, PacsBadgeEvent | recordEvent; the unified trail | transfers, assets, assistant |
| `identity.service.js` | User | register, updateRole, updateOrgAssignment, revoke, reinstate | chain service, IPFS |
| `registration.service.js`, `bulkImport.service.js` | RegistrationRequest, User | submit, approve, reject; CSV import in batches | identity and chain services |
| `recovery.service.js` | Guardian, RecoveryRequest, RecoveryApproval | add/remove guardian, request, approve, reject, execute | chain service |
| `asset.service.js`, `reconcile-assets.js` | Asset | mint, record, reconcile, queries | IPFS, chain service |
| `tamper.service.js` | none of its own | verify, simulate an insider, restore from the chain | User, Asset, contracts, dossiers |
| `admin.controller.js`, `pacs.service.js` | FacilityZone, PacsBadgeEvent | upsertZone, setZoneLockdown, badge taps | chain service |
| `auth.service.js`, `nonce.service.js`, middleware | nonce store in memory, JWT | challenge, verify, authenticate, registration status | User |
| `pass.service.js`, `scope.service.js` | CrossSbuPass | issue passes; read scope and action scope | every list and every act |
| `assistant.service.js` | none | rounds of tool calls over the trail | a language model, the audit service |
| frontend | localStorage, React state | sign-in, routes and guards, pages that load and act, dialogs that decide | the API |
| `seed-demo.js` | `.demo-wallets.json` | seeds wallets, chain and tables; meant to be run again | database, contracts |

What is hard, and what makes each part right:

- *Contracts.* A transaction is atomic, so what goes wrong takes a long sequence
  of legal calls: a signature that outlives the custodianship it was given under,
  a DID that moves, a zone configured while locked, a history that no longer
  tells who holds the token.  They are right if identities are not overwritten,
  every signed handover was the custodian's will exactly once, and the log alone
  tells the state.
- *Services in front of the chain* (transfers, identities, onboarding, recovery,
  zones, assets).  A handler awaits the database and the chain several times;
  other handlers run in between, the process may die, a transaction may be
  reverted, a receipt may be lost.  Right means: what is recorded as done was
  mined, cache and chain agree when calls are over, thresholds and second persons
  count in every race, and a retry can finish what failed.
- *Reading* (indexer, trail, tamper check, assistant).  Two things that change are
  read one after the other.  Right means no event skipped or filed twice by the
  loop, no row lost to somebody who pages through the trail, no forged row
  overlooked, and none accused that agreed with the chain all the while: a
  legitimate change in flight is reported, too (`tamper.service.js:46-47`).
- *Sessions, passes, lists.*  A session outlives the facts it was issued on.  Right
  means one session per signature, no service for the revoked, no authority that is
  passed on by a pass, and nothing to decide that cannot be seen.
- *The tab.*  Answers arrive in any order, also after a sign-out.  Right means
  the redirects end on a page of the person whose token is sent, pages come
  to show the newest answer and the outcome of what was done, and what is typed into
  a dialog for one item is not sent for another.

`PROJECT.json` lists the hazards at their lines with the properties that cover
them.

## 2. Modules

```
AuditLog <- IdentityRegistry <- AccessControl <- AssetNFT <- AuditTrail
                                     ^              ^--- Assets <- Integrity
                                     +-- Facility <- Facility_proofs
AuditTrail, Integrity <- Contracts_proofs
Directory <- IdentityService <- Onboarding <- Accounts <- Accounts_proofs
        ^--- Recovery <- Recovery_proofs       Recovery        == implements ==> KeyRotation
TransferService <- TransferService_proofs      TransferService == implements ==> RequestLifecycle
Indexer <- Indexer_proofs      Seed <- Seed_proofs
Sessions <- Passes <- Visibility      Sessions <- Navigation
Trail <- Assistant      Console      Dialogs
Visibility, Navigation, Assistant, Console, Dialogs <- Portal_proofs
```

(`A <- B`: B extends A.)

- `AuditLog`, `IdentityRegistry`, `AccessControl`, `AssetNFT`: one module per
  contract, each extending the ones it calls.  Storage variables keep their
  Solidity names; a function is an action with the sender as first parameter;
  a `require` is a guard, since a reverted transaction changes nothing.
  `AssetNFT` composes them: `Init` is the deployment with the wiring of
  `deploy.js`, `Next` is a transaction to any of them or the passing of time.
  A signature is the message that was signed, in the set `signed`; checking one
  is membership of the digest the contract rebuilds.
- `AuditTrail`: what the log must tell of the contracts' state.
- `RequestLifecycle`: the abstract specification of a transfer request, with
  atomic steps Raise, Decide, Release, Execute.  `TransferService`: the service
  with its handlers split at every await (`pc`, and what the handler has read,
  `call`), the transactions it sent in the order of the signer's nonces, the
  custodian on chain, crashes, database errors and lost receipts.
- `Directory`: what the account services share, that is the user table, who is
  active on chain under which wallet, the role holders, and the calls in progress.
  `Send` is a chain call: done, refused, failed, or done with its receipt lost.
  `IdentityService`, `Onboarding` add the operations of their services, `Accounts`
  puts them behind the routes of two desks.  `configured` has the contracts whose
  addresses the process was started with; a call to another one is skipped without an
  error (`Skip`), so that identities are then created off-chain only
  (`identity.service.js:69-71`), and a `Restart` may change the settings.  Step names are
  the awaits of the code; a name ending in `Warned` means that a chain failure was
  reported and the handler went on.
- `KeyRotation`: the abstract specification of recovery, in which a person's one
  live wallet is retired and another bound, each only with enough vouchers.
  `Recovery`: guardians, requests, votes and the two-transaction `executeRecovery`
  over `Directory`.  The refinement maps `live` to the wallet active on chain.
- `Facility`: zone edits, lockdown toggles and badge taps as handlers over the
  contracts `AccessControl` and `IdentityRegistry` themselves.  `hasContract` says
  whether the process has the address of the first; without it zones are stored
  off-chain only and every tap is denied.  A `Restart` may change it.
- `Assets`: recording and minting assets over the contract `AssetNFT`, and
  `reconcile-assets.js`, which upserts the tokens it lists (`Listed`) over whatever
  row has them and clears the ones it takes for unminted (`Phantom`), without asking
  the chain.  `Integrity`: verification, the simulated insider and the repair over that.
  The verification of an identity reads the chain twice, the hash first
  (`CheckHash`) and then the record (`Compare`).
- `Sessions`: nonce store, sign-in of people and machines, requests in flight, the
  status poll and one browser tab.  `Passes`: cross-SBU passes.  `Visibility`: every
  list and every act with the scope each uses.  `Navigation`: routes, guards and
  redirects of the tab.  `Console`: the pages, with when each one loads, which answers
  it takes and what it does after an act.  `Dialogs`: every dialog in which somebody
  decides about an item, with what it freezes and covers while its call is under way,
  when its inputs are emptied, and the notices of calls that are pending.
- `Trail`: `getAuditTrail` split at its queries.  `Assistant`: `answerQuery` with its
  rounds of tool calls; its answer is the API's, with the queries, of which the panel
  shows the rows only (`AuditAssistantPanel.jsx:59-61`).  `Indexer`: `syncOnce` split at
  its awaits; the chain is the sequence `emitted` of all its events, with the number of
  them at the end of each block in `blocks`, so that a range of blocks is a part of the
  sequence.  `Seed`: the demo seed as one script with its steps, run again and again.
  The key file may be torn while it is written, or be read as an empty one
  (`readWalletFile` swallows every error); `mishap` remembers that it was torn or
  written over unread.  Who stands for a person of the dataset is decided anew in each
  run, by employee code or by wallet and role, and the pass is looked up by that person.
- `MC*`: the instances for TLC.  `*_proofs`: the theorems.

Operators called mutants in their comments are wrong versions of the definition
after them.  Nothing uses them; each shows that the run named in `PROJECT.json`
would notice such a mistake.  Variables called history in their comments are not
in the code: they remember what a property refers to.

## 3. Runs

| cfg | instance and bounds | what it shows |
|---|---|---|
| `MCCustody` | three addresses, two DIDs and hashes, batches of two, one token, four handovers, one deadline that passes | `HistoryMatchesCustodian`, `SignedByPredecessor`, `NoReplay`, `AnchorsAreKept`.  While the clock stands at 1 the registry is used by itself in every order, duplicates within a batch included; afterwards custody moves.  `AnchorsAreKept` is about the active record and about DIDs that lead nowhere, not about a DID another address takes over.  Four handovers are enough for custody to leave a holder, come back and leave again with an old signature at hand |
| `MCAuditTrail` | two addresses, one zone, one token, five log entries | `AccessIsReplayable` (roles, zones and their lockdowns), `CustodyIsReplayable`; five entries allow grant, revoke and grant, or configure, lock and configure |
| `MCTransfer` | four people, one of them a session without a row, one asset on chain, two requests, two handlers, three transactions, one fault | `ClaimExclusive`, `DualAuthorization`, `ExecutedWasMined`, and the refinement `LifecycleSpec`.  Two handlers and two requests give every race of two approvals or of an approval and a rejection, the third transaction a retry after a lost receipt |
| `MCTransferFair` | three people, one asset on chain and one off, two requests, two handlers, no faults, fair | `UnexecutedNeverMoved`, `ClaimsAreResolved` |
| `MCIndexer` | two transactions with up to two events each, four blocks, chunks of four, a node that refuses three blocks at once and lags by one, an API call, one fault, fair | `CoveredUpToCheckpoint`, `RereadingAddsNothing`, `ConfirmedEventsAreFiled`.  Three confirmed blocks make a refused range, two chunks and an error between them |
| `MCAccounts` | three people with a wallet each, two roles, one handler for personnel and one for onboarding, batches of one, one fault | `ApprovedHasIdentity`, `CacheMirrorsChain`, `RowsAreAnchored`, `CleanCallsAgree`.  In one office everybody was seeded and reporting lines change; in the other the first administrator onboards the rest.  Both contracts are configured at first; the one fault may be a restart without the access contract in the one office and without either in the other.  `RowsAreAnchored` allows rows without an anchor only where the registry is not configured; the other two about the chain suppose both contracts.  Calls at the two desks overlap; see the assumptions below |
| `MCLockout` | as `MCAccounts`, two administrators, two handlers for personnel, who do nothing but revoke (`RevokeSpec`) | the two revoke each other; violated: "Never lock everyone out of the admin console" |
| `MCRecovery` | four people, one of whom lost his wallet and has two guardians (the administrator may become a third), threshold 2, two new wallets, two requests, two handlers, one fault | `VouchedByOthers`, `OneLiveWallet`, `CacheFollowsChain`, and the refinement `RotationSpec`.  Two handlers race votes, rejections and executions of two requests for two wallets |
| `MCFacility` | an administrator and an employee, one zone, two handlers, one tap on record, the contract configured or not, one fault or restart | `CacheMirrorsZones`, `NeverSilentlyReopened`, `NoEntryWhileBarred` |
| `MCIntegrity` | an employee and the administrator, two assets that want one token, two handlers, one token that the reconciliation script lists and one that it clears, one fault | `TamperIsCaught`, `NoFalseAlarm`, before and after the asset contract is deployed, with a dossier that is there, is not, or cannot be fetched |
| `MCPortal` | seven parts, one at a time: sign-in, browsing, passes, custody, trail, console, dialogs | `OneSessionPerSignature`, `RevokedAreNotServed`, `SettledIsOwn`, `NoDelegation`, `ActingIsSeeing`, `NothingSkipped`, `EvidenceIsShown`, `NewestIsShown`, `OwnActsAreShown`, `SentAsShown` |
| `MCSeed` | two people of one role and an applicant, one asset, four wallets, one of them the operator's, one flag, two rehearsed transfers, one fault | `KeysAreKept`, `RerunAddsNothing` over any number of runs.  The fault may tear the key file or keep it from being read; the flag may name a wallet of the file or of the operator for another role, so that somebody else stands for `PASS.user`, and the office may enrol the applicant without a request. |

Deadlock checking is off because all these systems may stop: the bounds on time,
tokens, requests, blocks and transactions are reached and nobody calls.
Symmetry is used for interchangeable requests, handlers, people and wallets, only
in runs without a liveness property.

The parts of `MCPortal` share the modules but not the state: each starts from a
state the others could have led to, and leaves the others' variables alone.

- *sign-in*: one person at most, two wallets, two sign-ins, one request, two nonces,
  two sessions, two changes of the identity.  Two sign-ins make a submission that is
  delivered twice and one that is overtaken; two changes make a revocation with a
  reinstatement or a move to the other wallet.
- *browsing*: the routes of the tab with every role, a sign-in about to be answered
  and an approval about to be polled for.
- *passes*: two managers of two units who have signed in and a user; at most two
  passes; one change of an identity.
- *custody*: a manager, a person of another unit with each role in turn, one more user; one
  asset, three transfer requests, two passes, two zones.
- *trail*: three rows of two kinds in two tables, pages of one row, a walk through
  all pages or a question to the assistant with two rounds of two tool uses.
- *console*: every page, three loads, two changes, two calls under way, two things to
  select.  Three loads make two answers in the wrong order and one that is newer.
- *dialogs*: every dialog, two items, two calls under way, three openings.  Two items and
  two openings make a dialog that was left and is open for something else when the
  first answer comes; the third is opened after that answer.

### What the office is assumed to see to

Some properties hold only if calls do not overlap in ways that the code does not
exclude.  These assumptions are guards of the specifications, named, and stated here
because the code breaks the properties without them:

| assumption | where | without it |
|---|---|---|
| `OneCallAtATime` | `Accounts`: no two calls at once about one person or wallet | cache and chain can disagree for good: the handlers write by id what they read before several awaits; an approval and a rejection of one registration both succeed (`registration.service.js:173`) |
| two desks | `MCAccounts`: one personnel call and one onboarding call at a time | two administrators lock each other out (run `MCLockout`); two changes of reporting lines, each sound, close a cycle together (`identity.service.js:221`) |
| `QuorumKept` | `Recovery`: a person keeps `Quorum` guardians who may vote | `approvalThreshold` falls with the number of guardians; the requester counts in it although he may not vote (`recovery.service.js:29`) |
| `Own` | `Recovery`: whoever asks for a wallet possesses it | two people could be bound to one wallet |
| `NoWayBack` | `Recovery`: nobody goes back to a wallet that an execution still waits to revoke | the database names a revoked wallet, without any fault (below) |
| `OnlySam` | `MCRecovery`: one person has guardians | bound on the instance |
| `OneEditorPerZone` | `Facility`: a zone is edited or locked by one call at a time | an edit that has read the row before a lockdown lifts it (`admin.controller.js:257`); this race is a real one, and no property covers it |
| `OneMintPerToken` | `Assets`: assets off chain are not created for one token at once | the second upsert overwrites the first row (`asset.service.js:122`) |
| `NoAdminBadge`, `Planned`, `MaxFlags`, `OneAtATime`, `FewRequests` | MC modules | bounds on the instances |

### Fairness

`TransferService!FairSpec` has weak fairness for every handler's next step and for
mining.  Node resumes a handler when its promise settles, and Prisma and ethers
settle theirs without faults; the chain goes on producing blocks.  No fairness is
assumed for new calls.  `Indexer!FairSpec` has weak fairness for the steps of the
loop: `setInterval` calls `safeSync` again whatever happened, and it never throws.
Faults are bounded, so errors end, and a tick that could find new blocks finds them
in the end: the node does not lag for ever.  No other specification has a liveness
property: where something must come to rest (`Navigation`, `Console`), an invariant
says what holds when nothing is under way.

### Disagreements met on the way

The run `lockout` shows one statement of the repository violated.  Others were found
while modelling, and are excluded by the assumptions above or stated here only:

- `executeRecovery` says it moves the role across (`recovery.service.js:221`); the old
  wallet keeps its role on `AccessControl`.  A re-link that failed cannot be retried
  although its message says so (`:266`): the retry fails at revoking a wallet that is not
  active any more, and the recovery cannot complete.
- `revokeIdentity` takes "not active" for "revoked before" (`identity.service.js:278`) also
  when a recovery has made another wallet of the person active.
- A custody mismatch is reported as tampering (`tamper.service.js`), and two approvals
  mined in one order and committed in the other produce one (`transfer.service.js:328`).
- The indexer recognises a row by transaction and type, so that a transaction with two
  events of one type is filed once (`indexer.service.js:88`), and `recordEvent` adds a second
  row where the indexer was first (`audit.service.js:22`).
- The comment on `reassignCustody` that pending signatures remain valid
  (`AssetNFT.sol:391`) does not hold once custody has moved on; a batch registration is
  logged for address 0 (`IdentityRegistry.sol:136`), so identities cannot be replayed from
  the log.
- Two handlers and three requests leave a person with a wallet in the database that is
  not his live one, in 31 steps none of which fails.  The execution of a first request
  waits to revoke wallet a; the request is rejected, which the execution does not
  notice; a second request moves the person from a to b; a third one moves him back from
  b to a and has re-linked him.  Now the first revokes a, registers c and commits c, and
  the third commits a, which is no longer active (`recovery.service.js:286`).  `NoWayBack`
  excludes it.
- Some dialogs can be left while they save (`TransferApprovals.jsx:59`,
  `IdentityTable.jsx:331`, the forms for identities, assets and zones): the answer then
  closes whichever dialog of the kind is open by then, with what was typed into it.  The
  model reaches this; `SentAsShown` claims the opposite only of the dialogs that stay.
- A lockdown whose transaction failed is recorded as locked (`pacs.service.js:290`).
  One that was mined but whose row was not written (`pacs.service.js:289-297`) is known
  on chain only; the next edit of the zone lifts it and does not say so
  (`admin.controller.js:257-270`), although it re-locks zones "to keep an edit from
  silently reopening" them. `NeverSilentlyReopened` therefore covers, after a fault, the
  zones whose row says lockdown.
- `seed-demo.js:432` writes the generated keys before anything else "so a later failure
  never loses them".  A key file that was torn or cannot be read counts as empty
  (`:315-317`), and the next run with a key to save writes it over (`:435`): the keys of
  earlier runs are lost while the database still knows the wallets.  `KeysAreKept`
  excludes such a `mishap` by name.
- A run of the seed in which another user stands for `PASS.user`, by the wallet and the role
  (`seed-demo.js:386-392`), makes a second pass, for that user (`:643-649`).
- `updateRole` says that submitting a role again completes a revoke that failed part-way
  (`identity.service.js:115-117`).  The row has the new role by then, and only a role
  that differs from it is revoked (`chain.service.js:322`): the old role stays, after a
  call that ends cleanly.  `CleanCallsAgree` is about the role the call itself replaced.
- `registerIdentity` takes over a DID that resolves to another address
  (`IdentityRegistry.sol:92`).
- The assistant's panel drops the queries its evidence was found with
  (`AuditAssistantPanel.jsx:59-61`), which the API returns.
- `getMyAssets` says there is one PENDING request per asset (`asset.service.js:218`);
  two racing requests make two.
- The manager's list of transfers shows requests whose asset he may not open, and the
  picker offers recipients whom `requestTransfer` refuses; `ActingIsSeeing` is the
  opposite direction and holds.

## 4. Proofs

Every safety property that a run checks is a theorem, and so are the two refinements.
The assumptions are those the modules name, which TLC evaluates in every run:
constants are finite where something is counted, texts and null values that decide
something are not confused (`Nothing # "ZONE_LOCKED"`, `NoEvent \notin Row`,
`Person \cap Wallet = {}`), and the guards of the table above.  Each inductive invariant
was checked with TLC on the instance of its run before it was proved.

`Contracts_proofs` is about the contracts and what is read off them.

- *Custody and anchors.*  `TypeOK`, `HistoryMatchesCustodian`, `SignedByPredecessor`,
  `NoReplay` and `AnchorsAreKept`.  The inductive invariant is `CustodyInv`: the first
  four, and `UnmintedIsEmpty`, without which a mint could push onto the history of a
  token that already has one.  Custody and history change only in `Push`, which appends
  the new custodian; a signed entry is pushed only by `TransferCustody`, whose digest
  names the current custodian as `from` and the current nonce, and which then spends
  that nonce.  `AnchorsAreKept` is an action property, with `DidResolvesToAnchored`
  among its parts: each registry operation is shown to keep it, and every other
  transaction leaves the registry alone.
- *The log.*  `AccessIsReplayable` and `CustodyIsReplayable` say what the last entry about
  something tells.  Each transaction either adds no entry about it and leaves it alone,
  or adds one that says how it is now; a batch adds several, of which none is about
  roles, zones or custody.  The invariant that is carried (`RolesTold`, `ZonesTold`,
  `CustodyTold`) says this as "what was said last", for every role, zone and token.
- *The tamper check.*  A verification reads the row, then the chain, then the dossier, and
  is overtaken in between.  `IntegrityInv` rests on one observation: a step changes either
  rows or contracts, never both, so the first change of a pair that agreed makes them
  disagree, and the verification's history `seen` has it (`UnmovedUnlessDrifted`).
  `NoFalseAlarm` and `TamperIsCaught` follow.

`TransferService_proofs` proves for any number of requests, users, assets,
handlers, transactions and faults that `TransferInv` is inductive:
`TypeOK`, `CallsAreGrounded`, `ClaimExclusive`, `DualAuthorization`,
`ExecutedWasMined`.  `CallsAreGrounded` is the strengthening: what a handler
read before its awaits still agrees with the rows where the rest of the call
relies on it.  `ClaimExclusive` needs the claim's WHERE clause; the other two
need `ClaimExclusive`, since `Commit` overwrites its rows unconditionally and is
right only because nobody else can have touched them.  From the invariant follows
`ImplementsLifecycle`: every step of the service maps to a step of the abstract
specification or to a stutter.  `UnexecutedNeverMoved` fails after a lost receipt, as
the run without faults suggests, but not before: `NeverMovedBeforeAFault` says that up to
the first fault every transaction that was not reverted belongs to an executed request
or to a handler that still has the claim (`MovesAreAccounted`).

`Indexer_proofs` proves `CoveredUpToCheckpoint` and `RereadingAddsNothing` for any chain,
confirmation depth, chunk size and faults.  Coverage goes from block to block:
`CoveredBefore(b)` says that every event from the configured block to the beginning of b is
filed or of no known kind, and holds of the block after either checkpoint and of the
block the pass began at, while what a chunk has fetched is filed or still in the queue
(`ScanIsSafe`).  It survives a checkpoint that was dropped because the node's head lagged,
since the pass then begins at the configured block again.  The count is
about `Settled`, the events the API has recorded and is done with: a row beyond these is
the loop's, which creates one only when it saw none; the row it is about to create
is one the count allows for, whoever else creates one meanwhile, because two API calls
never record the same event.

`Recovery_proofs` proves `VouchedByOthers`, `OneLiveWallet` and the refinement
`RotationSpec`.  `RecoveryInv` strengthens them with what the handlers know
(`CallsAreGrounded`: votes counted before an await are still there, the threshold
they were compared with is at least the quorum's), with `KeysAreOwn` (a wallet is
active only for its possessor, one wallet each) and with `RelinkIsGuarded`: between
the revocation of the old wallet and the registration of the new one the person
has no live wallet, and no other execution is there, since its own revocation
would be refused.  This is the lock that `executeRecovery` does not mention.
Most steps change only what a handler does next; `ControlStep` deals with
them once.  The proof uses `RecoveryAssumption` (finitely many people, wallets with
one possessor) and the guard `QuorumKept`.  `CacheFollowsChain` is proved under
`[]NoWayBack`, and only so, since the code breaks it otherwise.  `MovesInv` says that one
execution at a time moves a person and that, once it has re-linked him, the wallet it
will commit is live; revoking takes the wallet a row names, or one that is not live any
more and is refused.

`Portal_proofs` is about what lies between a person and the services.

- *Sessions.*  `OneSessionPerSignature` and `RevokedAreNotServed` with the
  invariant `SessionInv`.  `NoncesAreSpent` is the strengthening for the first: a
  nonce is open in the store, or with one sign-in whose account is being read, or in one
  session, and a submission delivered again finds it in none of the places that lead to
  a session.  `StampsAreTrue` is the one for the second: whoever is stamped stays
  revoked until the stamp is taken off, and the look-up of `verifyToken` is by
  person and not by wallet.  The proof does not depend on the bounds.
- *Passes and lists.*  `NoDelegation` of `PassesSpec` and `ActingIsSeeing` of
  `VisibilitySpec`.  Every step of the larger specifications keeps `SessionInv`, which
  carries over.  `PassInv` says what authority rests on: the rows, the claims of every
  session however old, and the passes are all on record in `authority`, the history of
  who was ever put in charge of what; a pass is issued on claims, so `NoDelegation` needs
  the claims to be on record, and they are because a session copies them from a row.
  `ActingIsSeeing` needs no history: the read scope and the action scope are shown to
  agree for every caller and every item, which takes that requests and assets are typed
  and that the two roles are not one (`AdminRole # ManagerRole`).
- *The tab.*  `SettledIsOwn`: from every page and for every session, the page to which a
  redirect leads is one that redirects no further (`RenderedStays`); the tab is back at
  rest after one.
- *The pages.*  `NewestIsShown` and `OwnActsAreShown` of every page at once, from what
  `ConsoleInv` says of loads: one sent after the last change brings what is there now, one
  sent after the last acknowledged call brings at least what that call did, and what was
  taken in last is the newest (`NewestWasTaken`), each for pages that abort an
  earlier load, that take in only the last one, or that have one at a time.
- *The trail.*  `NothingSkipped` with `WalkInv`: a row that is owed and was not seen is
  preceded, in both tables together, by at least as many rows as the earlier pages hold
  (`NotOnEarlierPage`).  New rows only come before it.  On the last page no row can be so far
  back, unless one was recorded between the count and the search.
- *The assistant.*  `EvidenceIsShown`: the rows given in earlier rounds match a query that is
  still listed, and rows are only added, so that they go on matching.
- *The dialogs.*  `SentAsShown`: what is filled in is for the item the dialog is open for, and
  the flag of a dialog that stays is up as long as its call is under way, which is what
  keeps it open, frozen and alone on the page.

`Facility_proofs` proves all three properties of the run on the facility with the
invariant `FacilityInv`.  An edit of a zone reads the row before its transactions and
writes it after them; `RowAsRead` says that the row is still the one that was read,
which is what makes `WasLocked` mean anything by the time it is used, and holds because
one call at a time configures a zone.  `TapKnows` says that what has barred a tap since
it arrived is among what the tap has read.  `FaultlessInOrder` says, for each step of a
call, how the contract differs from the row it is about to write, as long as nothing
failed and the contract is configured (`Faultless`); `LockedOnChainOnly` draws from it
that before the first fault no gate is shut by the contract alone, which is the second
half of `NeverSilentlyReopened`.

`Accounts_proofs` proves `RowsAreAnchored` and `ApprovedHasIdentity` with the invariant
`AccountsInv`: a call that changes a row changes one that is there, one that is about to
create a row has an active wallet, and an approval that is about to be marked has its
identity.  What a call has read stays true because no other call is about the same
people or wallets (`OneCallAtATime`), and because no step takes a row away or changes
its wallet; `StepInOrder` deals with the other calls once.  `CacheMirrorsChain` and
`CleanCallsAgree` rest on `MirrorInv`, which says of every call how far it has come:
before its first transaction (`RestingSteps`) its person is still mirrored; after it,
what the step to come will write is what the chain already holds (`Prepared`), also when
earlier calls failed and left the two apart.  All of this supposes that both contracts
are configured; what holds without is `TableInv`, about the user table by itself.  For a
batch it says so of each row, imported, granted or still to come (`ImportPrepared`).
`Spares` says what one call's step leaves of everybody else's, and is proved once for
each kind of step.

`Seed_proofs` proves `KeysAreKept` and `RerunAddsNothing` with the invariant `SeedInv`.
`RunKeepsKeys` is the strengthening for the first: unless there was a mishap with the
file, the wallets a run has settled on are the operator's, or their keys are in the
file, or the run is about to write them, and then to places that were free in the file
as it was read, since a key is generated only for a role it has nothing for.
`TokensAreCounted` is the one for the second: an asset without a row has as many tokens
as failures at most, and one more while its row is about to be written.

Only model-checked: the liveness properties `ClaimsAreResolved` and
`ConfirmedEventsAreFiled` (fairness and ENABLED are beyond the prover), and the
violation that the run `lockout` shows.

## 5. Abstractions and what is not modelled

- Contracts: time stamps and texts that decide nothing, IPFS CIDs, serial numbers,
  the setters of the linked contracts, direct log entries by accounts, gas.
  Signatures are unforgeable.
- Transfers: the gates that can only refuse (clearance, SBU, pass, missing rows) are
  `Refuse`; other writers of `Asset.ownerId` do not exist in the back end after
  minting.  Identities do not change during a transfer.
- Indexer: the chain does not reorganise below the confirmation depth, the payload of a
  row is its subject, ranges are refused for their width, and the start-up probe
  succeeds.  The run sets `INDEXER_FROM_BLOCK`; the lookback window is in the model and
  not in a property.
- Accounts: clearance follows the role in every operation and is left out;
  the dossier on IPFS is a step that may fail.  Which contracts are configured changes at a
  restart only; `Recovery` supposes that they are.  The parsing and validation of CSV
  files and of registration forms is left out: what they let through appears.
- Facility: badge events are appended rows; only what was decided is kept.
- Assets: a row that `reconcile-assets.js` creates beside another one of the same name is
  left out.
- Integrity: `verifyTransaction` only reads.
- Sessions: the role in a JWT stays what it was until the JWT expires, and this is what
  the model has; the session that `POST /register` opens, several tabs on one
  localStorage and the bootstrap submission are not modelled.  The late 401 that removes
  a newer session (`api.js:18`), the late poll that signs in again after a sign-out
  (`RegistrationPage.jsx:171`) and an account switched while signing
  (`AuthContext.jsx:131`) are in the model.
- Visibility: a handler is one step, an SBU does not change, and clearance is left out.
- Trail: no two rows have one time stamp and a reader walks page by page.  The
  statistics, single events and `verifyAuditEvent` only read and are left out.
- Navigation: routes with the same guard are one; the sign-in dialog is modal.
- Dialogs: the validation of what is typed, and notices that a timer takes away (`Toast.jsx`),
  are left out; a field is filled in for one item or not at all.
- Seed: a dry run writes nothing and is left out.  On chain the anchoring of an identity
  precedes its row and is accepted again by a rerun, so that identities are their rows;
  the smaller seeds and scripts that only print are not modelled.
- Configuration, request validation and HTTP plumbing have no state.  Layout,
  wording, the landing page and the API documentation page of the frontend have none
  that several steps could get wrong.

## 6. Plan

1. The contracts' remaining setters and direct log entries; the indexer with the
   lookback window after a lost checkpoint.
2. Two tabs on one localStorage, and the session that `POST /register` opens.
3. The remaining seeds, and the parsing of CSV files against the rows that are
   imported.
