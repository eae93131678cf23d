--------------------------- MODULE Recovery_proofs ---------------------------
(***************************************************************************)
(* RecoveryInv is an invariant of account recovery, and with it nobody has *)
(* two live wallets, nothing is executed without enough vouchers, the      *)
(* service implements the atomic exchange of wallets of KeyRotation, and   *)
(* the cache follows the chain as long as nothing fails.  Most steps only  *)
(* say what a handler does next: for them ControlStep shows that it        *)
(* suffices to look at what the handler then knows.                        *)
(***************************************************************************)
EXTENDS Recovery, FiniteSetTheorems, TLAPS

Needed == approvalThreshold(Quorum)

Executing == {"checkTaken", "retire", "relink", "regrant", "commit"}

\* What a handler that goes to step s with memory c may rely on.
Grounded(s, c) ==
    /\ s \in {"findOpen", "create"} => c \in Terms /\ c.wallet \in Own[c.person]
    /\ s \in {"vote", "markApproved", "markRejected"} \cup Executing =>
           c.request \in Request /\ status[c.request] # "NONE"
    /\ s = "vote" =>
           /\ c.guardian \in Person /\ c.guardian # terms[c.request].requestedBy
           /\ c.approvals \subseteq votes[c.request]
           /\ c.threshold \in Nat /\ c.threshold >= Needed
    /\ s \in {"markApproved"} \cup Executing => Cardinality(votes[c.request]) >= Needed
    /\ s \in Executing => c.old \in Own[terms[c.request].person] /\ c.role \in Role

CallsAreGrounded ==
    /\ call = [h \in Handler |-> call[h]]
    /\ \A h \in Handler : Grounded(pc[h], call[h])

RequestIsGrounded(r) ==
    /\ status[r] = "NONE" => terms[r] = NoTerms /\ votes[r] = {}
    /\ status[r] # "NONE" =>
           /\ terms[r] \in Terms /\ terms[r].wallet \in Own[terms[r].person]
           /\ terms[r].requestedBy \notin votes[r]
    /\ status[r] \in {"APPROVED", "COMPLETED"} => Cardinality(votes[r]) >= Needed

RequestsAreGrounded == \A r \in Request : RequestIsGrounded(r)

\* Wallets are live for those who possess them, one at a time.
KeysAreOwn ==
    \A v, w \in Wallet : Active(v) =>
        v \in Own[anchored[v]] /\ (anchored[w] = anchored[v] => w = v)

\* Nobody's row is deleted, and it names a wallet of his.
RowsAreKept == \A p \in Person : users[p] \in UserRow /\ users[p].wallet \in Own[p]

RecoveryInv ==
    /\ TypeOK /\ QuorumKept /\ RowsAreKept
    /\ CallsAreGrounded /\ RequestsAreGrounded /\ KeysAreOwn /\ RelinkIsGuarded

-----------------------------------------------------------------------------

\* Votes are finite sets of people.
LEMMA VotesAreFinite ==
  ASSUME TypeOK, NEW r \in Request
  PROVE  IsFiniteSet(votes[r]) /\ Cardinality(votes[r]) \in Nat
BY RecoveryAssumption, FS_Subset, FS_CardinalityType DEF TypeOK

\* The threshold read where there are guardians is at least the one for a quorum.
LEMMA ThresholdSuffices ==
  ASSUME TypeOK, QuorumKept, NEW p \in Person, guardians[p] # {}
  PROVE  /\ approvalThreshold(Cardinality(guardians[p])) \in Nat
         /\ approvalThreshold(Cardinality(guardians[p])) >= Needed
<1>1. Cardinality(guardians[p]) \in Nat
  BY RecoveryAssumption, FS_Subset, FS_CardinalityType DEF TypeOK
<1>2. Cardinality(guardians[p]) >= Quorum
  BY DEF QuorumKept
<1> QED
  BY <1>1, <1>2, RecoveryAssumption DEF approvalThreshold, Needed

\* A step that writes no row keeps the invariant if it leaves the chain in order and
\* its handler knows enough for where it goes.
LEMMA HandlerStep ==
  ASSUME RecoveryInv, NEW h \in Handler, NEW s \in Step, NEW c, Grounded(s, c),
         UNCHANGED <<users, guardians, requests>>, faults' \in 0 .. MaxFaults,
         pc' = [pc EXCEPT ![h] = s], call' = [call EXCEPT ![h] = c],
         anchored' \in [Wallet -> Person \cup {NoPerson}],
         holders' \in [Wallet -> SUBSET Role],
         KeysAreOwn', RelinkIsGuarded'
  PROVE  RecoveryInv'
<1> USE DEF RecoveryInv, requests
<1>type. TypeOK'
  BY DEF TypeOK, DirectoryTypeOK
<1>rows. QuorumKept' /\ RowsAreKept'
  BY DEF QuorumKept, RowsAreKept
<1>calls. CallsAreGrounded'
  <2>1. call' = [g \in Handler |-> call'[g]] /\ pc' \in [Handler -> Step]
    BY <1>type DEF CallsAreGrounded, TypeOK
  <2>2. ASSUME NEW g \in Handler
        PROVE  /\ g = h => pc'[g] = s /\ call'[g] = c
               /\ g # h => pc'[g] = pc[g] /\ call'[g] = call[g]
    BY DEF CallsAreGrounded, TypeOK
  <2>3. ASSUME NEW g \in Handler
        PROVE  Grounded(pc'[g], call'[g])
    BY <2>2 DEF CallsAreGrounded
  <2> QED
    BY <2>1, <2>3 DEF CallsAreGrounded, Grounded
<1>requests. RequestsAreGrounded'
  BY DEF RequestsAreGrounded, RequestIsGrounded
<1> QED
  BY <1>type, <1>rows, <1>calls, <1>requests

\* A step that writes nothing, on chain neither, keeps it if the handler does not go
\* to the re-link.
LEMMA ControlStep ==
  ASSUME RecoveryInv, NEW h \in Handler, NEW s \in Step \ {"relink"}, NEW c,
         Grounded(s, c), UNCHANGED <<users, chain, guardians, requests>>,
         faults' \in 0 .. MaxFaults,
         pc' = [pc EXCEPT ![h] = s], call' = [call EXCEPT ![h] = c]
  PROVE  RecoveryInv'
<1>1. KeysAreOwn'
  BY DEF RecoveryInv, KeysAreOwn, Active, chain
<1>2. RelinkIsGuarded'
  BY DEF RecoveryInv, TypeOK, RelinkIsGuarded, Live, Subject, CallsAreGrounded, chain,
         requests
<1>3. /\ anchored' \in [Wallet -> Person \cup {NoPerson}]
      /\ holders' \in [Wallet -> SUBSET Role]
  BY DEF RecoveryInv, TypeOK, DirectoryTypeOK, chain
<1> QED
  BY <1>1, <1>2, <1>3, HandlerStep

\* A handler may always end its call.
LEMMA ReturnStep ==
  ASSUME RecoveryInv, NEW h \in Handler, Return(h),
         UNCHANGED <<users, chain, guardians, requests>>, faults' \in 0 .. MaxFaults
  PROVE  RecoveryInv'
<1>1. "idle" \in Step \ {"relink"} /\ Grounded("idle", NoCall)
  BY DEF Step, Grounded, Executing
<1> QED
  BY <1>1, ControlStep DEF Return

-----------------------------------------------------------------------------
(* One lemma per operation. *)

\* Guardians come and go within the quorum.
LEMMA GuardianStep ==
  ASSUME RecoveryInv, QuorumKept', NEW p \in Person, NEW g \in Person,
         AddGuardian(p, g) \/ RemoveGuardian(p, g)
  PROVE  RecoveryInv'
<1> USE DEF RecoveryInv, AddGuardian, RemoveGuardian, chain, handlers, requests
<1>type. TypeOK'
  BY DEF TypeOK, DirectoryTypeOK
<1>calls. RowsAreKept' /\ CallsAreGrounded' /\ RequestsAreGrounded'
  BY DEF RowsAreKept, CallsAreGrounded, Grounded, RequestsAreGrounded,
         RequestIsGrounded
<1>keys. KeysAreOwn' /\ RelinkIsGuarded'
  BY DEF KeysAreOwn, Active, RelinkIsGuarded, Live, Subject
<1> QED
  BY <1>type, <1>calls, <1>keys

\* A call that begins to raise a request remembers well-formed terms.
LEMMA RequestRecoveryStep ==
  ASSUME RecoveryInv, NEW h \in Handler, NEW by \in Person, NEW p \in Person,
         NEW w \in Own[p], RequestRecovery(h, by, p, w)
  PROVE  RecoveryInv'
<1> DEFINE c == [person |-> p, wallet |-> w, requestedBy |-> by]
<1>1. c \in Terms /\ c.wallet \in Own[c.person]
  BY RecoveryAssumption DEF Terms
<1>2. /\ UNCHANGED <<users, chain, guardians, requests>> /\ faults' \in 0 .. MaxFaults
      /\ pc' = [pc EXCEPT ![h] = "findOpen"] /\ call' = [call EXCEPT ![h] = c]
  BY DEF RequestRecovery, Begin, RecoveryInv, TypeOK, DirectoryTypeOK
<1> HIDE DEF c
<1>3. "findOpen" \in Step \ {"relink"} /\ Grounded("findOpen", c)
  BY <1>1 DEF Step, Grounded, Executing
<1> QED
  BY <1>2, <1>3, ControlStep

\* A handler that goes on with what it remembers.
LEMMA GotoStep ==
  ASSUME RecoveryInv, NEW h \in Handler, NEW s \in Step \ {"relink"},
         s # "idle" => Grounded(s, call[h]), Goto(h, s),
         UNCHANGED <<users, chain, guardians, requests>>, faults' \in 0 .. MaxFaults
  PROVE  RecoveryInv'
<1>1. CASE s = "idle"
  BY <1>1, ReturnStep DEF Goto
<1>2. CASE s # "idle"
  <2>1. pc' = [pc EXCEPT ![h] = s] /\ call' = [call EXCEPT ![h] = call[h]]
    BY <1>2 DEF Goto, RecoveryInv, CallsAreGrounded
  <2> QED
    BY <1>2, <2>1, ControlStep
<1> QED
  BY <1>1, <1>2

\* Looking for an open request changes only what the handler does next.
LEMMA FindOpenStep ==
  ASSUME RecoveryInv, NEW h \in Handler, FindOpen(h)
  PROVE  RecoveryInv'
<1> DEFINE s == IF OpenFor(call[h].person) = {} THEN "create" ELSE "idle"
<1>1. /\ Goto(h, s) /\ s \in Step \ {"relink"}
      /\ UNCHANGED <<users, chain, guardians, requests>> /\ faults' \in 0 .. MaxFaults
  BY DEF FindOpen, RecoveryInv, TypeOK, DirectoryTypeOK, Step
<1>2. Grounded("create", call[h])
  BY DEF FindOpen, RecoveryInv, CallsAreGrounded, Grounded, Executing
<1>3. s # "idle" => Grounded(s, call[h])
  BY <1>2
<1> HIDE DEF s
<1> QED
  BY <1>1, <1>3, GotoStep

\* A new row is PENDING, without votes, and no handler knows it yet.
LEMMA CreateRequestStep ==
  ASSUME RecoveryInv, NEW h \in Handler, CreateRequest(h)
  PROVE  RecoveryInv'
<1> USE DEF RecoveryInv
<1>1. PICK r \in Free : /\ status' = [status EXCEPT ![r] = "PENDING"]
                        /\ terms' = [terms EXCEPT ![r] = call[h]]
  BY DEF CreateRequest
<1>2. /\ r \in Request /\ status[r] = "NONE" /\ votes[r] = {}
      /\ Return(h) /\ UNCHANGED <<users, anchored, holders, faults, guardians, votes>>
  BY DEF CreateRequest, Free, RequestsAreGrounded, RequestIsGrounded, chain
<1>3. call[h] \in Terms /\ call[h].wallet \in Own[call[h].person]
  BY DEF CreateRequest, CallsAreGrounded, Grounded
<1>4. \A x \in Request \ {r} : status'[x] = status[x] /\ terms'[x] = terms[x]
  BY <1>1 DEF TypeOK
<1>5. status'[r] = "PENDING" /\ terms'[r] = call[h]
  BY <1>1, <1>2 DEF TypeOK
<1>6. \A g \in Handler : \/ g = h /\ pc'[g] = "idle"
                         \/ g # h /\ pc'[g] = pc[g] /\ call'[g] = call[g]
  BY <1>2 DEF Return, TypeOK, CallsAreGrounded
<1>type. TypeOK'
  BY <1>1, <1>2, <1>3 DEF TypeOK, DirectoryTypeOK, Return, Step
<1>rows. QuorumKept' /\ RowsAreKept'
  BY <1>2 DEF QuorumKept, RowsAreKept
<1>calls. CallsAreGrounded'
  BY <1>2, <1>4, <1>6 DEF CallsAreGrounded, Grounded, Executing, Return
<1>requests. RequestsAreGrounded'
  BY <1>2, <1>3, <1>4, <1>5 DEF RequestsAreGrounded, RequestIsGrounded
<1>keys. KeysAreOwn'
  BY <1>2 DEF KeysAreOwn, Active
<1>relink. RelinkIsGuarded'
  BY <1>2, <1>4, <1>6 DEF RelinkIsGuarded, Live, Subject, CallsAreGrounded, Grounded,
         Executing
<1> QED
  BY <1>type, <1>rows, <1>calls, <1>requests, <1>keys, <1>relink

\* A guardian who may vouch remembers a threshold that is high enough.
LEMMA ApproveRecoveryStep ==
  ASSUME RecoveryInv, NEW h \in Handler, NEW g \in Person, NEW r \in Request,
         ApproveRecovery(h, g, r)
  PROVE  RecoveryInv'
<1> DEFINE p == terms[r].person
           n == approvalThreshold(Cardinality(guardians[p]))
           c == [request |-> r, guardian |-> g, approvals |-> votes[r], threshold |-> n]
<1>1. status[r] = "PENDING" /\ g \in guardians[p] /\ g # terms[r].requestedBy
  BY DEF ApproveRecovery, MayVouch
<1>2. p \in Person
  BY <1>1 DEF RecoveryInv, RequestsAreGrounded, RequestIsGrounded, Terms
<1>3. n \in Nat /\ n >= Needed
  BY <1>1, <1>2, ThresholdSuffices DEF RecoveryInv
<1>4. /\ UNCHANGED <<users, chain, guardians, requests>> /\ faults' \in 0 .. MaxFaults
      /\ pc' = [pc EXCEPT ![h] = "vote"] /\ call' = [call EXCEPT ![h] = c]
  BY DEF ApproveRecovery, Begin, RecoveryInv, TypeOK, DirectoryTypeOK
<1>5. /\ c.request = r /\ c.guardian = g /\ c.approvals = votes[r] /\ c.threshold = n
  OBVIOUS
<1> HIDE DEF c, n, p
<1>6. "vote" \in Step \ {"relink"} /\ Grounded("vote", c)
  BY <1>1, <1>3, <1>5 DEF Step, Grounded, Executing
<1> QED
  BY <1>4, <1>6, ControlStep

\* The votes grow by one that was not the requester's, and what was read of them
\* stays true; where the vote decides there are enough.
LEMMA VoteStep ==
  ASSUME RecoveryInv, NEW h \in Handler, Vote(h)
  PROVE  RecoveryInv'
<1> USE DEF RecoveryInv
<1> DEFINE c == call[h]
           r == c.request
           s == IF /\ c.guardian \notin votes[r]
                   /\ Cardinality(c.approvals) + 1 >= c.threshold
                THEN "markApproved" ELSE "idle"
<1>1. Grounded("vote", c)
  BY DEF Vote, CallsAreGrounded
<1>2. /\ r \in Request /\ status[r] # "NONE"
      /\ c.guardian \in Person /\ c.guardian # terms[r].requestedBy
      /\ c.approvals \subseteq votes[r] /\ c.threshold \in Nat /\ c.threshold >= Needed
  BY <1>1 DEF Grounded
<1>3. /\ votes' = [votes EXCEPT ![r] = @ \cup {c.guardian}] /\ Goto(h, s)
      /\ UNCHANGED <<users, anchored, holders, faults, guardians, status, terms>>
  BY DEF Vote, chain
<1>4. /\ votes'[r] = votes[r] \cup {c.guardian}
      /\ \A x \in Request \ {r} : votes'[x] = votes[x]
  BY <1>2, <1>3 DEF TypeOK
<1>5. \A x \in Request : /\ votes[x] \subseteq votes'[x] /\ votes'[x] \subseteq Person
                         /\ IsFiniteSet(votes[x]) /\ Cardinality(votes[x]) \in Nat
                         /\ IsFiniteSet(votes'[x]) /\ Cardinality(votes'[x]) \in Nat
  <2>1. \A x \in Request : votes[x] \subseteq votes'[x] /\ votes'[x] \subseteq Person
    BY <1>2, <1>4 DEF TypeOK
  <2> QED
    BY <2>1, VotesAreFinite, RecoveryAssumption, FS_Subset, FS_CardinalityType
<1>6. \A x \in Request : Cardinality(votes'[x]) >= Cardinality(votes[x])
  BY <1>5, FS_Subset
<1>7. s = "markApproved" => Cardinality(votes'[r]) >= Needed
  <2> SUFFICES ASSUME c.guardian \notin votes[r],
                      Cardinality(c.approvals) + 1 >= c.threshold
               PROVE  Cardinality(votes'[r]) >= Needed
    OBVIOUS
  <2>1. Cardinality(votes'[r]) = Cardinality(votes[r]) + 1
    <3> DEFINE S == votes[r]
               x == c.guardian
    <3>1. IsFiniteSet(S) /\ x \notin S /\ votes'[r] = S \cup {x}
      BY <1>2, <1>4, <1>5
    <3> HIDE DEF S, x
    <3>2. Cardinality(S \cup {x}) = Cardinality(S) + 1
      BY <3>1, FS_AddElement
    <3> QED
      BY <3>1, <3>2 DEF S
  <2>2. Cardinality(c.approvals) \in Nat /\ Cardinality(c.approvals) <= Cardinality(votes[r])
    BY <1>2, <1>5, FS_Subset, FS_CardinalityType
  <2>3. Needed \in Nat
    BY RecoveryAssumption DEF Needed, approvalThreshold
  <2> QED
    BY <1>2, <1>5, <2>1, <2>2, <2>3
<1>8. \A g \in Handler :
        \/ g = h /\ pc'[g] = s /\ (s = "markApproved" => call'[g] = c)
        \/ g # h /\ pc'[g] = pc[g] /\ call'[g] = call[g]
  BY <1>3 DEF Goto, Return, TypeOK, CallsAreGrounded
<1>9. pc' \in [Handler -> Step] /\ call' = [g \in Handler |-> call'[g]]
  BY <1>3 DEF Goto, Return, TypeOK, CallsAreGrounded, Step
<1>10. Needed \in Nat
  BY RecoveryAssumption DEF Needed, approvalThreshold
<1>11. s \in {"markApproved", "idle"}
  OBVIOUS
<1> HIDE DEF c, r, s
<1>type. TypeOK'
  BY <1>3, <1>5, <1>9 DEF TypeOK, DirectoryTypeOK
<1>rows. QuorumKept' /\ RowsAreKept'
  BY <1>3 DEF QuorumKept, RowsAreKept
<1>calls. CallsAreGrounded'
  <2>1. ASSUME NEW g \in Handler, g # h
        PROVE  Grounded(pc[g], call[g])'
    <3>1. pc'[g] = pc[g] /\ call'[g] = call[g] /\ Grounded(pc[g], call[g])
      BY <1>8, <2>1 DEF CallsAreGrounded
    <3>2. call[g].request \in Request =>
            /\ votes[call[g].request] \subseteq votes'[call[g].request]
            /\ Cardinality(votes[call[g].request]) >= Needed =>
                   Cardinality(votes'[call[g].request]) >= Needed
      BY <1>5, <1>6, <1>10
    <3> QED
      BY <1>3, <3>1, <3>2 DEF Grounded, Executing
  <2>2. Grounded(pc[h], call[h])'
    BY <1>2, <1>3, <1>7, <1>8, <1>11 DEF Grounded, Executing, c, r
  <2> QED
    BY <1>9, <2>1, <2>2 DEF CallsAreGrounded
<1>requests. RequestsAreGrounded'
  <2>1. ASSUME NEW x \in Request
        PROVE  RequestIsGrounded(x)'
    BY <1>2, <1>3, <1>4, <1>5, <1>6, <1>10 DEF RequestsAreGrounded, RequestIsGrounded
  <2> QED
    BY <2>1 DEF RequestsAreGrounded
<1>keys. KeysAreOwn'
  BY <1>3 DEF KeysAreOwn, Active
<1>relink. RelinkIsGuarded'
  BY <1>3, <1>8, <1>11 DEF RelinkIsGuarded, Live, Subject
<1> QED
  BY <1>type, <1>rows, <1>calls, <1>requests, <1>keys, <1>relink

\* A verdict is written by a handler that knows the request, an approval by one that
\* has counted its votes.
LEMMA VerdictStep ==
  ASSUME RecoveryInv, NEW h \in Handler, MarkApproved(h) \/ MarkRejected(h)
  PROVE  RecoveryInv'
<1> USE DEF RecoveryInv
<1> DEFINE r == call[h].request
<1>1. /\ r \in Request /\ status[r] # "NONE"
      /\ pc[h] = "markApproved" => Cardinality(votes[r]) >= Needed
  BY DEF MarkApproved, MarkRejected, CallsAreGrounded, Grounded
<1>2. PICK v \in {"APPROVED", "REJECTED"} :
        /\ status' = [status EXCEPT ![r] = v]
        /\ v = "APPROVED" => pc[h] = "markApproved"
  BY DEF MarkApproved, MarkRejected
<1>3. /\ Return(h)
      /\ UNCHANGED <<users, anchored, holders, faults, guardians, terms, votes>>
  BY DEF MarkApproved, MarkRejected, chain
<1>4. status'[r] = v /\ \A x \in Request \ {r} : status'[x] = status[x]
  BY <1>1, <1>2 DEF TypeOK
<1>5. \A g \in Handler : \/ g = h /\ pc'[g] = "idle"
                         \/ g # h /\ pc'[g] = pc[g] /\ call'[g] = call[g]
  BY <1>3 DEF Return, TypeOK, CallsAreGrounded
<1> HIDE DEF r
<1>type. TypeOK'
  BY <1>2, <1>3 DEF TypeOK, DirectoryTypeOK, Return, Step
<1>rows. QuorumKept' /\ RowsAreKept'
  BY <1>3 DEF QuorumKept, RowsAreKept
<1>calls. CallsAreGrounded'
  BY <1>3, <1>4, <1>5 DEF CallsAreGrounded, Grounded, Executing, Return
<1>requests. RequestsAreGrounded'
  BY <1>1, <1>2, <1>3, <1>4 DEF RequestsAreGrounded, RequestIsGrounded
<1>keys. KeysAreOwn'
  BY <1>3 DEF KeysAreOwn, Active
<1>relink. RelinkIsGuarded'
  BY <1>3, <1>5 DEF RelinkIsGuarded, Live, Subject
<1> QED
  BY <1>type, <1>rows, <1>calls, <1>requests, <1>keys, <1>relink

\* A caller who rejects knows a request that exists.
LEMMA RejectRecoveryStep ==
  ASSUME RecoveryInv, NEW h \in Handler, NEW by \in Person, NEW r \in Request,
         RejectRecovery(h, by, r)
  PROVE  RecoveryInv'
<1> DEFINE c == [request |-> r]
<1>1. /\ UNCHANGED <<users, chain, guardians, requests>> /\ faults' \in 0 .. MaxFaults
      /\ pc' = [pc EXCEPT ![h] = "markRejected"] /\ call' = [call EXCEPT ![h] = c]
      /\ status[r] # "NONE" /\ c.request = r
  BY DEF RejectRecovery, Begin, RecoveryInv, TypeOK, DirectoryTypeOK
<1> HIDE DEF c
<1>2. "markRejected" \in Step \ {"relink"} /\ Grounded("markRejected", c)
  BY <1>1 DEF Step, Grounded, Executing
<1> QED
  BY <1>1, <1>2, ControlStep

\* An execution starts from a request that was vouched for, and from the wallet its
\* person has in the table.
LEMMA ExecuteRecoveryStep ==
  ASSUME RecoveryInv, NEW h \in Handler, NEW r \in Request, ExecuteRecovery(h, r)
  PROVE  RecoveryInv'
<1> DEFINE p == terms[r].person
           c == [request |-> r, old |-> users[p].wallet, role |-> users[p].role]
<1>1. /\ UNCHANGED <<users, chain, guardians, requests>> /\ faults' \in 0 .. MaxFaults
      /\ pc' = [pc EXCEPT ![h] = "checkTaken"] /\ call' = [call EXCEPT ![h] = c]
      /\ status[r] = "APPROVED"
      /\ c.request = r /\ c.old = users[p].wallet /\ c.role = users[p].role
  BY DEF ExecuteRecovery, Executable, Begin, RecoveryInv, TypeOK, DirectoryTypeOK
<1>2. Cardinality(votes[r]) >= Needed /\ p \in Person
  BY <1>1 DEF RecoveryInv, RequestsAreGrounded, RequestIsGrounded, Terms
<1>3. users[p].wallet \in Own[p] /\ users[p].role \in Role
  BY <1>2 DEF RecoveryInv, RowsAreKept, UserRow
<1> HIDE DEF c
<1>4. "checkTaken" \in Step \ {"relink"} /\ Grounded("checkTaken", c)
  BY <1>1, <1>2, <1>3 DEF Step, Grounded, Executing
<1> QED
  BY <1>1, <1>4, ControlStep

\* Whether the new wallet is taken changes only what the handler does next.
LEMMA CheckTakenStep ==
  ASSUME RecoveryInv, NEW h \in Handler, CheckTaken(h)
  PROVE  RecoveryInv'
<1> DEFINE s == IF WalletTaken(Target(h)) THEN "idle" ELSE "retire"
<1>1. /\ Goto(h, s) /\ s \in Step \ {"relink"}
      /\ UNCHANGED <<users, chain, guardians, requests>> /\ faults' \in 0 .. MaxFaults
  BY DEF CheckTaken, RecoveryInv, TypeOK, DirectoryTypeOK, Step
<1>2. Grounded("retire", call[h])
  BY DEF CheckTaken, RecoveryInv, CallsAreGrounded, Grounded, Executing
<1>3. s # "idle" => Grounded(s, call[h])
  BY <1>2
<1> HIDE DEF s
<1> QED
  BY <1>1, <1>3, GotoStep

\* An active wallet of a person is the only one, and retiring it leaves none; nobody
\* gains a wallet.
LEMMA RetireLeavesNone ==
  ASSUME RecoveryInv, NEW p \in Person, NEW w \in Own[p], Active(w), Retire(w)
  PROVE  /\ w \in Wallet /\ Live(p) # {} /\ Live(p)' = {}
         /\ \A q \in Person \ {p} : Live(q)' = Live(q)
         /\ KeysAreOwn'
         /\ anchored' \in [Wallet -> Person \cup {NoPerson}]
         /\ holders' \in [Wallet -> SUBSET Role]
<1> USE DEF RecoveryInv
<1>1. w \in Wallet /\ anchored \in [Wallet -> Person \cup {NoPerson}]
  BY RecoveryAssumption DEF TypeOK, DirectoryTypeOK
<1>2. anchored[w] = p
  BY <1>1, RecoveryAssumption DEF KeysAreOwn, Active
<1>3. \A v \in Wallet : anchored'[v] = IF v = w THEN NoPerson ELSE anchored[v]
  BY <1>1 DEF Retire
<1>4. \A v \in Wallet : anchored[v] = p => v = w
  BY <1>1, <1>2 DEF KeysAreOwn, Active
<1>5. p # NoPerson
  BY DirectoryAssumption
<1>6. Live(p) # {} /\ Live(p)' = {}
  BY <1>1, <1>2, <1>3, <1>4, <1>5 DEF Live
<1>7. ASSUME NEW q \in Person \ {p}
      PROVE  Live(q)' = Live(q)
  BY <1>1, <1>2, <1>3, <1>7, DirectoryAssumption DEF Live
<1>8. KeysAreOwn'
  BY <1>1, <1>3 DEF KeysAreOwn, Active
<1>9. /\ anchored' \in [Wallet -> Person \cup {NoPerson}]
      /\ holders' \in [Wallet -> SUBSET Role]
  BY <1>1 DEF Retire, TypeOK, DirectoryTypeOK
<1> QED
  BY <1>1, <1>6, <1>7, <1>8, <1>9

\* Only one of the executions for a person finds a wallet to revoke, and it has the
\* re-link to itself.
LEMMA RetireOldStep ==
  ASSUME RecoveryInv, NEW h \in Handler, RetireOld(h)
  PROVE  RecoveryInv'
<1> DEFINE c == call[h]
           p == Subject(h)
           w == c.old
<1>1. /\ c.request \in Request /\ p \in Person /\ w \in Own[p]
      /\ Grounded("relink", c) /\ Grounded("idle", NoCall)
  BY DEF RetireOld, RecoveryInv, CallsAreGrounded, Grounded, Executing, Subject,
         RequestsAreGrounded, RequestIsGrounded, Terms
<1>2. UNCHANGED <<users, guardians, requests>> /\ faults' \in 0 .. MaxFaults
  BY DirectoryAssumption
  DEF RetireOld, Send, Fault, RecoveryInv, TypeOK, DirectoryTypeOK
<1>3. \/ Goto(h, "idle") /\ UNCHANGED chain
      \/ Goto(h, "relink") /\ Active(w) /\ Retire(w)
      \/ Goto(h, "idle") /\ Active(w) /\ Retire(w)
  BY DEF RetireOld, Send, AfterFailedRetire
<1>4. "idle" \in Step /\ "relink" \in Step
  BY DEF Step
<1>5. \A g \in Handler : pc[g] = "relink" => Subject(g) \in Person /\ Live(Subject(g)) = {}
  BY DEF RecoveryInv, RelinkIsGuarded, CallsAreGrounded, Grounded, Executing, Subject,
         RequestsAreGrounded, RequestIsGrounded, Terms
<1>6. call = [g \in Handler |-> call[g]] /\ pc \in [Handler -> Step]
  BY DEF RecoveryInv, CallsAreGrounded, TypeOK
<1>7. CASE Goto(h, "idle") /\ UNCHANGED chain
  BY <1>2, <1>7, ReturnStep DEF Goto
<1>8. CASE Goto(h, "relink") /\ Active(w) /\ Retire(w)
  <2>1. pc' = [pc EXCEPT ![h] = "relink"] /\ call' = call /\ terms' = terms
    BY <1>2, <1>8 DEF Goto, requests
  <2>2. call' = [call EXCEPT ![h] = c]
    BY <1>6, <2>1
  <2>3. \A g \in Handler : Subject(g)' = Subject(g)
    BY <2>1 DEF Subject
  <2>4. pc'[h] = "relink" /\ \A g \in Handler \ {h} : pc'[g] = pc[g]
    BY <1>6, <2>1
  <2>5. /\ \A q \in Person : q = p => Live(q) # {} /\ Live(q)' = {}
        /\ \A q \in Person : Live(q) = {} => Live(q)' = {}
        /\ KeysAreOwn'
        /\ anchored' \in [Wallet -> Person \cup {NoPerson}]
        /\ holders' \in [Wallet -> SUBSET Role]
    BY <1>1, <1>8, RetireLeavesNone
  <2>6. ASSUME NEW f \in Handler, pc'[f] = "relink"
        PROVE  Live(Subject(f))' = {}
    <3>1. CASE f = h
      BY <1>1, <2>3, <2>5, <3>1 DEF Live
    <3>2. CASE f # h
      BY <1>5, <2>3, <2>4, <2>5, <2>6, <3>2 DEF Live
    <3> QED
      BY <3>1, <3>2
  <2>7. ASSUME NEW f \in Handler, NEW g \in Handler \ {f}, pc'[f] = "relink", pc'[g] = "relink"
        PROVE  Subject(g)' # Subject(f)'
    <3>1. \A x \in Handler \ {h} : pc'[x] = "relink" => Subject(x) # p
      BY <1>1, <1>5, <2>4, <2>5
    <3>2. CASE f # h /\ g # h
      BY <2>3, <2>4, <2>7, <3>2 DEF RecoveryInv, RelinkIsGuarded
    <3> QED
      BY <2>3, <2>7, <3>1, <3>2
  <2>8. RelinkIsGuarded'
    BY <2>6, <2>7 DEF RelinkIsGuarded
  <2> HIDE DEF c, p, w
  <2> QED
    BY <1>1, <1>2, <1>4, <2>1, <2>2, <2>5, <2>8, HandlerStep
<1>9. CASE Goto(h, "idle") /\ Active(w) /\ Retire(w)
  <2>1. pc' = [pc EXCEPT ![h] = "idle"] /\ call' = [call EXCEPT ![h] = NoCall]
    BY <1>9 DEF Goto, Return
  <2>2. /\ \A q \in Person : Live(q) = {} => Live(q)' = {}
        /\ KeysAreOwn'
        /\ anchored' \in [Wallet -> Person \cup {NoPerson}]
        /\ holders' \in [Wallet -> SUBSET Role]
    BY <1>1, <1>9, RetireLeavesNone
  <2>3. \A g \in Handler : pc'[g] = "relink" => /\ pc[g] = "relink"
                                                /\ Subject(g)' = Subject(g)
    BY <1>2, <1>6, <2>1 DEF Subject, requests
  <2>4. RelinkIsGuarded'
    BY <1>5, <2>2, <2>3 DEF RelinkIsGuarded, RecoveryInv, Live
  <2> HIDE DEF c, p, w
  <2> QED
    BY <1>1, <1>2, <1>4, <2>1, <2>2, <2>4, HandlerStep
<1> QED
  BY <1>3, <1>7, <1>8, <1>9

\* A wallet of a person who has no live one is not active, and anchoring it makes it
\* his only one; nobody else's change.
LEMMA AnchorMakesTheOne ==
  ASSUME RecoveryInv, NEW p \in Person, NEW w \in Own[p], Live(p) = {}, Anchor(w, p)
  PROVE  /\ w \in Wallet /\ Live(p)' = {w}
         /\ \A q \in Person \ {p} : Live(q)' = Live(q)
         /\ KeysAreOwn'
         /\ anchored' \in [Wallet -> Person \cup {NoPerson}]
         /\ holders' \in [Wallet -> SUBSET Role]
<1> USE DEF RecoveryInv
<1>1. w \in Wallet /\ anchored \in [Wallet -> Person \cup {NoPerson}]
  BY RecoveryAssumption DEF TypeOK, DirectoryTypeOK
<1>2. ~Active(w)
  <2> SUFFICES ASSUME Active(w) PROVE FALSE
    OBVIOUS
  <2>1. anchored[w] = p
    BY <1>1, RecoveryAssumption DEF KeysAreOwn, Active
  <2> QED
    BY <1>1, <2>1 DEF Live
<1>3. \A v \in Wallet : anchored'[v] = IF v = w THEN p ELSE anchored[v]
  BY <1>1, <1>2 DEF Anchor
<1>4. \A v \in Wallet : anchored[v] # p
  BY DEF Live
<1>5. Live(p)' = {w}
  BY <1>1, <1>3, <1>4 DEF Live
<1>6. ASSUME NEW q \in Person \ {p}
      PROVE  Live(q)' = Live(q)
  BY <1>1, <1>2, <1>3, <1>6, DirectoryAssumption DEF Live, Active
<1>7. KeysAreOwn'
  BY <1>1, <1>3, <1>4 DEF KeysAreOwn, Active
<1>8. /\ anchored' \in [Wallet -> Person \cup {NoPerson}]
      /\ holders' \in [Wallet -> SUBSET Role]
  BY <1>1, <1>2 DEF Anchor, TypeOK, DirectoryTypeOK
<1> QED
  BY <1>1, <1>5, <1>6, <1>7, <1>8

\* The re-link finds its person without a live wallet and gives him one of his.
LEMMA RelinkStep ==
  ASSUME RecoveryInv, NEW h \in Handler, Relink(h)
  PROVE  RecoveryInv'
<1> DEFINE c == call[h]
           p == Subject(h)
           w == Target(h)
<1>1. /\ c.request \in Request /\ p \in Person /\ w \in Own[p]
      /\ Grounded("regrant", c) /\ Grounded("idle", NoCall)
  BY DEF Relink, RecoveryInv, CallsAreGrounded, Grounded, Executing, Subject, Target,
         RequestsAreGrounded, RequestIsGrounded, Terms
<1>2. UNCHANGED <<users, guardians, requests>> /\ faults' \in 0 .. MaxFaults
  BY DirectoryAssumption
  DEF Relink, Send, Fault, RecoveryInv, TypeOK, DirectoryTypeOK
<1>3. \/ Goto(h, "idle") /\ UNCHANGED chain
      \/ (Goto(h, "regrant") \/ Goto(h, "idle")) /\ Anchor(w, p)
  BY DEF Relink, Send
<1>4. call = [g \in Handler |-> call[g]] /\ pc \in [Handler -> Step]
  BY DEF RecoveryInv, CallsAreGrounded, TypeOK
<1>5. \A g \in Handler : pc[g] = "relink" => Subject(g) \in Person
  BY DEF RecoveryInv, CallsAreGrounded, Grounded, Executing, Subject,
         RequestsAreGrounded, RequestIsGrounded, Terms
<1>6. CASE Goto(h, "idle") /\ UNCHANGED chain
  BY <1>2, <1>6, ReturnStep DEF Goto
<1>7. CASE (Goto(h, "regrant") \/ Goto(h, "idle")) /\ Anchor(w, p)
  <2>1. PICK s \in {"regrant", "idle"}, d \in {c, NoCall} :
          /\ pc' = [pc EXCEPT ![h] = s] /\ call' = [call EXCEPT ![h] = d]
          /\ Grounded(s, d)
    BY <1>1, <1>4, <1>7 DEF Goto, Return
  <2>2. Live(p) = {} /\ \A g \in Handler \ {h} : pc[g] = "relink" => Subject(g) # p
    BY DEF Relink, RecoveryInv, RelinkIsGuarded
  <2>3. /\ \A q \in Person \ {p} : Live(q)' = Live(q)
        /\ KeysAreOwn'
        /\ anchored' \in [Wallet -> Person \cup {NoPerson}]
        /\ holders' \in [Wallet -> SUBSET Role]
    BY <1>1, <1>7, <2>2, AnchorMakesTheOne
  <2>4. \A g \in Handler : pc'[g] = "relink" => /\ g # h /\ pc[g] = "relink"
                                                /\ Subject(g)' = Subject(g)
    BY <1>2, <1>4, <2>1 DEF Subject, requests
  <2>5. RelinkIsGuarded'
    BY <1>5, <2>2, <2>3, <2>4 DEF RelinkIsGuarded, RecoveryInv, Live
  <2>6. s \in Step
    BY DEF Step
  <2> HIDE DEF c, p, w
  <2> QED
    BY <1>2, <2>1, <2>3, <2>5, <2>6, HandlerStep
<1> QED
  BY <1>3, <1>6, <1>7

\* Granting the role touches neither wallets nor rows.
LEMMA RegrantStep ==
  ASSUME RecoveryInv, NEW h \in Handler, Regrant(h)
  PROVE  RecoveryInv'
<1> DEFINE c == call[h]
<1>1. /\ Goto(h, "commit") /\ UNCHANGED <<users, guardians, requests>>
      /\ faults' \in 0 .. MaxFaults /\ anchored' = anchored
      /\ holders' = holders \/ Grant(Target(h), c.role)
  BY DirectoryAssumption
  DEF Regrant, Send, Fault, RecoveryInv, TypeOK, DirectoryTypeOK, Grant, chain
<1>2. Grounded("commit", c) /\ c.role \in Role
  BY DEF Regrant, RecoveryInv, CallsAreGrounded, Grounded, Executing
<1>3. pc' = [pc EXCEPT ![h] = "commit"] /\ call' = [call EXCEPT ![h] = c]
  BY <1>1 DEF Goto, RecoveryInv, CallsAreGrounded
<1>4. /\ anchored' \in [Wallet -> Person \cup {NoPerson}]
      /\ holders' \in [Wallet -> SUBSET Role]
  BY <1>1, <1>2 DEF Grant, RecoveryInv, TypeOK, DirectoryTypeOK
<1>5. KeysAreOwn'
  BY <1>1 DEF RecoveryInv, KeysAreOwn, Active
<1>6. RelinkIsGuarded'
  BY <1>1, <1>3 DEF RecoveryInv, TypeOK, RelinkIsGuarded, Live, Subject, CallsAreGrounded,
         requests
<1>7. "commit" \in Step
  BY DEF Step
<1> HIDE DEF c
<1> QED
  BY <1>1, <1>2, <1>3, <1>4, <1>5, <1>6, <1>7, HandlerStep

\* The commit writes a wallet of the person and completes a request that was
\* vouched for.
LEMMA CommitStep ==
  ASSUME RecoveryInv, NEW h \in Handler, Commit(h)
  PROVE  RecoveryInv'
<1> USE DEF RecoveryInv
<1> DEFINE r == call[h].request
           p == terms[r].person
           w == terms[r].wallet
<1>1. /\ r \in Request /\ status[r] # "NONE" /\ Cardinality(votes[r]) >= Needed
      /\ p \in Person /\ w \in Wallet /\ w \in Own[p]
  BY DEF Commit, CallsAreGrounded, Grounded, Executing, RequestsAreGrounded,
         RequestIsGrounded, Terms
<1>2. /\ Return(h)
      /\ UNCHANGED <<anchored, holders, faults, guardians, terms, votes>>
  BY DEF Commit, chain
<1>3. CASE UNCHANGED <<users, status>>
  <2>1. UNCHANGED <<users, chain, guardians, requests>> /\ faults' \in 0 .. MaxFaults
    BY <1>2, <1>3 DEF TypeOK, DirectoryTypeOK, chain, requests
  <2> QED
    BY <1>2, <2>1, ReturnStep
<1>4. CASE /\ users' = [users EXCEPT ![p] = [@ EXCEPT !.wallet = w]]
           /\ status' = [status EXCEPT ![r] = "COMPLETED"]
  <2>1. \A x \in Request : status'[x] = IF x = r THEN "COMPLETED" ELSE status[x]
    BY <1>1, <1>4 DEF TypeOK
  <2>2. \A g \in Handler : \/ g = h /\ pc'[g] = "idle"
                           \/ g # h /\ pc'[g] = pc[g] /\ call'[g] = call[g]
    BY <1>2 DEF Return, TypeOK, CallsAreGrounded
  <2>3. users'[p] \in UserRow /\ users'[p].wallet = w
    BY <1>1, <1>4 DEF RowsAreKept, TypeOK, DirectoryTypeOK, UserRow
  <2>4. \A q \in Person \ {p} : users'[q] = users[q]
    BY <1>4 DEF TypeOK, DirectoryTypeOK
  <2>5. users' \in [Person -> UserRow \cup {NoRow}]
    BY <1>1, <1>4, <2>3, <2>4 DEF TypeOK, DirectoryTypeOK
  <2> HIDE DEF r, p, w
  <2>rows. QuorumKept' /\ RowsAreKept'
    BY <1>1, <1>2, <2>3, <2>4 DEF QuorumKept, RowsAreKept
  <2>type. TypeOK'
    <3>1. status' \in [Request -> {"NONE", "PENDING", "APPROVED", "REJECTED", "COMPLETED"}]
      BY <1>4 DEF TypeOK
    <3>2. pc' \in [Handler -> Step]
      BY <1>2 DEF TypeOK, Return, Step
    <3>3. \A q \in Person : users'[q].wallet \in Own[q]
      BY <2>rows DEF RowsAreKept
    <3> QED
      BY <1>2, <2>5, <3>1, <3>2, <3>3 DEF TypeOK, DirectoryTypeOK
  <2>calls. CallsAreGrounded'
    BY <1>2, <2>1, <2>2 DEF CallsAreGrounded, Grounded, Executing, Return
  <2>requests. RequestsAreGrounded'
    BY <1>1, <1>2, <2>1 DEF RequestsAreGrounded, RequestIsGrounded
  <2>keys. KeysAreOwn'
    BY <1>2 DEF KeysAreOwn, Active
  <2>relink. RelinkIsGuarded'
    BY <1>2, <2>2 DEF RelinkIsGuarded, Live, Subject
  <2> QED
    BY <2>type, <2>rows, <2>calls, <2>requests, <2>keys, <2>relink
<1> QED
  BY <1>3, <1>4 DEF Commit, Relinked, Subject, Target

\* A crash leaves every handler idle.
LEMMA CrashStep ==
  ASSUME RecoveryInv, Crash
  PROVE  RecoveryInv'
<1> USE DEF RecoveryInv, Crash, CrashHandlers, chain, requests
<1>type. TypeOK'
  BY DirectoryAssumption DEF TypeOK, DirectoryTypeOK, Fault, Step
<1>calls. CallsAreGrounded'
  BY DEF CallsAreGrounded, Grounded, Executing
<1>rows. QuorumKept' /\ RowsAreKept' /\ RequestsAreGrounded'
  BY DEF QuorumKept, RowsAreKept, RequestsAreGrounded, RequestIsGrounded
<1>keys. KeysAreOwn' /\ RelinkIsGuarded'
  BY DEF KeysAreOwn, Active, RelinkIsGuarded
<1> QED
  BY <1>type, <1>calls, <1>rows, <1>keys

-----------------------------------------------------------------------------

\* Initially nothing is in progress, and everybody's wallet is anchored for him.
LEMMA InitHolds ==
  ASSUME Init, QuorumKept
  PROVE  RecoveryInv
<1> USE DEF Init, InitHandlers
<1>1. \A p \in Person : users[p] \in UserRow /\ users[p].wallet \in Own[p]
  OBVIOUS
<1>2. ASSUME NEW w \in Wallet, NEW p \in Person, users[p].wallet = w
      PROVE  anchored[w] = p
  <2>1. \A q \in Person : users[q].wallet = w => q = p
    BY <1>1, <1>2, RecoveryAssumption
  <2> QED
    BY <1>2, <2>1
<1>3. \A w \in Wallet : \/ anchored[w] = NoPerson
                        \/ anchored[w] \in Person /\ users[anchored[w]].wallet = w
  <2> SUFFICES ASSUME NEW w \in Wallet
               PROVE  \/ anchored[w] = NoPerson
                      \/ anchored[w] \in Person /\ users[anchored[w]].wallet = w
    OBVIOUS
  <2>1. CASE \E p \in Person : users[p].wallet = w
    BY <1>2, <2>1
  <2>2. CASE ~\E p \in Person : users[p].wallet = w
    BY <2>2
  <2> QED
    BY <2>1, <2>2
<1>4. \A w \in Wallet : holders[w] \subseteq Role
  BY <1>1 DEF UserRow
<1>type. TypeOK
  <2>1. DirectoryTypeOK
    <3>1. users \in [Person -> UserRow \cup {NoRow}]
      OBVIOUS
    <3>2. anchored \in [Wallet -> Person \cup {NoPerson}]
      BY <1>3
    <3>3. holders \in [Wallet -> SUBSET Role]
      BY <1>4
    <3> QED
      BY <3>1, <3>2, <3>3, DirectoryAssumption DEF DirectoryTypeOK
  <2> QED
    BY <1>1, <2>1 DEF TypeOK, Step
<1>calls. RowsAreKept /\ CallsAreGrounded /\ RequestsAreGrounded
  BY <1>1 DEF RowsAreKept, CallsAreGrounded, Grounded, Executing, RequestsAreGrounded,
         RequestIsGrounded
<1>keys. KeysAreOwn
  BY <1>1, <1>3 DEF KeysAreOwn, Active
<1>relink. RelinkIsGuarded
  BY DEF RelinkIsGuarded
<1> QED
  BY <1>type, <1>calls, <1>keys, <1>relink DEF RecoveryInv

\* The invariant is kept by every step that leaves a quorum of guardians.
LEMMA NextKeeps ==
  ASSUME RecoveryInv, [Next /\ QuorumKept']_vars
  PROVE  RecoveryInv'
<1>1. ASSUME NEW h \in Handler, Receive(h)
      PROVE  RecoveryInv'
  BY <1>1, RequestRecoveryStep, ApproveRecoveryStep, RejectRecoveryStep,
     ExecuteRecoveryStep DEF Receive
<1>2. ASSUME NEW h \in Handler, Proceed(h)
      PROVE  RecoveryInv'
  BY <1>2, FindOpenStep, CreateRequestStep, VoteStep, VerdictStep, CheckTakenStep,
     RetireOldStep, RelinkStep, RegrantStep, CommitStep DEF Proceed
<1>3. ASSUME NEW h \in Handler, DatabaseError(h)
      PROVE  RecoveryInv'
  <2>1. Return(h) /\ UNCHANGED <<users, chain, guardians, requests>>
    BY <1>3 DEF DatabaseError, FailAt
  <2>2. faults' \in 0 .. MaxFaults
    BY <1>3, DirectoryAssumption
    DEF DatabaseError, FailAt, Fault, RecoveryInv, TypeOK, DirectoryTypeOK
  <2> QED
    BY <2>1, <2>2, ReturnStep
<1>4. CASE UNCHANGED vars
  <2> USE <1>4 DEF vars, chain, handlers, requests, RecoveryInv
  <2>1. TypeOK' /\ QuorumKept' /\ RowsAreKept'
    BY DEF TypeOK, DirectoryTypeOK, QuorumKept, RowsAreKept
  <2>2. CallsAreGrounded' /\ RequestsAreGrounded'
    BY DEF CallsAreGrounded, Grounded, RequestsAreGrounded, RequestIsGrounded
  <2>3. KeysAreOwn' /\ RelinkIsGuarded'
    BY DEF KeysAreOwn, Active, RelinkIsGuarded, Live, Subject
  <2> QED
    BY <2>1, <2>2, <2>3
<1>5. ASSUME NEW p \in Person, NEW g \in Person, AddGuardian(p, g) \/ RemoveGuardian(p, g),
             QuorumKept'
      PROVE  RecoveryInv'
  BY <1>5, GuardianStep
<1> QED
  BY <1>1, <1>2, <1>3, <1>4, <1>5, CrashStep DEF Next

\* RecoveryInv holds in every state of every execution.
THEOREM InvariantHolds == Spec => []RecoveryInv
<1> QED
  BY InitHolds, NextKeeps, PTL DEF Spec

\* No request is approved or executed without the votes of enough people other
\* than the one who raised it.
THEOREM VouchedByOthersHolds == Spec => []VouchedByOthers
<1>1. RecoveryInv => VouchedByOthers
  BY DEF RecoveryInv, RequestsAreGrounded, RequestIsGrounded, VouchedByOthers, Needed
<1> QED
  BY <1>1, InvariantHolds, PTL

\* Between the revocation and the re-link a person has no live wallet, and no other
\* execution is there.
THEOREM RelinkIsGuardedHolds == Spec => []RelinkIsGuarded
<1>1. RecoveryInv => RelinkIsGuarded
  BY DEF RecoveryInv
<1> QED
  BY <1>1, InvariantHolds, PTL

\* A person has no live wallet or one.
LEMMA AtMostOneLive ==
  ASSUME RecoveryInv, NEW p \in Person
  PROVE  Cardinality(Live(p)) <= 1
<1>1. \A v, w \in Live(p) : v = w
  BY DirectoryAssumption DEF RecoveryInv, KeysAreOwn, Active, Live
<1>2. CASE Live(p) = {}
  BY <1>2, FS_EmptySet
<1>3. CASE Live(p) # {}
  <2>1. PICK w : Live(p) = {w}
    BY <1>1, <1>3
  <2>2. Cardinality({w}) = 1
    BY FS_Singleton
  <2> QED
    BY <2>1, <2>2
<1> QED
  BY <1>2, <1>3

\* Nobody ever has two live wallets.
THEOREM OneLiveWalletHolds == Spec => []OneLiveWallet
<1>1. RecoveryInv => OneLiveWallet
  BY AtMostOneLive DEF OneLiveWallet
<1> QED
  BY <1>1, InvariantHolds, PTL

-----------------------------------------------------------------------------
(* The refinement. *)

\* A step that leaves the records, the terms and the votes alone is not seen.
LEMMA Unseen ==
  ASSUME UNCHANGED <<anchored, terms, votes>>
  PROVE  UNCHANGED Rotation!vars
BY DEF Rotation!vars, CurrentWallet, Live

\* A request that exists has terms.
LEMMA HasTerms ==
  ASSUME RecoveryInv, NEW r \in Request, status[r] # "NONE"
  PROVE  terms[r] \in Terms /\ terms[r] # NoTerms /\ terms[r].person \in Person
BY RecoveryAssumption DEF RecoveryInv, RequestsAreGrounded, RequestIsGrounded, Terms

\* KeyRotation counts as this module does.
LEMMA SameCardinality == \A S : Rotation!Cardinality(S) = Cardinality(S)
BY DEF Rotation!Cardinality, Cardinality, Rotation!IsFiniteSet, IsFiniteSet

\* What the handler of an execution knows is that its request is vouched for.
LEMMA ExecutingIsVouched ==
  ASSUME RecoveryInv, NEW h \in Handler, pc[h] \in Executing
  PROVE  /\ call[h].request \in Request /\ Rotation!Vouched(call[h].request)
         /\ Subject(h) \in Person /\ Target(h) \in Own[Subject(h)]
         /\ call[h].old \in Own[Subject(h)]
<1>1. /\ call[h].request \in Request /\ status[call[h].request] # "NONE"
      /\ Cardinality(votes[call[h].request]) >= Needed
      /\ call[h].old \in Own[Subject(h)]
  BY DEF RecoveryInv, CallsAreGrounded, Grounded, Subject, Executing
<1>2. Target(h) \in Own[Subject(h)]
  BY <1>1 DEF RecoveryInv, RequestsAreGrounded, RequestIsGrounded, Target, Subject
<1>3. terms[call[h].request] # NoTerms /\ Subject(h) \in Person
  BY <1>1, HasTerms DEF Subject
<1>4. Rotation!Vouched(call[h].request)
  BY <1>1, <1>3, SameCardinality DEF Rotation!Vouched, Needed
<1> QED
  BY <1>1, <1>2, <1>3, <1>4

\* Creating the row raises the request.
LEMMA CreateRequestRefines ==
  ASSUME RecoveryInv, NEW h \in Handler, CreateRequest(h)
  PROVE  Rotation!Next
<1>1. PICK r \in Free : terms' = [terms EXCEPT ![r] = call[h]]
  BY DEF CreateRequest
<1>2. r \in Request /\ terms[r] = NoTerms
  BY DEF Free, RecoveryInv, RequestsAreGrounded, RequestIsGrounded
<1>3. call[h] \in Rotation!Terms
  BY DEF CreateRequest, RecoveryInv, CallsAreGrounded, Grounded, Terms, Rotation!Terms
<1>4. UNCHANGED <<CurrentWallet, votes>>
  BY DEF CreateRequest, chain, CurrentWallet, Live
<1>5. Rotation!Raise(r)
  BY <1>1, <1>2, <1>3, <1>4 DEF Rotation!Raise
<1> QED
  BY <1>2, <1>5 DEF Rotation!Next

\* Writing the vote is vouching, by a guardian who did not ask.
LEMMA VoteRefines ==
  ASSUME RecoveryInv, NEW h \in Handler, Vote(h)
  PROVE  Rotation!Next
<1> DEFINE r == call[h].request
           g == call[h].guardian
<1>1. r \in Request /\ status[r] # "NONE" /\ g \in Person /\ g # terms[r].requestedBy
  BY DEF Vote, RecoveryInv, CallsAreGrounded, Grounded
<1>2. terms[r] # NoTerms
  BY <1>1, HasTerms
<1>3. votes' = [votes EXCEPT ![r] = @ \cup {g}] /\ UNCHANGED <<CurrentWallet, terms>>
  BY DEF Vote, chain, CurrentWallet, Live
<1>4. Rotation!Vouch(r, g)
  BY <1>1, <1>2, <1>3 DEF Rotation!Vouch
<1> QED
  BY <1>1, <1>4 DEF Rotation!Next

\* The revocation takes the wallet away, or nothing is seen.
LEMMA RetireOldRefines ==
  ASSUME RecoveryInv, NEW h \in Handler, RetireOld(h)
  PROVE  Rotation!Next \/ UNCHANGED Rotation!vars
<1>1. PICK r, p, w : r = call[h].request /\ p = Subject(h) /\ w = call[h].old
  OBVIOUS
<1>2. r \in Request /\ Rotation!Vouched(r) /\ p \in Person /\ w \in Own[p]
  BY <1>1, ExecutingIsVouched DEF RetireOld, Executing
<1>3. UNCHANGED <<terms, votes>>
  BY DEF RetireOld, requests
<1>4. UNCHANGED anchored \/ (Active(w) /\ Retire(w))
  BY <1>1 DEF RetireOld, Send, chain
<1>5. CASE Active(w) /\ Retire(w)
  <2>1. Live(p) # {} /\ Live(p)' = {} /\ \A q \in Person \ {p} : Live(q)' = Live(q)
    BY <1>2, <1>5, RetireLeavesNone
  <2>2. CurrentWallet[p] # NoWallet
    BY <1>2, <2>1, RecoveryAssumption DEF CurrentWallet, OneOf, Live
  <2>3. CurrentWallet' = [CurrentWallet EXCEPT ![p] = NoWallet]
    <3>1. OneOf({}) = NoWallet
      BY DEF OneOf
    <3> QED
      BY <1>2, <2>1, <3>1 DEF CurrentWallet
  <2>4. p = terms[r].person
    BY <1>1 DEF Subject
  <2>5. Rotation!Retire(r)
    BY <1>2, <1>3, <2>2, <2>3, <2>4 DEF Rotation!Retire
  <2> QED
    BY <1>2, <2>5 DEF Rotation!Next
<1> QED
  BY <1>3, <1>4, <1>5, Unseen

\* The re-link gives the person without a wallet the one that was vouched for, or
\* nothing is seen.
LEMMA RelinkRefines ==
  ASSUME RecoveryInv, NEW h \in Handler, Relink(h)
  PROVE  Rotation!Next \/ UNCHANGED Rotation!vars
<1>1. PICK r, p, w : r = call[h].request /\ p = Subject(h) /\ w = Target(h)
  OBVIOUS
<1>2. r \in Request /\ Rotation!Vouched(r) /\ p \in Person /\ w \in Own[p]
  BY <1>1, ExecutingIsVouched DEF Relink, Executing
<1>3. Live(p) = {}
  BY <1>1 DEF Relink, RecoveryInv, RelinkIsGuarded
<1>4. UNCHANGED <<terms, votes>>
  BY DEF Relink, requests
<1>5. UNCHANGED anchored \/ Anchor(w, p)
  BY <1>1 DEF Relink, Send, chain
<1>6. CASE Anchor(w, p)
  <2>1. Live(p)' = {w} /\ \A q \in Person \ {p} : Live(q)' = Live(q)
    BY <1>2, <1>3, <1>6, AnchorMakesTheOne
  <2>2. CurrentWallet[p] = NoWallet
    BY <1>2, <1>3 DEF CurrentWallet, OneOf
  <2>3. CurrentWallet' = [CurrentWallet EXCEPT ![p] = w]
    <3>1. OneOf({w}) = w
      BY DEF OneOf
    <3> QED
      BY <1>2, <2>1, <3>1 DEF CurrentWallet
  <2>4. p = terms[r].person /\ w = terms[r].wallet
    BY <1>1 DEF Subject, Target
  <2>5. Rotation!Rebind(r)
    BY <1>2, <1>4, <2>2, <2>3, <2>4 DEF Rotation!Rebind
  <2> QED
    BY <1>2, <2>5 DEF Rotation!Next
<1> QED
  BY <1>4, <1>5, <1>6, Unseen

\* Every step of the service is a step of the exchange of wallets or is not seen.
LEMMA NextRefines ==
  ASSUME RecoveryInv, [Next]_vars
  PROVE  Rotation!Next \/ UNCHANGED Rotation!vars
<1> USE DEF chain, requests
<1>1. ASSUME NEW h \in Handler, Receive(h)
      PROVE  UNCHANGED <<anchored, terms, votes>>
  BY <1>1 DEF Receive, RequestRecovery, ApproveRecovery, RejectRecovery, ExecuteRecovery
<1>2. ASSUME NEW h \in Handler, Proceed(h)
      PROVE  Rotation!Next \/ UNCHANGED Rotation!vars
  <2>1. CASE \/ FindOpen(h) \/ MarkApproved(h) \/ MarkRejected(h) \/ CheckTaken(h)
             \/ Regrant(h) \/ Commit(h)
    <3>1. UNCHANGED <<anchored, terms, votes>>
      BY <2>1 DEF FindOpen, MarkApproved, MarkRejected, CheckTaken, Regrant, Send, Grant,
                  Commit
    <3> QED
      BY <3>1, Unseen
  <2> QED
    BY <1>2, <2>1, CreateRequestRefines, VoteRefines, RetireOldRefines, RelinkRefines
    DEF Proceed
<1>3. ASSUME NEW h \in Handler, DatabaseError(h)
      PROVE  UNCHANGED <<anchored, terms, votes>>
  BY <1>3 DEF DatabaseError
<1>4. CASE Crash \/ UNCHANGED vars
  <2>1. UNCHANGED <<anchored, terms, votes>>
    BY <1>4 DEF Crash, vars
  <2> QED
    BY <2>1, Unseen
<1>5. ASSUME NEW p \in Person, NEW g \in Person, AddGuardian(p, g) \/ RemoveGuardian(p, g)
      PROVE  UNCHANGED <<anchored, terms, votes>>
  BY <1>5 DEF AddGuardian, RemoveGuardian
<1> QED
  BY <1>1, <1>2, <1>3, <1>4, <1>5, Unseen DEF Next

\* Recovery, with its races, retries and crashes, implements the exchange of wallets
\* in atomic steps, each vouched for by enough others.
THEOREM ImplementsRotation == Spec => RotationSpec
<1>1. Init => Rotation!Init
  <2> SUFFICES ASSUME Init PROVE Rotation!Init
    OBVIOUS
  <2>1. CurrentWallet \in [Person -> Wallet \cup {NoWallet}]
    BY DEF CurrentWallet, OneOf, Live
  <2> QED
    BY <2>1 DEF Init, Rotation!Init
<1>2. RecoveryInv /\ [Next /\ QuorumKept']_vars => [Rotation!Next]_Rotation!vars
  BY NextRefines
<1> QED
  BY <1>1, <1>2, InvariantHolds, PTL DEF Spec, RotationSpec, Rotation!Spec

-----------------------------------------------------------------------------
(* Chain and cache *)

InMove(h) == pc[h] \in {"relink", "regrant", "commit"}

\* One execution at a time moves a person, and once it has re-linked him its wallet
\* is live.
MovesInv ==
    faults = 0 =>
        /\ \A g, h \in Handler : InMove(g) /\ InMove(h) /\ Subject(g) = Subject(h) => g = h
        /\ \A h \in Handler : pc[h] \in {"regrant", "commit"} => anchored[Target(h)] = Subject(h)
        /\ \A p \in Person : (\A h \in Handler : InMove(h) => Subject(h) # p) =>
              anchored[users[p].wallet] = p

\* Whom an execution is about, and what it moves him from and to.
LEMMA MoverIsGrounded ==
  ASSUME RecoveryInv, NEW h \in Handler, pc[h] \in Executing
  PROVE  /\ Subject(h) \in Person /\ call[h].request \in Request
         /\ status[call[h].request] # "NONE"
         /\ Target(h) \in Wallet /\ Target(h) \in Own[Subject(h)]
         /\ call[h].old \in Wallet /\ call[h].old \in Own[Subject(h)]
BY RecoveryAssumption
DEF RecoveryInv, CallsAreGrounded, Grounded, Executing, RequestsAreGrounded, RequestIsGrounded,
    Terms, Subject, Target

\* What others move stays theirs.
LEMMA OthersMove ==
  ASSUME RecoveryInv, NEW h \in Handler, NEW s, NEW c,
         pc' = [pc EXCEPT ![h] = s], call' = [call EXCEPT ![h] = c],
         \A r \in Request : status[r] # "NONE" => terms'[r] = terms[r]
  PROVE  /\ pc'[h] = s /\ call'[h] = c
         /\ \A g \in Handler : g # h => pc'[g] = pc[g] /\ InMove(g)' = InMove(g)
         /\ \A g \in Handler : InMove(g) /\ (g # h \/ c = call[h]) =>
               Subject(g)' = Subject(g) /\ Target(g)' = Target(g)
<1>1. /\ pc'[h] = s /\ call'[h] = c
      /\ \A g \in Handler : g # h => pc'[g] = pc[g] /\ call'[g] = call[g]
  BY DEF RecoveryInv, TypeOK, CallsAreGrounded
<1>2. \A g \in Handler : InMove(g) => terms'[call[g].request] = terms[call[g].request]
  BY MoverIsGrounded DEF InMove, Executing
<1> QED
  BY <1>1, <1>2 DEF InMove, Subject, Target

\* A step that writes neither rows nor chain, and neither enters nor leaves a move.
LEMMA StillMoves ==
  ASSUME RecoveryInv, MovesInv, NEW h \in Handler, NEW s, NEW c,
         UNCHANGED <<users, anchored, faults>>,
         pc' = [pc EXCEPT ![h] = s], call' = [call EXCEPT ![h] = c],
         \A r \in Request : status[r] # "NONE" => terms'[r] = terms[r],
         \/ ~InMove(h) /\ s \notin {"relink", "regrant", "commit"}
         \/ pc[h] = "regrant" /\ s = "commit" /\ c = call[h]
  PROVE  MovesInv'
<1> SUFFICES ASSUME faults = 0 PROVE MovesInv'
  BY DEF MovesInv
<1>0. /\ pc'[h] = s
      /\ \A g \in Handler : g # h => pc'[g] = pc[g] /\ InMove(g)' = InMove(g)
      /\ \A g \in Handler : InMove(g) => Subject(g)' = Subject(g) /\ Target(g)' = Target(g)
  <2>1. InMove(h) => c = call[h]
    OBVIOUS
  <2> QED
    BY <2>1, OthersMove
<1>1. \A g \in Handler : /\ InMove(g)' = InMove(g)
                         /\ InMove(g) => Subject(g)' = Subject(g) /\ Target(g)' = Target(g)
                         /\ pc'[g] \in {"regrant", "commit"} <=> pc[g] \in {"regrant", "commit"}
  BY <1>0 DEF InMove
<1>2. \A g \in Handler : pc[g] \in {"regrant", "commit"} => InMove(g)
  BY DEF InMove
<1> QED
  BY <1>1, <1>2 DEF MovesInv

\* Of the executions for a person one has the move to itself.
LEMMA RetireMoves ==
  ASSUME RecoveryInv, MovesInv, NoWayBack, NEW h \in Handler, RetireOld(h), faults' = 0
  PROVE  MovesInv'
<1> DEFINE p == Subject(h)
           w == call[h].old
<1>0. /\ faults = 0 /\ pc[h] = "retire" /\ UNCHANGED <<users, terms>>
      /\ p \in Person /\ w \in Wallet /\ w \in Own[p]
      /\ call = [g \in Handler |-> call[g]] /\ pc \in [Handler -> Step]
      /\ anchored \in [Wallet -> Person \cup {NoPerson}]
      /\ ~Fault
  BY MoverIsGrounded
  DEF RetireOld, Executing, RecoveryInv, TypeOK, DirectoryTypeOK, CallsAreGrounded, Send, Fault, requests
<1>1. CASE Goto(h, "idle") /\ UNCHANGED chain /\ UNCHANGED faults
  BY <1>0, <1>1, StillMoves DEF Goto, Return, chain, InMove
<1>2. CASE Goto(h, "relink") /\ Active(w) /\ Retire(w) /\ UNCHANGED faults
  <2>1. pc' = [pc EXCEPT ![h] = "relink"] /\ call' = [call EXCEPT ![h] = call[h]]
    BY <1>0, <1>2 DEF Goto
  <2>2. /\ pc'[h] = "relink"
        /\ \A g \in Handler : g # h => pc'[g] = pc[g] /\ InMove(g)' = InMove(g)
        /\ \A g \in Handler : InMove(g) => Subject(g)' = Subject(g) /\ Target(g)' = Target(g)
    BY <1>0, <2>1, OthersMove
  <2>3. Subject(h)' = p /\ ~InMove(h) /\ InMove(h)'
    BY <1>0, <2>1 DEF Subject, InMove
  <2>4. anchored[w] = p /\ Live(p) # {}
    BY <1>0, <1>2, RecoveryAssumption DEF RecoveryInv, KeysAreOwn, Active, Live
  <2>5. ASSUME NEW g \in Handler, InMove(g) PROVE Subject(g) # p
    <3>1. CASE pc[g] = "relink"
      BY <2>4, <3>1 DEF RecoveryInv, RelinkIsGuarded
    <3>2. CASE pc[g] \in {"regrant", "commit"}
      <4>1. anchored[Target(g)] = Subject(g) /\ Target(g) \in Wallet /\ Target(g) # w
        BY <1>0, <3>2, MoverIsGrounded DEF MovesInv, NoWayBack, Executing
      <4> QED
        BY <1>0, <2>4, <4>1, DirectoryAssumption DEF RecoveryInv, KeysAreOwn, Active
    <3> QED
      BY <2>5, <3>1, <3>2 DEF InMove
  <2>6. \A v \in Wallet : v # w => anchored'[v] = anchored[v]
    BY <1>0, <1>2 DEF Retire
  <2>7. ASSUME NEW g \in Handler, pc'[g] \in {"regrant", "commit"}
        PROVE  anchored'[Target(g)'] = Subject(g)'
    <3>1. g # h /\ pc[g] \in {"regrant", "commit"} /\ InMove(g)
      BY <2>2, <2>7 DEF InMove
    <3>2. anchored[Target(g)] = Subject(g) /\ Target(g) \in Wallet /\ Target(g) # w
      BY <1>0, <3>1, MoverIsGrounded DEF MovesInv, NoWayBack, Executing
    <3> QED
      BY <2>2, <2>6, <3>1, <3>2
  <2>8. ASSUME NEW q \in Person, \A g \in Handler : InMove(g)' => Subject(g)' # q
        PROVE  anchored'[users'[q].wallet] = q
    <3>1. q # p
      BY <2>3, <2>8
    <3>2. anchored[users[q].wallet] = q /\ users[q].wallet \in Own[q] /\ users[q].wallet \in Wallet
      BY <1>0, <2>2, <2>3, <2>8 DEF MovesInv, RecoveryInv, RowsAreKept, UserRow
    <3> QED
      BY <1>0, <2>4, <2>6, <3>1, <3>2
  <2>9. \A f, g \in Handler : InMove(f)' /\ InMove(g)' /\ Subject(f)' = Subject(g)' => f = g
    BY <1>0, <2>2, <2>3, <2>5 DEF MovesInv
  <2> QED
    BY <2>7, <2>8, <2>9 DEF MovesInv
<1> QED
  BY <1>0, <1>1, <1>2 DEF RetireOld, Send, AfterFailedRetire

\* The re-link makes the wallet of its move live.
LEMMA RelinkMoves ==
  ASSUME RecoveryInv, MovesInv, NEW h \in Handler, Relink(h), faults' = 0
  PROVE  MovesInv'
<1> DEFINE p == Subject(h)
           w == Target(h)
<1>0. /\ faults = 0 /\ pc[h] = "relink" /\ UNCHANGED <<users, terms>>
      /\ p \in Person /\ w \in Wallet /\ w \in Own[p]
      /\ call = [g \in Handler |-> call[g]]
      /\ Goto(h, "regrant") /\ Anchor(w, p)
      /\ anchored \in [Wallet -> Person \cup {NoPerson}]
  BY MoverIsGrounded
  DEF Relink, Executing, RecoveryInv, TypeOK, DirectoryTypeOK, CallsAreGrounded, Send, Fault, requests
<1>1. pc' = [pc EXCEPT ![h] = "regrant"] /\ call' = [call EXCEPT ![h] = call[h]]
  BY <1>0 DEF Goto
<1>2. /\ pc'[h] = "regrant"
      /\ \A g \in Handler : g # h => pc'[g] = pc[g] /\ InMove(g)' = InMove(g)
      /\ \A g \in Handler : InMove(g) => Subject(g)' = Subject(g) /\ Target(g)' = Target(g)
  BY <1>0, <1>1, OthersMove
<1>3. InMove(h) /\ InMove(h)'
  BY <1>0, <1>2 DEF InMove
<1>4. Live(p) = {}
  BY <1>0 DEF RecoveryInv, RelinkIsGuarded
<1>5. ~Active(w) /\ anchored'[w] = p /\ \A v \in Wallet : v # w => anchored'[v] = anchored[v]
  <2>1. ~Active(w)
    BY <1>0, <1>4, RecoveryAssumption DEF RecoveryInv, KeysAreOwn, Active, Live
  <2> QED
    BY <1>0, <2>1 DEF Anchor
<1>6. ASSUME NEW g \in Handler, pc'[g] \in {"regrant", "commit"}
      PROVE  anchored'[Target(g)'] = Subject(g)'
  <2>1. CASE g = h
    BY <1>2, <1>3, <1>5, <2>1
  <2>2. CASE g # h
    <3>1. pc[g] \in {"regrant", "commit"} /\ InMove(g)
      BY <1>2, <1>6, <2>2 DEF InMove
    <3>2. anchored[Target(g)] = Subject(g) /\ Target(g) \in Wallet /\ Subject(g) \in Person
      BY <1>0, <3>1, MoverIsGrounded DEF MovesInv, Executing
    <3>3. Target(g) # w
      BY <1>5, <3>2, DirectoryAssumption DEF Active
    <3> QED
      BY <1>2, <1>5, <3>1, <3>2, <3>3
  <2> QED
    BY <2>1, <2>2
<1>7. ASSUME NEW q \in Person, \A g \in Handler : InMove(g)' => Subject(g)' # q
      PROVE  anchored'[users'[q].wallet] = q
  <2>1. anchored[users[q].wallet] = q /\ users[q].wallet \in Wallet
    BY <1>0, <1>2, <1>3, <1>7 DEF MovesInv, RecoveryInv, RowsAreKept, UserRow
  <2> QED
    BY <1>0, <1>5, <2>1, DirectoryAssumption DEF Active
<1>8. \A f, g \in Handler : InMove(f)' /\ InMove(g)' /\ Subject(f)' = Subject(g)' => f = g
  BY <1>0, <1>2, <1>3 DEF MovesInv
<1> QED
  BY <1>6, <1>7, <1>8 DEF MovesInv

\* The commit ends the move with the row on the live wallet.
LEMMA CommitMoves ==
  ASSUME RecoveryInv, MovesInv, NEW h \in Handler, Commit(h), faults' = 0
  PROVE  MovesInv'
<1> DEFINE p == Subject(h)
           w == Target(h)
<1>0. /\ faults = 0 /\ pc[h] = "commit" /\ UNCHANGED <<anchored, terms>> /\ Return(h)
      /\ p \in Person /\ w \in Wallet /\ w \in Own[p] /\ anchored[w] = p
      /\ users \in [Person -> UserRow \cup {NoRow}]
      /\ \A q \in Person : users[q] \in UserRow /\ users[q].wallet \in Own[q]
  BY MoverIsGrounded
  DEF Commit, Executing, RecoveryInv, TypeOK, DirectoryTypeOK, RowsAreKept, MovesInv, chain
<1>1. /\ pc'[h] = "idle"
      /\ \A g \in Handler : g # h => pc'[g] = pc[g] /\ InMove(g)' = InMove(g)
      /\ \A g \in Handler : InMove(g) /\ g # h =>
            Subject(g)' = Subject(g) /\ Target(g)' = Target(g)
  BY <1>0, OthersMove DEF Return
<1>2. InMove(h) /\ ~InMove(h)'
  BY <1>0, <1>1 DEF InMove
<1>3. users'[p].wallet = w /\ \A q \in Person : q # p => users'[q] = users[q]
  <2>1. ~\E q \in Known \ {p} : users[q].wallet = w
    BY <1>0, RecoveryAssumption DEF Known
  <2>2. users' = [users EXCEPT ![p] = [@ EXCEPT !.wallet = w]]
    BY <2>1 DEF Commit, Relinked
  <2>3. users'[p] = [users[p] EXCEPT !.wallet = w] /\ \A q \in Person : q # p => users'[q] = users[q]
    BY <1>0, <2>2
  <2> QED
    BY <1>0, <2>3 DEF UserRow
<1>4. \A g \in Handler : InMove(g)' => /\ g # h /\ InMove(g) /\ pc'[g] = pc[g]
                                       /\ Subject(g)' = Subject(g) /\ Target(g)' = Target(g)
  BY <1>1, <1>2
<1>5. \A g \in Handler : pc'[g] \in {"regrant", "commit"} => anchored'[Target(g)'] = Subject(g)'
  BY <1>0, <1>4 DEF MovesInv, InMove
<1>6. ASSUME NEW q \in Person, \A g \in Handler : InMove(g)' => Subject(g)' # q
      PROVE  anchored'[users'[q].wallet] = q
  <2>1. CASE q = p
    BY <1>0, <1>3, <2>1
  <2>2. CASE q # p
    <3>1. \A g \in Handler : InMove(g) => Subject(g) # q
      BY <1>1, <1>6, <2>2
    <3> QED
      BY <1>0, <1>3, <2>2, <3>1 DEF MovesInv
  <2> QED
    BY <2>1, <2>2
<1> QED
  BY <1>0, <1>4, <1>5, <1>6 DEF MovesInv

\* Every other step of a call.
LEMMA CallMoves ==
  ASSUME RecoveryInv, MovesInv, NEW h \in Handler, faults' = 0,
         \/ Receive(h) \/ FindOpen(h) \/ CreateRequest(h) \/ Vote(h) \/ MarkApproved(h)
         \/ MarkRejected(h) \/ CheckTaken(h) \/ Regrant(h)
  PROVE  MovesInv'
<1>0. /\ call = [g \in Handler |-> call[g]] /\ pc \in [Handler -> Step]
      /\ faults \in Nat /\ terms \in [Request -> Terms \cup {NoTerms}]
  BY DirectoryAssumption DEF RecoveryInv, TypeOK, DirectoryTypeOK, CallsAreGrounded
<1>1. ASSUME NEW s \in {"idle", "create", "markApproved", "retire"}, Goto(h, s), ~InMove(h),
             UNCHANGED <<users, anchored, faults, terms>>
      PROVE  MovesInv'
  BY <1>0, <1>1, StillMoves DEF Goto, Return
<1>2. ASSUME NEW s \in {"findOpen", "vote", "markRejected", "checkTaken"}, NEW c, Begin(h, s, c),
             UNCHANGED <<users, anchored, faults, terms>>
      PROVE  MovesInv'
  BY <1>0, <1>2, StillMoves DEF Begin, InMove
<1>3. CASE Receive(h)
  <2>1. UNCHANGED <<users, anchored, faults, terms>>
    BY <1>3
    DEF Receive, RequestRecovery, ApproveRecovery, RejectRecovery, ExecuteRecovery, chain, requests
  <2>2. PICK s, c :
            /\ s \in {"findOpen", "vote", "markRejected", "checkTaken"}
            /\ Begin(h, s, c)
    <3>1. \E s \in {"findOpen", "vote", "markRejected", "checkTaken"} : \E c : Begin(h, s, c)
      BY <1>3 DEF Receive, RequestRecovery, ApproveRecovery, RejectRecovery, ExecuteRecovery
    <3> QED
      BY <3>1
  <2> QED
    BY <1>2, <2>1, <2>2
<1>4. CASE FindOpen(h) \/ Vote(h) \/ MarkApproved(h) \/ MarkRejected(h) \/ CheckTaken(h)
  <2>1. UNCHANGED <<users, anchored, faults, terms>> /\ ~InMove(h)
    BY <1>4 DEF FindOpen, Vote, MarkApproved, MarkRejected, CheckTaken, chain, requests, InMove
  <2>2. PICK s \in {"idle", "create", "markApproved", "retire"} : Goto(h, s)
    BY <1>4 DEF FindOpen, Vote, MarkApproved, MarkRejected, CheckTaken, Goto
  <2> QED
    BY <1>1, <2>1, <2>2
<1>5. CASE CreateRequest(h)
  <2>1. PICK r \in Free : terms' = [terms EXCEPT ![r] = call[h]]
    BY <1>5 DEF CreateRequest
  <2>2. \A x \in Request : status[x] # "NONE" => terms'[x] = terms[x]
    BY <1>0, <2>1 DEF Free
  <2>3. /\ Return(h) /\ UNCHANGED <<users, anchored, faults>> /\ ~InMove(h)
    BY <1>5 DEF CreateRequest, chain, InMove
  <2> QED
    BY <2>2, <2>3, StillMoves DEF Return
<1>6. CASE Regrant(h)
  <2>1. /\ Goto(h, "commit") /\ UNCHANGED <<users, anchored, faults, terms>>
    BY <1>0, <1>6 DEF Regrant, Send, Fault, Grant, chain, requests
  <2>2. pc' = [pc EXCEPT ![h] = "commit"] /\ call' = [call EXCEPT ![h] = call[h]]
    BY <1>0, <2>1 DEF Goto
  <2> QED
    BY <1>6, <2>1, <2>2, StillMoves DEF Regrant
<1> QED
  BY <1>3, <1>4, <1>5, <1>6

LEMMA StepKeepsMoves ==
  ASSUME RecoveryInv, MovesInv, NoWayBack, [Next]_vars
  PROVE  MovesInv'
<1>0. faults \in Nat
  BY DirectoryAssumption DEF RecoveryInv, TypeOK, DirectoryTypeOK
<1>1. CASE faults' # 0
  BY <1>1 DEF MovesInv
<1>2. CASE faults' = 0
  <2>1. ASSUME NEW p \in Person, NEW g \in Person, AddGuardian(p, g) \/ RemoveGuardian(p, g)
        PROVE  MovesInv'
    BY <2>1
    DEF AddGuardian, RemoveGuardian, MovesInv, InMove, Subject, Target, chain, handlers, requests
  <2>2. ASSUME NEW h \in Handler, Receive(h) \/ Proceed(h) PROVE MovesInv'
    BY <1>2, <2>2, RetireMoves, RelinkMoves, CommitMoves, CallMoves DEF Proceed
  <2>3. ~Crash /\ \A h \in Handler : ~DatabaseError(h)
    BY <1>0, <1>2 DEF Crash, CrashHandlers, DatabaseError, FailAt, Fault
  <2>4. CASE UNCHANGED vars
    BY <2>4 DEF vars, chain, handlers, requests, MovesInv, InMove, Subject, Target
  <2> QED
    BY <2>1, <2>2, <2>3, <2>4 DEF Next
<1> QED
  BY <1>1, <1>2

\* Initially everybody's wallet is anchored for him.
LEMMA InitMoves == Init => MovesInv
<1> SUFFICES ASSUME Init PROVE MovesInv
  OBVIOUS
<1>1. \A h \in Handler : ~InMove(h) /\ pc[h] = "idle"
  BY DEF Init, InitHandlers, InMove
<1>2. ASSUME NEW p \in Person PROVE anchored[users[p].wallet] = p
  <2>1. users[p].wallet \in Wallet /\ users[p].wallet \in Own[p]
    BY DEF Init, UserRow
  <2>2. \A q \in Person : users[q].wallet = users[p].wallet => q = p
    BY <2>1, RecoveryAssumption DEF Init
  <2> QED
    BY <2>1, <2>2 DEF Init
<1> QED
  BY <1>1, <1>2 DEF MovesInv

\* As long as nothing fails and nobody goes back to a wallet that an execution still
\* waits to revoke, everybody's wallet in the database is the live one, except
\* while an execution is between its revocation and its commit.
THEOREM CacheFollowsChainHolds == Spec /\ []NoWayBack => []CacheFollowsChain
<1>1. RecoveryInv /\ MovesInv /\ NoWayBack /\ [Next /\ QuorumKept']_vars => MovesInv'
  BY StepKeepsMoves
<1>2. MovesInv => CacheFollowsChain
  BY DEF MovesInv, CacheFollowsChain, Moving, InMove
<1> QED
  BY <1>1, <1>2, InitMoves, InvariantHolds, PTL DEF Spec
==============================================================================
