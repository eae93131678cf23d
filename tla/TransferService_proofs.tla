------------------------ MODULE TransferService_proofs ------------------------
(***************************************************************************)
(* TransferInv is an invariant of the transfer service, and with it the    *)
(* service implements RequestLifecycle.  One lemma per action shows that   *)
(* the action keeps each part of the invariant; its steps are named after  *)
(* the parts: type, grounded, claim, dual, mined.                          *)
(***************************************************************************)
EXTENDS TransferService, SequenceTheorems, TLAPS

\* What a handler may go on to with memory c at step s, as far as the rows and
\* the transactions stand now.
MayGoTo(h, s, c) ==
    /\ s \in {"checkPending", "create"} =>
          c.terms \in Terms /\ c.terms.fromUser # c.terms.toUser
    /\ s \in {"claim", "claimRejection"} =>
          /\ c.request \in Request /\ c.caller \in User
          /\ status[c.request] # "NONE"
          /\ terms[c.request].requestedBy # c.caller
    /\ s = "claim" => c.terms = terms[c.request]
    /\ s \in {"commit", "release"} => Claiming(h) /\ c = call[h]
    /\ s = "commit" /\ c.terms.asset \in OnChain =>
          SentFor(c.tx, c.request) /\ txs[c.tx].status = "mined"

\* A step that writes no row and no transaction keeps the invariant when the
\* handler goes where its memory allows.
LEMMA ControlStep ==
  ASSUME TransferInv, NEW h \in Handler, NEW s \in Step \ {"submit", "wait"},
         NEW c \in Call, MayGoTo(h, s, c), UNCHANGED <<db, chain>>,
         faults' \in 0 .. MaxFaults,
         pc' = [pc EXCEPT ![h] = s], call' = [call EXCEPT ![h] = c]
  PROVE  TransferInv'
<1> USE DEF TransferInv, db, chain
<1>type. TypeOK'
  BY DEF TypeOK, Step
<1>grounded. CallsAreGrounded'
  BY DEF TypeOK, CallsAreGrounded, MayGoTo, Claiming, SentFor, Step
<1>claim. ClaimExclusive'
  BY DEF TypeOK, ClaimExclusive, MayGoTo, Claiming, Step
<1>dual. DualAuthorization'
  BY DEF DualAuthorization
<1>mined. ExecutedWasMined'
  BY DEF ExecutedWasMined, SentFor
<1> QED
  BY <1>type, <1>grounded, <1>claim, <1>dual, <1>mined

\* A handler may always end its call.
LEMMA ReturnStep ==
  ASSUME TransferInv, NEW h \in Handler, Return(h), UNCHANGED <<db, chain>>,
         faults' \in 0 .. MaxFaults
  PROVE  TransferInv'
<1>1. NoCall \in Call
  BY TransferAssumption DEF NoCall, CallBy, Call
<1>2. "idle" \in Step \ {"submit", "wait"} /\ MayGoTo(h, "idle", NoCall)
  BY DEF Step, MayGoTo
<1> QED
  BY <1>1, <1>2, ControlStep DEF Return

\* A call that begins to raise a request remembers well-formed terms.
LEMMA RequestTransferStep ==
  ASSUME TransferInv, NEW h \in Handler, NEW u \in User, NEW a \in Asset,
         NEW to \in Registered, RequestTransfer(h, u, a, to)
  PROVE  TransferInv'
<1> DEFINE t == [asset |-> a, fromUser |-> dbOwner[a],
                 toUser |-> to, requestedBy |-> u]
           c == CallBy(u, NoRequest, t)
<1>1. t \in Terms /\ t.fromUser # t.toUser
  BY DEF TransferInv, TypeOK, Terms, RequestTransfer, Registered
<1>2. c \in Call /\ c.terms = t
  BY <1>1, TransferAssumption DEF Call, CallBy
<1>3. /\ UNCHANGED <<db, chain>> /\ faults' \in 0 .. MaxFaults
      /\ pc' = [pc EXCEPT ![h] = "checkPending"] /\ call' = [call EXCEPT ![h] = c]
  BY DEF RequestTransfer, Begin, TransferInv, TypeOK
<1> HIDE DEF t, c
<1>4. "checkPending" \in Step \ {"submit", "wait"} /\ MayGoTo(h, "checkPending", c)
  BY <1>1, <1>2 DEF Step, MayGoTo
<1> QED
  BY <1>2, <1>3, <1>4, ControlStep

\* Looking for a pending request changes only what the handler does next.
LEMMA CheckPendingStep ==
  ASSUME TransferInv, NEW h \in Handler, CheckPending(h)
  PROVE  TransferInv'
<1>1. UNCHANGED <<db, chain>> /\ faults' \in 0 .. MaxFaults
  BY DEF CheckPending, TransferInv, TypeOK
<1>2. CASE Return(h)
  BY <1>1, <1>2, ReturnStep
<1>3. CASE Goto(h, "create")
  <2>1. call[h] \in Call /\ call' = [call EXCEPT ![h] = call[h]]
        /\ pc' = [pc EXCEPT ![h] = "create"]
    BY <1>3 DEF Goto, TransferInv, TypeOK
  <2>2. "create" \in Step \ {"submit", "wait"} /\ MayGoTo(h, "create", call[h])
    BY DEF CheckPending, TransferInv, CallsAreGrounded, Step, MayGoTo
  <2> QED
    BY <1>1, <2>1, <2>2, ControlStep
<1> QED
  BY <1>2, <1>3 DEF CheckPending

\* An approver who is not the requester remembers the terms of the request.
LEMMA ApproveTransferStep ==
  ASSUME TransferInv, NEW h \in Handler, NEW u \in User, NEW r \in Request,
         ApproveTransfer(h, u, r)
  PROVE  TransferInv'
<1> DEFINE c == CallBy(u, r, terms[r])
<1>1. c \in Call /\ c.caller = u /\ c.request = r /\ c.terms = terms[r]
  BY TransferAssumption DEF TransferInv, TypeOK, Call, CallBy
<1>2. status[r] # "NONE" /\ terms[r].requestedBy # u
  BY DEF ApproveTransfer, MayDecide
<1>3. /\ UNCHANGED <<db, chain>> /\ faults' \in 0 .. MaxFaults
      /\ pc' = [pc EXCEPT ![h] = "claim"] /\ call' = [call EXCEPT ![h] = c]
  BY DEF ApproveTransfer, Begin, TransferInv, TypeOK
<1> HIDE DEF c
<1>4. "claim" \in Step \ {"submit", "wait"} /\ MayGoTo(h, "claim", c)
  BY <1>1, <1>2 DEF Step, MayGoTo
<1> QED
  BY <1>1, <1>3, <1>4, ControlStep

\* A caller who rejects is not the requester.
LEMMA RejectTransferStep ==
  ASSUME TransferInv, NEW h \in Handler, NEW u \in User, NEW r \in Request,
         RejectTransfer(h, u, r)
  PROVE  TransferInv'
<1> DEFINE c == CallBy(u, r, NoTerms)
<1>1. c \in Call /\ c.caller = u /\ c.request = r
  BY TransferAssumption DEF Call, CallBy
<1>2. status[r] # "NONE" /\ terms[r].requestedBy # u
  BY DEF RejectTransfer, MayDecide
<1>3. /\ UNCHANGED <<db, chain>> /\ faults' \in 0 .. MaxFaults
      /\ pc' = [pc EXCEPT ![h] = "claimRejection"] /\ call' = [call EXCEPT ![h] = c]
  BY DEF RejectTransfer, Begin, TransferInv, TypeOK
<1> HIDE DEF c
<1>4. /\ "claimRejection" \in Step \ {"submit", "wait"}
      /\ MayGoTo(h, "claimRejection", c)
  BY <1>1, <1>2 DEF Step, MayGoTo
<1> QED
  BY <1>1, <1>3, <1>4, ControlStep

\* Only a transaction of the claimed request that was mined leads to the commit.
LEMMA AwaitReceiptStep ==
  ASSUME TransferInv, NEW h \in Handler, AwaitReceipt(h)
  PROVE  TransferInv'
<1> DEFINE s == Outcome(txs[call[h].tx].status)
<1>1. /\ UNCHANGED <<db, chain>> /\ faults' \in 0 .. MaxFaults
      /\ pc' = [pc EXCEPT ![h] = s] /\ call' = [call EXCEPT ![h] = call[h]]
      /\ call[h] \in Call
  BY DEF AwaitReceipt, Goto, TransferInv, TypeOK
<1>2. s \in Step \ {"submit", "wait"} /\ MayGoTo(h, s, call[h])
  BY DEF AwaitReceipt, Outcome, TransferInv, CallsAreGrounded, Claiming, Step,
         MayGoTo
<1> QED
  BY <1>1, <1>2, ControlStep

\* Losing a receipt sends the handler to release its claim.
LEMMA LoseReceiptStep ==
  ASSUME TransferInv, NEW h \in Handler, LoseReceipt(h)
  PROVE  TransferInv'
<1>1. /\ UNCHANGED <<db, chain>> /\ faults' \in 0 .. MaxFaults
      /\ pc' = [pc EXCEPT ![h] = "release"] /\ call' = [call EXCEPT ![h] = call[h]]
      /\ call[h] \in Call
  BY TransferAssumption DEF LoseReceipt, Fault, Goto, TransferInv, TypeOK
<1>2. "release" \in Step \ {"submit", "wait"} /\ MayGoTo(h, "release", call[h])
  BY DEF LoseReceipt, Claiming, Step, MayGoTo
<1> QED
  BY <1>1, <1>2, ControlStep

\* A call that is refused or whose query fails writes nothing and ends.
LEMMA RefuseStep ==
  ASSUME TransferInv, NEW h \in Handler, Refuse(h) \/ DatabaseError(h)
  PROVE  TransferInv'
<1>1. Return(h) /\ UNCHANGED <<db, chain>> /\ faults' \in 0 .. MaxFaults
  BY TransferAssumption DEF Refuse, DatabaseError, Fault, TransferInv, TypeOK
<1> QED
  BY <1>1, ReturnStep

\* A new row is PENDING with the remembered terms, and no handler knows it yet.
LEMMA CreateRequestStep ==
  ASSUME TransferInv, NEW h \in Handler, CreateRequest(h)
  PROVE  TransferInv'
<1> USE TransferAssumption DEF TransferInv
<1>type. TypeOK'
  BY DEF TypeOK, Status, Step, Call, Transaction, Registered, CreateRequest,
         Unraised, Return, NoCall, CallBy, chain
<1>grounded. CallsAreGrounded'
  BY DEF TypeOK, CallsAreGrounded, Claiming, SentFor, Step, Call, Transaction,
         CreateRequest, Unraised, Return, NoCall, CallBy, chain
<1>claim. ClaimExclusive'
  BY DEF TypeOK, ClaimExclusive, CallsAreGrounded, Claiming, Step, Call,
         CreateRequest, Unraised, Return, NoCall, CallBy, chain
<1>dual. DualAuthorization'
  BY DEF TypeOK, DualAuthorization, CallsAreGrounded, ClaimExclusive, Claiming,
         ActorIdOf, CreateRequest, Unraised, Return, NoCall, CallBy, chain
<1>mined. ExecutedWasMined'
  BY DEF TypeOK, ExecutedWasMined, CallsAreGrounded, ClaimExclusive, Claiming,
         SentFor, Transaction, CreateRequest, Unraised, Return, NoCall, CallBy,
         chain
<1> QED
  BY <1>type, <1>grounded, <1>claim, <1>dual, <1>mined

\* The update that counts finds the request PENDING, so that no other handler
\* holds a claim on it; one that does not count changes no row.
LEMMA ClaimApprovalStep ==
  ASSUME TransferInv, NEW h \in Handler, ClaimApproval(h)
  PROVE  TransferInv'
<1> USE TransferAssumption DEF TransferInv
<1> DEFINE r == call[h].request
           d == ActorIdOf(call[h].caller)
<1>1. /\ pc[h] = "claim" /\ r \in Request /\ status[r] # "NONE"
      /\ d \in Registered \cup {NoUser} /\ terms[r].requestedBy # d /\ terms[r] \in Terms
  BY DEF ClaimApproval, CallsAreGrounded, ActorIdOf, Registered, Terms
<1>2. NoCall \in Call
  BY DEF NoCall, CallBy, Call
<1>3. CASE status[r] = "PENDING"
  <2>1. /\ status' = [status EXCEPT ![r] = "APPROVED"]
        /\ approvedBy' = [approvedBy EXCEPT ![r] = d]
        /\ pc' = [pc EXCEPT ![h] = "submit"] /\ call' = call
        /\ UNCHANGED <<terms, txHash, dbOwner, txs, custodian, faults>>
    BY <1>3 DEF ClaimApproval, Claim, Claimable, Goto, Return, chain
  <2>2. call[h].caller \in User /\ d = ActorIdOf(call[h].caller)
    BY <1>1 DEF CallsAreGrounded
  <2>3. r = call[h].request
    OBVIOUS
  <2>4. \A g \in Handler : Claiming(g) => call[g].request # r
    BY <1>3 DEF ClaimExclusive
  <2> HIDE DEF r, d
  <2>type. TypeOK'
    BY <1>1, <1>2, <1>3, <2>1, <2>2, <2>3, <2>4 DEF TypeOK, Status, Step, Call,
           Transaction, Registered
  <2>grounded. CallsAreGrounded'
    BY <1>1, <1>2, <1>3, <2>1, <2>2, <2>3, <2>4 DEF TypeOK, CallsAreGrounded,
           Claiming, SentFor, Step, Call, Transaction
  <2>claim. ClaimExclusive'
    BY <1>1, <1>2, <1>3, <2>1, <2>2, <2>3, <2>4 DEF TypeOK, ClaimExclusive,
           CallsAreGrounded, Claiming, Step, Call
  <2>dual. DualAuthorization'
    BY <1>1, <1>2, <1>3, <2>1, <2>2, <2>3, <2>4 DEF TypeOK, DualAuthorization,
           CallsAreGrounded, ClaimExclusive, Claiming, ActorIdOf
  <2>mined. ExecutedWasMined'
    BY <1>1, <1>2, <1>3, <2>1, <2>2, <2>3, <2>4 DEF TypeOK, ExecutedWasMined,
           CallsAreGrounded, ClaimExclusive, Claiming, SentFor, Transaction
  <2> QED
    BY <2>type, <2>grounded, <2>claim, <2>dual, <2>mined
<1>4. CASE status[r] # "PENDING"
  <2>1. Return(h) /\ UNCHANGED <<db, chain>> /\ faults' \in 0 .. MaxFaults
    BY <1>4 DEF ClaimApproval, Claim, Claimable, TypeOK
  <2> QED
    BY <2>1, ReturnStep
<1> QED
  BY <1>3, <1>4

\* A sent transaction names the claimed request and its recipient; without a
\* contract nothing is claimed about transactions.
LEMMA SubmitStep ==
  ASSUME TransferInv, NEW h \in Handler, Submit(h)
  PROVE  TransferInv'
<1> USE TransferAssumption DEF TransferInv
<1>1. pc[h] = "submit" /\ UNCHANGED <<status, terms, approvedBy, txHash, dbOwner, faults>>
  BY DEF Submit, db
<1>2. /\ call[h].request \in Request /\ call[h].terms = terms[call[h].request]
      /\ terms[call[h].request] \in Terms
  BY <1>1 DEF CallsAreGrounded, Claiming
<1>3. ASSUME NEW s \in {"commit", "release"}, Goto(h, s), UNCHANGED chain,
             s = "commit" => call[h].terms.asset \notin OnChain
      PROVE  TransferInv'
  <2>1. /\ UNCHANGED <<db, chain>> /\ faults' \in 0 .. MaxFaults
        /\ pc' = [pc EXCEPT ![h] = s] /\ call' = [call EXCEPT ![h] = call[h]]
        /\ call[h] \in Call
    BY <1>1, <1>3 DEF Goto, TypeOK, db
  <2>2. s \in Step \ {"submit", "wait"} /\ MayGoTo(h, s, call[h])
    BY <1>1, <1>3 DEF Claiming, Step, MayGoTo
  <2> QED
    BY <2>1, <2>2, ControlStep
<1>4. CASE /\ Len(txs) < MaxTx
           /\ txs' = Append(txs, [request |-> call[h].request,
                                  asset |-> call[h].terms.asset,
                                  to |-> call[h].terms.toUser, status |-> "pending"])
           /\ pc' = [pc EXCEPT ![h] = "wait"]
           /\ call' = [call EXCEPT ![h].tx = Len(txs) + 1]
           /\ UNCHANGED custodian
  <2> DEFINE x == [request |-> call[h].request, asset |-> call[h].terms.asset,
                   to |-> call[h].terms.toUser, status |-> "pending"]
             n == Len(txs) + 1
  <2>1. x \in Transaction /\ x.request = call[h].request /\ x.to = terms[call[h].request].toUser
    BY <1>2 DEF Transaction, Terms, Registered
  <2>2. n \in 1 .. MaxTx /\ Len(txs) \in Nat
    BY <1>4 DEF TypeOK
  <2>3. txs' = Append(txs, x)
    BY <1>4
  <2> HIDE DEF x
  <2>4. /\ txs' \in Seq(Transaction) /\ Len(txs') = n /\ DOMAIN txs' = 1 .. n
        /\ DOMAIN txs = 1 .. Len(txs)
        /\ txs'[n] = x /\ \A i \in 1 .. Len(txs) : txs'[i] = txs[i]
    BY <2>1, <2>3 DEF TypeOK
  <2>5. DOMAIN txs \subseteq DOMAIN txs' /\ n \in DOMAIN txs'
        /\ \A i \in DOMAIN txs : txs'[i] = txs[i]
    BY <2>2, <2>4
  <2>6. /\ call' \in [Handler -> Call] /\ call'[h].tx = n /\ call'[h].caller = call[h].caller
        /\ call'[h].request = call[h].request /\ call'[h].terms = call[h].terms
        /\ \A g \in Handler \ {h} : call'[g] = call[g]
    <3>1. call' = [call EXCEPT ![h] = [call[h] EXCEPT !.tx = n]]
      BY <1>4
    <3>2. \A c \in Call : [c EXCEPT !.tx = n] \in Call
      BY <2>2 DEF Call
    <3> HIDE DEF n
    <3> QED
      BY <3>1, <3>2 DEF TypeOK, Call
  <2>7. /\ pc' = [pc EXCEPT ![h] = "wait"] /\ UNCHANGED custodian
    BY <1>4
  <2> HIDE DEF n
  <2>type. TypeOK'
    BY <1>1, <1>2, <2>1, <2>2, <2>4, <2>5, <2>6, <2>7 DEF TypeOK, Status, Step,
           Call, Transaction, Registered
  <2>grounded. CallsAreGrounded'
    BY <1>1, <1>2, <2>1, <2>2, <2>4, <2>5, <2>6, <2>7 DEF TypeOK,
           CallsAreGrounded, Claiming, SentFor, Step, Call, Transaction
  <2>claim. ClaimExclusive'
    BY <1>1, <1>2, <2>1, <2>2, <2>4, <2>5, <2>6, <2>7 DEF TypeOK,
           ClaimExclusive, CallsAreGrounded, Claiming, Step, Call
  <2>dual. DualAuthorization'
    BY <1>1, <1>2, <2>1, <2>2, <2>4, <2>5, <2>6, <2>7 DEF TypeOK,
           DualAuthorization, CallsAreGrounded, ClaimExclusive, Claiming,
           ActorIdOf
  <2>mined. ExecutedWasMined'
    BY <1>1, <1>2, <2>1, <2>2, <2>4, <2>5, <2>6, <2>7 DEF TypeOK,
           ExecutedWasMined, CallsAreGrounded, ClaimExclusive, Claiming,
           SentFor, Transaction
  <2> QED
    BY <2>type, <2>grounded, <2>claim, <2>dual, <2>mined
<1> QED
  BY <1>3, <1>4 DEF Submit

\* A released request was APPROVED by the releasing handler, which then forgets it.
LEMMA ReleaseClaimStep ==
  ASSUME TransferInv, NEW h \in Handler, ReleaseClaim(h)
  PROVE  TransferInv'
<1> USE TransferAssumption DEF TransferInv
<1>1. pc[h] = "release" /\ call[h].request \in Request /\ status[call[h].request] = "APPROVED"
  BY DEF ReleaseClaim, CallsAreGrounded, ClaimExclusive, Claiming
<1>2. /\ status' = [status EXCEPT ![call[h].request] = "PENDING"]
      /\ approvedBy' = [approvedBy EXCEPT ![call[h].request] = NoUser]
      /\ pc' = [pc EXCEPT ![h] = "idle"] /\ call' = [call EXCEPT ![h] = NoCall]
      /\ UNCHANGED <<terms, txHash, dbOwner, txs, custodian, faults>>
  BY <1>1 DEF ReleaseClaim, ReleasedStatus, Return, chain
<1>3. NoCall \in Call
  BY DEF NoCall, CallBy, Call
<1>type. TypeOK'
  BY <1>1, <1>2, <1>3 DEF TypeOK, Status, Step, Call, Transaction, Registered
<1>grounded. CallsAreGrounded'
  BY <1>1, <1>2, <1>3 DEF TypeOK, CallsAreGrounded, Claiming, SentFor, Step,
         Call, Transaction
<1>claim. ClaimExclusive'
  BY <1>1, <1>2, <1>3 DEF TypeOK, ClaimExclusive, CallsAreGrounded, Claiming,
         Step, Call
<1>dual. DualAuthorization'
  BY <1>1, <1>2, <1>3 DEF TypeOK, DualAuthorization, CallsAreGrounded,
         ClaimExclusive, Claiming, ActorIdOf
<1>mined. ExecutedWasMined'
  BY <1>1, <1>2, <1>3 DEF TypeOK, ExecutedWasMined, CallsAreGrounded,
         ClaimExclusive, Claiming, SentFor, Transaction
<1> QED
  BY <1>type, <1>grounded, <1>claim, <1>dual, <1>mined

\* An executed request was claimed by the committing handler alone, and names
\* the transaction it waited for.
LEMMA CommitStep ==
  ASSUME TransferInv, NEW h \in Handler, Commit(h)
  PROVE  TransferInv'
<1> USE TransferAssumption DEF TransferInv
<1> DEFINE r == call[h].request
           d == ActorIdOf(call[h].caller)
<1>1. /\ pc[h] = "commit" /\ r \in Request /\ call[h].terms = terms[r] /\ terms[r] \in Terms
      /\ d \in Registered \cup {NoUser} /\ terms[r].requestedBy # d
      /\ call[h].tx \in 0 .. MaxTx
  BY DEF Commit, CallsAreGrounded, Claiming, ActorIdOf, Registered, Terms,
         TypeOK, Call
<1>2. /\ status' = [status EXCEPT ![r] = "EXECUTED"]
      /\ approvedBy' = [approvedBy EXCEPT ![r] = d]
      /\ txHash' = [txHash EXCEPT ![r] = call[h].tx]
      /\ dbOwner' = [dbOwner EXCEPT ![terms[r].asset] = terms[r].toUser]
      /\ pc' = [pc EXCEPT ![h] = "idle"] /\ call' = [call EXCEPT ![h] = NoCall]
      /\ UNCHANGED <<terms, txs, custodian, faults>>
  BY <1>1 DEF Commit, Return, chain
<1>3. NoCall \in Call
  BY DEF NoCall, CallBy, Call
<1>4. terms[r].toUser \in Registered
  BY <1>1 DEF Terms
<1>5. \A g \in Handler \ {h} : Claiming(g) => call[g].request # r
  BY <1>1 DEF ClaimExclusive, Claiming
<1>6. r = call[h].request
  OBVIOUS
<1> HIDE DEF r, d
<1>type. TypeOK'
  BY <1>1, <1>2, <1>3, <1>4, <1>5, <1>6 DEF TypeOK, Status, Step, Call,
         Transaction, Registered
<1>grounded. CallsAreGrounded'
  BY <1>1, <1>2, <1>3, <1>4, <1>5, <1>6 DEF TypeOK, CallsAreGrounded, Claiming,
         SentFor, Step, Call, Transaction
<1>claim. ClaimExclusive'
  BY <1>1, <1>2, <1>3, <1>4, <1>5, <1>6 DEF TypeOK, ClaimExclusive,
         CallsAreGrounded, Claiming, Step, Call
<1>dual. DualAuthorization'
  BY <1>1, <1>2, <1>3, <1>4, <1>5, <1>6 DEF TypeOK, DualAuthorization,
         CallsAreGrounded, ClaimExclusive, Claiming, ActorIdOf
<1>mined. ExecutedWasMined'
  BY <1>1, <1>2, <1>3, <1>4, <1>5, <1>6 DEF TypeOK, ExecutedWasMined,
         CallsAreGrounded, ClaimExclusive, Claiming, SentFor, Transaction
<1> QED
  BY <1>type, <1>grounded, <1>claim, <1>dual, <1>mined

\* A rejection counts only while the request is PENDING, that is unclaimed.
LEMMA ClaimRejectionStep ==
  ASSUME TransferInv, NEW h \in Handler, ClaimRejection(h)
  PROVE  TransferInv'
<1> USE TransferAssumption DEF TransferInv
<1> DEFINE r == call[h].request
           d == ActorIdOf(call[h].caller)
<1>1. /\ pc[h] = "claimRejection" /\ r \in Request /\ status[r] # "NONE"
      /\ d \in Registered \cup {NoUser} /\ terms[r].requestedBy # d /\ terms[r] \in Terms
  BY DEF ClaimRejection, CallsAreGrounded, ActorIdOf, Registered, Terms
<1>2. NoCall \in Call
  BY DEF NoCall, CallBy, Call
<1>3. CASE status[r] = "PENDING"
  <2>1. /\ status' = [status EXCEPT ![r] = "REJECTED"]
        /\ approvedBy' = [approvedBy EXCEPT ![r] = d]
        /\ pc' = [pc EXCEPT ![h] = "idle"] /\ call' = [call EXCEPT ![h] = NoCall]
        /\ UNCHANGED <<terms, txHash, dbOwner, txs, custodian, faults>>
    BY <1>3 DEF ClaimRejection, Claim, Claimable, Goto, Return, chain
  <2>2. call[h].caller \in User /\ d = ActorIdOf(call[h].caller)
    BY <1>1 DEF CallsAreGrounded
  <2>3. r = call[h].request
    OBVIOUS
  <2>4. \A g \in Handler : Claiming(g) => call[g].request # r
    BY <1>3 DEF ClaimExclusive
  <2> HIDE DEF r, d
  <2>type. TypeOK'
    BY <1>1, <1>2, <1>3, <2>1, <2>2, <2>3, <2>4 DEF TypeOK, Status, Step, Call,
           Transaction, Registered
  <2>grounded. CallsAreGrounded'
    BY <1>1, <1>2, <1>3, <2>1, <2>2, <2>3, <2>4 DEF TypeOK, CallsAreGrounded,
           Claiming, SentFor, Step, Call, Transaction
  <2>claim. ClaimExclusive'
    BY <1>1, <1>2, <1>3, <2>1, <2>2, <2>3, <2>4 DEF TypeOK, ClaimExclusive,
           CallsAreGrounded, Claiming, Step, Call
  <2>dual. DualAuthorization'
    BY <1>1, <1>2, <1>3, <2>1, <2>2, <2>3, <2>4 DEF TypeOK, DualAuthorization,
           CallsAreGrounded, ClaimExclusive, Claiming, ActorIdOf
  <2>mined. ExecutedWasMined'
    BY <1>1, <1>2, <1>3, <2>1, <2>2, <2>3, <2>4 DEF TypeOK, ExecutedWasMined,
           CallsAreGrounded, ClaimExclusive, Claiming, SentFor, Transaction
  <2> QED
    BY <2>type, <2>grounded, <2>claim, <2>dual, <2>mined
<1>4. CASE status[r] # "PENDING"
  <2>1. Return(h) /\ UNCHANGED <<db, chain>> /\ faults' \in 0 .. MaxFaults
    BY <1>4 DEF ClaimRejection, Claim, Claimable, TypeOK
  <2> QED
    BY <2>1, ReturnStep
<1> QED
  BY <1>3, <1>4

\* Mining settles one transaction and changes neither its request nor its
\* recipient; a mined transaction stays mined.
LEMMA MineStep ==
  ASSUME TransferInv, Mine
  PROVE  TransferInv'
<1> USE TransferAssumption DEF TransferInv
<1>1. PICK i \in NextToMine, s \in {"mined", "reverted"} :
        /\ txs' = [txs EXCEPT ![i].status = s]
        /\ custodian' \in {custodian, [custodian EXCEPT ![txs[i].asset] = txs[i].to]}
        /\ UNCHANGED <<status, terms, approvedBy, txHash, dbOwner, pc, call, faults>>
  BY DEF Mine, db
<1>2. i \in DOMAIN txs /\ txs[i].status = "pending" /\ txs[i] \in Transaction
  BY DEF NextToMine, TypeOK
<1>3. /\ DOMAIN txs' = DOMAIN txs /\ Len(txs') = Len(txs)
      /\ txs'[i] = [txs[i] EXCEPT !.status = s]
      /\ \A j \in DOMAIN txs \ {i} : txs'[j] = txs[j]
  BY <1>1, <1>2 DEF TypeOK
<1>4. txs'[i] \in Transaction /\ txs'[i].request = txs[i].request /\ txs'[i].to = txs[i].to
  BY <1>2, <1>3 DEF Transaction
<1>5. txs' \in Seq(Transaction)
  <2>1. txs' = [txs EXCEPT ![i] = txs'[i]]
    BY <1>1, <1>2 DEF TypeOK
  <2>2. i \in 1 .. Len(txs)
    BY <1>2 DEF TypeOK
  <2> QED
    <3> DEFINE e == txs'[i]
    <3>1. e \in Transaction /\ txs \in Seq(Transaction)
      BY <1>4 DEF TypeOK
    <3>2. txs' = [txs EXCEPT ![i] = e]
      BY <2>1
    <3> HIDE DEF e
    <3>3. [txs EXCEPT ![i] = e] \in Seq(Transaction)
      BY <2>2, <3>1, ExceptSeq
    <3> QED
      BY <3>2, <3>3
<1>6. custodian' \in [Asset -> User]
  BY <1>1, <1>2 DEF TypeOK, Transaction
<1>7. \A j \in DOMAIN txs : /\ txs'[j].request = txs[j].request /\ txs'[j].to = txs[j].to
                            /\ txs[j].status = "mined" => txs'[j].status = "mined"
  BY <1>2, <1>3, <1>4
<1>8. \A j, r : SentFor(j, r) => SentFor(j, r)'
  BY <1>1, <1>3, <1>7 DEF SentFor
<1>type. TypeOK'
  BY <1>1, <1>3, <1>5, <1>6, <1>7, <1>8 DEF TypeOK, Status, Step, Call,
         Transaction, Registered
<1>grounded. CallsAreGrounded'
  <2>1. \A g \in Handler :
          (pc[g] = "wait" \/ (pc[g] = "commit" /\ call[g].terms.asset \in OnChain) =>
              SentFor(call[g].tx, call[g].request))'
    BY <1>1, <1>8 DEF CallsAreGrounded
  <2>2. \A g \in Handler : pc[g] = "commit" /\ call[g].terms.asset \in OnChain =>
            txs'[call[g].tx].status = "mined"
    <3> SUFFICES ASSUME NEW g \in Handler, pc[g] = "commit",
                        call[g].terms.asset \in OnChain
                 PROVE  txs'[call[g].tx].status = "mined"
      OBVIOUS
    <3>1. call[g].tx \in DOMAIN txs /\ txs[call[g].tx].status = "mined"
      BY DEF CallsAreGrounded, SentFor
    <3> QED
      BY <1>7, <3>1
  <2> QED
    BY <1>1, <2>1, <2>2 DEF CallsAreGrounded, Claiming
<1>claim. ClaimExclusive'
  BY <1>1, <1>3, <1>5, <1>6, <1>7, <1>8 DEF TypeOK, ClaimExclusive,
         CallsAreGrounded, Claiming, Step, Call
<1>dual. DualAuthorization'
  BY <1>1, <1>3, <1>5, <1>6, <1>7, <1>8 DEF TypeOK, DualAuthorization,
         CallsAreGrounded, ClaimExclusive, Claiming, ActorIdOf
<1>mined. ExecutedWasMined'
  BY <1>1, <1>3, <1>5, <1>6, <1>7, <1>8 DEF TypeOK, ExecutedWasMined,
         CallsAreGrounded, ClaimExclusive, Claiming, SentFor, Transaction
<1> QED
  BY <1>type, <1>grounded, <1>claim, <1>dual, <1>mined

\* A crash ends every call and leaves rows and transactions as they are.
LEMMA CrashStep ==
  ASSUME TransferInv, Crash
  PROVE  TransferInv'
<1> USE TransferAssumption DEF TransferInv
<1>type. TypeOK'
  BY DEF TypeOK, Status, Step, Call, Transaction, Registered, Crash, Fault,
         NoCall, CallBy, db, chain
<1>grounded. CallsAreGrounded'
  BY DEF TypeOK, CallsAreGrounded, Claiming, SentFor, Step, Call, Transaction,
         Crash, Fault, NoCall, CallBy, db, chain
<1>claim. ClaimExclusive'
  BY DEF TypeOK, ClaimExclusive, CallsAreGrounded, Claiming, Step, Call, Crash,
         Fault, NoCall, CallBy, db, chain
<1>dual. DualAuthorization'
  BY DEF TypeOK, DualAuthorization, CallsAreGrounded, ClaimExclusive, Claiming,
         ActorIdOf, Crash, Fault, NoCall, CallBy, db, chain
<1>mined. ExecutedWasMined'
  BY DEF TypeOK, ExecutedWasMined, CallsAreGrounded, ClaimExclusive, Claiming,
         SentFor, Transaction, Crash, Fault, NoCall, CallBy, db, chain
<1> QED
  BY <1>type, <1>grounded, <1>claim, <1>dual, <1>mined

-----------------------------------------------------------------------------

\* Before the first call the invariant holds.
LEMMA InitHolds ==
  ASSUME Init
  PROVE  TransferInv
<1> USE TransferAssumption DEF Init
<1>1. NoCall \in Call
  BY DEF NoCall, CallBy, Call
<1>2. TypeOK
  <2>1. custodian \in [Asset -> User]
    BY DEF Registered
  <2> QED
    BY <1>1, <2>1 DEF TypeOK, Status, Step
<1>3. CallsAreGrounded /\ ClaimExclusive /\ DualAuthorization /\ ExecutedWasMined
  BY DEF CallsAreGrounded, ClaimExclusive, DualAuthorization, ExecutedWasMined,
         Claiming
<1> QED
  BY <1>2, <1>3 DEF TransferInv

\* The invariant depends on the variables of the specification only.
LEMMA StutterStep ==
  ASSUME TransferInv, UNCHANGED vars
  PROVE  TransferInv'
BY DEF TransferInv, TypeOK, CallsAreGrounded, ClaimExclusive,
       DualAuthorization,
       ExecutedWasMined, Claiming, SentFor, vars, db, chain

\* One case per action: every step keeps the invariant.
LEMMA NextKeepsInv ==
  ASSUME TransferInv, Next
  PROVE  TransferInv'
<1>1. ASSUME NEW h \in Handler, Receive(h) PROVE TransferInv'
  BY <1>1, RequestTransferStep, ApproveTransferStep, RejectTransferStep DEF
         Receive
<1>2. ASSUME NEW h \in Handler, Proceed(h) PROVE TransferInv'
  BY <1>2, CheckPendingStep, CreateRequestStep, ClaimApprovalStep, SubmitStep,
     AwaitReceiptStep, ReleaseClaimStep, CommitStep, ClaimRejectionStep DEF Proceed
<1>3. ASSUME NEW h \in Handler, Refuse(h) \/ LoseReceipt(h) \/ DatabaseError(h)
      PROVE  TransferInv'
  BY <1>3, RefuseStep, LoseReceiptStep
<1> QED
  BY <1>1, <1>2, <1>3, MineStep, CrashStep DEF Next

\* The invariant of every reachable state, for any number of requests,
\* handlers, assets and people, and any number of faults.
THEOREM InvariantHolds == Spec => []TransferInv
<1>1. TransferInv /\ [Next]_vars => TransferInv'
  BY NextKeepsInv, StutterStep
<1> QED
  BY InitHolds, <1>1, PTL DEF Spec

\* approveTransfer's "two concurrent approvals can't both submit": the claim is
\* exclusive for any number of handlers, requests and faults.
THEOREM ClaimIsExclusive == Spec => []ClaimExclusive
<1>1. TransferInv => ClaimExclusive
  BY DEF TransferInv
<1> QED
  BY InvariantHolds, <1>1, PTL

\* No one decides a request they raised, whatever the calls race with.
THEOREM DualAuthorizationHolds == Spec => []DualAuthorization
<1>1. TransferInv => DualAuthorization
  BY DEF TransferInv
<1> QED
  BY InvariantHolds, <1>1, PTL

\* What approveTransfer records as executed was executed on the chain, also
\* when receipts are lost and approvals repeated.
THEOREM ExecutedIsMined == Spec => []ExecutedWasMined
<1>1. TransferInv => ExecutedWasMined
  BY DEF TransferInv
<1> QED
  BY InvariantHolds, <1>1, PTL

-----------------------------------------------------------------------------
(* What an unexecuted request has moved *)

\* Every transaction sent is one the contract can be asked for.
LEMMA TransactionsAreTyped ==
  ASSUME TransferInv, NEW i \in DOMAIN txs
  PROVE  txs[i] \in Transaction
<1>1. txs \in Seq(Transaction)
  BY DEF TransferInv, TypeOK
<1> QED
  BY <1>1

\* A step keeps a transaction accounted for when it neither changes the
\* transaction nor takes EXECUTED back, and a handler that awaits it goes on
\* doing so or has had its request executed.
LEMMA AccountedStep ==
  ASSUME TransferInv, MovesAreAccounted, txs' = txs, faults' = 0 => faults = 0,
         \A r \in Request : status[r] = "EXECUTED" => status'[r] = "EXECUTED",
         faults' = 0 =>
            \A h \in Handler : pc[h] \in {"wait", "commit"} =>
                \/ /\ pc'[h] \in {"wait", "commit"} /\ call'[h] = call[h]
                \/ status'[call[h].request] = "EXECUTED"
                \/ txs[call[h].tx].status = "reverted"
  PROVE  MovesAreAccounted'
<1> SUFFICES ASSUME faults' = 0, NEW i \in DOMAIN txs, txs[i].status # "reverted"
             PROVE  status'[txs[i].request] = "EXECUTED" \/ Awaited(i)'
  BY DEF MovesAreAccounted
<1>1. txs[i].request \in Request
  BY TransactionsAreTyped DEF Transaction
<1>2. CASE status[txs[i].request] = "EXECUTED"
  BY <1>1, <1>2
<1>3. CASE Awaited(i)
  BY <1>3 DEF Awaited
<1> QED
  BY <1>2, <1>3 DEF MovesAreAccounted

\* The transaction Submit sends is awaited; the others stay as they were.
LEMMA SubmitAccounted ==
  ASSUME TransferInv, MovesAreAccounted, NEW h \in Handler, Submit(h)
  PROVE  MovesAreAccounted'
<1> USE DEF TransferInv
<1>1. /\ pc[h] = "submit" /\ UNCHANGED <<status, faults>>
      /\ pc \in [Handler -> Step] /\ call \in [Handler -> Call]
      /\ txs \in Seq(Transaction)
  BY DEF Submit, db, TypeOK
<1>2. CASE UNCHANGED <<txs, call>> /\ \A g \in Handler \ {h} : pc'[g] = pc[g]
  BY <1>1, <1>2, AccountedStep
<1>3. CASE /\ txs' = Append(txs, [request |-> call[h].request,
                                  asset |-> call[h].terms.asset,
                                  to |-> call[h].terms.toUser, status |-> "pending"])
           /\ pc' = [pc EXCEPT ![h] = "wait"]
           /\ call' = [call EXCEPT ![h].tx = Len(txs) + 1]
  <2>1. /\ DOMAIN txs' = DOMAIN txs \cup {Len(txs) + 1}
        /\ \A i \in DOMAIN txs : txs'[i] = txs[i]
        /\ txs'[Len(txs) + 1].request = call[h].request
    BY <1>1, <1>3
  <2>2. /\ pc'[h] = "wait" /\ call'[h].request = call[h].request
        /\ call'[h].tx = Len(txs) + 1
        /\ \A g \in Handler \ {h} : pc'[g] = pc[g] /\ call'[g] = call[g]
    BY <1>1, <1>3 DEF Call
  <2> SUFFICES ASSUME faults' = 0, NEW i \in DOMAIN txs', txs'[i].status # "reverted"
               PROVE  status'[txs'[i].request] = "EXECUTED" \/ Awaited(i)'
    BY DEF MovesAreAccounted
  <2>3. CASE i = Len(txs) + 1
    BY <2>1, <2>2, <2>3 DEF Awaited
  <2>4. CASE i \in DOMAIN txs
    <3>1. status[txs[i].request] = "EXECUTED" \/ Awaited(i)
      BY <1>1, <2>1, <2>4 DEF MovesAreAccounted
    <3>2. ASSUME Awaited(i) PROVE Awaited(i)'
      BY <1>1, <2>1, <2>2, <2>4, <3>2 DEF Awaited
    <3> QED
      BY <1>1, <2>1, <2>4, <3>1, <3>2
  <2> QED
    BY <2>1, <2>3, <2>4
<1> QED
  BY <1>1, <1>2, <1>3 DEF Submit, Goto, chain

\* Mining settles one transaction and changes neither rows nor handlers.
LEMMA MineAccounted ==
  ASSUME TransferInv, MovesAreAccounted, Mine
  PROVE  MovesAreAccounted'
<1> USE DEF TransferInv
<1>1. PICK i \in NextToMine, s \in {"mined", "reverted"} :
        /\ txs' = [txs EXCEPT ![i].status = s]
        /\ UNCHANGED <<status, pc, call, faults>>
  BY DEF Mine, db
<1>2. i \in DOMAIN txs /\ txs[i].status = "pending" /\ txs \in Seq(Transaction)
  BY DEF NextToMine, TypeOK
<1>3. /\ DOMAIN txs' = DOMAIN txs
      /\ \A j \in DOMAIN txs : txs'[j].request = txs[j].request
      /\ \A j \in DOMAIN txs : txs[j].status = "reverted" => txs'[j].status = "reverted"
  BY <1>1, <1>2 DEF Transaction
<1>4. \A j \in DOMAIN txs : Awaited(j) => Awaited(j)'
  BY <1>1, <1>3 DEF Awaited
<1> QED
  BY <1>1, <1>3, <1>4 DEF MovesAreAccounted

\* One case per action: a step that is no fault keeps every transaction
\* accounted for.
LEMMA NextKeepsAccounted ==
  ASSUME TransferInv, MovesAreAccounted, Next
  PROVE  MovesAreAccounted'
<1> USE DEF TransferInv
<1>1. /\ pc \in [Handler -> Step] /\ call \in [Handler -> Call]
      /\ status \in [Request -> Status] /\ faults \in Nat
  BY DEF TypeOK
<1>2. ASSUME Fault PROVE faults' # 0
  BY <1>1, <1>2 DEF Fault
<1>3. ASSUME NEW h \in Handler, Receive(h) \/ CheckPending(h) \/ Refuse(h)
      PROVE  MovesAreAccounted'
  <2>1. /\ pc[h] \in {"idle", "checkPending", "claim"}
        /\ \A g \in Handler \ {h} : pc'[g] = pc[g] /\ call'[g] = call[g]
        /\ UNCHANGED <<status, txs, faults>>
    BY <1>1, <1>3 DEF Receive, RequestTransfer, ApproveTransfer, RejectTransfer,
           CheckPending, Refuse, Begin, Goto, Return, db, chain
  <2> QED
    BY <2>1, AccountedStep
<1>4. ASSUME NEW h \in Handler, CreateRequest(h) PROVE MovesAreAccounted'
  <2>1. /\ pc[h] = "create"
        /\ \A g \in Handler \ {h} : pc'[g] = pc[g] /\ call'[g] = call[g]
        /\ \A r \in Request : status[r] = "EXECUTED" => status'[r] = "EXECUTED"
        /\ UNCHANGED <<txs, faults>>
    BY <1>1, <1>4 DEF CreateRequest, Return, Unraised, chain
  <2> QED
    BY <2>1, AccountedStep
<1>5. ASSUME NEW h \in Handler, ClaimApproval(h) \/ ClaimRejection(h)
      PROVE  MovesAreAccounted'
  <2>1. /\ pc[h] \in {"claim", "claimRejection"}
        /\ \A g \in Handler \ {h} : pc'[g] = pc[g] /\ call'[g] = call[g]
        /\ UNCHANGED <<txs, faults>>
    BY <1>1, <1>5 DEF ClaimApproval, ClaimRejection, Claim, Return, Goto, chain
  <2>2. \A r \in Request : status[r] = "EXECUTED" => status'[r] = "EXECUTED"
    BY <1>1, <1>5 DEF ClaimApproval, ClaimRejection, Claim, Claimable, db
  <2> QED
    BY <2>1, <2>2, AccountedStep
<1>6. ASSUME NEW h \in Handler, AwaitReceipt(h) PROVE MovesAreAccounted'
  <2>1. /\ pc[h] = "wait" /\ txs[call[h].tx].status # "pending"
        /\ pc' = [pc EXCEPT ![h] = Outcome(txs[call[h].tx].status)]
        /\ UNCHANGED <<status, txs, call, faults>>
    BY <1>6 DEF AwaitReceipt, Settled, Goto, db, chain
  <2>2. call[h].tx \in DOMAIN txs
    BY <2>1 DEF CallsAreGrounded, SentFor
  <2>3. txs[call[h].tx].status \in {"pending", "mined", "reverted"}
    BY <2>2, TransactionsAreTyped DEF Transaction
  <2>4. pc'[h] = "commit" \/ txs[call[h].tx].status = "reverted"
    BY <1>1, <2>1, <2>3 DEF Outcome
  <2>5. \A g \in Handler \ {h} : pc'[g] = pc[g]
    BY <1>1, <2>1
  <2> QED
    BY <2>1, <2>4, <2>5, AccountedStep
<1>7. ASSUME NEW h \in Handler, ReleaseClaim(h) PROVE MovesAreAccounted'
  <2>1. /\ pc[h] = "release"
        /\ \A g \in Handler \ {h} : pc'[g] = pc[g] /\ call'[g] = call[g]
        /\ \A r \in Request : status[r] = "EXECUTED" => status'[r] = "EXECUTED"
        /\ UNCHANGED <<txs, faults>>
    BY <1>1, <1>7 DEF ReleaseClaim, ReleasedStatus, Return, chain
  <2> QED
    BY <2>1, AccountedStep
<1>8. ASSUME NEW h \in Handler, Commit(h) PROVE MovesAreAccounted'
  <2>1. call[h].request \in Request
    BY <1>8 DEF Commit, CallsAreGrounded, Claiming
  <2>2. /\ \A g \in Handler \ {h} : pc'[g] = pc[g] /\ call'[g] = call[g]
        /\ status'[call[h].request] = "EXECUTED"
        /\ \A r \in Request : status[r] = "EXECUTED" => status'[r] = "EXECUTED"
        /\ UNCHANGED <<txs, faults>>
    BY <1>1, <1>8, <2>1 DEF Commit, Return, chain
  <2> QED
    BY <2>2, AccountedStep
<1>9. ASSUME NEW h \in Handler, LoseReceipt(h) \/ DatabaseError(h)
      PROVE  MovesAreAccounted'
  BY <1>2, <1>9 DEF LoseReceipt, DatabaseError, MovesAreAccounted
<1>10. ASSUME Crash PROVE MovesAreAccounted'
  BY <1>2, <1>10 DEF Crash, MovesAreAccounted
<1> QED
  BY <1>3, <1>4, <1>5, <1>6, <1>7, <1>8, <1>9, <1>10, SubmitAccounted,
     MineAccounted DEF Next, Proceed

\* approveTransfer's release "so it can be retried or rejected" is safe as long
\* as nothing has failed: a request that may still be decided, or was rejected,
\* has no transaction that moved custody or may yet.
THEOREM NeverMovedBeforeAFault == Spec => [](faults = 0 => UnexecutedNeverMoved)
<1>1. Init => MovesAreAccounted
  BY DEF Init, MovesAreAccounted
<1>2. TransferInv /\ MovesAreAccounted /\ [Next]_vars => MovesAreAccounted'
  <2>1. ASSUME TransferInv, MovesAreAccounted, UNCHANGED vars
        PROVE  MovesAreAccounted'
    BY <2>1 DEF vars, db, chain, MovesAreAccounted, Awaited
  <2> QED
    BY <2>1, NextKeepsAccounted
<1>3. ASSUME TransferInv, MovesAreAccounted, faults = 0 PROVE UnexecutedNeverMoved
  <2> SUFFICES ASSUME NEW r \in Request, status[r] \in {"PENDING", "REJECTED"},
                      NEW i \in DOMAIN txs, txs[i].request = r,
                      txs[i].status # "reverted"
               PROVE  FALSE
    BY DEF UnexecutedNeverMoved
  <2>1. PICK h \in Handler : Claiming(h) /\ call[h].request = r
    BY <1>3 DEF MovesAreAccounted, Awaited, Claiming
  <2> QED
    BY <1>3, <2>1 DEF TransferInv, ClaimExclusive
<1> QED
  BY InvariantHolds, <1>1, <1>2, <1>3, PTL DEF Spec

\* In particular where nothing fails at all.
THEOREM UnexecutedNeverMovedHolds ==
  ASSUME MaxFaults = 0
  PROVE  Spec => []UnexecutedNeverMoved
<1>1. TransferInv => faults = 0
  BY DEF TransferInv, TypeOK
<1> QED
  BY InvariantHolds, NeverMovedBeforeAFault, <1>1, PTL

-----------------------------------------------------------------------------
(* The refinement *)

\* Creating the row raises a request whose recipient is not its custodian.
LEMMA RaiseRefines ==
  ASSUME TransferInv, NEW h \in Handler, CreateRequest(h)
  PROVE  Lifecycle!Next
<1>1. PICK r \in Unraised :
        /\ status' = [status EXCEPT ![r] = "PENDING"]
        /\ terms' = [terms EXCEPT ![r] = call[h].terms]
        /\ UNCHANGED <<approvedBy, dbOwner>>
  BY DEF CreateRequest
<1>2. /\ call[h].terms \in Lifecycle!Terms
      /\ call[h].terms.fromUser # call[h].terms.toUser
  BY DEF CreateRequest, TransferInv, CallsAreGrounded, Terms, Registered,
         Lifecycle!Terms
<1>3. r \in Request /\ status[r] = "NONE"
  BY DEF Unraised
<1>4. Lifecycle!Raise(r)
  BY <1>1, <1>2, <1>3 DEF Lifecycle!Raise
<1> QED
  BY <1>3, <1>4 DEF Lifecycle!Next

\* An update that counts is a decision by someone other than the requester.
LEMMA ClaimRefines ==
  ASSUME TransferInv, NEW h \in Handler, NEW decision \in {"APPROVED", "REJECTED"},
         NEW next, pc[h] \in {"claim", "claimRejection"}, Claim(h, decision, next)
  PROVE  Lifecycle!Next \/ UNCHANGED Lifecycle!vars
<1> DEFINE r == call[h].request
           d == ActorIdOf(call[h].caller)
<1>1. r \in Request /\ d \in User \cup {NoUser} /\ d # terms[r].requestedBy
  <2>1. r \in Request /\ call[h].caller \in User /\ status[r] # "NONE"
        /\ terms[r].requestedBy # call[h].caller
    BY DEF TransferInv, CallsAreGrounded
  <2>2. terms[r].requestedBy \in User
    BY <2>1 DEF TransferInv, CallsAreGrounded, Terms, Registered
  <2> QED
    BY <2>1, <2>2, TransferAssumption DEF ActorIdOf
<1>2. CASE status[r] = "PENDING"
  <2>1. /\ status' = [status EXCEPT ![r] = decision]
        /\ approvedBy' = [approvedBy EXCEPT ![r] = d]
        /\ UNCHANGED <<terms, dbOwner>>
    BY <1>2 DEF Claim, Claimable
  <2> HIDE DEF r, d
  <2>2. Lifecycle!Decide(r, decision)
    BY <1>1, <1>2, <2>1 DEF Lifecycle!Decide
  <2> QED
    BY <1>1, <2>2 DEF Lifecycle!Next
<1>3. CASE status[r] # "PENDING"
  BY <1>3 DEF Claim, Claimable, db, Lifecycle!vars
<1> QED
  BY <1>2, <1>3

\* Releasing an approved request makes it pending again.
LEMMA ReleaseRefines ==
  ASSUME TransferInv, NEW h \in Handler, ReleaseClaim(h)
  PROVE  Lifecycle!Next
<1> DEFINE r == call[h].request
<1>1. r \in Request /\ status[r] = "APPROVED"
  BY DEF TransferInv, ReleaseClaim, CallsAreGrounded, ClaimExclusive, Claiming
<1>2. Lifecycle!Release(r)
  BY <1>1 DEF ReleaseClaim, ReleasedStatus, Lifecycle!Release
<1> QED
  BY <1>1, <1>2 DEF Lifecycle!Next

\* Here the exclusive claim is needed: Commit writes status, approver and
\* custodian whatever the rows hold.
LEMMA CommitRefines ==
  ASSUME TransferInv, NEW h \in Handler, Commit(h)
  PROVE  Lifecycle!Next
<1> DEFINE r == call[h].request
<1>1. /\ r \in Request /\ status[r] = "APPROVED" /\ call[h].terms = terms[r]
      /\ approvedBy[r] = ActorIdOf(call[h].caller)
  BY DEF TransferInv, Commit, CallsAreGrounded, ClaimExclusive, Claiming
<1>2. approvedBy' = approvedBy
  BY <1>1 DEF Commit, TransferInv, TypeOK
<1>3. Lifecycle!Execute(r)
  BY <1>1, <1>2 DEF Commit, Lifecycle!Execute
<1> QED
  BY <1>1, <1>3 DEF Lifecycle!Next

\* Every step of the service is a step of the life cycle or leaves it alone.
LEMMA NextRefines ==
  ASSUME TransferInv, [Next]_vars
  PROVE  Lifecycle!Next \/ UNCHANGED Lifecycle!vars
<1> USE DEF Lifecycle!vars
<1>1. ASSUME NEW h \in Handler, Receive(h) PROVE UNCHANGED Lifecycle!vars
  BY <1>1 DEF Receive, RequestTransfer, ApproveTransfer, RejectTransfer, db
<1>2. ASSUME NEW h \in Handler, Proceed(h)
      PROVE  Lifecycle!Next \/ UNCHANGED Lifecycle!vars
  <2>1. CASE CheckPending(h) \/ Submit(h) \/ AwaitReceipt(h)
    BY <2>1 DEF CheckPending, Submit, AwaitReceipt, db
  <2>2. CASE ClaimApproval(h) \/ ClaimRejection(h)
    BY <2>2, ClaimRefines DEF ClaimApproval, ClaimRejection
  <2> QED
    BY <1>2, <2>1, <2>2, RaiseRefines, ReleaseRefines, CommitRefines DEF
           Proceed
<1>3. ASSUME NEW h \in Handler, Refuse(h) \/ LoseReceipt(h) \/ DatabaseError(h)
      PROVE  UNCHANGED Lifecycle!vars
  BY <1>3 DEF Refuse, LoseReceipt, DatabaseError, db
<1>4. ASSUME Mine \/ Crash PROVE UNCHANGED Lifecycle!vars
  BY <1>4 DEF Mine, Crash, db
<1>5. CASE UNCHANGED vars
  BY <1>5 DEF vars, db
<1> QED
  BY <1>1, <1>2, <1>3, <1>4, <1>5 DEF Next

\* The service, with its races, retries, lost receipts and crashes, implements
\* the request life cycle of atomic decisions.
THEOREM ImplementsLifecycle == Spec => LifecycleSpec
<1>1. Init => Lifecycle!Init
  BY DEF Init, Lifecycle!Init, Registered
<1>2. TransferInv /\ [Next]_vars => [Lifecycle!Next]_Lifecycle!vars
  BY NextRefines
<1> QED
  BY <1>1, <1>2, InvariantHolds, PTL DEF Spec, LifecycleSpec, Lifecycle!Spec
===============================================================================
