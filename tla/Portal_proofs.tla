--------------------------- MODULE Portal_proofs ----------------------------
(***************************************************************************)
(* Proofs about the portal, the server's side first: SessionInv is an      *)
(* invariant of signing in, every nonce opens at most one session and no   *)
(* request of someone revoked is served.  Passes and custody move on top   *)
(* of it: what a pass opens was its issuer's to open, and whatever a       *)
(* caller may act on he sees.  The tab, the pages, the trail, the          *)
(* assistant and the dialogs follow, each with an invariant of its own.    *)
(***************************************************************************)
EXTENDS Visibility, Navigation, Assistant, Console, Dialogs,
        FiniteSetTheorems, WellFoundedInduction, SequenceTheorems, TLAPS

\* A row is empty or complete.
RowsAreWhole ==
    \A p \in Person : users[p] = NoRow \/ (users[p].wallet \in Wallet /\ users[p].role \in Role)

\* What the sign-ins, the requests and the tab know are sessions that exist.
SessionsAreKnown ==
    /\ Len(sessions) <= MaxSessions
    /\ \A f \in Flow : flow[f].session <= Len(sessions)
    /\ \A c \in Call : call[c].token <= Len(sessions) /\ call[c].session <= Len(sessions)

\* A nonce is open, or with one sign-in that is about to be answered, or in one session.
NoncesAreSpent ==
    /\ \A f \in Flow : flow[f].step # "idle" => flow[f].nonce \in 1 .. nonces
    /\ \A f \in Flow : flow[f].step # "idle" => flow[f].wallet \in Wallet
    /\ \A w \in Wallet : challenge[w] <= nonces
    /\ \A t \in DOMAIN sessions : sessions[t].nonce <= nonces
    /\ \A v, w \in Wallet : challenge[v] = challenge[w] /\ challenge[v] # 0 => v = w
    /\ \A w \in Wallet : challenge[w] # 0 =>
           /\ \A f \in Flow : flow[f].step = "lookup" => flow[f].nonce # challenge[w]
           /\ \A t \in DOMAIN sessions : sessions[t].nonce # challenge[w]
    /\ \A f \in Flow : flow[f].step = "lookup" =>
           /\ \A g \in Flow : flow[g].step = "lookup" /\ flow[g].nonce = flow[f].nonce => g = f
           /\ \A t \in DOMAIN sessions : sessions[t].nonce # flow[f].nonce

\* A stamped request is one of somebody who is revoked, and is not served.
StampsAreTrue ==
    \A c \in Call : call[c].stamped =>
        /\ call[c].token \in DOMAIN sessions /\ Stamped(call[c].token)
        /\ call[c].step # "served"

\* A request under way carries a token.
SentWithToken ==
    \A c \in Call : call[c].step # "idle" => call[c].token # 0

SessionInv ==
    /\ SessionsTypeOK /\ RowsAreWhole /\ SessionsAreKnown
    /\ NoncesAreSpent /\ OneSessionPerSignature /\ StampsAreTrue

-----------------------------------------------------------------------------

\* The wallet of a row that is found is a wallet.
LEMMA OwnerIsPerson ==
  ASSUME NEW w
  PROVE  OwnerOf(w) \in Person \cup {Nobody} /\ (OwnerOf(w) # Nobody => OwnerOf(w) \in Person /\ users[OwnerOf(w)].wallet = w)
BY DEF OwnerOf

\* A step that leaves the sessions, the nonces and the sign-ins alone, and stamps none.
LEMMA TabStep ==
  ASSUME SessionInv, UNCHANGED <<users, challenge, nonces, sessions, changes>>,
         lapsed' \subseteq DOMAIN sessions,
         flow' \in [Flow -> SignIn],
         \A f \in Flow : flow'[f] = flow[f] \/ (flow'[f].step = "idle" /\ flow'[f].session = 0),
         call' \in [Call -> Request],
         \A c \in Call : /\ call'[c].token <= Len(sessions) /\ call'[c].session <= Len(sessions)
                         /\ call'[c].stamped => /\ call'[c].token \in DOMAIN sessions
                                                /\ Stamped(call'[c].token)
                                                /\ call'[c].step # "served",
         {stored', shown'} \subseteq 0 .. Len(sessions), account' \in Wallet
  PROVE  SessionInv'
<1> USE DEF SessionInv
<1>1. SessionsTypeOK'
  BY DEF SessionsTypeOK
<1>2. RowsAreWhole' /\ OneSessionPerSignature'
  BY DEF RowsAreWhole, OneSessionPerSignature
<1>3. SessionsAreKnown'
  <2>1. Len(sessions) \in Nat /\ Len(sessions') = Len(sessions)
    BY DEF SessionsTypeOK
  <2>2. ASSUME NEW f \in Flow PROVE flow'[f].session <= Len(sessions)
    <3>1. CASE flow'[f] = flow[f]
      BY <3>1 DEF SessionsAreKnown
    <3>2. CASE flow'[f].session = 0
      BY <3>2, <2>1
    <3> QED
      BY <3>1, <3>2
  <2> QED
    BY <2>1, <2>2 DEF SessionsAreKnown
<1>4. NoncesAreSpent'
  BY DEF NoncesAreSpent
<1>5. StampsAreTrue'
  BY DEF StampsAreTrue, Stamped
<1> QED
  BY <1>1, <1>2, <1>3, <1>4, <1>5

\* Sending a request stamps it only if its sender is revoked.
LEMMA SendStep ==
  ASSUME SessionInv, NEW c \in Call, NEW kind \in {"work", "status"}, Send(c, kind)
  PROVE  SessionInv'
<1> DEFINE r == [NoRequest EXCEPT !.step = "sent", !.kind = kind,
                                  !.token = stored, !.stamped = Stamped(stored)]
<1>1. call' = [call EXCEPT ![c] = r] /\ stored # 0 /\ UNCHANGED <<server, flow, tab>>
  BY DEF Send
<1>2. stored \in DOMAIN sessions /\ stored \in 0 .. MaxSessions
      /\ stored <= Len(sessions) /\ 0 <= Len(sessions)
  BY <1>1, SessionsAssumption DEF SessionInv, SessionsTypeOK, SessionsAreKnown
<1>3. Stamped(stored) \in BOOLEAN
  BY DEF Stamped
<1>4. /\ r \in Request /\ r.step = "sent" /\ r.token = stored /\ r.session = 0
      /\ r.stamped = Stamped(stored)
  <2>1. PICK b \in BOOLEAN : b = Stamped(stored)
    BY <1>3
  <2>2. r = [step |-> "sent", kind |-> kind, token |-> stored, stamped |-> b, session |-> 0]
    <3>1. r = [NoRequest EXCEPT !.step = "sent", !.kind = kind, !.token = stored, !.stamped = b]
      BY <2>1, Zenon
    <3> HIDE DEF r
    <3> QED
      BY <3>1 DEF NoRequest
  <2>3. 0 \in 0 .. MaxSessions
    BY SessionsAssumption
  <2> QED
    BY <1>2, <2>1, <2>2, <2>3 DEF Request
<1> HIDE DEF r
<1>5. \A x \in Call : call'[x] = IF x = c THEN r ELSE call[x]
  BY <1>1 DEF SessionInv, SessionsTypeOK
<1>6. call' \in [Call -> Request]
  BY <1>1, <1>4 DEF SessionInv, SessionsTypeOK
<1>7. \A x \in Call : /\ call'[x].token <= Len(sessions) /\ call'[x].session <= Len(sessions)
                      /\ call'[x].stamped => /\ call'[x].token \in DOMAIN sessions
                                             /\ Stamped(call'[x].token)
                                             /\ call'[x].step # "served"
  BY <1>2, <1>4, <1>5 DEF SessionInv, SessionsAreKnown, StampsAreTrue
<1>8. /\ UNCHANGED <<users, challenge, nonces, sessions, changes, flow>>
      /\ lapsed' \subseteq DOMAIN sessions /\ flow' \in [Flow -> SignIn]
      /\ {stored', shown'} \subseteq 0 .. Len(sessions) /\ account' \in Wallet
  BY <1>1 DEF server, tab, SessionInv, SessionsTypeOK
<1> QED
  BY <1>6, <1>7, <1>8, TabStep

\* An answer keeps what the request carries, and a stamped one is not served.
LEMMA AnswerStep ==
  ASSUME SessionInv, NEW c \in Call, NEW step \in {"served", "refused", "unauthorized"},
         Answer(c, step), step = "served" => ~call[c].stamped
  PROVE  SessionInv'
<1>1. \A x \in Call : /\ call[x].token = call'[x].token
                      /\ call[x].session = call'[x].session
                      /\ call[x].stamped = call'[x].stamped
                      /\ call'[x].step = IF x = c THEN step ELSE call[x].step
  BY DEF Answer, SessionInv, SessionsTypeOK, Request
<1>2. call' \in [Call -> Request]
  BY DEF Answer, SessionInv, SessionsTypeOK, Request
<1>3. \A x \in Call : /\ call'[x].token <= Len(sessions) /\ call'[x].session <= Len(sessions)
                      /\ call'[x].stamped => /\ call'[x].token \in DOMAIN sessions
                                             /\ Stamped(call'[x].token)
                                             /\ call'[x].step # "served"
  BY <1>1 DEF SessionInv, SessionsAreKnown, StampsAreTrue
<1>4. /\ UNCHANGED <<users, challenge, nonces, sessions, changes, flow>>
      /\ lapsed' \subseteq DOMAIN sessions /\ flow' \in [Flow -> SignIn]
      /\ {stored', shown'} \subseteq 0 .. Len(sessions) /\ account' \in Wallet
  BY DEF Answer, server, tab, SessionInv, SessionsTypeOK
<1> QED
  BY <1>2, <1>3, <1>4, TabStep

\* Whoever is revoked is refused, whichever wallet the session was opened for.
LEMMA AuthenticateStep ==
  ASSUME SessionInv, NEW c \in Call, Authenticate(c)
  PROVE  SessionInv'
<1>1. PICK step \in {"served", "refused", "unauthorized"} :
        /\ Answer(c, step)
        /\ step = "served" => ~Barred(call[c].token)
  BY DEF Authenticate
<1>2. step = "served" => ~call[c].stamped
  BY <1>1 DEF SessionInv, StampsAreTrue, Stamped, Barred
<1> QED
  BY <1>1, <1>2, AnswerStep

\* A session or a request that is dropped, or answered, leaves the rest as it is.
LEMMA ForgetStep ==
  ASSUME SessionInv, UNCHANGED <<users, challenge, nonces, sessions, changes>>,
         lapsed' \subseteq DOMAIN sessions,
         \A f \in Flow : flow'[f] = flow[f] \/ flow'[f] = NoSignIn,
         flow' = [f \in Flow |-> flow'[f]],
         \A c \in Call : call'[c] = call[c] \/ call'[c] = NoRequest,
         call' = [c \in Call |-> call'[c]],
         {stored', shown'} \subseteq 0 .. Len(sessions), account' \in Wallet
  PROVE  SessionInv'
<1>1. NoSignIn \in SignIn /\ NoSignIn.step = "idle" /\ NoSignIn.session = 0
  BY SessionsAssumption DEF NoSignIn, SignIn, FlowStep
<1>2. /\ NoRequest \in Request /\ NoRequest.token = 0 /\ NoRequest.session = 0
      /\ ~NoRequest.stamped
  BY SessionsAssumption DEF NoRequest, Request
<1>3. \A f \in Flow : flow'[f] \in SignIn
  BY <1>1 DEF SessionInv, SessionsTypeOK
<1>4. \A c \in Call : call'[c] \in Request
  BY <1>2 DEF SessionInv, SessionsTypeOK
<1>5. Len(sessions) \in Nat
  BY DEF SessionInv, SessionsTypeOK
<1>6. \A c \in Call : /\ call'[c].token <= Len(sessions) /\ call'[c].session <= Len(sessions)
                      /\ call'[c].stamped => /\ call'[c].token \in DOMAIN sessions
                                             /\ Stamped(call'[c].token)
                                             /\ call'[c].step # "served"
  BY <1>2, <1>5 DEF SessionInv, SessionsAreKnown, StampsAreTrue
<1>7. \A f \in Flow : flow'[f] = flow[f] \/ (flow'[f].step = "idle" /\ flow'[f].session = 0)
  BY <1>1
<1>8. flow' \in [Flow -> SignIn] /\ call' \in [Call -> Request]
  BY <1>3, <1>4
<1> QED
  BY <1>6, <1>7, <1>8, TabStep

\* The tab takes a session it was given, or the machine does.
LEMMA ReceiveSessionStep ==
  ASSUME SessionInv, NEW f \in Flow, ReceiveSession(f)
  PROVE  SessionInv'
<1>1. flow[f].session \in 0 .. Len(sessions)
  BY DEF SessionInv, SessionsAreKnown, SessionsTypeOK, SignIn
<1>2. {stored', shown'} \subseteq 0 .. Len(sessions)
  BY <1>1 DEF ReceiveSession, SessionInv, SessionsTypeOK
<1>3. /\ \A g \in Flow : flow'[g] = flow[g] \/ flow'[g] = NoSignIn
      /\ flow' = [g \in Flow |-> flow'[g]] /\ call = [c \in Call |-> call[c]]
  BY DEF ReceiveSession, SessionInv, SessionsTypeOK
<1>4. /\ UNCHANGED <<users, challenge, nonces, sessions, changes, call>>
      /\ lapsed' \subseteq DOMAIN sessions /\ account' \in Wallet
  BY DEF ReceiveSession, server, SessionInv, SessionsTypeOK
<1> QED
  BY <1>2, <1>3, <1>4, ForgetStep

\* The tab takes what an answer brings.
LEMMA ArriveStep ==
  ASSUME SessionInv, NEW c \in Call, Arrive(c)
  PROVE  SessionInv'
<1>1. call[c].session \in 0 .. Len(sessions) /\ Len(sessions) \in Nat
  BY DEF SessionInv, SessionsAreKnown, SessionsTypeOK, Request
<1>2. {stored', shown'} \subseteq 0 .. Len(sessions)
  BY <1>1 DEF Arrive, SignOut, SessionInv, SessionsTypeOK
<1>3. /\ \A x \in Call : call'[x] = call[x] \/ call'[x] = NoRequest
      /\ call' = [x \in Call |-> call'[x]] /\ flow = [f \in Flow |-> flow[f]]
  BY DEF Arrive, SessionInv, SessionsTypeOK
<1>4. /\ UNCHANGED <<users, challenge, nonces, sessions, changes, flow>>
      /\ lapsed' \subseteq DOMAIN sessions /\ account' \in Wallet
  BY DEF Arrive, server, SessionInv, SessionsTypeOK
<1> QED
  BY <1>2, <1>3, <1>4, ForgetStep

\* Leaving, switching accounts and expiry forget sessions.
LEMMA LeaveStep ==
  ASSUME SessionInv,
         \/ Logout \/ (\E w \in Wallet : SwitchAccount(w))
         \/ \E t \in DOMAIN sessions : SessionExpires(t)
  PROVE  SessionInv'
<1>1. Len(sessions) \in Nat /\ {stored, shown} \subseteq 0 .. Len(sessions)
  BY DEF SessionInv, SessionsTypeOK
<1>2. {stored', shown'} \subseteq 0 .. Len(sessions) /\ account' \in Wallet
  BY <1>1 DEF Logout, SwitchAccount, SessionExpires, SignOut, tab, SessionInv, SessionsTypeOK
<1>3. /\ UNCHANGED <<users, challenge, nonces, sessions, changes, flow, call>>
      /\ lapsed' \subseteq DOMAIN sessions
  BY DEF Logout, SwitchAccount, SessionExpires, server, SessionInv, SessionsTypeOK
<1>4. call = [x \in Call |-> call[x]] /\ flow = [f \in Flow |-> flow[f]]
  BY DEF SessionInv, SessionsTypeOK
<1> QED
  BY <1>2, <1>3, <1>4, ForgetStep

\* Loading the page anew forgets what was under way.
LEMMA ReloadStep ==
  ASSUME SessionInv, Reload
  PROVE  SessionInv'
<1>1. Len(sessions) \in Nat /\ {stored, shown} \subseteq 0 .. Len(sessions)
  BY DEF SessionInv, SessionsTypeOK
<1>2. {stored', shown'} \subseteq 0 .. Len(sessions)
  BY <1>1 DEF Reload, SignOut
<1>3. /\ UNCHANGED <<users, challenge, nonces, sessions, changes>>
      /\ lapsed' \subseteq DOMAIN sessions /\ account' \in Wallet
  BY DEF Reload, server, SessionInv, SessionsTypeOK
<1>4. /\ \A f \in Flow : flow'[f] = flow[f] \/ flow'[f] = NoSignIn
      /\ flow' = [f \in Flow |-> flow'[f]]
  BY DEF Reload
<1>5. /\ \A c \in Call : call'[c] = call[c] \/ call'[c] = NoRequest
      /\ call' = [c \in Call |-> call'[c]]
  BY DEF Reload
<1> QED
  BY <1>2, <1>3, <1>4, <1>5, ForgetStep

-----------------------------------------------------------------------------
(* The steps of signing in. *)

\* A step of one sign-in, or of none, that changes neither rows nor sessions, keeps
\* the invariant if it keeps the nonces in order.
LEMMA SignInStep ==
  ASSUME SessionInv, NEW f \in Flow, NEW s \in SignIn,
         flow' = [flow EXCEPT ![f] = s], s.session <= Len(sessions),
         UNCHANGED <<users, sessions, lapsed, call, stored, shown, account, changes>>,
         challenge' \in [Wallet -> 0 .. MaxNonce], nonces' \in 0 .. MaxNonce,
         NoncesAreSpent'
  PROVE  SessionInv'
<1> USE DEF SessionInv
<1>1. SessionsTypeOK'
  BY DEF SessionsTypeOK
<1>2. RowsAreWhole' /\ OneSessionPerSignature'
  BY DEF RowsAreWhole, OneSessionPerSignature
<1>3. SessionsAreKnown'
  BY DEF SessionsAreKnown, SessionsTypeOK
<1>4. StampsAreTrue'
  BY DEF StampsAreTrue, Stamped
<1> QED
  BY <1>1, <1>2, <1>3, <1>4

\* What types say of the numbers.
LEMMA Numbers ==
  ASSUME SessionInv
  PROVE  /\ nonces \in Nat /\ MaxNonce \in Nat /\ nonces <= MaxNonce
         /\ Len(sessions) \in Nat /\ MaxSessions \in Nat /\ Len(sessions) <= MaxSessions
         /\ DOMAIN sessions = 1 .. Len(sessions)
         /\ \A w \in Wallet : challenge[w] \in Nat
         /\ \A f \in Flow : flow[f].nonce \in Nat /\ flow[f].session \in Nat
         /\ \A t \in DOMAIN sessions : sessions[t] \in Session /\ sessions[t].nonce \in Nat
<1> USE DEF SessionInv, SessionsTypeOK
<1>1. sessions \in Seq(Session) /\ Len(sessions) \in Nat /\ DOMAIN sessions = 1 .. Len(sessions)
  OBVIOUS
<1>2. \A t \in DOMAIN sessions : sessions[t] \in Session
  BY <1>1
<1>3. \A x \in Session : x.nonce \in Nat
  BY SessionsAssumption DEF Session
<1>4. \A f \in Flow : flow[f].nonce \in Nat /\ flow[f].session \in Nat
  BY SessionsAssumption DEF SignIn
<1> QED
  BY <1>1, <1>2, <1>3, <1>4, SessionsAssumption DEF SessionsAreKnown

\* A new challenge is newer than everything.
LEMMA ConnectStep ==
  ASSUME SessionInv, NEW f \in Flow, NEW w \in Wallet, NEW route \in {"verify", "connector"},
         Connect(f, w, route)
  PROVE  SessionInv'
<1> DEFINE s == [step |-> "signing", route |-> route, wallet |-> w, nonce |-> nonces + 1,
                 session |-> 0]
<1>1. /\ nonces < MaxNonce /\ nonces' = nonces + 1
      /\ challenge' = [challenge EXCEPT ![w] = nonces + 1]
      /\ flow' = [flow EXCEPT ![f] = s]
      /\ UNCHANGED <<users, sessions, lapsed, call, stored, shown, account, changes>>
  BY DEF Connect, tab
<1>2. nonces + 1 \in 0 .. MaxNonce /\ 0 \in 0 .. MaxSessions /\ 0 <= Len(sessions)
  BY <1>1, Numbers
<1>3. s \in SignIn /\ s.session <= Len(sessions)
  BY <1>2 DEF SignIn, FlowStep
<1>4. challenge' \in [Wallet -> 0 .. MaxNonce] /\ nonces' \in 0 .. MaxNonce
  BY <1>1, <1>2 DEF SessionInv, SessionsTypeOK
<1>5. \A g \in Flow : flow'[g] = IF g = f THEN s ELSE flow[g]
  BY <1>1 DEF SessionInv, SessionsTypeOK
<1>6. \A v \in Wallet : challenge'[v] = IF v = w THEN nonces + 1 ELSE challenge[v]
  BY <1>1 DEF SessionInv, SessionsTypeOK
<1>7. s.step = "signing" /\ s.nonce = nonces + 1 /\ s.wallet = w
  OBVIOUS
<1> HIDE DEF s
<1>8. NoncesAreSpent'
  BY <1>1, <1>5, <1>6, <1>7, Numbers DEF SessionInv, NoncesAreSpent
<1> QED
  BY <1>1, <1>3, <1>4, <1>8, SignInStep

\* Sign and SubmitTwice only bring a sign-in to where nothing is spent.
LEMMA SubmitStep ==
  ASSUME SessionInv, NEW f \in Flow, NEW s \in SignIn, flow' = [flow EXCEPT ![f] = s],
         UNCHANGED <<users, challenge, nonces, sessions, lapsed, call, stored, shown, account,
                     changes>>,
         s.session <= Len(sessions), s.step # "lookup",
         s.step # "idle" => s.nonce \in 1 .. nonces /\ s.wallet \in Wallet
  PROVE  SessionInv'
<1>1. \A g \in Flow : flow'[g] = IF g = f THEN s ELSE flow[g]
  BY DEF SessionInv, SessionsTypeOK
<1>2. NoncesAreSpent'
  BY <1>1 DEF SessionInv, NoncesAreSpent
<1>3. challenge' \in [Wallet -> 0 .. MaxNonce] /\ nonces' \in 0 .. MaxNonce
  BY DEF SessionInv, SessionsTypeOK
<1> QED
  BY <1>2, <1>3, SignInStep

\* A sign-in that is over.
LEMMA IdleSignIn == NoSignIn \in SignIn /\ NoSignIn.step = "idle" /\ NoSignIn.session = 0
BY SessionsAssumption DEF NoSignIn, SignIn, FlowStep

\* Signing, declining, and submitting once more.
LEMMA SignStep ==
  ASSUME SessionInv, NEW f \in Flow, Sign(f) \/ \E g \in Flow : SubmitTwice(g, f)
  PROVE  SessionInv'
<1>1. UNCHANGED <<users, challenge, nonces, sessions, lapsed, call, stored, shown, account,
                  changes>>
  BY DEF Sign, SubmitTwice, server, tab
<1>2. CASE flow' = [flow EXCEPT ![f] = NoSignIn]
  <2>1. NoSignIn.session <= Len(sessions)
    BY IdleSignIn, Numbers
  <2> QED
    BY <1>1, <1>2, <2>1, IdleSignIn, SubmitStep
<1>3. ASSUME NEW g \in Flow, flow[g].step # "idle",
             flow' = [flow EXCEPT ![f] = [flow[g] EXCEPT !.step = "verifying"]]
      PROVE  SessionInv'
  <2> DEFINE s == [flow[g] EXCEPT !.step = "verifying"]
  <2>1. flow[g] \in SignIn /\ flow[g].session <= Len(sessions)
        /\ flow[g].nonce \in 1 .. nonces /\ flow[g].wallet \in Wallet
    BY <1>3 DEF SessionInv, SessionsTypeOK, SessionsAreKnown, NoncesAreSpent
  <2>2. s \in SignIn /\ s.session <= Len(sessions) /\ s.step = "verifying"
        /\ s.nonce \in 1 .. nonces /\ s.wallet \in Wallet
    BY <2>1 DEF SignIn, FlowStep
  <2> HIDE DEF s
  <2> QED
    BY <1>1, <1>3, <2>2, SubmitStep DEF s
<1> QED
  BY <1>2, <1>3 DEF Sign, SubmitTwice

\* The submission that finds its challenge open consumes it at once.
LEMMA VerifySignatureStep ==
  ASSUME SessionInv, NEW f \in Flow, VerifySignature(f)
  PROVE  SessionInv'
<1>1. UNCHANGED <<users, nonces, sessions, lapsed, call, stored, shown, account, changes>>
  BY DEF VerifySignature, tab
<1>2. CASE flow' = [flow EXCEPT ![f] = NoSignIn] /\ UNCHANGED challenge
  <2>1. NoSignIn.session <= Len(sessions)
    BY IdleSignIn, Numbers
  <2> QED
    BY <1>1, <1>2, <2>1, IdleSignIn, SubmitStep
<1>3. CASE /\ challenge[flow[f].wallet] = flow[f].nonce
           /\ challenge' = [challenge EXCEPT ![flow[f].wallet] = 0]
           /\ flow' = [flow EXCEPT ![f].step = "lookup"]
  <2> DEFINE s == [flow[f] EXCEPT !.step = "lookup"]
             w == flow[f].wallet
  <2>1. /\ flow[f] \in SignIn /\ flow[f].session <= Len(sessions)
        /\ flow[f].nonce \in 1 .. nonces /\ w \in Wallet
    BY DEF VerifySignature, SessionInv, SessionsTypeOK, SessionsAreKnown, NoncesAreSpent
  <2>2. /\ s \in SignIn /\ s.session <= Len(sessions) /\ s.step = "lookup"
        /\ s.nonce = flow[f].nonce /\ s.wallet = w
    BY <2>1 DEF SignIn, FlowStep
  <2>3. \A g \in Flow : flow'[g] = IF g = f THEN s ELSE flow[g]
    BY <1>3 DEF SessionInv, SessionsTypeOK
  <2>4. \A v \in Wallet : challenge'[v] = IF v = w THEN 0 ELSE challenge[v]
    BY <1>3 DEF SessionInv, SessionsTypeOK
  <2>5. flow' = [flow EXCEPT ![f] = s]
    BY <1>3
  <2>6. challenge[w] = s.nonce /\ s.nonce # 0 /\ s.nonce \in 1 .. nonces
    BY <1>3, <2>1, <2>2, Numbers
  <2>7. challenge' \in [Wallet -> 0 .. MaxNonce] /\ nonces' \in 0 .. MaxNonce
    <3>1. 0 \in 0 .. MaxNonce
      BY SessionsAssumption
    <3> QED
      BY <1>1, <1>3, <3>1 DEF SessionInv, SessionsTypeOK
  <2> HIDE DEF s, w
  <2>8. NoncesAreSpent'
    BY <1>1, <2>1, <2>2, <2>3, <2>4, <2>6, Numbers DEF SessionInv, NoncesAreSpent
  <2> QED
    BY <1>1, <2>2, <2>5, <2>7, <2>8, SignInStep
<1> QED
  BY <1>2, <1>3 DEF VerifySignature, Consumed

-----------------------------------------------------------------------------
(* The steps that open sessions. *)

\* A person found for a wallet has a role; nobody has none.
LEMMA BuildSessionType ==
  ASSUME SessionInv, NEW p \in Person \cup {Nobody}, NEW w \in Wallet,
         p # Nobody => users[p].wallet = w,
         NEW via \in {"verify", "connector", "poll"}, NEW n \in 0 .. MaxNonce
  PROVE  /\ BuildSession(p, w, via, n) \in Session
         /\ BuildSession(p, w, via, n).nonce = n
         /\ BuildSession(p, w, via, n).person = Nobody <=>
                BuildSession(p, w, via, n).role = NoRole
<1> DEFINE r == IF p = Nobody THEN NoRole ELSE users[p].role
<1>1. p # Nobody => users[p].role \in Role
  BY SessionsAssumption DEF SessionInv, RowsAreWhole, NoRow
<1>2. r \in Role \cup {NoRole} /\ (p = Nobody <=> r = NoRole)
  BY <1>1, SessionsAssumption
<1>3. BuildSession(p, w, via, n) =
        [person |-> p, wallet |-> w, via |-> via, nonce |-> n, role |-> r]
  BY DEF BuildSession
<1> HIDE DEF r
<1> QED
  BY <1>2, <1>3 DEF Session

\* A session that is appended disturbs nothing that was known of the others.
LEMMA AppendedSession ==
  ASSUME SessionInv, NEW x \in Session, x.person = Nobody <=> x.role = NoRole,
         Len(sessions) < MaxSessions, sessions' = Append(sessions, x),
         UNCHANGED <<users, challenge, nonces, lapsed, stored, shown, account, changes>>,
         flow' \in [Flow -> SignIn], call' \in [Call -> Request],
         \A f \in Flow : flow'[f].session <= Len(sessions) + 1,
         \A c \in Call : /\ call'[c].session <= Len(sessions) + 1
                         /\ call'[c].token = call[c].token
                         /\ call'[c].stamped = call[c].stamped
                         /\ call'[c].stamped => call'[c].step # "served"
  PROVE  /\ SessionsTypeOK' /\ RowsAreWhole' /\ SessionsAreKnown' /\ StampsAreTrue'
         /\ Len(sessions') = Len(sessions) + 1 /\ DOMAIN sessions' = 1 .. Len(sessions) + 1
         /\ \A t \in DOMAIN sessions : sessions'[t] = sessions[t]
         /\ sessions'[Len(sessions) + 1] = x
<1>1. /\ Len(sessions') = Len(sessions) + 1 /\ DOMAIN sessions' = 1 .. Len(sessions) + 1
      /\ \A t \in DOMAIN sessions : sessions'[t] = sessions[t]
      /\ sessions'[Len(sessions) + 1] = x /\ sessions' \in Seq(Session)
      /\ Len(sessions) \in Nat /\ DOMAIN sessions = 1 .. Len(sessions)
  BY DEF SessionInv, SessionsTypeOK
<1>2. \A t \in DOMAIN sessions' : t \in DOMAIN sessions \/ t = Len(sessions) + 1
  BY <1>1
<1>3. \A t \in DOMAIN sessions' : sessions'[t].person = Nobody <=> sessions'[t].role = NoRole
  BY <1>1, <1>2 DEF SessionInv, SessionsTypeOK
<1>4. SessionsTypeOK'
  <2>1. lapsed' \subseteq DOMAIN sessions' /\ {stored', shown'} \subseteq 0 .. Len(sessions')
    BY <1>1 DEF SessionInv, SessionsTypeOK
  <2> QED
    BY <1>1, <1>3, <2>1 DEF SessionInv, SessionsTypeOK
<1>5. RowsAreWhole'
  BY DEF SessionInv, RowsAreWhole
<1>6. SessionsAreKnown'
  <2>1. \A c \in Call : call'[c].token <= Len(sessions) + 1
    BY <1>1, SessionsAssumption DEF SessionInv, SessionsAreKnown, SessionsTypeOK, Request
  <2>2. Len(sessions') <= MaxSessions
    BY <1>1, SessionsAssumption
  <2> QED
    BY <1>1, <2>1, <2>2 DEF SessionsAreKnown
<1>7. StampsAreTrue'
  BY <1>1 DEF SessionInv, StampsAreTrue, Stamped
<1> QED
  BY <1>1, <1>4, <1>5, <1>6, <1>7

\* A sign-in that was verified opens one session, or is refused.
LEMMA OpenSessionStep ==
  ASSUME SessionInv, NEW f \in Flow, OpenSession(f)
  PROVE  SessionInv'
<1> DEFINE p == OwnerOf(flow[f].wallet)
           n == flow[f].nonce
           x == BuildSession(p, flow[f].wallet, flow[f].route, n)
           s == [flow[f] EXCEPT !.step = "answered", !.session = Len(sessions) + 1]
<1>1. UNCHANGED <<users, challenge, nonces, lapsed, call, stored, shown, account, changes>>
  BY DEF OpenSession, tab
<1>2. CASE flow' = [flow EXCEPT ![f] = NoSignIn] /\ UNCHANGED sessions
  <2>1. NoSignIn.session <= Len(sessions)
    BY IdleSignIn, Numbers
  <2> QED
    BY <1>1, <1>2, <2>1, IdleSignIn, SubmitStep
<1>3. CASE /\ Len(sessions) < MaxSessions /\ sessions' = Append(sessions, x)
           /\ flow' = [flow EXCEPT ![f].step = "answered", ![f].session = Len(sessions) + 1]
  <2>1. /\ flow[f] \in SignIn /\ flow[f].step = "lookup" /\ n \in 1 .. nonces
        /\ flow[f].wallet \in Wallet
    BY DEF OpenSession, SessionInv, SessionsTypeOK, NoncesAreSpent
  <2>2. n \in 0 .. MaxNonce /\ flow[f].route \in {"verify", "connector", "poll"}
    BY <2>1, Numbers DEF SignIn
  <2>3. x \in Session /\ x.nonce = n /\ (x.person = Nobody <=> x.role = NoRole)
    BY <2>1, <2>2, OwnerIsPerson, BuildSessionType
  <2>4. flow' = [flow EXCEPT ![f] = s]
    BY <1>3 DEF SessionInv, SessionsTypeOK
  <2>5. /\ s \in SignIn /\ s.step = "answered" /\ s.nonce = n /\ s.wallet = flow[f].wallet
        /\ s.session = Len(sessions) + 1
    <3>1. Len(sessions) + 1 \in 0 .. MaxSessions
      BY <1>3, Numbers
    <3> QED
      BY <2>1, <3>1 DEF SignIn, FlowStep
  <2>6. \A g \in Flow : flow'[g] = IF g = f THEN s ELSE flow[g]
    BY <2>4 DEF SessionInv, SessionsTypeOK
  <2> HIDE DEF p, n, x, s
  <2>7. /\ flow' \in [Flow -> SignIn] /\ call' \in [Call -> Request]
    BY <1>1, <2>4, <2>5 DEF SessionInv, SessionsTypeOK
  <2>8. \A g \in Flow : flow'[g].session <= Len(sessions) + 1
    BY <2>5, <2>6, Numbers DEF SessionInv, SessionsAreKnown
  <2>9. \A c \in Call : /\ call'[c].session <= Len(sessions) + 1
                        /\ call'[c].token = call[c].token
                        /\ call'[c].stamped = call[c].stamped
                        /\ call'[c].stamped => call'[c].step # "served"
    BY <1>1, Numbers, SessionsAssumption
    DEF SessionInv, SessionsAreKnown, StampsAreTrue, SessionsTypeOK, Request
  <2>10. /\ SessionsTypeOK' /\ RowsAreWhole' /\ SessionsAreKnown' /\ StampsAreTrue'
         /\ Len(sessions') = Len(sessions) + 1 /\ DOMAIN sessions' = 1 .. Len(sessions) + 1
         /\ \A t \in DOMAIN sessions : sessions'[t] = sessions[t]
         /\ sessions'[Len(sessions) + 1] = x
    BY <1>1, <1>3, <2>3, <2>7, <2>8, <2>9, AppendedSession
  <2>11. \A t \in DOMAIN sessions' : \/ t \in DOMAIN sessions /\ sessions'[t] = sessions[t]
                                     \/ t = Len(sessions) + 1 /\ sessions'[t] = x
    BY <2>10, Numbers
  <2>12. \A t \in DOMAIN sessions : sessions[t].nonce # n
    BY <2>1 DEF SessionInv, NoncesAreSpent, n
  <2>13. OneSessionPerSignature'
    BY <2>3, <2>11, <2>12 DEF SessionInv, OneSessionPerSignature
  <2>14. NoncesAreSpent'
    <3>1. \A g \in Flow : flow[g].step = "lookup" /\ g # f => flow[g].nonce # n
      BY <2>1 DEF SessionInv, NoncesAreSpent, n
    <3>2. \A v \in Wallet : challenge[v] # 0 => challenge[v] # n
      BY <2>1 DEF SessionInv, NoncesAreSpent, n
    <3>3. n <= nonces
      BY <2>1, Numbers
    <3> QED
      BY <1>1, <2>1, <2>3, <2>5, <2>6, <2>11, <3>1, <3>2, <3>3
      DEF SessionInv, NoncesAreSpent, n
  <2> QED
    BY <2>10, <2>13, <2>14 DEF SessionInv
<1> QED
  BY <1>2, <1>3 DEF OpenSession

\* An approved applicant's poll opens a session without a nonce.
LEMMA RegistrationStatusStep ==
  ASSUME SessionInv, SentWithToken, NEW c \in Call, RegistrationStatus(c)
  PROVE  SessionInv'
<1> DEFINE k == call[c].token
           w == sessions[k].wallet
           p == OwnerOf(w)
           x == BuildSession(p, w, "poll", 0)
<1>1. CASE \E step \in {"served", "refused", "unauthorized"} :
              Answer(c, step) /\ (step = "served" => sessions[k].person = Nobody)
  <2>1. PICK step \in {"served", "refused", "unauthorized"} :
              Answer(c, step) /\ (step = "served" => sessions[k].person = Nobody)
    BY <1>1
  <2>2. step = "served" => ~call[c].stamped
    BY <2>1 DEF SessionInv, StampsAreTrue, Stamped
  <2> QED
    BY <2>1, <2>2, AnswerStep
<1>2. CASE /\ sessions[k].person = Nobody /\ p # Nobody
           /\ Len(sessions) < MaxSessions
           /\ sessions' = Append(sessions, x)
           /\ call' = [call EXCEPT ![c].step = "served", ![c].session = Len(sessions) + 1]
           /\ UNCHANGED <<users, challenge, nonces, lapsed, changes, flow, tab>>
  <2> DEFINE r == [call[c] EXCEPT !.step = "served", !.session = Len(sessions) + 1]
  <2>1. w \in Wallet
    <3>1. k \in Nat /\ k # 0 /\ k <= Len(sessions)
      BY SessionsAssumption
      DEF RegistrationStatus, SentWithToken, SessionInv, SessionsTypeOK, SessionsAreKnown, Request
    <3>2. sessions[k] \in Session
      BY <3>1, Numbers
    <3> QED
      BY <3>2 DEF Session
  <2>2. 0 \in 0 .. MaxNonce /\ 0 \in Nat
    BY SessionsAssumption
  <2>3. x \in Session /\ x.nonce = 0 /\ (x.person = Nobody <=> x.role = NoRole)
    BY <2>1, <2>2, OwnerIsPerson, BuildSessionType
  <2>4. call' = [call EXCEPT ![c] = r]
    BY <1>2 DEF SessionInv, SessionsTypeOK
  <2>5. /\ r \in Request /\ r.token = k /\ r.stamped = call[c].stamped /\ r.step = "served"
        /\ r.session = Len(sessions) + 1
    <3>1. Len(sessions) + 1 \in 0 .. MaxSessions
      BY <1>2, Numbers
    <3>2. call[c] \in Request
      BY DEF SessionInv, SessionsTypeOK
    <3> QED
      BY <3>1, <3>2 DEF Request
  <2>6. ~call[c].stamped
    BY <1>2 DEF SessionInv, StampsAreTrue, Stamped
  <2> HIDE DEF p, x, r
  <2>7. \A d \in Call : call'[d] = IF d = c THEN r ELSE call[d]
    BY <2>4 DEF SessionInv, SessionsTypeOK
  <2>8. flow' \in [Flow -> SignIn] /\ call' \in [Call -> Request]
    BY <1>2, <2>4, <2>5 DEF SessionInv, SessionsTypeOK
  <2>9. \A g \in Flow : flow'[g].session <= Len(sessions) + 1
    BY <1>2, Numbers DEF SessionInv, SessionsAreKnown
  <2>10. \A d \in Call : call[d].session \in Nat /\ call[d].session <= Len(sessions)
    BY SessionsAssumption DEF SessionInv, SessionsAreKnown, SessionsTypeOK, Request
  <2>11. \A d \in Call : /\ call'[d].session <= Len(sessions) + 1
                         /\ call'[d].token = call[d].token
                         /\ call'[d].stamped = call[d].stamped
                         /\ call'[d].stamped => call'[d].step # "served"
    BY <2>5, <2>6, <2>7, <2>10, Numbers DEF SessionInv, StampsAreTrue
  <2>12. UNCHANGED <<users, challenge, nonces, lapsed, stored, shown, account, changes>>
    BY <1>2 DEF tab
  <2>13. /\ SessionsTypeOK' /\ RowsAreWhole' /\ SessionsAreKnown' /\ StampsAreTrue'
         /\ Len(sessions') = Len(sessions) + 1 /\ DOMAIN sessions' = 1 .. Len(sessions) + 1
         /\ \A t \in DOMAIN sessions : sessions'[t] = sessions[t]
         /\ sessions'[Len(sessions) + 1] = x
    BY <1>2, <2>3, <2>8, <2>9, <2>11, <2>12, AppendedSession
  <2>14. \A t \in DOMAIN sessions' : \/ t \in DOMAIN sessions /\ sessions'[t] = sessions[t]
                                     \/ t = Len(sessions) + 1 /\ sessions'[t] = x
    BY <2>13, Numbers
  <2>15. OneSessionPerSignature'
    BY <2>3, <2>14 DEF SessionInv, OneSessionPerSignature
  <2>16. \A g \in Flow : flow[g].step = "lookup" => flow[g].nonce # 0
    BY Numbers DEF SessionInv, NoncesAreSpent
  <2>17. NoncesAreSpent'
    BY <1>2, <2>3, <2>14, <2>16, Numbers DEF SessionInv, NoncesAreSpent
  <2> QED
    BY <2>13, <2>15, <2>17 DEF SessionInv
<1> QED
  BY <1>1, <1>2 DEF RegistrationStatus, MayUpgrade

-----------------------------------------------------------------------------
(* The steps of others: challenges end, identities change. *)

\* Challenges that are dropped, and lookups that are forgotten, open nothing.
LEMMA DropStep ==
  ASSUME SessionInv, Restart \/ \E w \in Wallet : NonceExpires(w)
  PROVE  SessionInv'
<1>1. /\ UNCHANGED <<users, nonces, sessions, lapsed, call, stored, shown, account, changes>>
      /\ 0 \in 0 .. MaxNonce
  BY SessionsAssumption DEF Restart, NonceExpires, tab
<1>2. /\ challenge' \in [Wallet -> 0 .. MaxNonce]
      /\ \A w \in Wallet : challenge'[w] = challenge[w] \/ challenge'[w] = 0
  BY <1>1 DEF Restart, NonceExpires, SessionInv, SessionsTypeOK
<1>3. /\ flow' \in [Flow -> SignIn]
      /\ \A f \in Flow : flow'[f] = flow[f] \/ flow'[f] = NoSignIn
  BY IdleSignIn DEF Restart, NonceExpires, SessionInv, SessionsTypeOK
<1>4. /\ SessionsTypeOK' /\ RowsAreWhole' /\ OneSessionPerSignature' /\ StampsAreTrue'
  BY <1>1, <1>2, <1>3
  DEF SessionInv, SessionsTypeOK, RowsAreWhole, OneSessionPerSignature, StampsAreTrue, Stamped
<1>5. SessionsAreKnown'
  BY <1>1, <1>3, IdleSignIn, Numbers DEF SessionInv, SessionsAreKnown
<1>6. NoncesAreSpent'
  BY <1>1, <1>2, <1>3, IdleSignIn, Numbers DEF SessionInv, NoncesAreSpent
<1> QED
  BY <1>4, <1>5, <1>6 DEF SessionInv

\* A change of a row takes the stamps of its person's requests off, unless he is revoked.
LEMMA ChangeStep ==
  ASSUME SessionInv, NEW p \in Person, NEW row \in Row, Change(p, row),
         row.wallet \in Wallet, row.role \in Role
  PROVE  SessionInv'
<1>1. UNCHANGED <<challenge, nonces, sessions, lapsed, flow, stored, shown, account>>
  BY DEF Change, tab
<1>2. /\ users' \in [Person -> Row]
      /\ \A q \in Person : users'[q] = IF q = p THEN row ELSE users[q]
  BY DEF Change, SessionInv, SessionsTypeOK
<1>3. changes' \in 0 .. MaxChanges
  BY SessionsAssumption DEF Change, SessionInv, SessionsTypeOK
<1>4. \A c \in Call :
        /\ call'[c] \in Request
        /\ call'[c].token = call[c].token /\ call'[c].session = call[c].session
        /\ call'[c].step = call[c].step
        /\ call'[c].stamped =>
              /\ call[c].stamped
              /\ row.revoked \/ ~(call[c].token # 0 /\ sessions[call[c].token].person = p)
  <2>1. \A c \in Call : /\ [call[c] EXCEPT !.stamped = FALSE] \in Request
                        /\ [call[c] EXCEPT !.stamped = FALSE].token = call[c].token
                        /\ [call[c] EXCEPT !.stamped = FALSE].session = call[c].session
                        /\ [call[c] EXCEPT !.stamped = FALSE].step = call[c].step
                        /\ ~[call[c] EXCEPT !.stamped = FALSE].stamped
                        /\ call[c] \in Request
    BY DEF SessionInv, SessionsTypeOK, Request
  <2>2. \A c \in Call : call'[c] =
          IF ~row.revoked /\ call[c].token # 0 /\ sessions[call[c].token].person = p
          THEN [call[c] EXCEPT !.stamped = FALSE] ELSE call[c]
    BY DEF Change
  <2>3. TAKE c \in Call
  <2>4. CASE ~row.revoked /\ call[c].token # 0 /\ sessions[call[c].token].person = p
    <3>1. call'[c] = [call[c] EXCEPT !.stamped = FALSE]
      BY <2>2, <2>4
    <3> QED
      BY <2>1, <3>1
  <2>5. CASE ~(~row.revoked /\ call[c].token # 0 /\ sessions[call[c].token].person = p)
    <3>1. call'[c] = call[c]
      BY <2>2, <2>5
    <3> QED
      BY <2>1, <2>5, <3>1
  <2> QED
    BY <2>4, <2>5
<1>5. call' \in [Call -> Request]
  BY <1>4 DEF Change
<1>6. SessionsTypeOK' /\ OneSessionPerSignature'
  BY <1>1, <1>2, <1>3, <1>5 DEF SessionInv, SessionsTypeOK, OneSessionPerSignature
<1>7. RowsAreWhole'
  BY <1>2 DEF SessionInv, RowsAreWhole
<1>8. SessionsAreKnown'
  BY <1>1, <1>4 DEF SessionInv, SessionsAreKnown
<1>9. NoncesAreSpent'
  BY <1>1 DEF SessionInv, NoncesAreSpent
<1>10. StampsAreTrue'
  <2>1. SUFFICES ASSUME NEW c \in Call, call'[c].stamped
                 PROVE  /\ call'[c].token \in DOMAIN sessions' /\ Stamped(call[c].token)'
                        /\ call'[c].step # "served"
    BY DEF StampsAreTrue
  <2>2. /\ call[c].token \in DOMAIN sessions /\ Stamped(call[c].token)
        /\ call[c].step # "served" /\ call[c].token # 0
    BY <1>4, <2>1, Numbers DEF SessionInv, StampsAreTrue
  <2>3. sessions[call[c].token].person \in Person
    <3>1. sessions[call[c].token] \in Session
      BY <2>2, Numbers
    <3> QED
      BY <2>2, <3>1 DEF Stamped, Session
  <2>4. users'[sessions[call[c].token].person].revoked
    BY <1>2, <1>4, <2>1, <2>2, <2>3 DEF Stamped
  <2> QED
    BY <1>1, <1>4, <2>2, <2>4 DEF Stamped
<1> QED
  BY <1>6, <1>7, <1>8, <1>9, <1>10 DEF SessionInv

\* Whatever happens to a row leaves it complete.
LEMMA RowStep ==
  ASSUME SessionInv, NEW p \in Person,
         \/ \E w \in Wallet, r \in Role : Register(p, w, r)
         \/ \E r \in Role : ChangeRole(p, r)
         \/ \E w \in Wallet : Relink(p, w)
         \/ Revoke(p) \/ Reinstate(p)
  PROVE  SessionInv'
<1>1. \E row \in Row : Change(p, row) /\ row.wallet \in Wallet /\ row.role \in Role
  <2>1. /\ users[p] \in Row
        /\ users[p] # NoRow => users[p].wallet \in Wallet /\ users[p].role \in Role
        /\ users[p].revoked => users[p] # NoRow
    BY DEF SessionInv, SessionsTypeOK, RowsAreWhole, NoRow
  <2>2. CASE \E w \in Wallet, r \in Role : Register(p, w, r)
    <3>1. PICK w \in Wallet, r \in Role : Register(p, w, r)
      BY <2>2
    <3> DEFINE row == [wallet |-> w, role |-> r, revoked |-> FALSE]
    <3>2. Change(p, row)
      BY <3>1 DEF Register
    <3>3. row \in Row /\ row.wallet \in Wallet /\ row.role \in Role
      BY DEF Row
    <3> QED
      BY <3>2, <3>3
  <2>3. CASE \E r \in Role : ChangeRole(p, r)
    <3>1. PICK r \in Role : ChangeRole(p, r)
      BY <2>3
    <3> DEFINE row == [users[p] EXCEPT !.role = r]
    <3>2. Change(p, row)
      BY <3>1 DEF ChangeRole
    <3>3. row \in Row /\ row.wallet \in Wallet /\ row.role \in Role
      BY <2>1, <3>1 DEF Row, ChangeRole
    <3> QED
      BY <3>2, <3>3
  <2>4. CASE \E w \in Wallet : Relink(p, w)
    <3>1. PICK w \in Wallet : Relink(p, w)
      BY <2>4
    <3> DEFINE row == [users[p] EXCEPT !.wallet = w]
    <3>2. Change(p, row)
      BY <3>1 DEF Relink
    <3>3. row \in Row /\ row.wallet \in Wallet /\ row.role \in Role
      BY <2>1, <3>1 DEF Row, Relink
    <3> QED
      BY <3>2, <3>3
  <2>5. ASSUME NEW b \in BOOLEAN, users[p] # NoRow, Change(p, [users[p] EXCEPT !.revoked = b])
        PROVE  \E row \in Row : Change(p, row) /\ row.wallet \in Wallet /\ row.role \in Role
    <3> DEFINE row == [users[p] EXCEPT !.revoked = b]
    <3>1. row \in Row /\ row.wallet \in Wallet /\ row.role \in Role
      BY <2>1, <2>5 DEF Row
    <3> QED
      BY <2>5, <3>1
  <2> QED
    BY <2>1, <2>2, <2>3, <2>4, <2>5 DEF Revoke, Reinstate
<1> QED
  BY <1>1, ChangeStep

-----------------------------------------------------------------------------
(* The invariant. *)

\* Nothing is sent without a token, whatever the step.
LEMMA TokenKept ==
  ASSUME SessionsTypeOK, SentWithToken, [SessionsNext]_sessionVars
  PROVE  SentWithToken'
<1>1. \A c \in Call : call[c] \in Request /\ NoRequest.step = "idle"
  BY DEF SessionsTypeOK, NoRequest
<1>2. CASE call' = call
  BY <1>2 DEF SentWithToken
<1>3. CASE \E c \in Call, kind \in {"work", "status"} : Send(c, kind)
  <2>1. PICK c \in Call, kind \in {"work", "status"} : Send(c, kind)
    BY <1>3
  <2> DEFINE r == [NoRequest EXCEPT !.step = "sent", !.kind = kind,
                                    !.token = stored, !.stamped = Stamped(stored)]
  <2>2. call' = [call EXCEPT ![c] = r] /\ stored # 0
    BY <2>1 DEF Send
  <2>3. r.token = stored
    BY DEF NoRequest
  <2> HIDE DEF r
  <2> QED
    BY <2>2, <2>3 DEF SentWithToken, SessionsTypeOK
<1>4. CASE \E c \in Call : Authenticate(c) \/ RegistrationStatus(c)
  <2>1. PICK c \in Call : /\ call[c].step = "sent" /\ call' \in [Call -> Request]
                          /\ \A d \in Call : call'[d].token = call[d].token
                          /\ \A d \in Call : d # c => call'[d].step = call[d].step
    <3>1. PICK c \in Call : Authenticate(c) \/ RegistrationStatus(c)
      BY <1>4
    <3>2. call[c].step = "sent"
      BY <3>1 DEF Authenticate, RegistrationStatus
    <3>3. \/ \E step \in {"served", "refused", "unauthorized"} :
                call' = [call EXCEPT ![c].step = step]
          \/ /\ call' = [call EXCEPT ![c].step = "served", ![c].session = Len(sessions) + 1]
             /\ Len(sessions) < MaxSessions
      BY <3>1 DEF Authenticate, RegistrationStatus, Answer
    <3>4. Len(sessions) \in Nat /\ MaxSessions \in Nat
      BY SessionsAssumption DEF SessionsTypeOK
    <3>5. call' \in [Call -> Request]
      <4>1. /\ call[c] \in Request /\ call' \in [Call -> {call'[c]} \cup Request]
            /\ \/ \E step \in {"served", "refused", "unauthorized"} :
                     call'[c] = [call[c] EXCEPT !.step = step]
               \/ /\ call'[c] = [call[c] EXCEPT !.step = "served", !.session = Len(sessions) + 1]
                  /\ Len(sessions) + 1 \in 0 .. MaxSessions
        BY <3>3, <3>4 DEF SessionsTypeOK
      <4>2. call'[c] \in Request
        BY <4>1 DEF Request
      <4> QED
        BY <4>1, <4>2
    <3>6. \A d \in Call : /\ call'[d].token = call[d].token
                          /\ d # c => call'[d].step = call[d].step
      BY <3>3 DEF SessionsTypeOK, Request
    <3> QED
      BY <3>2, <3>5, <3>6
  <2> QED
    BY <2>1 DEF SentWithToken
<1>5. CASE (\E c \in Call : Arrive(c)) \/ Reload
  BY <1>1, <1>5 DEF Arrive, Reload, SentWithToken, SessionsTypeOK
<1>6. ASSUME NEW p \in Person, NEW row, Change(p, row)
      PROVE  SentWithToken'
  BY <1>1, <1>6 DEF Change, SentWithToken, Request
<1>7. CASE \E p \in Person : \/ \E w \in Wallet, r \in Role : Register(p, w, r)
                             \/ \E r \in Role : ChangeRole(p, r)
                             \/ \E w \in Wallet : Relink(p, w)
                             \/ Revoke(p) \/ Reinstate(p)
  BY <1>6, <1>7 DEF Register, ChangeRole, Relink, Revoke, Reinstate
<1>8. ASSUME NEW f \in Flow, NEW w \in Wallet, NEW route \in {"verify", "connector"},
             Connect(f, w, route)
      PROVE  call' = call
  BY <1>8 DEF Connect
<1>9. ASSUME NEW f \in Flow, \/ Sign(f) \/ VerifySignature(f) \/ OpenSession(f)
                             \/ ReceiveSession(f) \/ \E g \in Flow : SubmitTwice(f, g)
      PROVE  call' = call
  BY <1>9 DEF Sign, VerifySignature, OpenSession, ReceiveSession, SubmitTwice
<1>10. ASSUME \/ \E w \in Wallet : NonceExpires(w) \/ SwitchAccount(w)
              \/ Logout \/ Restart \/ \E t \in DOMAIN sessions : SessionExpires(t)
       PROVE  call' = call
  BY <1>10 DEF NonceExpires, SwitchAccount, Logout, Restart, SessionExpires
<1>11. CASE UNCHANGED sessionVars
  BY <1>11, <1>2 DEF sessionVars
<1> QED
  BY <1>2, <1>3, <1>4, <1>5, <1>7, <1>8, <1>9, <1>10, <1>11 DEF SessionsNext

\* Every step of the next-state relation keeps the invariant.
LEMMA NextKeeps ==
  ASSUME SessionInv, SentWithToken, [SessionsNext]_sessionVars
  PROVE  SessionInv'
<1>1. ASSUME NEW f \in Flow, NEW w \in Wallet, NEW route \in {"verify", "connector"},
             Connect(f, w, route)
      PROVE  SessionInv'
  BY <1>1, ConnectStep
<1>2. ASSUME NEW f \in Flow, Sign(f) PROVE SessionInv'
  BY <1>2, SignStep
<1>3. ASSUME NEW f \in Flow, NEW g \in Flow, SubmitTwice(f, g) PROVE SessionInv'
  BY <1>3, SignStep
<1>4. ASSUME NEW f \in Flow, VerifySignature(f) PROVE SessionInv'
  BY <1>4, VerifySignatureStep
<1>5. ASSUME NEW f \in Flow, OpenSession(f) PROVE SessionInv'
  BY <1>5, OpenSessionStep
<1>6. ASSUME NEW f \in Flow, ReceiveSession(f) PROVE SessionInv'
  BY <1>6, ReceiveSessionStep
<1>7. ASSUME NEW w \in Wallet, NonceExpires(w) PROVE SessionInv'
  BY <1>7, DropStep
<1>8. ASSUME NEW w \in Wallet, SwitchAccount(w) PROVE SessionInv'
  BY <1>8, LeaveStep
<1>9. ASSUME NEW c \in Call, NEW kind \in {"work", "status"}, Send(c, kind) PROVE SessionInv'
  BY <1>9, SendStep
<1>10. ASSUME NEW c \in Call, Authenticate(c) PROVE SessionInv'
  BY <1>10, AuthenticateStep
<1>11. ASSUME NEW c \in Call, RegistrationStatus(c) PROVE SessionInv'
  BY <1>11, RegistrationStatusStep
<1>12. ASSUME NEW c \in Call, Arrive(c) PROVE SessionInv'
  BY <1>12, ArriveStep
<1>13. CASE Logout
  BY <1>13, LeaveStep
<1>14. CASE Reload
  BY <1>14, ReloadStep
<1>15. CASE Restart
  BY <1>15, DropStep
<1>16. ASSUME NEW p \in Person, \/ \E w \in Wallet, r \in Role : Register(p, w, r)
                                \/ \E r \in Role : ChangeRole(p, r)
                                \/ \E w \in Wallet : Relink(p, w)
                                \/ Revoke(p) \/ Reinstate(p)
       PROVE  SessionInv'
  BY <1>16, RowStep
<1>17. ASSUME NEW t \in DOMAIN sessions, SessionExpires(t) PROVE SessionInv'
  BY <1>17, LeaveStep
<1>18. CASE UNCHANGED sessionVars
  BY <1>18 DEF sessionVars, SessionInv, SessionsTypeOK, RowsAreWhole, SessionsAreKnown,
               NoncesAreSpent, OneSessionPerSignature, StampsAreTrue, Stamped
<1> QED
  BY <1>1, <1>2, <1>3, <1>4, <1>5, <1>6, <1>7, <1>8, <1>9, <1>10, <1>11, <1>12, <1>13,
     <1>14, <1>15, <1>16, <1>17, <1>18 DEF SessionsNext

\* A process that starts has opened nothing.
LEMMA InitHolds ==
  ASSUME InitSessions
  PROVE  SessionInv /\ SentWithToken
<1>1. 0 \in 0 .. MaxNonce /\ 0 \in 0 .. MaxSessions /\ 0 \in 0 .. MaxChanges
  BY SessionsAssumption
<1>2. /\ NoSignIn \in SignIn /\ NoRequest \in Request /\ NoRequest.token = 0
      /\ NoSignIn.step = "idle" /\ NoSignIn.session = 0 /\ NoRequest.session = 0
      /\ ~NoRequest.stamped /\ NoRequest.step = "idle"
  BY <1>1 DEF NoSignIn, SignIn, FlowStep, NoRequest, Request
<1>3. users \in [Person -> Row] /\ RowsAreWhole
  <2>1. /\ NoRow \in Row
        /\ \A row \in [wallet : Wallet, role : Role, revoked : {FALSE}] :
               row \in Row /\ row.wallet \in Wallet /\ row.role \in Role
    BY DEF Row, NoRow
  <2> QED
    BY <2>1 DEF InitSessions, RowsAreWhole
<1>4. sessions = <<>> /\ sessions \in Seq(Session) /\ Len(sessions) = 0 /\ DOMAIN sessions = {}
  BY DEF InitSessions
<1>5. SessionsTypeOK
  <2>1. flow \in [Flow -> SignIn] /\ call \in [Call -> Request]
    BY <1>2 DEF InitSessions
  <2>2. challenge \in [Wallet -> 0 .. MaxNonce] /\ nonces \in 0 .. MaxNonce
    BY <1>1 DEF InitSessions
  <2>3. /\ lapsed \subseteq DOMAIN sessions /\ {stored, shown} \subseteq 0 .. Len(sessions)
        /\ account \in Wallet /\ changes \in 0 .. MaxChanges
    BY <1>1, <1>4 DEF InitSessions
  <2> QED
    BY <1>3, <1>4, <2>1, <2>2, <2>3 DEF SessionsTypeOK
<1>6. SessionsAreKnown
  BY <1>1, <1>2, <1>4, SessionsAssumption DEF InitSessions, SessionsAreKnown
<1>7. NoncesAreSpent
  BY <1>2, <1>4 DEF InitSessions, NoncesAreSpent
<1>8. OneSessionPerSignature /\ StampsAreTrue /\ SentWithToken
  BY <1>2, <1>4 DEF InitSessions, OneSessionPerSignature, StampsAreTrue, SentWithToken
<1> QED
  BY <1>3, <1>5, <1>6, <1>7, <1>8 DEF SessionInv

\* Signing in keeps the invariant: types, whole rows, known sessions, spent nonces.
THEOREM SessionInvHolds == SessionsSpec => [](SessionInv /\ SentWithToken)
<1>1. InitSessions => SessionInv /\ SentWithToken
  BY InitHolds
<1>2. SessionInv /\ SentWithToken /\ [SessionsNext]_sessionVars
        => (SessionInv /\ SentWithToken)'
  BY NextKeeps, TokenKept DEF SessionInv
<1> QED
  BY <1>1, <1>2, PTL DEF SessionsSpec

\* However often a submission is delivered, and whatever happens to the identities,
\* the nonce that verifyWalletLogin consumes opens one session.
THEOREM OneSessionPerSignatureHolds == SessionsSpec => []OneSessionPerSignature
<1>1. SessionInv => OneSessionPerSignature
  BY DEF SessionInv
<1> QED
  BY <1>1, SessionInvHolds, PTL

\* Whoever was revoked when he sent a request, and since, is not served by it.
THEOREM RevokedAreNotServedHolds == SessionsSpec => []RevokedAreNotServed
<1>1. SessionInv => RevokedAreNotServed
  BY DEF SessionInv, StampsAreTrue, RevokedAreNotServed
<1> QED
  BY <1>1, SessionInvHolds, PTL

-----------------------------------------------------------------------------
(* Passes. *)

\* Whoever is in charge of a unit by his row is on record for it.
RowsAreOnRecord == InCharge(users) \subseteq authority

\* So is everybody who may manage it by the claims of a session, however old.
ClaimsAreOnRecord ==
    \A t \in DOMAIN sessions : \A b \in SBU :
        CanManageSbu(sessions[t].person, sessions[t].role, b) /\ sessions[t].person # Nobody
            => <<sessions[t].person, b>> \in authority

\* And the issuer of a pass, for what it opens.
PassesAreOnRecord ==
    passes \subseteq {x \in Pass : <<x.issuedById, x.targetSbu>> \in authority}

PassInv == RowsAreOnRecord /\ ClaimsAreOnRecord /\ PassesAreOnRecord

-----------------------------------------------------------------------------

\* A step of signing in opens no session, or one with the claims of a row.
LEMMA SessionOpened ==
  ASSUME SessionInv, SentWithToken, SessionsNext
  PROVE  \/ UNCHANGED sessions
         \/ \E p \in Person \cup {Nobody}, w \in Wallet, via \in {"verify", "connector", "poll"},
               n \in Nat : sessions' = Append(sessions, BuildSession(p, w, via, n))
<1>1. ASSUME NEW f \in Flow, OpenSession(f), sessions' # sessions
      PROVE  \E p \in Person \cup {Nobody}, w \in Wallet, via \in {"verify", "connector", "poll"},
               n \in Nat : sessions' = Append(sessions, BuildSession(p, w, via, n))
  <2> DEFINE s == flow[f]
             p == OwnerOf(s.wallet)
  <2>1. /\ s.wallet \in Wallet /\ s.route \in {"verify", "connector", "poll"}
        /\ s.nonce \in Nat
    BY <1>1, Numbers DEF OpenSession, SessionInv, SessionsTypeOK, SignIn, NoncesAreSpent
  <2>2. sessions' = Append(sessions, BuildSession(p, s.wallet, s.route, s.nonce))
    BY <1>1 DEF OpenSession
  <2>3. p \in Person \cup {Nobody}
    BY OwnerIsPerson
  <2> HIDE DEF s, p
  <2> QED
    BY <2>1, <2>2, <2>3
<1>2. ASSUME NEW c \in Call, RegistrationStatus(c), sessions' # sessions
      PROVE  \E p \in Person \cup {Nobody}, w \in Wallet, via \in {"verify", "connector", "poll"},
               n \in Nat : sessions' = Append(sessions, BuildSession(p, w, via, n))
  <2> DEFINE k == call[c].token
             w == sessions[k].wallet
             p == OwnerOf(w)
  <2>1. sessions' = Append(sessions, BuildSession(p, w, "poll", 0))
    BY <1>2 DEF RegistrationStatus, Answer, server
  <2>2. w \in Wallet
    <3>1. k \in Nat /\ k # 0 /\ k <= Len(sessions)
      BY <1>2, SessionsAssumption
      DEF RegistrationStatus, SentWithToken, SessionInv, SessionsTypeOK, SessionsAreKnown, Request
    <3>2. sessions[k] \in Session
      BY <3>1, Numbers
    <3> QED
      BY <3>2 DEF Session
  <2>3. p \in Person \cup {Nobody}
    BY OwnerIsPerson
  <2> HIDE DEF p, w
  <2> QED
    BY <2>1, <2>2, <2>3
<1>3. ASSUME NEW c \in Call, Authenticate(c) PROVE UNCHANGED sessions
  BY <1>3 DEF Authenticate, Answer, server
<1>4. ASSUME NEW f \in Flow, \/ Sign(f) \/ VerifySignature(f) \/ ReceiveSession(f)
                             \/ \E g \in Flow : SubmitTwice(f, g)
      PROVE  UNCHANGED sessions
  BY <1>4 DEF Sign, VerifySignature, ReceiveSession, SubmitTwice, server
<1>5. ASSUME NEW f \in Flow, NEW w \in Wallet, NEW route \in {"verify", "connector"},
             Connect(f, w, route)
      PROVE  UNCHANGED sessions
  BY <1>5 DEF Connect
<1>6. ASSUME \/ \E w \in Wallet : NonceExpires(w) \/ SwitchAccount(w)
             \/ \E c \in Call : Arrive(c) \/ \E kind \in {"work", "status"} : Send(c, kind)
             \/ Logout \/ Reload \/ Restart \/ \E t \in DOMAIN sessions : SessionExpires(t)
      PROVE  UNCHANGED sessions
  BY <1>6 DEF NonceExpires, SwitchAccount, Arrive, Send, Logout, Reload, Restart, SessionExpires,
              server
<1>7. ASSUME NEW p \in Person, \/ \E w \in Wallet, r \in Role : Register(p, w, r)
                               \/ \E r \in Role : ChangeRole(p, r)
                               \/ \E w \in Wallet : Relink(p, w)
                               \/ Revoke(p) \/ Reinstate(p)
      PROVE  UNCHANGED sessions
  BY <1>7 DEF Register, ChangeRole, Relink, Revoke, Reinstate, Change
<1> QED
  BY <1>1, <1>2, <1>3, <1>4, <1>5, <1>6, <1>7 DEF SessionsNext

\* Only a change of an identity changes a row, and opens no session.
LEMMA RowsOrSessions ==
  ASSUME SessionsNext
  PROVE  UNCHANGED users \/ UNCHANGED sessions
BY DEF SessionsNext, Connect, Sign, VerifySignature, OpenSession, ReceiveSession, SubmitTwice,
       NonceExpires, SwitchAccount, Send, Authenticate, RegistrationStatus, Answer, Arrive,
       Logout, Reload, Restart, SessionExpires, server,
       Register, ChangeRole, Relink, Revoke, Reinstate, Change

\* The session that is opened claims what a row on record says.
LEMMA SignInsKeepRecord ==
  ASSUME SessionInv, SentWithToken, PassInv, SessionsNext, UNCHANGED passes,
         authority' = authority \cup InCharge(users')
  PROVE  PassInv'
<1>1. RowsAreOnRecord' /\ PassesAreOnRecord'
  BY DEF PassInv, RowsAreOnRecord, PassesAreOnRecord, InCharge
<1>2. CASE UNCHANGED sessions
  <2>1. ClaimsAreOnRecord'
    BY <1>2 DEF PassInv, ClaimsAreOnRecord, CanManageSbu
  <2> QED
    BY <1>1, <2>1 DEF PassInv
<1>3. ASSUME NEW p \in Person \cup {Nobody}, NEW w \in Wallet,
             NEW via \in {"verify", "connector", "poll"}, NEW n \in Nat,
             sessions' = Append(sessions, BuildSession(p, w, via, n))
      PROVE  PassInv'
  <2> DEFINE x == BuildSession(p, w, via, n)
  <2>1. x.person = p /\ (p # Nobody => x.role = users[p].role)
    BY DEF BuildSession
  <2>2. \A b \in SBU : CanManageSbu(p, x.role, b) /\ p # Nobody => <<p, b>> \in authority
    BY <2>1, PassesAssumption DEF CanManageSbu, PassInv, RowsAreOnRecord, InCharge
  <2> HIDE DEF x
  <2>3. sessions \in Seq(Session)
    BY DEF SessionInv, SessionsTypeOK
  <2>4. \A t \in DOMAIN sessions' :
           \/ t \in DOMAIN sessions /\ sessions'[t] = sessions[t]
           \/ sessions'[t] = x
    BY <1>3, <2>3 DEF x
  <2>5. ClaimsAreOnRecord'
    <3> SUFFICES ASSUME NEW t \in DOMAIN sessions', NEW b \in SBU,
                        CanManageSbu(sessions'[t].person, sessions'[t].role, b),
                        sessions'[t].person # Nobody
                 PROVE  <<sessions'[t].person, b>> \in authority
      BY DEF ClaimsAreOnRecord, CanManageSbu
    <3> QED
      BY <2>1, <2>2, <2>4 DEF PassInv, ClaimsAreOnRecord
  <2> QED
    BY <1>1, <2>5 DEF PassInv
<1> QED
  BY <1>2, <1>3, SessionOpened

\* A pass is issued by the claims of a session.
LEMMA GrantKeepsRecord ==
  ASSUME SessionInv, SentWithToken, PassInv,
         NEW c \in Call, NEW p \in Person, NEW b \in SBU, GrantCrossSbuPass(c, p, b)
  PROVE  PassInv'
<1> DEFINE t == call[c].token
           x == [userId |-> p, targetSbu |-> b, issuedById |-> sessions[t].person]
<1>1. t \in DOMAIN sessions /\ sessions[t] \in Session
  <2>1. t \in Nat /\ t # 0 /\ t <= Len(sessions)
    BY SessionsAssumption
    DEF GrantCrossSbuPass, SentWithToken, SessionInv, SessionsTypeOK, SessionsAreKnown, Request
  <2> QED
    BY <2>1, Numbers
<1>2. sessions[t].person \in Person
  BY <1>1, SessionsAssumption, PassesAssumption
  DEF GrantCrossSbuPass, SessionInv, SessionsTypeOK, Session
<1>3. <<sessions[t].person, b>> \in authority
  BY <1>1, <1>2, SessionsAssumption DEF GrantCrossSbuPass, PassInv, ClaimsAreOnRecord
<1>4. x \in Pass /\ x.issuedById = sessions[t].person /\ x.targetSbu = b
  BY <1>2 DEF Pass
<1>5. passes' = passes \cup {x} /\ UNCHANGED <<users, sessions, authority>>
  BY DEF GrantCrossSbuPass, sessionVars
<1> HIDE DEF x, t
<1> QED
  BY <1>3, <1>4, <1>5
  DEF PassInv, RowsAreOnRecord, ClaimsAreOnRecord, PassesAreOnRecord, InCharge, CanManageSbu

\* What happens to passes and to sessions keeps the record.
LEMMA PassesKeepRecord ==
  ASSUME SessionInv, SentWithToken, PassInv, [PassesNext]_passVars
  PROVE  PassInv'
<1>1. ASSUME NEW x \in passes, PassExpires(x) PROVE PassInv'
  BY <1>1 DEF PassExpires, PassInv, RowsAreOnRecord, ClaimsAreOnRecord, PassesAreOnRecord,
              InCharge, CanManageSbu, sessionVars
<1>2. CASE UNCHANGED passVars
  BY <1>2 DEF passVars, sessionVars, PassInv, RowsAreOnRecord, ClaimsAreOnRecord,
              PassesAreOnRecord, InCharge, CanManageSbu
<1> QED
  BY <1>1, <1>2, SignInsKeepRecord, GrantKeepsRecord DEF PassesNext

\* Passes go with signing in: the invariant of Sessions is theirs.
LEMMA PassesAreSessions == PassesSpec => SessionsSpec
<1>1. [PassesNext]_passVars => [SessionsNext]_sessionVars
  BY DEF PassesNext, passVars, sessionVars, GrantCrossSbuPass, PassExpires
<1> QED
  BY <1>1, PTL DEF PassesSpec, SessionsSpec

\* What is on record stays on record: the inductive invariant of the passes.
THEOREM PassInvHolds == PassesSpec => []PassInv
<1>1. InitSessions /\ InitPasses => PassInv
  BY DEF InitSessions, InitPasses, PassInv, RowsAreOnRecord, ClaimsAreOnRecord, PassesAreOnRecord
<1> QED
  BY <1>1, PassesKeepRecord, PassesAreSessions, SessionInvHolds, PTL DEF PassesSpec

\* A pass gives visibility and no authority (grantCrossSbuPass judges by the session's
\* claims and own unit, not by the scope its holder reads in).
THEOREM NoDelegationHolds == PassesSpec => []NoDelegation
<1>1. PassInv => NoDelegation
  BY DEF PassInv, PassesAreOnRecord, NoDelegation, Scope
<1> QED
  BY <1>1, PassInvHolds, PTL

-----------------------------------------------------------------------------
(* The lists. *)

\* Requests and custodians are what the tables hold.
CustodyTyped == owner \in [Asset -> Person] /\ requests \subseteq TransferRequest

\* Whatever is requested, approved or rejected.
LEMMA CustodyStep ==
  ASSUME SessionInv, CustodyTyped, [VisibilityNext]_visibilityVars
  PROVE  CustodyTyped'
<1>1. ASSUME NEW t \in DOMAIN sessions, NEW a \in Asset, NEW p \in Person,
             RequestTransfer(t, a, p)
      PROVE  CustodyTyped'
  <2>1. sessions[t].person \in Person
    <3>1. sessions[t] \in Session
      BY Numbers
    <3> QED
      BY <1>1, <3>1 DEF RequestTransfer, Admitted, Session
  <2>2. [asset |-> a, from |-> owner[a], to |-> p, requestedBy |-> sessions[t].person,
         status |-> "PENDING"] \in TransferRequest
    BY <2>1 DEF TransferRequest, CustodyTyped
  <2> QED
    BY <1>1, <2>2 DEF RequestTransfer, CustodyTyped
<1>2. ASSUME NEW t \in DOMAIN sessions, NEW r \in requests,
             ApproveTransfer(t, r) \/ RejectTransfer(t, r)
      PROVE  CustodyTyped'
  <2>1. r \in TransferRequest
    BY DEF CustodyTyped
  <2>2. /\ [r EXCEPT !.status = "EXECUTED"] \in TransferRequest
        /\ [r EXCEPT !.status = "REJECTED"] \in TransferRequest
        /\ r.to \in Person
    BY <2>1 DEF TransferRequest
  <2> QED
    BY <1>2, <2>2 DEF ApproveTransfer, RejectTransfer, Decided, CustodyTyped
<1>3. CASE UNCHANGED <<owner, requests>>
  BY <1>3 DEF CustodyTyped
<1> QED
  BY <1>1, <1>2, <1>3 DEF VisibilityNext, visibilityVars

\* Custody moves beside passes and sessions.
LEMMA VisibilityIsPasses == VisibilitySpec => PassesSpec
<1>1. [VisibilityNext]_visibilityVars => [PassesNext]_passVars
  BY DEF VisibilityNext, visibilityVars, RequestTransfer, ApproveTransfer, RejectTransfer
<1> QED
  BY <1>1, PTL DEF VisibilitySpec, PassesSpec

\* The action scope lies within the read scope, on every list.
LEMMA ScopesAgree ==
  ASSUME CustodyTyped
  PROVE  ActingIsSeeing
<1> SUFFICES
      ASSUME NEW t \in DOMAIN sessions, sessions[t].person # Nobody
      PROVE  LET s == sessions[t] IN
        /\ \A r \in requests : r.status = "PENDING" /\ MayReject(s, r) =>
               r \in listTransfers(s) /\ r.asset \in getAssetById(s)
        /\ \A a \in Asset : MayRequest(s, a) =>
               a \in getAssetById(s) \cap (listAssets(s) \cup getMyAssets(s))
        /\ \A x \in passes : CanManageSbu(s.person, s.role, x.targetSbu) =>
               x \in getActivePassesForUser(s, x.userId)
        /\ \A a \in Asset : MayRequest(s, a) /\ AssetSbu[a] = SbuOf[s.person] =>
               {p \in Person \ {s.person} : MayHold(p) /\ MayTake(p, a)}
                   \subseteq listTransferRecipients(s)
        /\ \A p \in Person, z \in Zone : MayTap(s, p, z) => z \in listZones(s) /\ p \in listEvents(s)
  BY DEF ActingIsSeeing
<1> DEFINE s == sessions[t]
<1> USE PassesAssumption, VisibilityAssumption DEF CustodyTyped
<1> HIDE DEF s
<1>1. \A r \in requests : r.status = "PENDING" /\ MayReject(s, r) =>
          r \in listTransfers(s) /\ r.asset \in getAssetById(s)
  BY DEF TransferRequest, MayReject, MayApprove, CanManageSbu, listTransfers, transferWhere,
         assetWhere, isAssetVisible, getAssetById, Involved, Parties, Unrestricted, Scope
<1>2. \A a \in Asset : MayRequest(s, a) =>
          a \in getAssetById(s) \cap (listAssets(s) \cup getMyAssets(s))
  BY DEF MayRequest, CanManageSbu, getAssetById, Involved, isAssetVisible, listAssets, assetWhere,
         getMyAssets, Oversight, Unrestricted, Scope
<1>3. \A x \in passes : CanManageSbu(s.person, s.role, x.targetSbu) =>
          x \in getActivePassesForUser(s, x.userId)
  BY DEF CanManageSbu, getActivePassesForUser, Scope
<1>4. \A a \in Asset : MayRequest(s, a) /\ AssetSbu[a] = SbuOf[s.person] =>
          {p \in Person \ {s.person} : MayHold(p) /\ MayTake(p, a)}
              \subseteq listTransferRecipients(s)
  BY DEF MayTake, listTransferRecipients, Scope
<1>5. \A p \in Person, z \in Zone : MayTap(s, p, z) => z \in listZones(s) /\ p \in listEvents(s)
  BY DEF MayTap, listZones, listEvents, Oversight, Unrestricted
<1> QED
  BY <1>1, <1>2, <1>3, <1>4, <1>5 DEF s

\* Whatever a caller may act on is on the lists he acts from (getSbuScope, its filters
\* and their twin, against canManageSbu and simulateTap), wherever custody goes.
THEOREM ActingIsSeeingHolds == VisibilitySpec => []ActingIsSeeing
<1>1. InitVisibility => CustodyTyped
  BY DEF InitVisibility, CustodyTyped
<1>2. VisibilitySpec => []CustodyTyped
  BY <1>1, CustodyStep, VisibilityIsPasses, PassesAreSessions, SessionInvHolds, PTL
  DEF VisibilitySpec
<1> QED
  BY <1>2, ScopesAgree, PTL

-----------------------------------------------------------------------------
(* The tab. *)

\* What the tab shows is what it sends, and one redirect takes it where it stays.
NavigationInv ==
    /\ stored = shown /\ path \in Path
    /\ hops \in {0, 1} /\ (hops = 1 => Settled)

LEMMA NavigationIsSessions == NavigationSpec => SessionsSpec
<1>1. [NavigationNext]_navigationVars => [SessionsNext]_sessionVars
  BY DEF NavigationNext, navigationVars, SessionsNext, sessionVars, Redirect, EnterPortal, Behind,
         Visit, Open, LogoutFrom, ArriveAt, SignedIn, Switch
<1> QED
  BY <1>1, PTL DEF NavigationSpec, SessionsSpec

\* A route leads to one whose rendering stays there.
LEMMA RenderedStays ==
  ASSUME NEW p \in Path, NEW t
  PROVE  Rendered(p, t) \in Path /\ Rendered(Rendered(p, t), t) = Rendered(p, t)
<1> DEFINE home == roleHomePath(RoleOf(t))
<1>1. home \in {"/", "/admin/dashboard", "/manager/dashboard", "/auditor/dashboard",
                "/user/dashboard"}
  BY DEF roleHomePath
<1>2. home \in Guarded => RoleOf(t) \in allowedRoles[home]
  BY DEF roleHomePath, allowedRoles, Guarded, Path, Human
<1>3. Guarded = Path \ {"/", "/login", "/register", "/dashboard"}
  BY DEF Guarded, allowedRoles
<1> HIDE DEF home
<1> DEFINE r == Rendered(p, t)
<1>4. \/ r = p \/ r \in {"/", "/login"}
      \/ t # 0 /\ ~Registered(t) /\ r = "/register"
      \/ t # 0 /\ Registered(t) /\ r = home
  <2>1. CASE p \in Guarded
    BY <1>3, <2>1 DEF Rendered, ProtectedRoute, home
  <2>2. CASE p = "/register"
    BY <2>2, <1>3 DEF Rendered, RegistrationPage, home
  <2>3. CASE p = "/dashboard"
    BY <2>3, <1>3 DEF Rendered, DashboardRedirect, home
  <2>4. CASE p \notin Guarded /\ p # "/register" /\ p # "/dashboard"
    BY <2>4 DEF Rendered
  <2> QED
    BY <2>1, <2>2, <2>3, <2>4
<1>5. r = p => Rendered(r, t) = r
  OBVIOUS
<1> HIDE DEF r
<1>6. r \in Path
  BY <1>1, <1>4 DEF Path
<1>7. Rendered("/", t) = "/" /\ Rendered("/login", t) = "/login"
  BY <1>3 DEF Rendered
<1>8. t # 0 /\ Registered(t) => Rendered(home, t) = home
  BY <1>1, <1>2, <1>7 DEF Rendered, ProtectedRoute
<1>9. t # 0 /\ ~Registered(t) => Rendered("/register", t) = "/register"
  BY <1>3 DEF Rendered, RegistrationPage
<1>10. Rendered(r, t) = r
  BY <1>4, <1>5, <1>7, <1>8, <1>9
<1> QED
  BY <1>6, <1>10 DEF r

\* Where a session leads is settled by its claims, and those are never rewritten.
LEMMA SettledRemains ==
  ASSUME SessionInv, SentWithToken, [SessionsNext]_sessionVars, Settled,
         UNCHANGED <<path, shown>>
  PROVE  Settled'
<1>1. shown \in Nat /\ Len(sessions) \in Nat /\ shown <= Len(sessions)
  BY DEF SessionInv, SessionsTypeOK
<1>2. shown # 0 => sessions'[shown] = sessions[shown]
  <2>1. CASE SessionsNext
    <3>1. UNCHANGED sessions \/ \E x : sessions' = Append(sessions, x)
      BY <2>1, SessionOpened
    <3> QED
      BY <1>1, <3>1 DEF SessionInv, SessionsTypeOK
  <2>2. CASE UNCHANGED sessionVars
    BY <2>2 DEF sessionVars
  <2> QED
    BY <2>1, <2>2
<1>3. Rendered(path, shown)' = Rendered(path, shown)
  BY <1>2 DEF Rendered, ProtectedRoute, RegistrationPage, DashboardRedirect, Registered, RoleOf
<1> QED
  BY <1>3 DEF Settled

\* A step that goes on, with the tab and the page it shows in hand.
LEMMA NavigationKeeps ==
  ASSUME SessionInv, SentWithToken, NavigationInv, [NavigationNext]_navigationVars
  PROVE  NavigationInv'
<1> USE DEF NavigationInv
<1>1. CASE Redirect
  <2>1. Settled'
    BY <1>1, RenderedStays DEF Redirect, Settled, sessionVars, Rendered, ProtectedRoute,
       RegistrationPage, DashboardRedirect, Registered, RoleOf
  <2>2. path' \in Path
    BY <1>1, RenderedStays DEF Redirect
  <2> QED
    BY <1>1, <2>1, <2>2 DEF Redirect, sessionVars
<1>2. CASE Behind
  <2>1. [SessionsNext]_sessionVars
    BY <1>2 DEF Behind, SessionsNext
  <2>2. UNCHANGED <<path, hops, stored, shown>>
    BY <1>2 DEF Behind, Connect, Sign, VerifySignature, OpenSession, Send, Authenticate,
                RegistrationStatus, Answer, SessionExpires, tab
  <2> QED
    BY <2>1, <2>2, SettledRemains
<1>3. CASE EnterPortal
  BY <1>3 DEF EnterPortal, sessionVars, Path, roleHomePath
<1>4. ASSUME NEW p \in Path, Visit(p) PROVE NavigationInv'
  BY <1>4 DEF Visit, sessionVars
<1>5. ASSUME NEW p \in Path, Open(p) PROVE NavigationInv'
  BY <1>5 DEF Open, Reload, SignOut
<1>6. ASSUME NEW p \in Path, LogoutFrom(p) PROVE NavigationInv'
  BY <1>6 DEF LogoutFrom, Logout, SignOut
<1>7. ASSUME NEW c \in Call, ArriveAt(c) PROVE NavigationInv'
  BY <1>7 DEF ArriveAt, Arrive, SignOut, Path, roleHomePath
<1>8. ASSUME NEW f \in Flow, SignedIn(f) PROVE NavigationInv'
  BY <1>8 DEF SignedIn, ReceiveSession
<1>9. ASSUME NEW w \in Wallet, Switch(w) PROVE NavigationInv'
  BY <1>9 DEF Switch, SwitchAccount, SignOut
<1>10. CASE UNCHANGED navigationVars
  <2>1. UNCHANGED <<path, hops, stored, shown, sessionVars>>
    BY <1>10 DEF navigationVars, sessionVars
  <2> QED
    BY <2>1, SettledRemains
<1> QED
  BY <1>1, <1>2, <1>3, <1>4, <1>5, <1>6, <1>7, <1>8, <1>9, <1>10 DEF NavigationNext

\* The tab is redirected once at most, and on a page with a guard it sends the token
\* of somebody whose role may be there, for any persons, roles, tabs and answers.
THEOREM SettledIsOwnHolds == NavigationSpec => []SettledIsOwn
<1>1. InitSessions /\ InitNavigation => NavigationInv
  BY DEF InitSessions, InitNavigation, NavigationInv, Path
<1>2. NavigationInv => SettledIsOwn
  <2>1. \A role : roleHomePath(role) \in Guarded => role \in allowedRoles[roleHomePath(role)]
    BY DEF roleHomePath, allowedRoles, Guarded, Path, Human
  <2>2. {"/login", "/register", "/dashboard"} \cap Guarded = {}
    BY DEF Guarded, allowedRoles
  <2>3. Settled /\ path \in Guarded => ProtectedRoute(path, shown) = path
    BY <2>2 DEF Settled, Rendered
  <2>4. ProtectedRoute(path, shown) = path /\ path \in Guarded
            => shown # 0 /\ RoleOf(shown) \in allowedRoles[path]
    BY <2>1, <2>2 DEF ProtectedRoute
  <2> QED
    BY <2>3, <2>4 DEF NavigationInv, SettledIsOwn
<1> QED
  BY <1>1, <1>2, NavigationIsSessions, SessionInvHolds, NavigationKeeps, PTL DEF NavigationSpec

-----------------------------------------------------------------------------
(* The pages. *)

\* A form that waits knows what it is about, and so do its loads and calls.
FormsAreFilled ==
    page.waits => /\ \A i \in DOMAIN fetches : fetches[i].picked # NoPick
                  /\ \A a \in Act : acts[a].step # "none" => acts[a].picked # NoPick

\* A load sent after the last change finds things as they are now.
LoadsAreFresh ==
    \A i \in DOMAIN fetches :
        i > settled /\ fetches[i].step \in {"answered", "taken"} => fetches[i].data = data

\* Where there is only one load at a time, the earlier ones are over.
OneLoadAtATime ==
    page.takes = "one" =>
        \A i \in DOMAIN fetches : i < Len(fetches) => fetches[i].step \in {"taken", "dropped"}

\* What was taken in last is what the newest load brought.
NewestWasTaken ==
    UpToDate /\ InTurn => view = [picked |-> LastFetch.picked, data |-> LastFetch.data]

\* The newest load was sent after the last call that was said to have succeeded.
LoadsFollowActs ==
    /\ \A a \in Act : acts[a].data <= data
    /\ page.reloads /\ page.takes # "one" /\ acked > 0 =>
          Len(fetches) > 0 /\ (LastFetch.step \in {"answered", "taken"} => LastFetch.data >= acked)

ConsoleInv ==
    /\ ConsoleTypeOK /\ FormsAreFilled /\ LoadsAreFresh
    /\ OneLoadAtATime /\ NewestWasTaken /\ LoadsFollowActs

\* A form that waits loads nothing by itself; a page with one load has nothing to select.
LEMMA PagesAre ==
  ASSUME NEW p \in Page
  PROVE  /\ p.waits => ~p.polls /\ ~p.starts
         /\ p.takes = "one" => ~p.selects
         /\ p.takes \in {"any", "last", "one"}
<1> DEFINE Fits(r) == /\ r.waits => ~r.polls /\ ~r.starts
                      /\ r.takes = "one" => ~r.selects
                      /\ r.takes \in {"any", "last", "one"}
<1>1. Fits(useAssetDetail) /\ Fits(UserDashboard)
  BY DEF useAssetDetail, UserDashboard, Plain
<1>2. Fits(TransactionVerifier)
  BY DEF TransactionVerifier, Plain
<1>3. Fits(AntiTamperLab)
  BY DEF AntiTamperLab, TransactionVerifier, Plain
<1>4. Fits(BadgeTapSimulator) /\ Fits(useBlockNumber) /\ Fits(AdminDashboard)
  BY DEF BadgeTapSimulator, useBlockNumber, AdminDashboard, Plain
<1>5. Fits(useTeamMembers) /\ Fits(ManagerDashboard) /\ Fits(RequestTransferForm)
      /\ Fits(InitiateTransfer)
  BY DEF useTeamMembers, ManagerDashboard, RequestTransferForm, InitiateTransfer, Plain
<1>6. Fits(AuditTrailExplorer) /\ Fits(AuditorDashboard) /\ Fits(AssetList)
      /\ Fits(TeamAssets) /\ Fits(MyAssets)
  BY DEF AuditTrailExplorer, AuditorDashboard, AssetList, TeamAssets, MyAssets, Plain
<1>7. Fits(ZoneManager) /\ Fits(TransferApprovals) /\ Fits(RoleAssignment)
      /\ Fits(PendingRegistrations)
  BY DEF ZoneManager, TransferApprovals, RoleAssignment, PendingRegistrations, Plain
<1>8. Fits(QuarantineStation) /\ Fits(IdentityTable) /\ Fits(RequestsPanel)
  BY DEF QuarantineStation, IdentityTable, RequestsPanel, Plain
<1>9. Fits(GuardiansPanel) /\ Fits(NewRequestDialog)
  BY DEF GuardiansPanel, NewRequestDialog, RequestsPanel, Plain
<1>10. Fits(CreateIdentityDialog) /\ Fits(MintAssetDialog) /\ Fits(RecoveryCenter)
       /\ Fits(ProfilePage) /\ Fits(AccessPasses)
  BY DEF CreateIdentityDialog, MintAssetDialog, RecoveryCenter, ProfilePage, AccessPasses, Plain
<1> HIDE DEF Fits
<1>11. Fits(p)
  BY <1>1, <1>2, <1>3, <1>4, <1>5, <1>6, <1>7, <1>8, <1>9, <1>10 DEF Page
<1> QED
  BY <1>11 DEF Fits

\* What the calls of a page keep.
ActsAreWell ==
    /\ acts \in [Act -> ActState]
    /\ \A a \in Act : acts[a].data <= data
    /\ page.waits => \A a \in Act : acts[a].step # "none" => acts[a].picked # NoPick

\* A load is sent: nothing is up to date until it is answered.
LEMMA LoadStep ==
  ASSUME ConsoleInv, NEW x \in Pick \cup {NoPick}, Load(x), page.waits => x # NoPick,
         UNCHANGED <<page, data, view, overtaken>>,
         picked' \in Pick \cup {NoPick}, page.takes = "one" => picked' = picked,
         settled' \in {settled, Len(fetches)}, ActsAreWell', acked' \in 0 .. data
  PROVE  ConsoleInv'
<1> USE ConsoleAssumption DEF ConsoleInv
<1> DEFINE n == Len(fetches)
           f == NewFetch(x)
<1>1. /\ f \in Fetch /\ f.step = "sent" /\ f.picked = x
      /\ fetches \in Seq(Fetch) /\ n \in Nat /\ n < MaxFetches /\ settled \in 0 .. n
  BY DEF NewFetch, Fetch, ConsoleTypeOK, Load
<1> HIDE DEF f
<1>2. CASE fetches' = Append(fetches, f)
  <2>1. /\ fetches' \in Seq(Fetch) /\ Len(fetches') = n + 1
        /\ \A i \in 1 .. n : fetches'[i] = fetches[i]
        /\ fetches'[n + 1] = f
    BY <1>1, <1>2
  <2>2. DOMAIN fetches = 1 .. n /\ DOMAIN fetches' = 1 .. n + 1
    BY <1>1, <2>1
  <2>3. ConsoleTypeOK'
    BY <1>1, <2>1 DEF ConsoleTypeOK, ActsAreWell
  <2>4. FormsAreFilled'
    BY <1>1, <2>1, <2>2 DEF FormsAreFilled, ActsAreWell
  <2>5. LoadsAreFresh'
    BY <1>1, <2>1, <2>2 DEF LoadsAreFresh
  <2>6. OneLoadAtATime'
    <3>1. page.takes = "one" => ~Loading
      BY <1>1, <1>2 DEF Load
    <3>2. ASSUME page.takes = "one", NEW i \in 1 .. n
          PROVE  fetches[i].step \in {"taken", "dropped"}
      <4>1. fetches[i] \in Fetch /\ i \in DOMAIN fetches
        BY <1>1, <2>2, <3>2
      <4>2. fetches[i].step \notin {"sent", "answered", "failed"}
        BY <3>1, <3>2, <4>1 DEF Loading
      <4> QED
        BY <4>1, <4>2 DEF Fetch
    <3> QED
      BY <1>1, <2>1, <2>2, <3>2 DEF OneLoadAtATime
  <2>7. LastFetch'.step = "sent"
    BY <1>1, <2>1 DEF LastFetch
  <2>8. NewestWasTaken'
    BY <2>7 DEF NewestWasTaken, UpToDate
  <2>9. LoadsFollowActs'
    BY <1>1, <2>1, <2>7 DEF LoadsFollowActs, ActsAreWell
  <2> QED
    BY <2>3, <2>4, <2>5, <2>6, <2>8, <2>9
<1>3. CASE fetches' = fetches /\ page.takes = "one"
  <2>1. ConsoleTypeOK'
    BY <1>1, <1>3 DEF ConsoleTypeOK, ActsAreWell
  <2>2. FormsAreFilled' /\ OneLoadAtATime'
    BY <1>3 DEF FormsAreFilled, OneLoadAtATime, ActsAreWell
  <2>3. LoadsAreFresh'
    BY <1>1, <1>3 DEF LoadsAreFresh
  <2>4. NewestWasTaken'
    BY <1>3 DEF NewestWasTaken, UpToDate, LastFetch, InTurn
  <2>5. LoadsFollowActs'
    BY <1>3 DEF LoadsFollowActs, ActsAreWell
  <2> QED
    BY <2>1, <2>2, <2>3, <2>4, <2>5
<1> QED
  BY <1>2, <1>3 DEF Load, f

\* Nothing is loaded; something may change, and then every load so far is an old one.
LEMMA ActStep ==
  ASSUME ConsoleInv, UNCHANGED <<page, picked, fetches, view, overtaken>>,
         \/ UNCHANGED <<data, settled>>
         \/ data' = data + 1 /\ data < MaxWrites /\ settled' = Len(fetches),
         ActsAreWell', acked' \in 0 .. data, page.reloads => acked' = acked
  PROVE  ConsoleInv'
<1> USE ConsoleAssumption DEF ConsoleInv
<1>1. /\ fetches \in Seq(Fetch) /\ Len(fetches) \in Nat /\ data \in Nat
      /\ DOMAIN fetches = 1 .. Len(fetches) /\ settled \in 0 .. Len(fetches)
  BY DEF ConsoleTypeOK
<1>2. ConsoleTypeOK'
  BY <1>1 DEF ConsoleTypeOK, ActsAreWell
<1>3. FormsAreFilled' /\ OneLoadAtATime'
  BY DEF FormsAreFilled, OneLoadAtATime, ActsAreWell
<1>4. LoadsAreFresh'
  BY <1>1 DEF LoadsAreFresh
<1>5. NewestWasTaken' /\ LoadsFollowActs'
  BY DEF NewestWasTaken, LoadsFollowActs, UpToDate, LastFetch, InTurn, ActsAreWell
<1> QED
  BY <1>2, <1>3, <1>4, <1>5

\* A load is answered with things as they are then, or fails.
LEMMA AnswerFetchStep ==
  ASSUME ConsoleInv, NEW i \in DOMAIN fetches, AnswerFetch(i)
  PROVE  ConsoleInv'
<1> USE ConsoleAssumption DEF ConsoleInv
<1> DEFINE n == Len(fetches)
<1>1. /\ fetches \in Seq(Fetch) /\ n \in Nat /\ DOMAIN fetches = 1 .. n
      /\ data \in 0 .. MaxWrites /\ acked <= data
      /\ UNCHANGED <<page, picked, data, view, acts, settled, acked, overtaken>>
  BY DEF ConsoleTypeOK, AnswerFetch
<1>2. /\ fetches' \in Seq(Fetch) /\ Len(fetches') = n /\ DOMAIN fetches' = 1 .. n
      /\ \A j \in 1 .. n \ {i} : fetches'[j] = fetches[j]
      /\ fetches[i].step = "sent" /\ fetches'[i].picked = fetches[i].picked
      /\ \/ fetches'[i].step = "answered" /\ fetches'[i].data = data
         \/ fetches'[i].step = "failed"
  <2>1. fetches[i] \in Fetch
    BY <1>1
  <2>2. [fetches[i] EXCEPT !.step = "answered", !.data = data] \in Fetch
        /\ [fetches[i] EXCEPT !.step = "failed"] \in Fetch
    BY <1>1, <2>1 DEF Fetch
  <2>3. PICK y \in Fetch : /\ fetches' = [fetches EXCEPT ![i] = y]
                           /\ y.picked = fetches[i].picked
                           /\ \/ y.step = "answered" /\ y.data = data
                              \/ y.step = "failed"
    BY <1>1, <2>1, <2>2 DEF AnswerFetch, Fetch
  <2>4. /\ fetches' \in Seq(Fetch) /\ Len(fetches') = n /\ DOMAIN fetches' = 1 .. n
        /\ \A j \in 1 .. n \ {i} : fetches'[j] = fetches[j]
        /\ fetches'[i] = y
    BY <1>1, <2>3
  <2> QED
    BY <2>3, <2>4 DEF AnswerFetch
<1>3. ConsoleTypeOK'
  BY <1>1, <1>2 DEF ConsoleTypeOK
<1>4. FormsAreFilled'
  BY <1>1, <1>2 DEF FormsAreFilled
<1>5. LoadsAreFresh'
  BY <1>1, <1>2 DEF LoadsAreFresh
<1>6. OneLoadAtATime'
  BY <1>1, <1>2 DEF OneLoadAtATime
<1>7. NewestWasTaken'
  BY <1>1, <1>2 DEF NewestWasTaken, UpToDate, LastFetch, InTurn
<1>8. LoadsFollowActs'
  BY <1>1, <1>2 DEF LoadsFollowActs, LastFetch
<1> QED
  BY <1>3, <1>4, <1>5, <1>6, <1>7, <1>8

\* An answer is taken in, or ignored: the newest is taken in, and not overwritten.
LEMMA TakeFetchStep ==
  ASSUME ConsoleInv, NEW i \in DOMAIN fetches, TakeFetch(i)
  PROVE  ConsoleInv'
<1> USE ConsoleAssumption DEF ConsoleInv
<1> DEFINE n == Len(fetches)
           brought == [picked |-> fetches[i].picked, data |-> fetches[i].data]
<1>1. /\ fetches \in Seq(Fetch) /\ n \in Nat /\ n > 0 /\ DOMAIN fetches = 1 .. n
      /\ i \in 1 .. n /\ fetches[i] \in Fetch
      /\ UNCHANGED <<page, picked, data, acts, settled, acked>>
      /\ fetches[i].step \in {"answered", "failed"}
      /\ view \in [picked : Pick \cup {NoPick}, data : 0..MaxWrites]
      /\ page.takes \in {"any", "last", "one"}
  BY PagesAre DEF ConsoleTypeOK, TakeFetch
<1>2. /\ fetches' \in Seq(Fetch) /\ Len(fetches') = n /\ DOMAIN fetches' = 1 .. n
      /\ \A j \in 1 .. n \ {i} : fetches'[j] = fetches[j]
      /\ fetches'[i].picked = fetches[i].picked /\ fetches'[i].data = fetches[i].data
      /\ \/ fetches'[i].step = "taken" /\ fetches[i].step = "answered"
         \/ fetches'[i].step = "dropped" /\ fetches[i].step = "failed"
  <2>1. PICK s \in {"taken", "dropped"} :
             /\ fetches' = [fetches EXCEPT ![i] = [fetches[i] EXCEPT !.step = s]]
             /\ s = IF fetches[i].step = "answered" THEN "taken" ELSE "dropped"
    BY <1>1 DEF TakeFetch
  <2> DEFINE y == [fetches[i] EXCEPT !.step = s]
  <2>2. /\ y \in Fetch /\ y.step = s
        /\ y.picked = fetches[i].picked /\ y.data = fetches[i].data
    BY <1>1, <2>1 DEF Fetch
  <2> HIDE DEF y
  <2>3. /\ fetches' \in Seq(Fetch) /\ Len(fetches') = n /\ DOMAIN fetches' = 1 .. n
        /\ \A j \in 1 .. n \ {i} : fetches'[j] = fetches[j]
        /\ fetches'[i] = y
    BY <1>1, <2>1, <2>2 DEF y
  <2> QED
    BY <1>1, <2>1, <2>2, <2>3
<1>3. view' \in {view, brought, Blank}
      /\ (Accepted(i) /\ fetches[i].step = "answered" => view' = brought)
      /\ (~Accepted(i) => view' = view)
  BY DEF TakeFetch
<1>4. view' \in [picked : Pick \cup {NoPick}, data : 0..MaxWrites]
  BY <1>1, <1>3 DEF Blank, Fetch
<1>5. overtaken' \in BOOLEAN /\ (overtaken => overtaken')
      /\ (i # n /\ fetches[n].step \in {"taken", "dropped"} => overtaken')
  <2> DEFINE later == \E j \in DOMAIN fetches : j > i /\ fetches[j].step \in {"taken", "dropped"}
  <2>1. overtaken' = (overtaken \/ later)
    BY DEF TakeFetch
  <2>2. i # n /\ fetches[n].step \in {"taken", "dropped"} => later
    BY <1>1
  <2> HIDE DEF later
  <2> QED
    BY <2>1, <2>2, Zenon
<1>6. ConsoleTypeOK'
  BY <1>1, <1>2, <1>4, <1>5 DEF ConsoleTypeOK
<1>7. FormsAreFilled'
  BY <1>1, <1>2 DEF FormsAreFilled
<1>8. LoadsAreFresh'
  BY <1>1, <1>2 DEF LoadsAreFresh
<1>9. OneLoadAtATime'
  BY <1>1, <1>2 DEF OneLoadAtATime
<1>10. NewestWasTaken'
  <2>1. CASE i = n
    BY <1>1, <1>2, <1>3, <2>1 DEF NewestWasTaken, UpToDate, LastFetch, Accepted
  <2>2. CASE i # n
    <3>1. page.takes = "last" => view' = view
      BY <1>3, <2>2 DEF Accepted
    <3>2. page.takes # "one"
      BY <1>1, <2>2 DEF OneLoadAtATime
    <3>3. UpToDate' /\ page.takes = "any" => overtaken'
      BY <1>1, <1>2, <1>5, <2>2 DEF UpToDate, LastFetch
    <3>4. UpToDate' => UpToDate /\ LastFetch' = LastFetch
      BY <1>1, <1>2, <2>2 DEF UpToDate, LastFetch
    <3>5. InTurn' => InTurn
      BY <1>1, <1>5 DEF InTurn
    <3> QED
      BY <1>1, <3>1, <3>2, <3>3, <3>4, <3>5 DEF NewestWasTaken, InTurn
  <2> QED
    BY <2>1, <2>2
<1>11. LoadsFollowActs'
  BY <1>1, <1>2 DEF LoadsFollowActs, LastFetch
<1> QED
  BY <1>6, <1>7, <1>8, <1>9, <1>10, <1>11

\* A form is emptied: no load was for nothing.
LEMMA ClearStep ==
  ASSUME ConsoleInv, Clear
  PROVE  ConsoleInv'
<1> USE ConsoleAssumption DEF ConsoleInv
<1>1. ConsoleTypeOK'
  BY DEF Clear, ConsoleTypeOK, Blank
<1>2. FormsAreFilled' /\ LoadsAreFresh' /\ OneLoadAtATime' /\ LoadsFollowActs'
  BY DEF Clear, FormsAreFilled, LoadsAreFresh, OneLoadAtATime, LoadsFollowActs, LastFetch
<1>3. ~UpToDate'
  <2>1. Len(fetches) > 0 => Len(fetches) \in DOMAIN fetches
    BY DEF ConsoleTypeOK
  <2> QED
    BY <2>1 DEF Clear, UpToDate, LastFetch, FormsAreFilled
<1> QED
  BY <1>1, <1>2, <1>3 DEF NewestWasTaken

LEMMA ConsoleKeeps ==
  ASSUME ConsoleInv, [ConsoleNext]_consoleVars
  PROVE  ConsoleInv'
<1> USE ConsoleAssumption
<1>1. /\ ActsAreWell /\ acked \in 0 .. data /\ data \in 0 .. MaxWrites
      /\ picked \in Pick \cup {NoPick} /\ page \in Page
      /\ \A a \in Act : acts[a] \in ActState
  BY DEF ConsoleInv, ConsoleTypeOK, FormsAreFilled, LoadsFollowActs, ActsAreWell
<1>2. ASSUME NEW x \in Pick, Select(x) PROVE ConsoleInv'
  BY <1>1, <1>2, LoadStep, PagesAre DEF Select, ActsAreWell
<1>3. CASE Clear
  BY <1>3, ClearStep
<1>4. CASE Poll
  <2>1. ~page.waits
    BY <1>1, <1>4, PagesAre DEF Poll
  <2> QED
    BY <1>1, <1>4, <2>1, LoadStep DEF Poll, ActsAreWell
<1>5. CASE SomebodyElseActs
  <2>1. ActsAreWell'
    BY <1>1, <1>5 DEF SomebodyElseActs, ActsAreWell, ActState
  <2> QED
    BY <1>1, <1>5, <2>1, ActStep DEF SomebodyElseActs
<1>6. ASSUME NEW i \in DOMAIN fetches, AnswerFetch(i) \/ TakeFetch(i) PROVE ConsoleInv'
  BY <1>6, AnswerFetchStep, TakeFetchStep
<1>7. ASSUME NEW a \in Act, StartAct(a) PROVE ConsoleInv'
  <2>1. ActsAreWell'
    BY <1>1, <1>7 DEF StartAct, ActsAreWell, ActState
  <2> QED
    BY <1>1, <1>7, <2>1, ActStep DEF StartAct
<1>8. ASSUME NEW a \in Act, ServeAct(a) PROVE ConsoleInv'
  <2>1. CASE UNCHANGED <<data, settled>> /\ acts' = [acts EXCEPT ![a].step = "refused"]
    <3>1. ActsAreWell'
      BY <1>1, <1>8, <2>1 DEF ServeAct, ActsAreWell, ActState
    <3> QED
      BY <1>1, <1>8, <2>1, <3>1, ActStep DEF ServeAct
  <2>2. CASE /\ data < MaxWrites /\ data' = data + 1 /\ settled' = Len(fetches)
             /\ acts' = [acts EXCEPT ![a].step = "served", ![a].data = data']
    <3>1. ActsAreWell'
      BY <1>1, <1>8, <2>2 DEF ServeAct, ActsAreWell, ActState
    <3> QED
      BY <1>1, <1>8, <2>2, <3>1, ActStep DEF ServeAct
  <2> QED
    BY <1>8, <2>1, <2>2 DEF ServeAct
<1>9. ASSUME NEW a \in Act, ContinueAct(a) PROVE ConsoleInv'
  <2>1. ActsAreWell'
    BY <1>1, <1>9 DEF ContinueAct, ActsAreWell, ActState
  <2> QED
    BY <1>1, <1>9, <2>1, ActStep DEF ContinueAct
<1>10. ASSUME NEW a \in Act, ActSucceeds(a) PROVE ConsoleInv'
  <2>1. ActsAreWell'
    BY <1>1, <1>10 DEF ActSucceeds, ActsAreWell, ActState, NoAct
  <2>2. /\ acked' \in 0 .. data /\ acts[a].step # "none" /\ acts[a].picked \in Pick \cup {NoPick}
        /\ page.waits => acts[a].picked # NoPick
    BY <1>1, <1>10 DEF ActSucceeds, ActsAreWell, ActState
  <2>3. CASE page.reloads
    BY <1>1, <1>10, <2>1, <2>2, <2>3, LoadStep DEF ActSucceeds, AfterAct
  <2>4. CASE ~page.reloads
    BY <1>1, <1>10, <2>1, <2>2, <2>4, ActStep DEF ActSucceeds, AfterAct
  <2> QED
    BY <2>3, <2>4
<1>11. ASSUME NEW a \in Act, ActFails(a) PROVE ConsoleInv'
  <2>1. ActsAreWell'
    BY <1>1, <1>11 DEF ActFails, ActsAreWell, ActState, NoAct
  <2> QED
    BY <1>1, <1>11, <2>1, ActStep DEF ActFails
<1>12. CASE UNCHANGED consoleVars
  <2>1. ActsAreWell'
    BY <1>1, <1>12 DEF consoleVars, ActsAreWell
  <2> QED
    BY <1>1, <1>12, <2>1, ActStep DEF consoleVars
<1> QED
  BY <1>2, <1>3, <1>4, <1>5, <1>6, <1>7, <1>8, <1>9, <1>10, <1>11, <1>12 DEF ConsoleNext

\* The inductive invariant of the pages.
THEOREM ConsoleInvHolds == ConsoleSpec => []ConsoleInv
<1>1. InitConsole => ConsoleInv
  <2> SUFFICES ASSUME InitConsole PROVE ConsoleInv
    OBVIOUS
  <2>1. /\ NoAct \in ActState /\ NoAct.step = "none" /\ NoAct.data = 0
        /\ Blank \in [picked : Pick \cup {NoPick}, data : 0..MaxWrites]
        /\ page \in Page /\ picked \in Pick \cup {NoPick}
    BY ConsoleAssumption DEF NoAct, ActState, Blank, InitConsole
  <2>2. /\ acts \in [Act -> ActState] /\ overtaken \in BOOLEAN
        /\ view \in [picked : Pick \cup {NoPick}, data : 0..MaxWrites]
        /\ data \in 0 .. MaxWrites /\ acked \in 0 .. data /\ settled = 0
    <3>1. acts \in [Act -> ActState]
      BY <2>1 DEF InitConsole
    <3>2. overtaken \in BOOLEAN
      BY DEF InitConsole
    <3>3. view \in [picked : Pick \cup {NoPick}, data : 0..MaxWrites]
      BY <2>1 DEF InitConsole
    <3>4. data \in 0 .. MaxWrites /\ acked \in 0 .. data /\ settled = 0
      BY ConsoleAssumption DEF InitConsole
    <3> QED
      BY <3>1, <3>2, <3>3, <3>4
  <2>3. CASE page.starts
    <3> DEFINE f == NewFetch(picked)
    <3>1. f \in Fetch /\ f.step = "sent" /\ ~page.waits
      BY <2>1, <2>3, ConsoleAssumption, PagesAre DEF NewFetch, Fetch, InitConsole
    <3> HIDE DEF f
    <3>2. /\ fetches = <<f>> /\ fetches \in Seq(Fetch) /\ Len(fetches) = 1
          /\ DOMAIN fetches = 1 .. 1 /\ fetches[1] = f
      BY <2>3, <3>1 DEF InitConsole, f
    <3>3. ConsoleTypeOK
      BY <2>1, <2>2, <3>1, <3>2, ConsoleAssumption DEF ConsoleTypeOK
    <3>4. FormsAreFilled /\ LoadsAreFresh /\ OneLoadAtATime
      BY <3>1, <3>2 DEF InitConsole, FormsAreFilled, LoadsAreFresh, OneLoadAtATime
    <3>5. NewestWasTaken /\ LoadsFollowActs
      BY <2>1, <3>1, <3>2, ConsoleAssumption
      DEF InitConsole, NewestWasTaken, LoadsFollowActs, UpToDate, LastFetch
    <3> QED
      BY <3>3, <3>4, <3>5 DEF ConsoleInv
  <2>4. CASE ~page.starts
    <3>1. fetches = <<>> /\ fetches \in Seq(Fetch) /\ Len(fetches) = 0 /\ DOMAIN fetches = {}
      BY <2>4 DEF InitConsole
    <3>2. ConsoleTypeOK
      BY <2>1, <2>2, <3>1, ConsoleAssumption DEF ConsoleTypeOK
    <3>3. FormsAreFilled /\ LoadsAreFresh /\ OneLoadAtATime
      BY <2>1, <3>1 DEF InitConsole, FormsAreFilled, LoadsAreFresh, OneLoadAtATime
    <3>4. NewestWasTaken /\ LoadsFollowActs
      BY <2>1, <3>1, ConsoleAssumption DEF InitConsole, NewestWasTaken, LoadsFollowActs, UpToDate
    <3> QED
      BY <3>2, <3>3, <3>4 DEF ConsoleInv
  <2> QED
    BY <2>3, <2>4
<1> QED
  BY <1>1, ConsoleKeeps, PTL DEF ConsoleSpec

\* Once the newest load is answered the page shows what is selected as it is, for any
\* selections, calls and changes.  Of pages that abort an earlier load, number their
\* loads or have one at a time this is so whatever earlier answers come in later; of
\* those that take any answer, while none has overtaken a later one (InTurn).
THEOREM NewestIsShownHolds == ConsoleSpec => []NewestIsShown
<1>1. ConsoleInv => NewestIsShown
  <2>1. ConsoleTypeOK /\ Len(fetches) > 0 => Len(fetches) \in DOMAIN fetches
    BY DEF ConsoleTypeOK
  <2> QED
    BY <2>1 DEF ConsoleInv, NewestWasTaken, LoadsAreFresh, NewestIsShown, UpToDate, LastFetch
<1> QED
  BY <1>1, ConsoleInvHolds, PTL

\* A page shows what its own calls did once their reloads are answered.
THEOREM OwnActsAreShownHolds == ConsoleSpec => []OwnActsAreShown
<1>1. ConsoleInv => OwnActsAreShown
  <2> SUFFICES ASSUME ConsoleInv, page.reloads, page.takes # "one", UpToDate, InTurn
               PROVE  view.data >= acked
    BY DEF OwnActsAreShown
  <2>1. view.data = LastFetch.data /\ LastFetch.step = "taken"
    BY DEF ConsoleInv, NewestWasTaken, UpToDate
  <2>2. view.data \in Nat /\ acked \in Nat
    BY ConsoleAssumption DEF ConsoleInv, ConsoleTypeOK
  <2> QED
    BY <2>1, <2>2 DEF ConsoleInv, LoadsFollowActs
<1> QED
  BY <1>1, ConsoleInvHolds, PTL

-----------------------------------------------------------------------------
(* The trail. *)

Audits == "AUDIT_EVENT"
Badges == "PACS_BADGE_EVENT"

Above(rows, i) == {j \in rows : j > i}

\* A call under way.
Reading == [filter : SUBSET Kind, page : Nat, left : SUBSET (Query \X Table),
            count : [Table -> Nat], rows : [Table -> SUBSET Nat]]

TrailTyped == recorded \in Seq(TrailRow) /\ read \in [Reader -> Reading]

\* Every call has a page, and what it found matches what was asked for.
RowsWereAskedFor ==
    \A r \in Reader : /\ Idle(r) \/ read[r].page > 0
                      /\ \A t \in Table : read[r].rows[t] \subseteq Matching(read[r].filter, t)

WalkTyped ==
    walk \in [step : {"idle", "reading", "done"}, owed : SUBSET Nat, seen : SUBSET Nat,
              raced : BOOLEAN]

\* The rows of a table the walker is owed.
OwedOf(t) == walk.owed \cap Matching(read[Walker].filter, t)

\* How many rows of a table come before row i: as found, or as they are to be found.
Before(t, i) ==
    Cardinality(Above(IF <<"rows", t>> \in read[Walker].left THEN Matching(read[Walker].filter, t)
                      ELSE read[Walker].rows[t], i))

\* A row that is owed and was not found is preceded by as many as the pages so far hold.
FoundOrLater ==
    \A t \in Table : <<"rows", t>> \notin read[Walker].left =>
        \A i \in OwedOf(t) : \/ i \in read[Walker].rows[t]
                             \/ Cardinality(Above(read[Walker].rows[t], i))
                                    >= read[Walker].page * PageSize

\* The count of an undisturbed page covers what it found and what is owed.
CountCovers ==
    ~walk.raced => \A t \in Table : <<"count", t>> \notin read[Walker].left =>
        /\ read[Walker].left # {} =>
               read[Walker].count[t] = Cardinality(Matching(read[Walker].filter, t))
        /\ <<"rows", t>> \notin read[Walker].left =>
               Cardinality(read[Walker].rows[t] \cup OwedOf(t)) <= read[Walker].count[t]

\* What has not been seen is not on an earlier page.
NotOnEarlierPage ==
    \A i \in walk.owed \ walk.seen :
        Before(Audits, i) + Before(Badges, i) >= (read[Walker].page - 1) * PageSize

WalkInv ==
    walk.step = "reading" =>
        /\ read[Walker].page > 0 /\ walk.owed \subseteq OwedOf(Audits) \cup OwedOf(Badges)
        /\ FoundOrLater /\ CountCovers /\ NotOnEarlierPage

TrailInv == TrailTyped /\ RowsWereAskedFor /\ WalkTyped /\ WalkInv /\ NothingSkipped

\* The rows that match are rows of the table, finitely many.
LEMMA MatchingFacts ==
  ASSUME TrailTyped, NEW f, NEW t
  PROVE  /\ Matching(f, t) \subseteq DOMAIN recorded /\ Matching(f, t) \subseteq Nat
         /\ IsFiniteSet(Matching(f, t)) /\ Cardinality(Matching(f, t)) \in Nat
<1>1. /\ Matching(f, t) \subseteq 1 .. Len(recorded)
      /\ DOMAIN recorded = 1 .. Len(recorded) /\ Len(recorded) \in Nat
  BY DEF Matching, TrailTyped
<1>2. IsFiniteSet(1 .. Len(recorded))
  BY <1>1, FS_Interval
<1> QED
  BY <1>1, <1>2, FS_Subset, FS_CardinalityType

\* What Above and Newest select.
LEMMA Selected ==
  /\ \A rows, i, j : j \in Above(rows, i) <=> j \in rows /\ j > i
  /\ \A rows, n, i : i \in Newest(rows, n) <=> i \in rows /\ Cardinality(Above(rows, i)) < n
BY DEF Above, Newest

\* More rows, more of them above a row.
LEMMA AboveGrows ==
  ASSUME NEW S, NEW T, IsFiniteSet(T), S \subseteq T, NEW i
  PROVE  /\ IsFiniteSet(Above(S, i)) /\ IsFiniteSet(Above(T, i))
         /\ Cardinality(Above(S, i)) \in Nat /\ Cardinality(Above(T, i)) \in Nat
         /\ Cardinality(Above(S, i)) <= Cardinality(Above(T, i))
         /\ Cardinality(Above(S, i)) <= Cardinality(S)
<1>1. Above(S, i) \subseteq Above(T, i) /\ Above(T, i) \subseteq T /\ Above(S, i) \subseteq S
  BY DEF Above
<1>2. IsFiniteSet(Above(T, i)) /\ IsFiniteSet(S)
  BY <1>1, FS_Subset
<1> QED
  BY <1>1, <1>2, FS_Subset, FS_CardinalityType

\* A page of the newest rows has, above any row, a pageful or all there are.
LEMMA NewestKeeps ==
  ASSUME NEW S \in SUBSET Nat, IsFiniteSet(S), NEW n \in Nat, NEW i \in Nat
  PROVE  \/ Cardinality(Above(Newest(S, n), i)) >= n
         \/ Above(Newest(S, n), i) = Above(S, i)
<1>1. PICK N : N = Newest(S, n)
  OBVIOUS
<1>2. \A T, m, j : j \in Above(T, m) <=> j \in T /\ j > m
  BY DEF Above
<1>3. \A j : j \in N <=> j \in S /\ ~(Cardinality(Above(S, j)) >= n)
  <2>1. \A j : Cardinality(Above(S, j)) \in Nat
    BY AboveGrows
  <2>2. N = {j \in S : Cardinality(Above(S, j)) < n}
    BY <1>1 DEF Newest, Above
  <2> QED
    BY <2>1, <2>2
<1>4. PICK D : D = Above(S, i) \ N
  OBVIOUS
<1>5. CASE D = {}
  <2>1. \A j : j \in Above(N, i) <=> j \in Above(S, i)
    BY <1>2, <1>3, <1>4, <1>5
  <2> QED
    BY <1>1, <2>1
<1>6. CASE D # {}
  <2>1. PICK Tops : Tops = {Above(S, m) : m \in D}
    OBVIOUS
  <2>2. PICK R : R = StrictSubsetOrdering(S)
    OBVIOUS
  <2>3. Tops \subseteq FiniteSubsetsOf(S) /\ Tops # {}
    <3>1. \A m : Above(S, m) \in SUBSET S /\ IsFiniteSet(Above(S, m))
      BY <1>2, AboveGrows
    <3> QED
      BY <1>6, <2>1, <3>1 DEF FiniteSubsetsOf
  <2>4. PICK top \in Tops : \A y \in Tops : <<y, top>> \notin R
    BY <2>2, <2>3, FS_StrictSubsetOrderingWellFounded, WFMin
  <2>5. PICK m \in D : top = Above(S, m)
    BY <2>1, <2>4
  <2>6. m \in Nat /\ m \in S /\ m > i /\ m \notin N
    BY <1>2, <1>4, <2>5
  <2>7. ASSUME NEW l \in D, l > m PROVE FALSE
    <3>1. l \in Nat /\ l \in S
      BY <1>2, <1>4, <2>7
    <3>2. \A j \in S : j > l => j > m
      BY <2>6, <2>7, <3>1
    <3>3. l \in Above(S, m) /\ l \notin Above(S, l)
      BY <1>2, <2>7, <3>1
    <3>4. Above(S, l) \subseteq Above(S, m) /\ Above(S, m) \subseteq S
      BY <1>2, <3>2
    <3>5. Above(S, l) \in Tops
      BY <2>1, <2>7
    <3>6. <<Above(S, l), top>> \in R
      BY <2>2, <2>5, <3>3, <3>4 DEF StrictSubsetOrdering
    <3> QED
      BY <2>4, <3>5, <3>6
  <2>8. Above(S, m) \subseteq Above(N, i)
    <3>1. \A j \in S : j > m => j > i
      BY <2>6
    <3> QED
      BY <1>2, <1>4, <2>7, <3>1
  <2>9. /\ Cardinality(Above(S, m)) >= n /\ Cardinality(Above(S, m)) \in Nat
        /\ IsFiniteSet(Above(N, i)) /\ Cardinality(Above(N, i)) \in Nat
    BY <1>3, <2>6, AboveGrows
  <2>10. Cardinality(Above(S, m)) <= Cardinality(Above(N, i))
    BY <2>8, <2>9, FS_Subset
  <2> QED
    BY <1>1, <2>9, <2>10
<1> QED
  BY <1>5, <1>6

\* A page that is asked for.
LEMMA BegunFacts ==
  ASSUME NEW f \in SUBSET Kind, NEW k \in Nat
  PROVE  /\ Begun(f, k) \in Reading
         /\ Begun(f, k).filter = f /\ Begun(f, k).page = k
         /\ Begun(f, k).left = Query \X (IF IncludePacs(f) THEN Table ELSE {Audits})
         /\ \A t \in Table : Begun(f, k).count[t] = 0 /\ Begun(f, k).rows[t] = {}
<1>1. PICK L : L = Query \X (IF IncludePacs(f) THEN Table ELSE {Audits})
  OBVIOUS
<1>2. Begun(f, k) = [filter |-> f, page |-> k, left |-> L, count |-> [t \in Table |-> 0],
                     rows |-> [t \in Table |-> {}]]
  <2>1. Begun(f, k) = [NotReading EXCEPT !.filter = f, !.page = k, !.left = L]
    BY <1>1, Zenon DEF Begun, Audits
  <2> QED
    BY <2>1 DEF NotReading
<1>3. /\ Begun(f, k).filter = f /\ Begun(f, k).page = k /\ Begun(f, k).left = L
      /\ \A t \in Table : Begun(f, k).count[t] = 0 /\ Begun(f, k).rows[t] = {}
  BY <1>2
<1>4. L \in SUBSET (Query \X Table)
  BY <1>1 DEF Table, Audits
<1>5. Begun(f, k) \in Reading
  BY <1>2, <1>4 DEF Reading
<1> QED
  BY <1>1, <1>3, <1>5

LEMMA NotReadingFacts ==
  /\ NotReading \in Reading /\ NotReading.page = 0 /\ NotReading.left = {}
  /\ NotReading.filter = {} /\ \A t \in Table : NotReading.rows[t] = {}
BY DEF NotReading, Reading

\* Without badge events in the filter no badge event matches.
LEMMA NoBadgesMatch ==
  ASSUME TrailTyped, NEW f \in SUBSET Kind, ~IncludePacs(f)
  PROVE  Matching(f, Badges) = {}
<1>1. \A i \in DOMAIN recorded : recorded[i] \in TrailRow
  BY DEF TrailTyped
<1> QED
  BY <1>1 DEF Matching, IncludePacs, TrailRow, Badges

\* A row is of one table.
LEMMA TablesDiffer ==
  /\ Table = {Audits, Badges} /\ Audits # Badges
  /\ \A f : Matching(f, Audits) \cap Matching(f, Badges) = {}
BY DEF Table, Audits, Badges, Matching

\* A page begins: nothing is found yet, and nothing unseen is on the pages before.
LEMMA PageBegins ==
  ASSUME TrailTyped, TrailTyped', NEW f \in SUBSET Kind, NEW k \in Nat, k > 0,
         UNCHANGED recorded, read'[Walker] = Begun(f, k),
         walk'.owed \subseteq Matching(f, Audits) \cup Matching(f, Badges),
         \A i \in walk'.owed \ walk'.seen :
             Cardinality(Above(Matching(f, Audits), i)) + Cardinality(Above(Matching(f, Badges), i))
                 >= (k - 1) * PageSize
  PROVE  WalkInv'
<1> DEFINE x == Begun(f, k)
<1>1. /\ x.filter = f /\ x.page = k /\ \A t \in Table : x.count[t] = 0 /\ x.rows[t] = {}
      /\ \A q \in Query, t \in Table :
             <<q, t>> \notin x.left => t = Badges /\ ~IncludePacs(f) /\ Matching(f, t) = {}
      /\ x.left # {}
  BY BegunFacts, NoBadgesMatch, TablesDiffer DEF Query
<1> HIDE DEF x
<1>2. read'[Walker] = x
  BY DEF x
<1>3. \A t : Matching(read[Walker].filter, t)' = Matching(f, t)
  BY <1>1, <1>2 DEF Matching
<1>4. \A t \in Table : OwedOf(t)' = walk'.owed \cap Matching(f, t)
  BY <1>3 DEF OwedOf
<1>5. FoundOrLater'
  BY <1>1, <1>2, <1>4 DEF FoundOrLater, Query
<1>6. CountCovers'
  <2>1. ASSUME NEW t \in Table, NEW q \in Query, <<q, t>> \notin x.left
        PROVE  /\ x.count[t] = Cardinality(Matching(f, t))
               /\ Cardinality(x.rows[t] \cup OwedOf(t)') <= x.count[t]
    <3>1. x.count[t] = 0 /\ Matching(f, t) = {} /\ x.rows[t] = {} /\ OwedOf(t)' = {}
      BY <1>1, <1>4, <2>1
    <3> QED
      BY <3>1, FS_EmptySet
  <2> QED
    BY <1>2, <1>3, <2>1 DEF CountCovers, Query
<1>7. ASSUME NEW t \in Table, NEW i
      PROVE  Before(t, i)' = Cardinality(Above(Matching(f, t), i))
  BY <1>1, <1>2, <1>3 DEF Before, Query
<1>8. NotOnEarlierPage'
  BY <1>1, <1>2, <1>7, TablesDiffer DEF NotOnEarlierPage
<1> QED
  BY <1>1, <1>2, <1>4, <1>5, <1>6, <1>8, TablesDiffer DEF WalkInv

\* The last row of a page, and the rows it leaves for the next one.
LEMMA PageEnds ==
  ASSUME TrailTyped, RowsWereAskedFor, WalkTyped, WalkInv,
         walk.step = "reading", read[Walker].left = {},
         NEW i \in walk.owed \ (walk.seen \cup Events(Walker))
  PROVE  LET x == read[Walker] IN
         /\ Cardinality(Above(Matching(x.filter, Audits), i))
                + Cardinality(Above(Matching(x.filter, Badges), i)) >= x.page * PageSize
         /\ ~walk.raced => Total(Walker) > x.page * PageSize
<1> DEFINE x == read[Walker]
           M(t) == Matching(x.filter, t)
           n == x.page * PageSize
<1>1. /\ x \in Reading /\ x.page \in Nat /\ x.page > 0 /\ n \in Nat
      /\ (x.page - 1) * PageSize \in Nat
      /\ \A t \in Table : x.count[t] \in Nat /\ x.rows[t] \subseteq M(t)
  BY TrailAssumption DEF TrailTyped, RowsWereAskedFor, WalkInv, Reading
<1>2. /\ FoundOrLater /\ CountCovers /\ NotOnEarlierPage
      /\ walk.owed \subseteq OwedOf(Audits) \cup OwedOf(Badges)
  BY DEF WalkInv
<1>3. \A t : /\ IsFiniteSet(M(t)) /\ M(t) \subseteq Nat /\ Cardinality(M(t)) \in Nat
             /\ OwedOf(t) \subseteq M(t)
  BY MatchingFacts DEF OwedOf
<1> HIDE DEF M
<1>4. ASSUME NEW t \in Table
      PROVE  /\ IsFiniteSet(x.rows[t]) /\ Cardinality(x.rows[t]) \in Nat
             /\ IsFiniteSet(Above(x.rows[t], i)) /\ Cardinality(Above(x.rows[t], i)) \in Nat
             /\ Cardinality(Above(M(t), i)) \in Nat
             /\ Cardinality(Above(x.rows[t], i)) <= Cardinality(Above(M(t), i))
             /\ IsFiniteSet(x.rows[t] \cup OwedOf(t))
             /\ Cardinality(x.rows[t] \cup OwedOf(t)) \in Nat
             /\ Cardinality(x.rows[t]) <= Cardinality(x.rows[t] \cup OwedOf(t))
             /\ ~walk.raced => Cardinality(x.rows[t] \cup OwedOf(t)) <= x.count[t]
             /\ Before(t, i) = Cardinality(Above(x.rows[t], i))
  <2>1. IsFiniteSet(x.rows[t]) /\ IsFiniteSet(x.rows[t] \cup OwedOf(t))
    <3>1. x.rows[t] \cup OwedOf(t) \subseteq M(t) /\ x.rows[t] \subseteq M(t)
      BY <1>1, <1>3
    <3> QED
      BY <1>3, <3>1, FS_Subset
  <2>2. /\ Cardinality(x.rows[t]) \in Nat /\ Cardinality(x.rows[t] \cup OwedOf(t)) \in Nat
        /\ Cardinality(x.rows[t]) <= Cardinality(x.rows[t] \cup OwedOf(t))
    BY <2>1, FS_Subset, FS_CardinalityType
  <2>3. /\ IsFiniteSet(Above(x.rows[t], i)) /\ Cardinality(Above(x.rows[t], i)) \in Nat
        /\ Cardinality(Above(M(t), i)) \in Nat
        /\ Cardinality(Above(x.rows[t], i)) <= Cardinality(Above(M(t), i))
    BY <1>1, <1>3, AboveGrows
  <2>4. ~walk.raced => Cardinality(x.rows[t] \cup OwedOf(t)) <= x.count[t]
    BY <1>2 DEF CountCovers
  <2>5. Before(t, i) = Cardinality(Above(x.rows[t], i))
    BY DEF Before
  <2> QED
    BY <2>1, <2>2, <2>3, <2>4, <2>5
<1>5. PICK t \in Table : i \in OwedOf(t)
  BY <1>2, TablesDiffer
<1>6. PICK u \in Table : {t, u} = {Audits, Badges} /\ t # u
  BY TablesDiffer
\* The numbers the argument is about: rows before i as found and as they are, rows of
\* the page, counts, and the ends of this page and of the one before.
<1>7. PICK a \in Nat, b \in Nat, ma \in Nat, mb \in Nat :
           /\ a = Cardinality(Above(x.rows[t], i)) /\ b = Cardinality(Above(x.rows[u], i))
           /\ ma = Cardinality(Above(M(t), i)) /\ mb = Cardinality(Above(M(u), i))
           /\ a <= ma /\ b <= mb /\ a + b >= (x.page - 1) * PageSize
  <2>1. Before(t, i) + Before(u, i) >= (x.page - 1) * PageSize
    <3>1. /\ Before(Audits, i) \in Nat /\ Before(Badges, i) \in Nat
          /\ Before(Audits, i) + Before(Badges, i) >= (x.page - 1) * PageSize
      BY <1>2, <1>4, TablesDiffer DEF NotOnEarlierPage
    <3>2. (t = Audits /\ u = Badges) \/ (t = Badges /\ u = Audits)
      BY <1>6
    <3> QED
      BY <3>1, <3>2
  <2> QED
    BY <1>4, <2>1
<1>8. PICK la \in Nat, lb \in Nat, ca \in Nat, cb \in Nat :
           /\ la = Cardinality(x.rows[t]) /\ lb = Cardinality(x.rows[u])
           /\ ca = x.count[t] /\ cb = x.count[u] /\ ca + cb = Total(Walker)
           /\ ~walk.raced => la <= ca /\ lb <= cb
  <2>2. /\ x.count[t] \in Nat /\ x.count[u] \in Nat
        /\ x.count[t] + x.count[u] = Total(Walker)
    <3>1. x.count[Audits] \in Nat /\ x.count[Badges] \in Nat
      BY <1>1, TablesDiffer
    <3>2. (t = Audits /\ u = Badges) \/ (t = Badges /\ u = Audits)
      BY <1>6
    <3>3. Total(Walker) = x.count[Audits] + x.count[Badges]
      BY DEF Total, Audits, Badges
    <3> QED
      BY <3>1, <3>2, <3>3
  <2>3. ASSUME NEW v \in {t, u}
        PROVE  Cardinality(x.rows[v]) \in Nat /\ (~walk.raced => Cardinality(x.rows[v]) <= x.count[v])
    <3>1. x.count[v] \in Nat /\ v \in Table
      BY <1>1, <2>3
    <3>2. PICK all : all = x.rows[v] \cup OwedOf(v)
      OBVIOUS
    <3>3. /\ Cardinality(x.rows[v]) \in Nat /\ Cardinality(all) \in Nat
          /\ Cardinality(x.rows[v]) <= Cardinality(all)
          /\ ~walk.raced => Cardinality(all) <= x.count[v]
      BY <1>4, <3>1, <3>2, Zenon
    <3> QED
      BY <3>1, <3>3
  <2> QED
    BY <2>2, <2>3
<1>9. SUFFICES ma + mb >= n /\ (~walk.raced => ca + cb > n)
  <2>1. ma + mb = Cardinality(Above(M(Audits), i)) + Cardinality(Above(M(Badges), i))
    <3>1. (t = Audits /\ u = Badges) \/ (t = Badges /\ u = Audits)
      BY <1>6
    <3> QED
      BY <1>7, <3>1
  <2> QED
    BY <1>8, <2>1 DEF M
<1> HIDE DEF n
<1>10. CASE i \notin x.rows[t]
  <2>1. a >= n
    BY <1>2, <1>5, <1>7, <1>10 DEF FoundOrLater, n
  <2>2. ~walk.raced => ca > n
    <3>1. /\ IsFiniteSet(Above(x.rows[t], i) \cup {i})
          /\ Cardinality(Above(x.rows[t], i) \cup {i}) = a + 1
      <4>1. i \notin Above(x.rows[t], i)
        BY <1>10, Selected
      <4> QED
        BY <1>4, <1>7, <4>1, FS_AddElement
    <3>2. Above(x.rows[t], i) \cup {i} \subseteq x.rows[t] \cup OwedOf(t)
      BY <1>5, Selected
    <3>3. /\ a + 1 <= Cardinality(x.rows[t] \cup OwedOf(t))
          /\ Cardinality(x.rows[t] \cup OwedOf(t)) \in Nat
      <4>1. PICK all : all = x.rows[t] \cup OwedOf(t)
        OBVIOUS
      <4>2. IsFiniteSet(all) /\ Cardinality(all) \in Nat
        BY <1>4, <4>1, Zenon
      <4>3. Cardinality(Above(x.rows[t], i) \cup {i}) <= Cardinality(all)
        BY <3>2, <4>1, <4>2, FS_Subset
      <4> QED
        BY <3>1, <4>1, <4>2, <4>3
    <3>4. ~walk.raced => Cardinality(x.rows[t] \cup OwedOf(t)) <= ca
      BY <1>4, <1>8
    <3> QED
      BY <1>1, <2>1, <3>3, <3>4
  <2> QED
    BY <1>1, <1>7, <2>1, <2>2
<1>11. CASE i \in x.rows[t]
  <2>1. PICK U : U = Unified(Walker)
    OBVIOUS
  <2>2. U = x.rows[t] \cup x.rows[u] /\ i \in U
    BY <1>6, <1>11, <2>1, TablesDiffer DEF Unified
  <2>3. Cardinality(Above(U, i)) = a + b
    <3>1. x.rows[t] \cap x.rows[u] = {}
      BY <1>1, <1>6, TablesDiffer DEF M
    <3>2. /\ Above(U, i) = Above(x.rows[t], i) \cup Above(x.rows[u], i)
          /\ Above(x.rows[t], i) \cap Above(x.rows[u], i) = {}
      BY <2>2, <3>1, Selected
    <3>3. Cardinality(Above(x.rows[t], i) \cap Above(x.rows[u], i)) = 0
      BY <3>2, FS_EmptySet
    <3>4. Cardinality(Above(U, i)) = a + b - 0
      BY <1>4, <1>7, <3>2, <3>3, FS_Union
    <3> QED
      BY <3>4
  <2>4. i \notin Newest(U, (x.page - 1) * PageSize)
    BY <1>1, <1>7, <2>3, Selected
  <2>5. i \notin Newest(U, n)
    BY <2>1, <2>4 DEF Events, n
  <2>6. a + b >= n
    BY <1>1, <2>2, <2>3, <2>5, Selected
  <2>7. a < la
    <3>1. Above(x.rows[t], i) \subseteq x.rows[t] /\ i \notin Above(x.rows[t], i)
      <4>1. i \in Nat
        BY <1>1, <1>3, <1>11
      <4> QED
        BY <4>1, Selected
    <3>2. a <= la /\ a # la
      BY <1>4, <1>7, <1>8, <1>11, <3>1, FS_Subset
    <3> QED
      BY <3>2
  <2>8. b <= lb
    BY <1>4, <1>7, <1>8, AboveGrows
  <2> QED
    BY <1>1, <1>7, <1>8, <2>6, <2>7, <2>8
<1> QED
  BY <1>10, <1>11

\* Nothing the walk depends on has moved.
LEMMA WalkUnmoved ==
  ASSUME WalkTyped, WalkInv, NothingSkipped, UNCHANGED <<recorded, walk>>,
         read'[Walker] = read[Walker]
  PROVE  WalkTyped' /\ WalkInv' /\ NothingSkipped'
<1>1. \A t : Matching(read[Walker].filter, t)' = Matching(read[Walker].filter, t)
  BY DEF Matching
<1>2. \A t : OwedOf(t)' = OwedOf(t)
  BY <1>1 DEF OwedOf
<1>3. \A t, i : Before(t, i)' = Before(t, i)
  BY <1>1 DEF Before
<1>4. WalkInv'
  BY <1>1, <1>2, <1>3 DEF WalkInv, FoundOrLater, CountCovers, NotOnEarlierPage
<1> QED
  BY <1>4 DEF WalkTyped, NothingSkipped

\* A query that answers changes one call.
LEMMA QueryTypes ==
  ASSUME TrailInv, NEW r \in Reader, NEW y \in Reading, read' = [read EXCEPT ![r] = y],
         UNCHANGED <<recorded, walk>>,
         y = NotReading \/ y.page > 0,
         \A t \in Table : y.rows[t] \subseteq Matching(y.filter, t)
  PROVE  TrailTyped' /\ RowsWereAskedFor' /\ (r # Walker => TrailInv')
<1>1. TrailTyped' /\ read'[r] = y /\ \A s \in Reader \ {r} : read'[s] = read[s]
  BY DEF TrailInv, TrailTyped
<1>2. \A f, t : Matching(f, t)' = Matching(f, t)
  BY DEF Matching
<1>3. ASSUME NEW s \in Reader
      PROVE  /\ Idle(s)' \/ read'[s].page > 0
             /\ \A t \in Table : read'[s].rows[t] \subseteq Matching(read[s].filter, t)'
  <2>1. \A t : Matching(read[s].filter, t)' = Matching(read'[s].filter, t)
    BY DEF Matching
  <2>2. CASE s = r
    BY <1>1, <2>1, <2>2 DEF Idle
  <2>3. CASE s # r
    BY <1>1, <2>1, <2>3 DEF Idle, TrailInv, RowsWereAskedFor
  <2> QED
    BY <2>2, <2>3
<1>4. RowsWereAskedFor'
  BY <1>3 DEF RowsWereAskedFor
<1>5. r # Walker => WalkTyped' /\ WalkInv' /\ NothingSkipped'
  BY <1>1, TrailAssumption, WalkUnmoved DEF TrailInv
<1> QED
  BY <1>1, <1>4, <1>5 DEF TrailInv

\* A table is counted.
LEMMA CountRowsStep ==
  ASSUME TrailInv, NEW r \in Reader, NEW t \in Table, CountRows(r, t)
  PROVE  TrailInv'
<1> DEFINE x == read[r]
<1>1. PICK c \in Nat : c = Cardinality(Matching(x.filter, t))
  BY MatchingFacts DEF TrailInv
<1>2. /\ x \in Reading /\ <<"count", t>> \in x.left /\ UNCHANGED <<recorded, walk>>
      /\ read' = [read EXCEPT ![r] = [x EXCEPT !.left = x.left \ {<<"count", t>>},
                                               !.count = [x.count EXCEPT ![t] = c]]]
  BY <1>1 DEF CountRows, Turn, TrailInv, TrailTyped
<1>3. PICK y \in Reading :
           /\ read' = [read EXCEPT ![r] = y]
           /\ y.filter = x.filter /\ y.page = x.page /\ y.rows = x.rows
           /\ y.left = x.left \ {<<"count", t>>} /\ y.count = [x.count EXCEPT ![t] = c]
  <2>1. PICK l \in SUBSET (Query \X Table) : l = x.left \ {<<"count", t>>}
    BY <1>2 DEF Reading
  <2>2. PICK cs \in [Table -> Nat] : cs = [x.count EXCEPT ![t] = c]
    BY <1>1, <1>2 DEF Reading
  <2> DEFINE y == [x EXCEPT !.left = l, !.count = cs]
  <2>3. /\ y \in Reading /\ y.filter = x.filter /\ y.page = x.page /\ y.rows = x.rows
        /\ y.left = l /\ y.count = cs
    BY <1>2, <2>1, <2>2 DEF Reading
  <2>4. read' = [read EXCEPT ![r] = y]
    BY <1>2, <2>1, <2>2
  <2> QED
    BY <2>1, <2>2, <2>3, <2>4
<1>4. /\ x.page > 0 /\ \A u \in Table : x.rows[u] \subseteq Matching(x.filter, u)
      /\ x.left # {}
  BY <1>2, NotReadingFacts DEF TrailInv, RowsWereAskedFor, Idle
<1>5. TrailTyped' /\ RowsWereAskedFor' /\ (r # Walker => TrailInv')
  BY <1>2, <1>3, <1>4, QueryTypes
<1>6. ASSUME r = Walker PROVE WalkTyped' /\ WalkInv' /\ NothingSkipped'
  <2>1. read'[Walker] = y /\ x = read[Walker]
    BY <1>3, <1>6, TrailAssumption DEF TrailInv, TrailTyped
  <2>2. \A u : Matching(read[Walker].filter, u)' = Matching(x.filter, u)
    BY <1>2, <1>3, <2>1 DEF Matching
  <2>3. \A u : OwedOf(u)' = OwedOf(u)
    BY <1>2, <2>1, <2>2 DEF OwedOf
  <2>4. \A u : <<"rows", u>> \in y.left <=> <<"rows", u>> \in x.left
    BY <1>3
  <2>5. \A u, i : Before(u, i)' = Before(u, i)
    BY <1>3, <2>1, <2>2, <2>4 DEF Before
  <2>6. ASSUME walk.step = "reading" PROVE WalkInv'
    <3>1. FoundOrLater' /\ NotOnEarlierPage'
      BY <1>2, <1>3, <2>1, <2>3, <2>4, <2>5, <2>6
      DEF TrailInv, WalkInv, FoundOrLater, NotOnEarlierPage
    <3>2. ASSUME ~walk.raced, NEW u \in Table, <<"count", u>> \notin y.left
          PROVE  /\ y.count[u] = Cardinality(Matching(x.filter, u))
                 /\ <<"rows", u>> \notin y.left =>
                        Cardinality(y.rows[u] \cup OwedOf(u)) <= y.count[u]
      <4>1. CASE u = t
        <5>1. y.count[u] = c
          BY <1>2, <1>3, <4>1 DEF Reading
        <5>2. y.rows[u] \cup OwedOf(u) \subseteq Matching(x.filter, u)
          BY <1>3, <1>4, <2>1 DEF OwedOf
        <5>3. IsFiniteSet(Matching(x.filter, u))
          BY MatchingFacts DEF TrailInv
        <5>4. Cardinality(y.rows[u] \cup OwedOf(u)) <= Cardinality(Matching(x.filter, u))
          BY <5>2, <5>3, FS_Subset
        <5> QED
          BY <1>1, <4>1, <5>1, <5>4
      <4>2. CASE u # t
        <5>1. y.count[u] = x.count[u] /\ <<"count", u>> \notin x.left
          BY <1>2, <1>3, <3>2, <4>2 DEF Reading
        <5> QED
          BY <1>3, <1>4, <2>1, <2>4, <2>6, <3>2, <5>1 DEF TrailInv, WalkInv, CountCovers
      <4> QED
        BY <4>1, <4>2
    <3>3. CountCovers'
      BY <1>2, <2>1, <2>2, <2>3, <3>2 DEF CountCovers
    <3> QED
      BY <1>2, <1>3, <1>4, <2>1, <2>3, <3>1, <3>3 DEF WalkInv, TrailInv
  <2> QED
    BY <1>2, <2>6 DEF TrailInv, WalkTyped, WalkInv, NothingSkipped
<1> QED
  BY <1>5, <1>6 DEF TrailInv

\* A table is searched, up to the end of the page.
LEMMA FindRowsStep ==
  ASSUME TrailInv, NEW r \in Reader, NEW t \in Table, FindRows(r, t)
  PROVE  TrailInv'
<1> DEFINE x == read[r]
           M(u) == Matching(x.filter, u)
           n == x.page * PageSize
<1>1. PICK N : N = Newest(M(t), n)
  OBVIOUS
<1>2. /\ x \in Reading /\ x.page \in Nat /\ n \in Nat /\ (x.page - 1) * PageSize <= n
      /\ M(t) \in SUBSET Nat /\ IsFiniteSet(M(t)) /\ N \subseteq M(t)
  <2>1. x \in Reading /\ x.page \in Nat
    BY DEF TrailInv, TrailTyped, Reading
  <2>2. PageSize \in Nat /\ (x.page - 1) * PageSize = x.page * PageSize - PageSize
    BY <2>1, TrailAssumption
  <2>3. n \in Nat
    BY <2>1, <2>2
  <2> QED
    BY <1>1, <2>1, <2>2, <2>3, MatchingFacts, Selected DEF TrailInv
<1>3. /\ <<"rows", t>> \in x.left /\ UNCHANGED <<recorded, walk>>
      /\ read' = [read EXCEPT ![r] = [x EXCEPT !.left = x.left \ {<<"rows", t>>},
                                               !.rows = [x.rows EXCEPT ![t] = N]]]
  BY <1>1 DEF FindRows, Turn, Taken, TrailInv, TrailTyped
<1>4. PICK y \in Reading :
           /\ read' = [read EXCEPT ![r] = y]
           /\ y.filter = x.filter /\ y.page = x.page /\ y.count = x.count
           /\ y.left = x.left \ {<<"rows", t>>}
           /\ \A u \in Table : y.rows[u] = IF u = t THEN N ELSE x.rows[u]
  <2>1. PICK l \in SUBSET (Query \X Table) : l = x.left \ {<<"rows", t>>}
    BY <1>2 DEF Reading
  <2>2. PICK rs \in [Table -> SUBSET Nat] : rs = [x.rows EXCEPT ![t] = N]
    BY <1>2 DEF Reading
  <2>3. \A u \in Table : rs[u] = IF u = t THEN N ELSE x.rows[u]
    BY <1>2, <2>2 DEF Reading
  <2> DEFINE y == [x EXCEPT !.left = l, !.rows = rs]
  <2>4. /\ y \in Reading /\ y.filter = x.filter /\ y.page = x.page /\ y.count = x.count
        /\ y.left = l /\ y.rows = rs
    BY <1>2, <2>1, <2>2 DEF Reading
  <2>5. read' = [read EXCEPT ![r] = y]
    BY <1>3, <2>1, <2>2
  <2> QED
    BY <2>1, <2>3, <2>4, <2>5
<1>5. /\ x.page > 0 /\ \A u \in Table : y.rows[u] \subseteq Matching(x.filter, u)
      /\ x.left # {}
  BY <1>2, <1>3, <1>4, NotReadingFacts DEF TrailInv, RowsWereAskedFor, Idle
<1>6. TrailTyped' /\ RowsWereAskedFor' /\ (r # Walker => TrailInv')
  BY <1>3, <1>4, <1>5, QueryTypes
<1>7. ASSUME r = Walker PROVE WalkTyped' /\ WalkInv' /\ NothingSkipped'
  <2>1. read'[Walker] = y /\ x = read[Walker]
    BY <1>4, <1>7, TrailAssumption DEF TrailInv, TrailTyped
  <2>2. \A u : Matching(read[Walker].filter, u)' = M(u)
    BY <1>3, <1>4, <2>1 DEF Matching
  <2>3. \A u : OwedOf(u)' = OwedOf(u) /\ OwedOf(u) \subseteq M(u)
    BY <1>3, <2>1, <2>2 DEF OwedOf
  <2>4. \A q, u : <<q, u>> \in y.left <=> <<q, u>> \in x.left /\ ~(q = "rows" /\ u = t)
    BY <1>4
  <2> HIDE DEF M, n
  <2>5. ASSUME walk.step = "reading" PROVE WalkInv'
    <3>1. /\ FoundOrLater /\ CountCovers /\ NotOnEarlierPage
          /\ walk.owed \subseteq Nat
      BY <2>5 DEF TrailInv, WalkInv, WalkTyped
    <3>2. ASSUME NEW i \in OwedOf(t), i \notin N PROVE Cardinality(Above(N, i)) >= n
      <4>1. i \in M(t) /\ i \in Nat
        BY <1>2, <2>3, <3>2
      <4>2. Cardinality(Above(M(t), i)) \in Nat
        BY <1>2, AboveGrows
      <4>3. Cardinality(Above(M(t), i)) >= n
        BY <1>1, <1>2, <3>2, <4>1, <4>2, Selected
      <4> QED
        BY <1>1, <1>2, <4>1, <4>3, NewestKeeps
    <3>3. FoundOrLater'
      BY <1>4, <2>1, <2>3, <2>4, <3>1, <3>2 DEF FoundOrLater, n
    <3>4. ASSUME ~walk.raced, NEW u \in Table, <<"count", u>> \notin y.left
          PROVE  /\ y.count[u] = Cardinality(M(u))
                 /\ <<"rows", u>> \notin y.left =>
                        Cardinality(y.rows[u] \cup OwedOf(u)) <= y.count[u]
      <4>1. <<"count", u>> \notin x.left /\ y.count[u] = x.count[u]
        BY <1>4, <2>4, <3>4
      <4>2. x.count[u] = Cardinality(M(u))
        BY <1>5, <2>1, <3>1, <3>4, <4>1 DEF CountCovers, M
      <4>3. y.rows[u] \cup OwedOf(u) \subseteq M(u)
        BY <1>5, <2>3 DEF M
      <4>4. IsFiniteSet(M(u))
        BY MatchingFacts DEF TrailInv, M
      <4>5. Cardinality(y.rows[u] \cup OwedOf(u)) <= Cardinality(M(u))
        BY <4>3, <4>4, FS_Subset
      <4> QED
        BY <4>1, <4>2, <4>5
    <3>5. CountCovers'
      BY <1>3, <2>1, <2>2, <2>3, <3>4 DEF CountCovers
    <3>6. ASSUME NEW u \in Table, NEW i \in walk.owed
          PROVE  /\ Before(u, i) \in Nat /\ Before(u, i)' \in Nat
                 /\ Before(u, i)' >= n \/ Before(u, i)' = Before(u, i)
      <4>1. i \in Nat /\ IsFiniteSet(M(u)) /\ x.rows[u] \subseteq M(u)
        BY <2>1, <3>1, <3>6, MatchingFacts DEF TrailInv, RowsWereAskedFor, M
      <4>2. /\ Cardinality(Above(M(u), i)) \in Nat /\ Cardinality(Above(x.rows[u], i)) \in Nat
            /\ u = t => Cardinality(Above(N, i)) \in Nat
        BY <1>2, <4>1, AboveGrows
      <4>3. Before(u, i) \in Nat
        BY <2>1, <4>2 DEF Before, M
      <4>4. CASE u = t
        <5>1. Before(u, i) = Cardinality(Above(M(t), i)) /\ Before(u, i)' = Cardinality(Above(N, i))
          BY <1>3, <1>4, <2>1, <2>4, <4>4 DEF Before, M
        <5>2. Cardinality(Above(N, i)) >= n \/ Above(N, i) = Above(M(t), i)
          BY <1>1, <1>2, <4>1, NewestKeeps
        <5> QED
          BY <4>2, <4>3, <4>4, <5>1, <5>2
      <4>5. CASE u # t
        <5>1. Before(u, i)' = Before(u, i)
          BY <1>4, <2>1, <2>2, <2>4, <4>5 DEF Before, M
        <5> QED
          BY <4>3, <5>1
      <4> QED
        BY <4>4, <4>5
    <3>7. NotOnEarlierPage'
      <4>1. PICK p \in Int : p = (x.page - 1) * PageSize /\ p <= n
        BY <1>2, TrailAssumption
      <4>2. ASSUME NEW i \in walk.owed \ walk.seen
            PROVE  Before(Audits, i)' + Before(Badges, i)' >= p
        <5>1. Before(Audits, i) + Before(Badges, i) >= p
          BY <2>1, <3>1, <4>1 DEF NotOnEarlierPage
        <5>2. /\ Before(Audits, i) \in Nat /\ Before(Audits, i)' \in Nat
              /\ Before(Audits, i)' >= n \/ Before(Audits, i)' = Before(Audits, i)
              /\ Before(Badges, i) \in Nat /\ Before(Badges, i)' \in Nat
              /\ Before(Badges, i)' >= n \/ Before(Badges, i)' = Before(Badges, i)
          BY <3>6, TablesDiffer
        <5> QED
          BY <1>2, <4>1, <5>1, <5>2
      <4> QED
        BY <1>3, <1>4, <2>1, <4>1, <4>2 DEF NotOnEarlierPage
    <3> QED
      BY <1>3, <1>4, <1>5, <2>1, <2>3, <2>5, <3>3, <3>5, <3>7 DEF WalkInv, TrailInv
  <2> QED
    BY <1>3, <2>5 DEF TrailInv, WalkTyped, WalkInv, NothingSkipped
<1> QED
  BY <1>6, <1>7 DEF TrailInv

\* A row is recorded: what is owed stays owed, with more before it.
LEMMA RecordStep ==
  ASSUME TrailInv, NEW row \in TrailRow, Record(row)
  PROVE  TrailInv'
<1> DEFINE x == read[Walker]
           race == walk.step = "reading" /\ x.left # {}
<1>1. /\ x \in Reading /\ recorded' = Append(recorded, row) /\ UNCHANGED read
      /\ Walker \in Reader /\ recorded \in Seq(TrailRow)
  BY TrailAssumption DEF TrailInv, TrailTyped, Record
<1>2. /\ recorded' \in Seq(TrailRow) /\ DOMAIN recorded \subseteq DOMAIN recorded'
      /\ \A i \in DOMAIN recorded : recorded'[i] = recorded[i]
  BY <1>1
<1>3. \A f, t : Matching(f, t) \subseteq Matching(f, t)'
  BY <1>2 DEF Matching
<1>4. \A f, t : \A i \in DOMAIN recorded : i \in Matching(f, t)' => i \in Matching(f, t)
  BY <1>2 DEF Matching
<1>5. /\ walk'.step = walk.step /\ walk'.owed = walk.owed /\ walk'.seen = walk.seen
      /\ walk'.raced = (walk.raced \/ race) /\ walk' \in [step : {"idle", "reading", "done"},
             owed : SUBSET Nat, seen : SUBSET Nat, raced : BOOLEAN]
  <2>1. PICK e \in BOOLEAN : e = (walk.raced \/ race)
    OBVIOUS
  <2>2. walk' = [walk EXCEPT !.raced = e]
    BY <2>1 DEF Record
  <2> HIDE DEF race
  <2>3. /\ walk'.step = walk.step /\ walk'.owed = walk.owed /\ walk'.seen = walk.seen
        /\ walk'.raced = e /\ walk' \in [step : {"idle", "reading", "done"},
               owed : SUBSET Nat, seen : SUBSET Nat, raced : BOOLEAN]
    BY <2>2 DEF TrailInv, WalkTyped
  <2> QED
    BY <2>1, <2>3, Zenon
<1>6. TrailTyped' /\ WalkTyped'
  BY <1>1, <1>2, <1>5 DEF TrailInv, TrailTyped, WalkTyped
<1>7. RowsWereAskedFor'
  <2>1. \A r, t : Matching(read[r].filter, t) \subseteq Matching(read[r].filter, t)'
    <3> TAKE r, t
    <3>1. PICK f : f = read[r].filter
      OBVIOUS
    <3>2. Matching(read[r].filter, t)' = Matching(f, t)'
      BY <1>1, <3>1 DEF Matching
    <3> QED
      BY <1>3, <3>1, <3>2
  <2> QED
    BY <1>1, <2>1 DEF TrailInv, RowsWereAskedFor, Idle
<1>8. ~walk'.raced => ~walk.raced /\ (walk.step = "reading" => x.left = {})
  BY <1>5, Zenon
<1>9. NothingSkipped'
  BY <1>5, <1>8 DEF TrailInv, NothingSkipped
<1>10. ASSUME walk.step = "reading" PROVE WalkInv'
  <2>1. /\ FoundOrLater /\ CountCovers /\ NotOnEarlierPage /\ x.page > 0 /\ x.page \in Nat
        /\ walk.owed \subseteq OwedOf(Audits) \cup OwedOf(Badges) /\ walk.owed \subseteq Nat
    BY <1>1, <1>10 DEF TrailInv, WalkInv, WalkTyped, Reading
  <2>2. PICK f : f = x.filter
    OBVIOUS
  <2>3. \A t : Matching(read[Walker].filter, t)' = Matching(f, t)'
    BY <1>1, <2>2 DEF Matching
  <2>4. walk.owed \subseteq DOMAIN recorded
    BY <2>1, MatchingFacts DEF TrailInv, OwedOf
  <2>5. \A t : OwedOf(t)' = OwedOf(t)
    <3>1. \A t : OwedOf(t)' = walk.owed \cap Matching(f, t)' /\ OwedOf(t) = walk.owed \cap Matching(f, t)
      BY <1>5, <2>2, <2>3 DEF OwedOf
    <3> QED
      BY <1>3, <1>4, <2>4, <3>1
  <2>6. FoundOrLater'
    BY <1>1, <2>1, <2>5 DEF FoundOrLater
  <2>7. CountCovers'
    BY <1>1, <1>8, <1>10, <2>1, <2>5 DEF CountCovers
  <2>8. ASSUME NEW t \in Table, NEW i \in walk.owed
        PROVE  Before(t, i) \in Nat /\ Before(t, i)' \in Nat /\ Before(t, i) <= Before(t, i)'
    <3>1. PICK T : T = Matching(f, t)'
      OBVIOUS
    <3>2. IsFiniteSet(T)
      <4>1. PICK n \in Nat : DOMAIN recorded' = 1 .. n
        BY <1>2
      <4>2. IsFiniteSet(1 .. n)
        BY FS_Interval
      <4>3. T \subseteq DOMAIN recorded'
        BY <3>1 DEF Matching
      <4> QED
        BY <4>1, <4>2, <4>3, FS_Subset
    <3>3. CASE <<"rows", t>> \in x.left
      <4>1. /\ Before(t, i) = Cardinality(Above(Matching(f, t), i))
            /\ Before(t, i)' = Cardinality(Above(T, i)) /\ Matching(f, t) \subseteq T
        BY <1>1, <1>3, <2>2, <2>3, <3>1, <3>3 DEF Before
      <4> QED
        BY <3>2, <4>1, AboveGrows
    <3>4. CASE <<"rows", t>> \notin x.left
      <4>1. Before(t, i)' = Before(t, i) /\ Before(t, i) = Cardinality(Above(x.rows[t], i))
        BY <1>1, <3>4 DEF Before
      <4>2. x.rows[t] \subseteq T
        BY <1>1, <1>3, <2>2, <3>1 DEF TrailInv, RowsWereAskedFor
      <4>3. Cardinality(Above(x.rows[t], i)) \in Nat
        BY <3>2, <4>2, AboveGrows
      <4> QED
        BY <4>1, <4>3
    <3> QED
      BY <3>3, <3>4
  <2>9. NotOnEarlierPage'
    <3>1. PICK p \in Int : p = (x.page - 1) * PageSize
      BY <2>1, TrailAssumption
    <3>2. ASSUME NEW i \in walk.owed \ walk.seen
          PROVE  Before(Audits, i)' + Before(Badges, i)' >= p
      <4>1. Before(Audits, i) + Before(Badges, i) >= p
        BY <2>1, <3>1 DEF NotOnEarlierPage
      <4>2. /\ Before(Audits, i) \in Nat /\ Before(Audits, i)' \in Nat
            /\ Before(Audits, i) <= Before(Audits, i)'
            /\ Before(Badges, i) \in Nat /\ Before(Badges, i)' \in Nat
            /\ Before(Badges, i) <= Before(Badges, i)'
        BY <2>8, TablesDiffer
      <4> QED
        BY <3>1, <4>1, <4>2
    <3> QED
      BY <1>1, <1>5, <3>1, <3>2 DEF NotOnEarlierPage
  <2> QED
    BY <1>1, <1>5, <2>1, <2>5, <2>6, <2>7, <2>9 DEF WalkInv
<1>11. WalkInv'
  BY <1>5, <1>10 DEF WalkInv
<1> QED
  BY <1>6, <1>7, <1>9, <1>11 DEF TrailInv

\* The walker's call becomes another one, or none, before anything is found for it.
LEMMA WalkerTypes ==
  ASSUME TrailInv, NEW y \in Reading, read' = [read EXCEPT ![Walker] = y], UNCHANGED recorded,
         y = NotReading \/ y.page > 0, \A t \in Table : y.rows[t] = {}
  PROVE  TrailTyped' /\ RowsWereAskedFor' /\ read'[Walker] = y
<1>1. /\ Walker \in Reader /\ read'[Walker] = y /\ TrailTyped'
      /\ \A s \in Reader \ {Walker} : read'[s] = read[s]
  BY TrailAssumption DEF TrailInv, TrailTyped
<1>2. ASSUME NEW s \in Reader
      PROVE  /\ Idle(s)' \/ read'[s].page > 0
             /\ \A t \in Table : read'[s].rows[t] \subseteq Matching(read[s].filter, t)'
  <2>1. CASE s = Walker
    BY <1>1, <2>1 DEF Idle
  <2>2. CASE s # Walker
    <3>1. \A t : Matching(read[s].filter, t)' = Matching(read[s].filter, t)
      BY <1>1, <2>2 DEF Matching
    <3> QED
      BY <1>1, <2>2, <3>1 DEF Idle, TrailInv, RowsWereAskedFor
  <2> QED
    BY <2>1, <2>2
<1> QED
  BY <1>1, <1>2 DEF RowsWereAskedFor

\* The walk starts, turns a page, ends, or fails.
LEMMA WalkStep ==
  ASSUME TrailInv, TurnPage \/ LeaveWalk \/ WalkFails \/ \E filter \in Filter : StartWalk(filter)
  PROVE  TrailInv'
<1> DEFINE x == read[Walker]
           M(t) == Matching(x.filter, t)
<1>1. /\ x \in Reading /\ x.page \in Nat /\ x.filter \in SUBSET Kind /\ Walker \in Reader
      /\ PageSize \in Nat /\ walk.owed \subseteq Nat /\ walk.seen \subseteq Nat
      /\ walk.raced \in BOOLEAN
  BY TrailAssumption DEF TrailInv, TrailTyped, WalkTyped, Reading
<1>2. ASSUME NEW filter \in Filter, StartWalk(filter) PROVE TrailInv'
  <2>1. filter \in SUBSET Kind
    BY TrailAssumption
  <2>2. /\ TrailTyped' /\ RowsWereAskedFor' /\ read'[Walker] = Begun(filter, 1)
        /\ UNCHANGED recorded
    <3> DEFINE y == Begun(filter, 1)
    <3>1. y \in Reading /\ y.page > 0 /\ \A t \in Table : y.rows[t] = {}
      BY <2>1, BegunFacts
    <3> QED
      BY <1>2, <3>1, WalkerTypes DEF StartWalk
  <2>3. /\ walk'.step = "reading" /\ walk'.seen = {} /\ walk'.raced = FALSE
        /\ walk'.owed = Matching(filter, Audits) \cup Matching(filter, Badges)
        /\ WalkTyped'
    <3>1. PICK o \in SUBSET Nat : o = Matching(filter, Audits) \cup Matching(filter, Badges)
      BY MatchingFacts DEF TrailInv
    <3>2. walk' = [step |-> "reading", owed |-> o, seen |-> {}, raced |-> FALSE]
      BY <1>2, <3>1, TablesDiffer DEF StartWalk
    <3> QED
      BY <3>1, <3>2 DEF WalkTyped
  <2>4. ASSUME NEW i
        PROVE  Cardinality(Above(Matching(filter, Audits), i))
                   + Cardinality(Above(Matching(filter, Badges), i)) >= (1 - 1) * PageSize
    <3>1. /\ Cardinality(Above(Matching(filter, Audits), i)) \in Nat
          /\ Cardinality(Above(Matching(filter, Badges), i)) \in Nat
      BY MatchingFacts, AboveGrows DEF TrailInv
    <3> QED
      BY <1>1, <3>1
  <2>5. WalkInv'
    BY <2>1, <2>2, <2>3, <2>4, PageBegins DEF TrailInv
  <2> QED
    BY <2>2, <2>3, <2>5 DEF TrailInv, NothingSkipped
<1>3. ASSUME TurnPage PROVE TrailInv'
  <2>1. /\ walk.step = "reading" /\ x.left = {} /\ x.page > 0 /\ UNCHANGED recorded
        /\ walk.owed \subseteq M(Audits) \cup M(Badges)
    BY <1>3 DEF TurnPage, Answered, TrailInv, WalkInv, OwedOf
  <2>2. PICK E \in SUBSET Nat : E = walk.seen \cup Events(Walker)
    <3>1. Events(Walker) \subseteq x.rows[Audits] \cup x.rows[Badges]
      BY Selected, TablesDiffer DEF Events, Unified
    <3>2. x.rows[Audits] \subseteq Nat /\ x.rows[Badges] \subseteq Nat
      BY <1>1, TablesDiffer DEF Reading
    <3> QED
      BY <1>1, <3>1, <3>2
  <2>3. ASSUME NEW i \in walk.owed \ E
        PROVE  /\ Cardinality(Above(M(Audits), i)) + Cardinality(Above(M(Badges), i))
                      >= x.page * PageSize
               /\ ~walk.raced => Total(Walker) > x.page * PageSize
    BY <2>1, <2>2, <2>3, PageEnds DEF TrailInv
  <2>4. CASE /\ read' = [read EXCEPT ![Walker] = Begun(x.filter, x.page + 1)]
             /\ walk' = [walk EXCEPT !.seen = E, !.raced = FALSE]
    <3>1. /\ walk'.step = "reading" /\ walk'.seen = E /\ walk'.owed = walk.owed
          /\ WalkTyped'
      BY <2>1, <2>4 DEF TrailInv, WalkTyped
    <3>2. PICK f \in SUBSET Kind : f = x.filter
      BY <1>1
    <3>3. PICK k \in Nat : k = x.page + 1 /\ k > 0
      BY <1>1
    <3>4. /\ TrailTyped' /\ RowsWereAskedFor' /\ read'[Walker] = Begun(f, k)
      <4> DEFINE y == Begun(f, k)
      <4>1. y \in Reading /\ y.page > 0 /\ \A t \in Table : y.rows[t] = {}
        BY <3>3, BegunFacts
      <4> QED
        BY <2>1, <2>4, <3>2, <3>3, <4>1, WalkerTypes
    <3>5. k > 0 /\ (k - 1) * PageSize = x.page * PageSize
      BY <1>1, <3>3
    <3>6. WalkInv'
      BY <2>1, <2>3, <3>1, <3>2, <3>3, <3>4, <3>5, PageBegins DEF TrailInv
    <3> QED
      BY <3>1, <3>4, <3>6 DEF TrailInv, NothingSkipped
  <2>5. CASE /\ x.page * PageSize >= Total(Walker)
             /\ read' = [read EXCEPT ![Walker] = NotReading]
             /\ walk' = [walk EXCEPT !.seen = E, !.step = "done"]
    <3>1. /\ walk'.step = "done" /\ walk'.seen = E /\ walk'.owed = walk.owed
          /\ walk'.raced = walk.raced /\ WalkTyped'
      BY <2>1, <2>5 DEF TrailInv, WalkTyped
    <3>2. TrailTyped' /\ RowsWereAskedFor'
      BY <2>1, <2>5, NotReadingFacts, WalkerTypes
    <3>3. x.page * PageSize \in Int /\ Total(Walker) \in Int
      BY <1>1, TablesDiffer DEF Total, Reading, Audits, Badges
    <3>4. NothingSkipped'
      BY <2>3, <2>5, <3>1, <3>3 DEF NothingSkipped
    <3> QED
      BY <3>1, <3>2, <3>4 DEF TrailInv, WalkInv
  <2> QED
    BY <1>3, <2>2, <2>4, <2>5 DEF TurnPage
<1>4. NotWalking \in [step : {"idle", "reading", "done"}, owed : SUBSET Nat, seen : SUBSET Nat,
                      raced : BOOLEAN] /\ NotWalking.step = "idle"
  BY DEF NotWalking
<1>5. CASE LeaveWalk
  BY <1>4, <1>5 DEF LeaveWalk, TrailInv, TrailTyped, RowsWereAskedFor, Matching, Idle, WalkTyped,
                    WalkInv, NothingSkipped
<1>6. CASE WalkFails
  <2>1. TrailTyped' /\ RowsWereAskedFor'
    BY <1>6, NotReadingFacts, WalkerTypes DEF WalkFails
  <2> QED
    BY <1>4, <1>6, <2>1 DEF WalkFails, TrailInv, WalkTyped, WalkInv, NothingSkipped
<1> QED
  BY <1>2, <1>3, <1>5, <1>6

\* Whatever happens to the tables, the walk, and the assistant's tool.
LEMMA TrailKeeps ==
  ASSUME TrailInv, [AssistantNext]_assistantVars
  PROVE  TrailInv'
<1>1. CASE TrailNext
  <2>1. ASSUME NEW r \in Reader, NEW t \in Table, CountRows(r, t) \/ FindRows(r, t)
        PROVE  TrailInv'
    BY <2>1, CountRowsStep, FindRowsStep
  <2>2. ASSUME NEW row \in TrailRow, Record(row) PROVE TrailInv'
    BY <2>2, RecordStep
  <2>3. ASSUME TurnPage \/ LeaveWalk \/ WalkFails \/ \E filter \in Filter : StartWalk(filter)
        PROVE  TrailInv'
    BY <2>3, WalkStep
  <2> QED
    BY <1>1, <2>1, <2>2, <2>3 DEF TrailNext
<1>2. CASE UNCHANGED trailVars
  <2>1. TrailTyped' /\ RowsWereAskedFor'
    BY <1>2 DEF trailVars, TrailInv, TrailTyped, RowsWereAskedFor, Matching, Idle
  <2>2. /\ UNCHANGED <<recorded, walk>> /\ read'[Walker] = read[Walker]
        /\ WalkTyped /\ WalkInv /\ NothingSkipped
    BY <1>2 DEF trailVars, TrailInv
  <2>3. WalkTyped' /\ WalkInv' /\ NothingSkipped'
    BY <2>2, WalkUnmoved
  <2> QED
    BY <2>1, <2>3 DEF TrailInv
<1>3. ASSUME NEW y, read' = [read EXCEPT ![Tool] = y], UNCHANGED <<recorded, walk>>,
             y = NotReading \/ \E f \in Filter : y = Begun(f, 1)
      PROVE  TrailInv'
  <2>1. /\ y \in Reading /\ (y = NotReading \/ y.page > 0) /\ \A t \in Table : y.rows[t] = {}
    <3>1. CASE y = NotReading
      BY <3>1, NotReadingFacts
    <3>2. ASSUME NEW f \in Filter, y = Begun(f, 1)
          PROVE  y \in Reading /\ y.page > 0 /\ \A t \in Table : y.rows[t] = {}
      <4>1. f \in SUBSET Kind /\ 1 \in Nat
        BY TrailAssumption
      <4>2. y \in Reading /\ y.page = 1 /\ \A t \in Table : y.rows[t] = {}
        BY <3>2, <4>1, BegunFacts
      <4> QED
        BY <4>2
    <3> QED
      BY <1>3, <3>1, <3>2
  <2>2. \A t \in Table : y.rows[t] \subseteq Matching(y.filter, t)
    BY <2>1
  <2>3. Tool \in Reader /\ Tool # Walker
    BY AssistantAssumption
  <2>4. read' = [read EXCEPT ![Tool] = y] /\ UNCHANGED <<recorded, walk>>
    BY <1>3
  <2> QED
    BY <2>1, <2>2, <2>3, <2>4, QueryTypes
<1>4. CASE RunTool
  BY <1>3, <1>4 DEF RunTool
<1>5. CASE ToolAnswers \/ AskFails
  BY <1>3, <1>5 DEF ToolAnswers, AskFails
<1> QED
  BY <1>1, <1>2, <1>4, <1>5
  DEF AssistantNext, assistantVars, Ask, ModelAnswers, RefuseTool, NextRound, ModelAsks

\* The inductive invariant of the trail, while rows are recorded and questions asked.
THEOREM TrailInvHolds == AssistantSpec => []TrailInv
<1>1. InitTrail => TrailInv
  <2> SUFFICES ASSUME InitTrail PROVE TrailInv
    OBVIOUS
  <2>1. TrailTyped
    BY NotReadingFacts DEF InitTrail, TrailTyped
  <2>2. RowsWereAskedFor
    BY NotReadingFacts DEF InitTrail, RowsWereAskedFor, Idle
  <2>3. WalkTyped /\ WalkInv /\ NothingSkipped
    BY DEF InitTrail, WalkTyped, WalkInv, NothingSkipped, NotWalking
  <2> QED
    BY <2>1, <2>2, <2>3 DEF TrailInv
<1> QED
  BY <1>1, TrailKeeps, PTL DEF AssistantSpec

\* Whoever walks to the last page has been shown every row that was there when he began,
\* whatever is recorded meanwhile, for any filters, page sizes and readers.
THEOREM NothingSkippedHolds == AssistantSpec => []NothingSkipped
<1>1. TrailInv => NothingSkipped
  BY DEF TrailInv
<1> QED
  BY <1>1, TrailInvHolds, PTL

-----------------------------------------------------------------------------
(* The assistant. *)

\* Every row of a collection matches one of the queries.
AskedFor(rows, queries) ==
    \A i \in rows : /\ i \in DOMAIN recorded
                    /\ \E q \in queries : q = {} \/ recorded[i].kind \in q

QuestionTyped ==
    /\ question \in [step : {"idle", "thinking", "running"}, round : Nat, uses : Seq(ToolUse),
                     given : SUBSET Nat, matched : SUBSET Nat, queries : SUBSET SUBSET Kind]
    /\ turn \in [kind : {"none", "answer", "error"}, records : SUBSET Nat, given : SUBSET Nat,
                 queries : SUBSET SUBSET Kind]

\* The tool reads for the first of the uses that are left, and all that was given is kept.
EvidenceInv ==
    /\ ~Idle(Tool) => /\ question.step = "running" /\ question.uses # <<>>
                      /\ Head(question.uses) \in Filter
    /\ question.given = question.matched /\ AskedFor(question.matched, question.queries)
    /\ turn.records = turn.given /\ AskedFor(turn.records, turn.queries)

\* Rows are only added, so that what matched a query still does.
LEMMA TrailGrows ==
  ASSUME TrailInv, [AssistantNext]_assistantVars
  PROVE  /\ DOMAIN recorded \subseteq DOMAIN recorded'
         /\ \A i \in DOMAIN recorded : recorded'[i] = recorded[i]
         /\ \A rows, queries : AskedFor(rows, queries) => AskedFor(rows, queries)'
<1>1. UNCHANGED recorded \/ \E row \in TrailRow : recorded' = Append(recorded, row)
  BY DEF AssistantNext, assistantVars, trailVars, TrailNext, StartWalk, TurnPage, LeaveWalk, WalkFails,
         CountRows, FindRows, Record, Ask, ModelAnswers, RunTool, RefuseTool, ToolAnswers, NextRound,
         AskFails, ModelAsks
<1>2. /\ DOMAIN recorded \subseteq DOMAIN recorded'
      /\ \A i \in DOMAIN recorded : recorded'[i] = recorded[i]
  <2>1. recorded \in Seq(TrailRow)
    BY DEF TrailInv, TrailTyped
  <2> QED
    BY <1>1, <2>1
<1> QED
  BY <1>2 DEF AskedFor

\* What a call shows is what it asked for.
LEMMA EventsWereAskedFor ==
  ASSUME TrailInv, NEW r \in Reader
  PROVE  /\ Events(r) \in SUBSET Nat
         /\ \A i \in Events(r) : /\ i \in DOMAIN recorded
                                 /\ read[r].filter = {} \/ recorded[i].kind \in read[r].filter
<1>1. Events(r) \subseteq Matching(read[r].filter, Audits) \cup Matching(read[r].filter, Badges)
  BY Selected, TablesDiffer DEF Events, Unified, TrailInv, RowsWereAskedFor
<1>2. \A t : Matching(read[r].filter, t) \subseteq Nat
  BY MatchingFacts DEF TrailInv
<1> QED
  BY <1>1, <1>2 DEF Matching

\* The tool is read for while it runs, and nobody else asks on its behalf.
LEMMA ToolIsAsked ==
  ASSUME TrailInv, TrailNext, ~Idle(Tool)'
  PROVE  ~Idle(Tool)
<1>1. /\ Tool \in Reader /\ Tool # Walker /\ Walker \in Reader /\ read \in [Reader -> Reading]
  BY TrailAssumption, AssistantAssumption DEF TrailInv, TrailTyped
<1> SUFFICES ASSUME Idle(Tool) PROVE read'[Tool] = read[Tool]
  BY DEF Idle
<1>2. \A r \in Reader : r = Tool => read[r].left = {}
  BY NotReadingFacts DEF Idle
<1>3. ASSUME NEW r \in Reader, NEW t \in Table, CountRows(r, t) \/ FindRows(r, t)
      PROVE  read'[Tool] = read[Tool]
  <2>1. r # Tool
    BY <1>2, <1>3 DEF CountRows, FindRows, Turn
  <2> QED
    BY <1>1, <1>3, <2>1 DEF CountRows, FindRows
<1>4. ASSUME NEW filter \in Filter, StartWalk(filter) PROVE read'[Tool] = read[Tool]
  BY <1>1, <1>4 DEF StartWalk
<1>5. CASE TurnPage \/ LeaveWalk \/ WalkFails
  BY <1>1, <1>5 DEF TurnPage, LeaveWalk, WalkFails
<1>6. ASSUME NEW row \in TrailRow, Record(row) PROVE read'[Tool] = read[Tool]
  BY <1>6 DEF Record
<1> QED
  BY <1>3, <1>4, <1>5, <1>6 DEF TrailNext

\* The panel's answer and the question, whatever step they take.
LEMMA EvidenceKeeps ==
  ASSUME TrailInv, QuestionTyped, EvidenceInv, [AssistantNext]_assistantVars
  PROVE  QuestionTyped' /\ EvidenceInv'
<1> DEFINE QuestionType == [step : {"idle", "thinking", "running"}, round : Nat,
                            uses : Seq(ToolUse), given : SUBSET Nat, matched : SUBSET Nat,
                            queries : SUBSET SUBSET Kind]
           TurnType == [kind : {"none", "answer", "error"}, records : SUBSET Nat,
                        given : SUBSET Nat, queries : SUBSET SUBSET Kind]
<1>1. PICK x \in QuestionType, y \in TurnType : x = question /\ y = turn
  BY DEF QuestionTyped
<1>2. /\ AskedFor(x.matched, x.queries) /\ x.given = x.matched
      /\ AskedFor(y.records, y.queries) /\ y.records = y.given
      /\ ~Idle(Tool) => x.step = "running" /\ x.uses # <<>> /\ Head(x.uses) \in Filter
  BY <1>1 DEF EvidenceInv, AskedFor
<1>3. /\ AskedFor(x.matched, x.queries)' /\ AskedFor(y.records, y.queries)'
      /\ \A queries : AskedFor({}, queries)'
  BY <1>2, TrailGrows DEF AskedFor
<1>4. /\ Tool \in Reader /\ read \in [Reader -> Reading] /\ read[Tool].filter \in SUBSET Kind
      /\ MaxToolRounds \in Nat /\ <<>> \in Seq(ToolUse) /\ NotReading \in Reading
  BY AssistantAssumption, NotReadingFacts DEF TrailInv, TrailTyped, Reading
<1>5. /\ NoQuestion \in QuestionType /\ NoQuestion.given = {} /\ NoQuestion.matched = {}
      /\ NoQuestion.step = "idle" /\ NoTurn \in TurnType
      /\ NoTurn.records = {} /\ NoTurn.given = {}
  BY DEF NoQuestion, NoTurn
\* It is enough to look at the new values.
<1>6. ASSUME NEW u \in QuestionType, NEW v \in TurnType, question' = u, turn' = v,
             u.given = u.matched, AskedFor(u.matched, u.queries)',
             v.records = v.given, AskedFor(v.records, v.queries)',
             Idle(Tool)' \/ (u.step = "running" /\ u.uses # <<>> /\ Head(u.uses) \in Filter)
      PROVE  QuestionTyped' /\ EvidenceInv'
  BY <1>6 DEF QuestionTyped, EvidenceInv, AskedFor
<1> HIDE DEF QuestionType, TurnType
<1>7. CASE TrailNext /\ UNCHANGED <<question, turn>>
  BY <1>1, <1>2, <1>3, <1>6, <1>7, ToolIsAsked
<1>8. CASE UNCHANGED assistantVars
  BY <1>1, <1>2, <1>3, <1>6, <1>8 DEF assistantVars, trailVars, Idle
<1>9. CASE Ask
  <2>0. PICK none \in QuestionType : none = NoQuestion
    BY <1>5
  <2> DEFINE u == [none EXCEPT !.step = "thinking", !.round = 1]
  <2>1. u \in QuestionType /\ u.given = {} /\ u.matched = {}
    BY <1>5, <2>0 DEF QuestionType
  <2>2. question' = u /\ turn' = NoTurn /\ UNCHANGED read /\ x.step = "idle"
    BY <1>1, <1>9, <2>0 DEF Ask, trailVars
  <2> HIDE DEF u
  <2>3. Idle(Tool)' /\ AskedFor(u.matched, u.queries)' /\ AskedFor(NoTurn.records, NoTurn.queries)'
    BY <1>2, <1>3, <1>5, <2>1, <2>2 DEF Idle
  <2> QED
    BY <1>5, <1>6, <2>1, <2>2, <2>3
<1>10. ASSUME GiveAnswer, UNCHANGED trailVars, Idle(Tool) PROVE QuestionTyped' /\ EvidenceInv'
  <2>1. PICK v \in TurnType : v = [kind |-> "answer", records |-> x.matched, given |-> x.given,
                                   queries |-> x.queries]
    BY DEF QuestionType, TurnType
  <2>2. turn' = v /\ question' = NoQuestion /\ v.records = x.matched /\ v.given = x.given
        /\ v.queries = x.queries
    BY <1>1, <1>10, <2>1 DEF GiveAnswer
  <2>3. AskedFor(v.records, v.queries)' /\ AskedFor(NoQuestion.matched, NoQuestion.queries)'
        /\ Idle(Tool)' /\ v.records = v.given
    BY <1>2, <1>3, <1>5, <1>10, <2>2 DEF trailVars, Idle
  <2> QED
    BY <1>5, <1>6, <2>2, <2>3
<1>11. CASE ModelAnswers
  BY <1>1, <1>2, <1>10, <1>11 DEF ModelAnswers
<1>12. ASSUME NEW n \in 1..MaxUses, NEW uses \in [1..n -> ToolUse], ModelAsks(uses)
       PROVE  QuestionTyped' /\ EvidenceInv'
  <2>1. uses \in Seq(ToolUse)
    BY AssistantAssumption
  <2> DEFINE u == [x EXCEPT !.step = "running", !.uses = uses, !.matched = x.matched]
  <2>2. /\ u \in QuestionType
        /\ u.given = x.given /\ u.matched = x.matched /\ u.queries = x.queries
    BY <2>1 DEF QuestionType
  <2>3. question' = u /\ turn' = y /\ x.step = "thinking" /\ UNCHANGED trailVars
    BY <1>1, <1>12 DEF ModelAsks, Collected
  <2> HIDE DEF u
  <2> QED
    BY <1>2, <1>3, <1>6, <2>2, <2>3 DEF trailVars, Idle
<1>13. CASE RunTool
  BY <1>1, <1>2, <1>3, <1>6, <1>13 DEF RunTool
\* A use is done with, whatever it was given.
<1>14. ASSUME x.step = "running", x.uses # <<>>, Idle(Tool)',
              NEW rows \in SUBSET Nat, NEW queries \in SUBSET SUBSET Kind,
              question' = [x EXCEPT !.uses = Tail(x.uses), !.given = x.given \cup rows,
                                    !.matched = x.matched \cup rows,
                                    !.queries = x.queries \cup queries],
              UNCHANGED turn, AskedFor(rows, queries)'
       PROVE  QuestionTyped' /\ EvidenceInv'
  <2>1. PICK rest \in Seq(ToolUse) : rest = Tail(x.uses)
    <3>1. x.uses \in Seq(ToolUse) /\ x.uses # <<>>
      BY <1>14 DEF QuestionType
    <3>2. Tail(x.uses) \in Seq(ToolUse)
      BY <3>1
    <3> QED
      BY <3>2
  <2> DEFINE u == [x EXCEPT !.uses = rest, !.given = x.given \cup rows,
                            !.matched = x.matched \cup rows, !.queries = x.queries \cup queries]
  <2>2. /\ u \in QuestionType /\ u.given = x.given \cup rows /\ u.matched = x.matched \cup rows
        /\ u.queries = x.queries \cup queries
    BY DEF QuestionType
  <2>3. u = question'
    BY <1>14, <2>1
  <2> HIDE DEF u
  <2>4. AskedFor(u.matched, u.queries)'
    BY <1>3, <1>14, <2>2 DEF AskedFor
  <2> QED
    BY <1>1, <1>2, <1>3, <1>6, <1>14, <2>2, <2>3, <2>4
<1>15. x.step = "running" /\ x.uses # <<>> /\ Idle(Tool)' /\ UNCHANGED turn
         /\ question' = [x EXCEPT !.uses = Tail(x.uses)] => QuestionTyped' /\ EvidenceInv'
  <2>1. [x EXCEPT !.uses = Tail(x.uses)] =
            [x EXCEPT !.uses = Tail(x.uses), !.given = x.given \cup {},
                      !.matched = x.matched \cup {}, !.queries = x.queries \cup {}]
    BY DEF QuestionType
  <2>2. AskedFor({}, {})' /\ {} \in SUBSET Nat /\ {} \in SUBSET SUBSET Kind
    BY <1>3
  <2> QED
    BY <1>14, <2>1, <2>2
<1>16. CASE RefuseTool
  <2>1. Idle(Tool)
    BY <1>1, <1>2, <1>16 DEF RefuseTool
  <2> QED
    BY <1>1, <1>15, <1>16, <2>1 DEF RefuseTool, trailVars, Idle
<1>17. CASE ToolAnswers
  <2>1. x.step = "running" /\ x.uses # <<>> /\ Idle(Tool)' /\ UNCHANGED <<recorded, turn>>
    BY <1>1, <1>2, <1>4, <1>17 DEF ToolAnswers, Idle
  <2>2. PICK rows \in SUBSET Nat : rows = Events(Tool)
    BY <1>4, EventsWereAskedFor
  <2>3. PICK f \in SUBSET Kind : f = read[Tool].filter
    BY <1>4
  <2>4. AskedFor(rows, {f})'
    BY <1>4, <2>1, <2>2, <2>3, EventsWereAskedFor DEF AskedFor
  <2>5. \/ question' = [x EXCEPT !.uses = Tail(x.uses), !.given = x.given \cup rows,
                                 !.matched = x.matched \cup rows,
                                 !.queries = x.queries \cup {f}]
        \/ question' = [x EXCEPT !.uses = Tail(x.uses)]
    BY <1>1, <1>17, <2>2, <2>3 DEF ToolAnswers
  <2> QED
    BY <1>14, <1>15, <2>1, <2>4, <2>5
<1>18. CASE NextRound
  <2>1. Idle(Tool) /\ UNCHANGED trailVars /\ x.step = "running"
    BY <1>1, <1>2, <1>18 DEF NextRound
  <2>2. CASE question' = [x EXCEPT !.step = "thinking", !.round = x.round + 1] /\ UNCHANGED turn
    <3>a. PICK k \in Nat : k = x.round + 1
      BY DEF QuestionType
    <3> DEFINE u == [x EXCEPT !.step = "thinking", !.round = k]
    <3>1. /\ u \in QuestionType
          /\ u.given = x.given /\ u.matched = x.matched /\ u.queries = x.queries
      BY DEF QuestionType
    <3> HIDE DEF u
    <3>2. question' = u
      BY <2>2, <3>a DEF u
    <3> QED
      BY <1>1, <1>2, <1>3, <1>6, <2>1, <2>2, <3>1, <3>2 DEF trailVars, Idle
  <2> QED
    BY <1>1, <1>10, <1>18, <2>1, <2>2 DEF NextRound
<1>19. CASE AskFails
  <2> DEFINE v == [NoTurn EXCEPT !.kind = "error"]
  <2>1. v \in TurnType /\ v.records = {} /\ v.given = {}
    BY DEF NoTurn, TurnType
  <2>2. question' = NoQuestion /\ turn' = v /\ Idle(Tool)'
    BY <1>4, <1>19 DEF AskFails, Idle
  <2> HIDE DEF v
  <2>3. AskedFor(v.records, v.queries)' /\ AskedFor(NoQuestion.matched, NoQuestion.queries)'
    BY <1>3, <1>5, <2>1
  <2> QED
    BY <1>5, <1>6, <2>1, <2>2, <2>3
<1> QED
  BY <1>7, <1>8, <1>9, <1>11, <1>12, <1>13, <1>16, <1>17, <1>18, <1>19 DEF AssistantNext

\* An answer is shown with every row the model was given, each of them asked for by a
\* query the API returns with it, for any model, number of rounds and uses, and rows
\* recorded meanwhile.
THEOREM EvidenceIsShownHolds == AssistantSpec => []EvidenceIsShown
<1>1. InitTrail /\ InitAssistant => QuestionTyped /\ EvidenceInv
  <2> SUFFICES ASSUME InitTrail, InitAssistant PROVE QuestionTyped /\ EvidenceInv
    OBVIOUS
  <2>1. Idle(Tool)
    BY AssistantAssumption DEF InitTrail, Idle
  <2>2. QuestionTyped
    BY DEF InitAssistant, QuestionTyped, NoQuestion, NoTurn
  <2> QED
    BY <2>1, <2>2 DEF InitAssistant, EvidenceInv, NoQuestion, NoTurn, AskedFor
<1>2. EvidenceInv => EvidenceIsShown
  BY DEF EvidenceInv, EvidenceIsShown, AskedFor
<1> QED
  BY <1>1, <1>2, TrailInvHolds, EvidenceKeeps, PTL DEF AssistantSpec

-----------------------------------------------------------------------------
(* The dialogs. *)

\* What is filled in belongs to the item a dialog is open for.
FilledForTarget == target # NoItem => opened > 0 /\ typed \in {NoItem, target}

\* While a call is under way its dialog's flag is raised, if the dialog stays.
FlagIsRaised ==
    form.stays => \A a \in UnderWay : /\ flag # NoItem
                                      /\ sent[a].opened = 0 => form.direct

DialogsInv == DialogsTypeOK /\ FilledForTarget /\ FlagIsRaised /\ SentAsShown

\* A dialog that cannot be dismissed while it saves freezes its inputs, covers
\* the page, and has one flag for all items.
LEMMA DialogsThatStay ==
  ASSUME NEW d \in Dialog
  PROVE  /\ d.stays => d.freezes /\ d.covers /\ d.busy # "row"
         /\ d.pends = "midway" => ~d.stays
         /\ d.stays \in BOOLEAN
<1> DEFINE Fits(r) == /\ r.stays => r.freezes /\ r.covers /\ r.busy # "row"
                      /\ r.pends = "midway" => ~r.stays
                      /\ r.stays \in BOOLEAN
<1>1. Fits(ConfirmDialog) /\ Fits(ActionDialog) /\ Fits(DecisionDialog)
  BY DEF ConfirmDialog, ActionDialog, DecisionDialog
<1>2. Fits(ExecuteRecoveryDialog)
  BY DEF ExecuteRecoveryDialog, ConfirmDialog
<1>3. Fits(RejectRecoveryDialog)
  BY DEF RejectRecoveryDialog, ActionDialog, ConfirmDialog
<1>4. Fits(RaiseRecoveryDialog)
  BY DEF RaiseRecoveryDialog, ActionDialog, ConfirmDialog
<1>5. Fits(RejectTransferDialog)
  BY DEF RejectTransferDialog, ActionDialog, ConfirmDialog
<1>6. Fits(EditRoleDialog)
  BY DEF EditRoleDialog, DecisionDialog, ConfirmDialog
<1>7. Fits(IdentityForm)
  BY DEF IdentityForm, RaiseRecoveryDialog, ActionDialog, ConfirmDialog
<1>8. Fits(ZoneForm)
  BY DEF ZoneForm, DecisionDialog, ConfirmDialog
<1> HIDE DEF Fits
<1>9. Fits(d)
  BY <1>1, <1>2, <1>3, <1>4, <1>5, <1>6, <1>7, <1>8
  DEF Dialog, LockdownDialog, ZoneLockDialog, AssetForm
<1> QED
  BY <1>9 DEF Fits

\* Nothing is under way where a dialog that stays is not busy.
LEMMA IdleWhenNotBusy ==
  ASSUME DialogsInv, form.stays, NEW i, ~Busy(i)
  PROVE  UnderWay = {}
BY DialogsThatStay DEF DialogsInv, FlagIsRaised, Busy, DialogsTypeOK

\* The types of a call that is sent, and that it is under way.
LEMMA SendCallStep ==
  ASSUME DialogsInv, NEW a \in Attempt, NEW i \in Item, NEW input \in {NoItem, i},
         NEW n \in 0..MaxOpened, SendCall(a, i, input, n),
         form.stays => UnderWay = {},
         n = 0 => form.direct,
         n # 0 => n = opened /\ target = i /\ typed = input
  PROVE  DialogsInv'
<1> USE DialogsAssumption DEF DialogsInv
<1>1. PICK x : x = [item |-> i, typed |-> input, opened |-> n]
  OBVIOUS
<1>2. x \in Sent /\ x # NotSent /\ x.item = i /\ x.typed = input /\ x.opened = n
  BY <1>1 DEF Sent, NotSent
<1>3. /\ sent' = [sent EXCEPT ![a] = x] /\ sent \in [Attempt -> Sent] /\ flag' = i
      /\ UNCHANGED <<form, target, opened, typed, waved>>
      /\ pending' = IF form.pends = "always" THEN pending \cup {a} ELSE pending
  BY <1>1 DEF SendCall, DialogsTypeOK
<1>4. /\ UnderWay' = UnderWay \cup {a}
      /\ sent'[a] = x /\ \A b \in UnderWay \ {a} : sent'[b] = sent[b]
  BY <1>2, <1>3 DEF UnderWay
<1>5. DialogsTypeOK'
  BY <1>2, <1>3 DEF DialogsTypeOK
<1>6. FilledForTarget'
  BY <1>3 DEF FilledForTarget
<1>7. FlagIsRaised'
  BY <1>2, <1>3, <1>4 DEF FlagIsRaised
<1>8. ASSUME NEW b \in UnderWay'
      PROVE  /\ sent'[b].item # NoItem
             /\ sent'[b].typed \in {NoItem, sent'[b].item}
             /\ form'.stays => /\ sent'[b].opened # 0 => StillOpen(sent[b])'
                               /\ UnderWay' = {b}
             /\ form'.pends = "always" => b \in pending' \cup waved'
  <2>1. CASE b = a
    BY <1>2, <1>3, <1>4, <2>1 DEF StillOpen
  <2>2. CASE b # a
    BY <1>3, <1>4, <1>8, <2>2 DEF SentAsShown
  <2> QED
    BY <2>1, <2>2
<1>9. SentAsShown'
  <2>1. pending' \subseteq UnderWay'
    BY <1>3, <1>4 DEF SentAsShown
  <2> QED
    BY <1>8, <2>1 DEF SentAsShown
<1> QED
  BY <1>5, <1>6, <1>7, <1>9

\* A call that is over takes its flag and its notice with it.
LEMMA CallEndsStep ==
  ASSUME DialogsInv, NEW a \in UnderWay, CallEnds(a), Close \/ UNCHANGED <<target, typed>>
  PROVE  DialogsInv'
<1> USE DialogsAssumption DEF DialogsInv
<1>1. /\ a \in Attempt /\ sent \in [Attempt -> Sent] /\ NotSent \in Sent
      /\ sent' = [sent EXCEPT ![a] = NotSent]
      /\ pending' = pending \ {a} /\ waved' = waved \ {a}
      /\ UNCHANGED <<form, opened>>
  BY DEF CallEnds, UnderWay, DialogsTypeOK, NotSent, Sent
<1>2. UnderWay' = UnderWay \ {a} /\ \A b \in UnderWay \ {a} : sent'[b] = sent[b]
  BY <1>1 DEF UnderWay
<1>3. flag' \in {flag, NoItem}
  BY DEF CallEnds
<1>4. DialogsTypeOK' /\ FilledForTarget'
  BY <1>1, <1>3 DEF DialogsTypeOK, FilledForTarget, Close
<1>5. form.stays => UnderWay' = {}
  BY <1>2 DEF SentAsShown
<1>6. FlagIsRaised'
  BY <1>1, <1>5 DEF FlagIsRaised
<1>7. SentAsShown'
  <2>1. pending' \subseteq UnderWay'
    BY <1>1, <1>2 DEF SentAsShown
  <2>2. ASSUME NEW b \in UnderWay'
        PROVE  /\ sent'[b].item # NoItem
               /\ sent'[b].typed \in {NoItem, sent'[b].item}
               /\ form'.stays => /\ sent'[b].opened # 0 => StillOpen(sent[b])'
                                 /\ UnderWay' = {b}
               /\ form'.pends = "always" => b \in pending' \cup waved'
    BY <1>1, <1>2, <1>5, <2>2 DEF SentAsShown
  <2> QED
    BY <2>1, <2>2 DEF SentAsShown
<1> QED
  BY <1>4, <1>6, <1>7

\* A step that sends nothing and ends nothing.
LEMMA ScreenStep ==
  ASSUME DialogsInv, DialogsTypeOK', FilledForTarget', UNCHANGED <<form, sent>>,
         pending' \subseteq UnderWay, pending \cup waved \subseteq pending' \cup waved',
         form.pends # "always" \/ pending' \subseteq pending,
         form.stays => UnderWay = {} \/ UNCHANGED <<target, opened, typed, flag>>
  PROVE  DialogsInv'
<1> USE DEF DialogsInv
<1>1. UnderWay' = UnderWay
  BY DEF UnderWay
<1>2. FlagIsRaised'
  BY <1>1 DEF FlagIsRaised
<1>3. ASSUME NEW b \in UnderWay
      PROVE  /\ sent[b].item # NoItem
             /\ sent[b].typed \in {NoItem, sent[b].item}
             /\ form.stays => /\ sent[b].opened # 0 => StillOpen(sent[b])'
                              /\ UnderWay = {b}
             /\ form.pends = "always" => b \in pending' \cup waved'
  BY <1>3 DEF SentAsShown, StillOpen
<1>4. SentAsShown'
  BY <1>1, <1>3 DEF SentAsShown, StillOpen
<1> QED
  BY <1>2, <1>4

\* One case per action: every step of a person or a server keeps the invariant.
LEMMA DialogsKeep ==
  ASSUME DialogsInv, [DialogsNext]_dialogVars
  PROVE  DialogsInv'
<1> USE DialogsAssumption
<1>1. ASSUME NEW i \in Item, OpenDialog(i) PROVE DialogsInv'
  <2>1. form.stays => UnderWay = {}
    <3>1. ASSUME form.stays, NEW a \in UnderWay PROVE FALSE
      <4>1. target = NoItem
        BY <1>1, <3>1, DialogsThatStay DEF OpenDialog, DialogsInv, DialogsTypeOK
      <4>2. sent[a].opened = 0
        BY <3>1, <4>1 DEF DialogsInv, SentAsShown, StillOpen
      <4>3. ~Busy(i)
        BY <1>1, <3>1, <4>2 DEF OpenDialog, DialogsInv, FlagIsRaised
      <4> QED
        BY <3>1, <4>3, IdleWhenNotBusy
    <3> QED
      BY <3>1
  <2>2. DialogsTypeOK' /\ FilledForTarget'
    BY <1>1 DEF OpenDialog, Filled, DialogsInv, DialogsTypeOK, FilledForTarget
  <2> QED
    BY <1>1, <2>1, <2>2, ScreenStep DEF OpenDialog, DialogsInv, SentAsShown
<1>2. CASE TypeInput
  <2>1. form.stays => UnderWay = {}
    BY <1>2, IdleWhenNotBusy, DialogsThatStay DEF TypeInput, DialogsInv, DialogsTypeOK
  <2>2. DialogsTypeOK' /\ FilledForTarget'
    BY <1>2 DEF TypeInput, DialogsInv, DialogsTypeOK, FilledForTarget
  <2> QED
    BY <1>2, <2>1, <2>2, ScreenStep DEF TypeInput, DialogsInv, SentAsShown
<1>3. CASE Dismiss
  <2>1. form.stays => UnderWay = {}
    BY <1>3, IdleWhenNotBusy DEF Dismiss
  <2>2. DialogsTypeOK' /\ FilledForTarget'
    BY <1>3 DEF Dismiss, Close, DialogsInv, DialogsTypeOK, FilledForTarget
  <2> QED
    BY <1>3, <2>1, <2>2, ScreenStep DEF Dismiss, DialogsInv, SentAsShown
<1>4. ASSUME NEW a \in Attempt, Confirm(a) PROVE DialogsInv'
  <2>1. /\ target \in Item /\ typed \in {NoItem, target} /\ opened \in 0..MaxOpened
        /\ opened # 0
    BY <1>4 DEF Confirm, DialogsInv, DialogsTypeOK, FilledForTarget
  <2>2. form.stays => UnderWay = {}
    BY <1>4, IdleWhenNotBusy DEF Confirm
  <2>3. SendCall(a, target, typed, opened)
    BY <1>4 DEF Confirm
  <2> QED
    BY <2>1, <2>2, <2>3, SendCallStep
<1>5. ASSUME NEW a \in Attempt, NEW i \in Item, CallAtOnce(a, i) PROVE DialogsInv'
  <2>1. form.stays => UnderWay = {}
    BY <1>5, IdleWhenNotBusy DEF CallAtOnce
  <2>2. SendCall(a, i, NoItem, 0) /\ form.direct /\ 0 \in 0..MaxOpened
    BY <1>5 DEF CallAtOnce
  <2> QED
    BY <2>1, <2>2, SendCallStep
<1>6. ASSUME NEW a \in Attempt, CallSucceeds(a) \/ CallFails(a) PROVE DialogsInv'
  BY <1>6, CallEndsStep DEF CallSucceeds, CallFails
<1>7. ASSUME NEW a \in Attempt, Repair(a) PROVE DialogsInv'
  <2>1. ~form.stays /\ form.pends # "always"
    BY <1>7, DialogsThatStay DEF Repair, DialogsInv, DialogsTypeOK
  <2>2. DialogsTypeOK' /\ FilledForTarget'
    BY <1>7 DEF Repair, DialogsInv, DialogsTypeOK, FilledForTarget, UnderWay
  <2>3. UnderWay' = UnderWay /\ pending' \subseteq UnderWay
    BY <1>7 DEF Repair, DialogsInv, SentAsShown, UnderWay
  <2>4. FlagIsRaised' /\ SentAsShown'
    BY <1>7, <2>1, <2>3 DEF Repair, DialogsInv, FlagIsRaised, SentAsShown
  <2> QED
    BY <2>2, <2>4 DEF DialogsInv
<1>8. ASSUME NEW a \in Attempt, DismissNotice(a) PROVE DialogsInv'
  <2>1. DialogsTypeOK' /\ FilledForTarget'
    BY <1>8 DEF DismissNotice, DialogsInv, DialogsTypeOK, FilledForTarget
  <2> QED
    BY <1>8, <2>1, ScreenStep DEF DismissNotice, DialogsInv, SentAsShown
<1>9. CASE UNCHANGED dialogVars
  <2>1. DialogsTypeOK' /\ FilledForTarget'
    BY <1>9 DEF dialogVars, DialogsInv, DialogsTypeOK, FilledForTarget
  <2> QED
    BY <1>9, <2>1, ScreenStep DEF dialogVars, DialogsInv, SentAsShown
<1> QED
  BY <1>1, <1>2, <1>3, <1>4, <1>5, <1>6, <1>7, <1>8, <1>9 DEF DialogsNext

\* What the dialogs send is what was on the screen, and only their own answer
\* closes those that wait for it, for any items and calls.
THEOREM SentAsShownHolds == DialogsSpec => []SentAsShown
<1>1. InitDialogs => DialogsInv
  BY DialogsAssumption
  DEF InitDialogs, DialogsInv, DialogsTypeOK, FilledForTarget, FlagIsRaised, SentAsShown,
      UnderWay, NotSent, Sent
<1>2. DialogsInv => SentAsShown
  BY DEF DialogsInv
<1> QED
  BY <1>1, <1>2, DialogsKeep, PTL DEF DialogsSpec
=============================================================================
