------------------------------ MODULE Sessions ------------------------------
(***************************************************************************)
(* Signing in with a wallet (auth.service.js, nonce.service.js), what a    *)
(* session is worth afterwards (auth.middleware.js, rbac.middleware.js),   *)
(* and the browser tab that keeps it (AuthContext.jsx, api.js,             *)
(* RegistrationPage.jsx).  Identities change meanwhile.                    *)
(***************************************************************************)
EXTENDS Naturals, Sequences, FiniteSets, TLC

CONSTANTS
    Person, Wallet, Role, Connector, \* Connector: the role SYSTEM_CONNECTOR
    Nobody, NoWallet, NoRole,
    Flow,        \* sign-ins that may be under way at once
    Call,        \* requests that may be under way at once
    MaxNonce, MaxSessions, MaxChanges \* bounds on challenges, sessions, changes

ASSUME SessionsAssumption ==
    /\ Connector \in Role /\ NoRole \notin Role
    /\ Nobody \notin Person /\ NoWallet \notin Wallet
    /\ MaxNonce \in Nat /\ MaxSessions \in Nat /\ MaxChanges \in Nat

VARIABLES
    users,      \* the User rows
    challenge,  \* the nonce store of the process: the open challenge of a wallet, or 0
    nonces,     \* how many nonces have been drawn
    flow,       \* the sign-ins under way, in the browser or a machine, and the server
    sessions,   \* every session signed by the server, oldest first
    lapsed,     \* the sessions past their expiry
    call,       \* the authenticated requests under way
    stored,     \* localStorage "token": a session, or 0
    shown,      \* the user the tab shows: the session he was read from, or 0
    account,    \* the account active in the tab's wallet extension
    changes

sessionVars == <<users, challenge, nonces, flow, sessions, lapsed, call,
                 stored, shown, account, changes>>

Row == [wallet : Wallet \cup {NoWallet}, role : Role \cup {NoRole}, revoked : BOOLEAN]
NoRow == [wallet |-> NoWallet, role |-> NoRole, revoked |-> FALSE]

Session == [person : Person \cup {Nobody}, wallet : Wallet, role : Role \cup {NoRole},
            via : {"verify", "connector", "poll"}, nonce : 0..MaxNonce]

FlowStep == {"idle", "signing", "verifying", "lookup", "answered"}
SignIn == [step : FlowStep, route : {"verify", "connector"}, wallet : Wallet \cup {NoWallet},
           nonce : 0..MaxNonce, session : 0..MaxSessions]
NoSignIn == [step |-> "idle", route |-> "verify", wallet |-> NoWallet,
             nonce |-> 0, session |-> 0]

\* stamped: whether the identity was revoked when the request was sent, and since.
Request == [step : {"idle", "sent", "served", "refused", "unauthorized"},
            kind : {"work", "status"}, token : 0..MaxSessions, stamped : BOOLEAN,
            session : 0..MaxSessions]
NoRequest == [step |-> "idle", kind |-> "work", token |-> 0, stamped |-> FALSE,
              session |-> 0]

SessionsTypeOK ==
    /\ users \in [Person -> Row]
    /\ challenge \in [Wallet -> 0..MaxNonce] /\ nonces \in 0..MaxNonce
    /\ flow \in [Flow -> SignIn]
    /\ sessions \in Seq(Session) /\ lapsed \subseteq DOMAIN sessions
    /\ \A t \in DOMAIN sessions : sessions[t].person = Nobody <=> sessions[t].role = NoRole
    /\ call \in [Call -> Request]
    /\ {stored, shown} \subseteq 0..Len(sessions)
    /\ account \in Wallet /\ changes \in 0..MaxChanges

\* The process starts over a table of identities; nonces live in its memory.
InitSessions ==
    /\ users \in [Person -> {NoRow} \cup [wallet : Wallet, role : Role, revoked : {FALSE}]]
    /\ \A p, q \in Person : users[p].wallet = users[q].wallet => p = q \/ users[p] = NoRow
    /\ challenge = [w \in Wallet |-> 0] /\ nonces = 0
    /\ flow = [f \in Flow |-> NoSignIn]
    /\ sessions = <<>> /\ lapsed = {}
    /\ call = [c \in Call |-> NoRequest]
    /\ stored = 0 /\ shown = 0 /\ account \in Wallet
    /\ changes = 0

server == <<users, challenge, nonces, sessions, lapsed, changes>>
tab == <<stored, shown, account>>

OwnerOf(w) ==
    IF \E p \in Person : users[p].wallet = w
    THEN CHOOSE p \in Person : users[p].wallet = w ELSE Nobody

-----------------------------------------------------------------------------
(* Signing in: a nonce, a signature over it, a session.                    *)

\* connectWallet in the tab, for its active account, asks POST /nonce; a machine does
\* the same.  The new challenge replaces the one still open for the wallet.
Connect(f, w, route) ==
    /\ flow[f].step = "idle" /\ nonces < MaxNonce
    /\ route = "verify" => w = account
    /\ nonces' = nonces + 1
    /\ challenge' = [challenge EXCEPT ![w] = nonces']
    /\ flow' = [flow EXCEPT ![f] = [step |-> "signing", route |-> route, wallet |-> w,
                                   nonce |-> nonces', session |-> 0]]
    /\ UNCHANGED <<users, sessions, lapsed, changes, call, tab>>

\* The challenge's five minutes are over: getStoredNonce and cleanupExpired drop it.
NonceExpires(w) ==
    /\ challenge[w] # 0
    /\ challenge' = [challenge EXCEPT ![w] = 0]
    /\ UNCHANGED <<users, nonces, sessions, lapsed, changes, flow, call, tab>>

\* The signature is given and submitted, or its holder declines.
Sign(f) ==
    /\ flow[f].step = "signing"
    /\ \/ flow' = [flow EXCEPT ![f].step = "verifying"]
       \/ flow' = [flow EXCEPT ![f] = NoSignIn]
    /\ UNCHANGED <<server, call, tab>>

\* The same submission is delivered once more.
SubmitTwice(f, g) ==
    /\ flow[f].step \in {"verifying", "lookup"} /\ flow[g].step = "idle"
    /\ flow' = [flow EXCEPT ![g] = [flow[f] EXCEPT !.step = "verifying"]]
    /\ UNCHANGED <<server, call, tab>>

\* Mutant: the nonce stays usable until the account has been read.
ConsumedLater(w) == challenge

Consumed(w) == [challenge EXCEPT ![w] = 0]

\* verifyWalletLogin and verifySystemConnectorLogin up to their first await.
VerifySignature(f) ==
    LET s == flow[f] IN
    /\ s.step = "verifying"
    /\ \/ /\ challenge[s.wallet] = s.nonce
          /\ challenge' = Consumed(s.wallet)
          /\ flow' = [flow EXCEPT ![f].step = "lookup"]
       \/ /\ challenge[s.wallet] # s.nonce
          /\ flow' = [flow EXCEPT ![f] = NoSignIn]
          /\ UNCHANGED challenge
    /\ UNCHANGED <<users, nonces, sessions, lapsed, changes, call, tab>>

\* The claims of a session: those of the row, or of a wallet without identity.
BuildSession(p, w, via, n) ==
    [person |-> p, wallet |-> w, via |-> via, nonce |-> n,
     role |-> IF p = Nobody THEN NoRole ELSE users[p].role]

MayOpen(p, route) ==
    /\ p # Nobody => ~users[p].revoked
    /\ route = "connector" <=> (p # Nobody /\ users[p].role = Connector)

\* The account is read and the session signed, or the sign-in refused.
OpenSession(f) ==
    LET s == flow[f]
        p == OwnerOf(s.wallet)
    IN  /\ s.step = "lookup"
        /\ \/ /\ MayOpen(p, s.route) /\ Len(sessions) < MaxSessions
              /\ sessions' = Append(sessions, BuildSession(p, s.wallet, s.route, s.nonce))
              /\ flow' = [flow EXCEPT ![f].step = "answered", ![f].session = Len(sessions) + 1]
           \/ /\ ~MayOpen(p, s.route)
              /\ flow' = [flow EXCEPT ![f] = NoSignIn]
              /\ UNCHANGED sessions
        /\ UNCHANGED <<users, challenge, nonces, lapsed, changes, call, tab>>

\* applySession; a machine keeps its session elsewhere, and an answer may be lost.
ReceiveSession(f) ==
    LET s == flow[f] IN
    /\ s.step = "answered"
    /\ flow' = [flow EXCEPT ![f] = NoSignIn]
    /\ \/ s.route = "verify" /\ stored' = s.session /\ shown' = s.session
       \/ UNCHANGED <<stored, shown>>
    /\ UNCHANGED <<server, call, account>>
-----------------------------------------------------------------------------
(* Requests with a session: the tab sends what it has stored.              *)

Stamped(t) == sessions[t].person # Nobody /\ users[sessions[t].person].revoked

Send(c, kind) ==
    /\ call[c].step = "idle" /\ stored # 0
    \* the registration page polls for a wallet shown without an identity
    /\ kind = "status" <=> (shown # 0 /\ sessions[shown].person = Nobody)
    /\ call' = [call EXCEPT ![c] = [NoRequest EXCEPT !.step = "sent", !.kind = kind,
                                     !.token = stored, !.stamped = Stamped(stored)]]
    /\ UNCHANGED <<server, flow, tab>>

\* Mutant: revocation is looked up under the wallet of the session.
BarredByWallet(t) ==
    LET p == OwnerOf(sessions[t].wallet) IN p # Nobody /\ users[p].revoked

Barred(t) == users[sessions[t].person].revoked

Answer(c, step) ==
    /\ call' = [call EXCEPT ![c].step = step]
    /\ UNCHANGED <<server, flow, tab>>

\* verifyToken({ registered: true }) in front of the routes of the API.
Authenticate(c) ==
    LET t == call[c].token IN
    /\ call[c].step = "sent" /\ call[c].kind = "work"
    /\ \/ t \in lapsed /\ Answer(c, "unauthorized")
       \/ t \notin lapsed /\ sessions[t].person = Nobody /\ Answer(c, "refused")
       \/ /\ t \notin lapsed /\ sessions[t].person # Nobody
          /\ Answer(c, IF Barred(t) THEN "refused" ELSE "served")

MayUpgrade(p) == p # Nobody /\ users[p].role # Connector

\* GET /registration-status: getStatus of a limited session's wallet.
RegistrationStatus(c) ==
    LET t == call[c].token
        p == OwnerOf(sessions[t].wallet)
    IN  /\ call[c].step = "sent" /\ call[c].kind = "status"
        /\ \/ t \in lapsed /\ Answer(c, "unauthorized")
           \/ /\ t \notin lapsed
              /\ sessions[t].person # Nobody \/ (p # Nobody /\ ~MayUpgrade(p))
              /\ Answer(c, "refused")
           \/ t \notin lapsed /\ sessions[t].person = Nobody /\ p = Nobody /\ Answer(c, "served")
           \/ /\ t \notin lapsed /\ sessions[t].person = Nobody /\ MayUpgrade(p)
              /\ Len(sessions) < MaxSessions
              /\ sessions' = Append(sessions, BuildSession(p, sessions[t].wallet, "poll", 0))
              /\ call' = [call EXCEPT ![c].step = "served", ![c].session = Len(sessions) + 1]
              /\ UNCHANGED <<users, challenge, nonces, lapsed, changes, flow, tab>>

\* Mutant: the interceptor forgets the token and tells nobody.
SignOutQuietly == stored' = 0 /\ UNCHANGED shown

\* The tab forgets its session: storage and state together.
SignOut == stored' = 0 /\ shown' = 0

\* The answer arrives: the interceptor signs out on 401, enterPortal applies an upgrade.
Arrive(c) ==
    /\ call[c].step \notin {"idle", "sent"}
    /\ call' = [call EXCEPT ![c] = NoRequest]
    /\ \/ call[c].step = "unauthorized" /\ SignOut
       \/ /\ call[c].step = "served" /\ call[c].session # 0
          /\ stored' = call[c].session /\ shown' = call[c].session
       \/ /\ call[c].step # "unauthorized" /\ call[c].session = 0
          /\ UNCHANGED <<stored, shown>>
    /\ UNCHANGED <<server, flow, account>>
-----------------------------------------------------------------------------
(* The tab by itself.                                                      *)

Logout ==
    /\ shown # 0 /\ SignOut
    /\ UNCHANGED <<server, flow, call, account>>

\* accountsChanged: another account than the one shown ends the session.  (A wallet
\* that disconnects altogether is a Logout.)
SwitchAccount(w) ==
    /\ w # account /\ account' = w
    /\ IF shown # 0 /\ w # sessions[shown].wallet THEN SignOut ELSE UNCHANGED <<stored, shown>>
    /\ UNCHANGED <<server, flow, call>>

\* The page is loaded anew: requests and sign-ins of the tab are dropped, and the
\* user is read from the stored token unless it has expired.
Reload ==
    /\ call' = [c \in Call |-> NoRequest]
    /\ flow' = [f \in Flow |-> IF flow[f].route = "verify" THEN NoSignIn ELSE flow[f]]
    /\ IF stored \in lapsed THEN SignOut ELSE shown' = stored /\ UNCHANGED stored
    /\ UNCHANGED <<server, account>>

-----------------------------------------------------------------------------
(* What happens to identities and tokens meanwhile.                        *)

Change(p, row) ==
    /\ changes < MaxChanges /\ changes' = changes + 1
    /\ users' = [users EXCEPT ![p] = row]
    /\ call' = [c \in Call |->
                  IF ~row.revoked /\ call[c].token # 0 /\ sessions[call[c].token].person = p
                  THEN [call[c] EXCEPT !.stamped = FALSE] ELSE call[c]]
    /\ UNCHANGED <<challenge, nonces, sessions, lapsed, flow, tab>>

Register(p, w, r) ==
    /\ users[p] = NoRow /\ OwnerOf(w) = Nobody
    /\ Change(p, [wallet |-> w, role |-> r, revoked |-> FALSE])

ChangeRole(p, r) == users[p] # NoRow /\ r # users[p].role /\ Change(p, [users[p] EXCEPT !.role = r])

Revoke(p) == users[p] # NoRow /\ ~users[p].revoked /\ Change(p, [users[p] EXCEPT !.revoked = TRUE])

Reinstate(p) == users[p].revoked /\ Change(p, [users[p] EXCEPT !.revoked = FALSE])

\* The last write of executeRecovery.
Relink(p, w) ==
    /\ users[p] # NoRow /\ OwnerOf(w) = Nobody
    /\ Change(p, [users[p] EXCEPT !.wallet = w])

SessionExpires(t) ==
    /\ t \notin lapsed
    /\ lapsed' = lapsed \cup {t}
    /\ UNCHANGED <<users, challenge, nonces, sessions, changes, flow, call, tab>>

\* The process starts again: the nonce store is in its memory.
Restart ==
    /\ challenge' = [w \in Wallet |-> 0]
    /\ flow' = [f \in Flow |-> IF flow[f].step = "lookup" THEN NoSignIn ELSE flow[f]]
    /\ UNCHANGED <<users, nonces, sessions, lapsed, changes, call, tab>>

SessionsNext ==
    \/ \E f \in Flow : \/ \E w \in Wallet, route \in {"verify", "connector"} : Connect(f, w, route)
                       \/ Sign(f) \/ VerifySignature(f) \/ OpenSession(f) \/ ReceiveSession(f)
                       \/ \E g \in Flow : SubmitTwice(f, g)
    \/ \E w \in Wallet : NonceExpires(w) \/ SwitchAccount(w)
    \/ \E c \in Call : \/ \E kind \in {"work", "status"} : Send(c, kind)
                       \/ Authenticate(c) \/ RegistrationStatus(c) \/ Arrive(c)
    \/ Logout \/ Reload \/ Restart
    \/ \E p \in Person : \/ \E w \in Wallet, r \in Role : Register(p, w, r)
                         \/ \E r \in Role : ChangeRole(p, r)
                         \/ \E w \in Wallet : Relink(p, w)
                         \/ Revoke(p) \/ Reinstate(p)
    \/ \E t \in DOMAIN sessions : SessionExpires(t)

SessionsSpec == InitSessions /\ [][SessionsNext]_sessionVars

-----------------------------------------------------------------------------
(* However often a submission is delivered, one signature opens one        *)
(* session: verifyWalletLogin consumes the nonce before it yields.         *)
OneSessionPerSignature ==
    \A s, t \in DOMAIN sessions :
        (sessions[s].nonce = sessions[t].nonce /\ sessions[s].nonce # 0) => s = t

(* A request that was sent after its sender's revocation is not served,    *)
(* even with a session opened for another wallet of his, or before a       *)
(* reinstatement that was itself revoked.                                  *)
RevokedAreNotServed ==
    \A c \in Call : call[c].stamped => call[c].step # "served"
=============================================================================
