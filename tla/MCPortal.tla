------------------------------ MODULE MCPortal ------------------------------
(***************************************************************************)
(* The parts of the portal between a person and the server, each explored  *)
(* by itself while the others rest in a fixed state.                       *)
(*                                                                         *)
(* Sign-ins start with one person, known or not, and two wallets: the      *)
(* identity is registered, demoted to a connector, moved to the other      *)
(* wallet, revoked and reinstated while sign-ins, polls and requests are   *)
(* under way in one tab and one machine.  The tab moves between pages      *)
(* where a registration has just been approved, and a sign-in is under     *)
(* way.  Passes start where a manager of each unit and an engineer have    *)
(* signed in, and no further challenge is drawn; custody moves where a     *)
(* manager and a second person have, the manager with a call served.  The  *)
(* trail is walked through or the assistant is asked, one at a time.       *)
(* Every page of the console and every dialog is opened.                   *)
(***************************************************************************)
EXTENDS Visibility, Navigation, Assistant, Console, Dialogs

CONSTANTS w1, w2, w3, f1, f2, ada, ben, eve, radar, cyber,
          minted, tapped, x1, x2, a1, a2, i1, i2, t1, t2, radome, lab, lobby, shared

MCWallet == {w1, w2, w3}
MCFlow == {f1, f2}
MCPerson == {ada, ben, eve}
MCSbuOf == (ada :> radar) @@ (ben :> cyber) @@ (eve :> radar)
MCAssetSbu == radome :> radar
MCZoneSbu == (lab :> radar) @@ (lobby :> shared)
MaxRequests == 3     \* bound on the transfer requests

SessionOf(p, w, r) ==
    [person |-> p, wallet |-> w, role |-> r, via |-> "verify", nonce |-> 0]

WalletOf(p) == CASE p = ada -> w1 [] p = ben -> w2 [] OTHER -> w3

\* Everybody has an identity, with ben in a given role, and some have signed in.
Registered3(role, signedIn) ==
    /\ users = [p \in Person |->
                  [wallet |-> WalletOf(p), revoked |-> FALSE,
                   role |-> CASE p = ada -> "MANAGER" [] p = ben -> role [] OTHER -> "USER"]]
    /\ sessions = signedIn
    /\ challenge = [w \in Wallet |-> 0] /\ nonces = MaxNonce
    /\ lapsed = {} /\ account = w1

InitIssuing ==
    /\ Registered3("MANAGER", <<SessionOf(ada, w1, "MANAGER"), SessionOf(ben, w2, "MANAGER")>>)
    /\ flow = [f \in Flow |-> NoSignIn]
    /\ call = [c \in Call |-> NoRequest]
    /\ stored \in 1..2 /\ shown = stored /\ changes = MaxChanges - 1

InitCustody ==
    /\ \E r \in {"USER", "MANAGER", "ADMIN", "AUDITOR"} :
           Registered3(r, <<SessionOf(ada, w1, "MANAGER"), SessionOf(ben, w2, r)>>)
    /\ flow = [f \in Flow |-> NoSignIn]
    /\ call = [c \in Call |-> [NoRequest EXCEPT !.step = "served", !.token = 1]]
    /\ stored = 1 /\ shown = stored /\ changes = MaxChanges

InitBrowsing ==
    /\ \E r \in Role : Registered3(r, <<SessionOf(Nobody, w2, NoRole)>>)
    /\ flow = [f \in Flow |-> IF f = f1 THEN [NoSignIn EXCEPT !.step = "lookup", !.wallet = w2]
                              ELSE NoSignIn]
    /\ call = [c \in Call |-> NoRequest]
    /\ stored \in 0..1 /\ shown = stored /\ changes = MaxChanges

\* In the first part at most one person is registered and w3 is nobody's.
OnePerson ==
    /\ users[ben] = NoRow /\ users[eve] = NoRow
    /\ users[ada].wallet # w3 /\ users[ada].role \in {NoRole, "USER", "SYSTEM_CONNECTOR"}
    /\ account # w3 /\ \A f \in Flow : flow[f].wallet # w3

FirstUser == account = w1 /\ users[ada].wallet # w2 /\ users[ada].role # "SYSTEM_CONNECTOR"

VARIABLE part       \* which part of the portal moves: constant in a behavior

portalVars == <<visibilityVars, path, entering, hops, assistantVars, consoleVars, dialogVars,
                part>>

MCFilter == {{}, {minted}, {tapped}}
MCPick == {x1, x2}
MCAct == {a1, a2}
MCItem == {i1, i2}
MCAttempt == {t1, t2}

Rested == InitIssuing /\ stored = 1

MCInit ==
    /\ part \in {"sign-in", "browsing", "passes", "custody", "trail", "console", "dialogs"}
    /\ CASE part = "sign-in" -> InitSessions /\ OnePerson /\ FirstUser
         [] part = "browsing" -> InitBrowsing
         [] part = "passes" -> InitIssuing
         [] part = "custody" -> InitCustody
         [] OTHER -> Rested
    /\ InitNavigation /\ InitPasses /\ InitTrail /\ InitAssistant /\ InitConsole
    /\ InitVisibility /\ owner[radome] \in (IF part = "custody" THEN {ada, eve} ELSE {ada})
    /\ InitDialogs
    /\ part # "console" => page = GuardiansPanel
    /\ part # "dialogs" => form = LockdownDialog

\* While passes are handed out nobody signs in.
NobodySignsIn ==
    /\ users[eve].wallet = w3 /\ \A f \in Flow : flow[f] = NoSignIn
    /\ \A p \in Person : users[p].role # "AUDITOR"

\* Nobody new signs in while custody moves; ada's call stays served.
FewRequests == Cardinality(requests') <= MaxRequests

\* The two managers use the tab in turn.
TakeOver == /\ \A c \in Call : call[c].step = "idle"
            /\ stored' \in 1..2 \ {stored} /\ shown' = stored'
            /\ UNCHANGED <<server, flow, call, account, passes, authority>>

OneAtATime == walk = NotWalking \/ (question = NoQuestion /\ turn = NoTurn)

browsing == <<path, entering, hops>>
custody == <<owner, requests>>

MCNext ==
    /\ UNCHANGED part
    /\ \/ /\ part = "sign-in" /\ PassesNext /\ OnePerson'
          /\ UNCHANGED <<browsing, custody, assistantVars, consoleVars, dialogVars>>
       \/ /\ part = "browsing" /\ NavigationNext
          /\ UNCHANGED <<passes, authority, custody, assistantVars, consoleVars, dialogVars>>
       \/ /\ part = "passes" /\ (PassesNext \/ TakeOver) /\ NobodySignsIn'
          /\ UNCHANGED <<browsing, custody, assistantVars, consoleVars, dialogVars>>
       \/ /\ part = "custody" /\ UNCHANGED sessionVars /\ VisibilityNext /\ FewRequests
          /\ UNCHANGED <<browsing, assistantVars, consoleVars, dialogVars>>
       \/ /\ part = "trail" /\ AssistantNext /\ OneAtATime'
          /\ UNCHANGED <<passVars, browsing, custody, consoleVars, dialogVars>>
       \/ /\ part = "console" /\ ConsoleNext
          /\ UNCHANGED <<passVars, browsing, custody, assistantVars, dialogVars>>
       \/ /\ part = "dialogs" /\ DialogsNext
          /\ UNCHANGED <<passVars, browsing, custody, assistantVars, consoleVars>>

MCSpec == MCInit /\ [][MCNext]_portalVars

\* Items and attempts are few enough to be told apart.
Symmetry == Permutations(MCFlow) \cup Permutations(MCPick) \cup Permutations(MCAct)
=============================================================================
