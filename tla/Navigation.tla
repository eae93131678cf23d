----------------------------- MODULE Navigation -----------------------------
(***************************************************************************)
(* Where the browser tab is: the routes of App.jsx and who may stay on     *)
(* them, the redirects of ProtectedRoute, DashboardRedirect and            *)
(* RegistrationPage, and the ways into and out of a portal (LoginModal,    *)
(* SiteHeader, Sidebar, Topbar), while Sessions goes on.                   *)
(***************************************************************************)
EXTENDS Sessions

VARIABLES
    path,       \* the route of the tab
    entering,   \* connectStep is "done": the sign-in dialog is about to leave
    hops        \* how often the tab was redirected since its last step of another kind

navigationVars == <<sessionVars, path, entering, hops>>

Human == {"ADMIN", "MANAGER", "AUDITOR", "USER"}

\* The routes, those with one guard and one home taken together.
Path == {"/", "/login", "/register", "/dashboard", "/profile",
         "/admin/dashboard", "/manager/dashboard", "/transfers", "/auditor/dashboard",
         "/audit/explorer", "/user/dashboard"}

\* The roles the nested ProtectedRoutes let through; the other routes have none.
allowedRoles == [p \in Path \ {"/", "/login", "/register", "/dashboard"} |->
    CASE p = "/profile" -> Human
      [] p = "/admin/dashboard" -> {"ADMIN"}
      [] p \in {"/manager/dashboard", "/transfers"} -> {"ADMIN", "MANAGER"}
      [] p \in {"/auditor/dashboard", "/audit/explorer"} -> {"ADMIN", "AUDITOR"}
      [] p = "/user/dashboard" -> {"USER"}]

Guarded == DOMAIN allowedRoles

\* roleHomePath, with the fallback all its callers give it.
roleHomePath(role) ==
    CASE role = "ADMIN" -> "/admin/dashboard" [] role = "MANAGER" -> "/manager/dashboard"
      [] role = "AUDITOR" -> "/auditor/dashboard" [] role = "USER" -> "/user/dashboard"
      [] OTHER -> "/"

Registered(t) == sessions[t].person # Nobody

RoleOf(t) == sessions[t].role

\* Where rendering a route takes the tab if it shows session t, or nobody (0).
ProtectedRoute(p, t) ==
    IF t = 0 THEN "/login"
    ELSE IF ~Registered(t) THEN "/register"
    ELSE IF RoleOf(t) \in allowedRoles[p] THEN p ELSE roleHomePath(RoleOf(t))

RegistrationPage(t) ==
    IF t = 0 THEN "/login"
    ELSE IF Registered(t) THEN roleHomePath(RoleOf(t)) ELSE "/register"

DashboardRedirect(t) ==
    IF t = 0 THEN "/" ELSE IF ~Registered(t) THEN "/register" ELSE roleHomePath(RoleOf(t))

Rendered(p, t) ==
    CASE p \in Guarded -> ProtectedRoute(p, t)
      [] p = "/register" -> RegistrationPage(t)
      [] p = "/dashboard" -> DashboardRedirect(t)
      [] OTHER -> p

Settled == Rendered(path, shown) = path

NavigationTypeOK ==
    /\ SessionsTypeOK
    /\ path \in Path /\ entering \in BOOLEAN /\ hops \in Nat

InitNavigation == path = "/" /\ entering = FALSE /\ hops = 0

-----------------------------------------------------------------------------
Redirect ==
    /\ ~Settled
    /\ path' = Rendered(path, shown) /\ hops' = hops + 1
    /\ UNCHANGED <<sessionVars, entering>>

\* What the header and the sidebar offer.  The header's menu takes anybody without
\* a portal to the users' one.
Offered ==
    IF shown = 0 THEN {"/"}
    ELSE {"/", "/profile"}
         \cup (IF RoleOf(shown) \in Human THEN {roleHomePath(RoleOf(shown))}
               ELSE {"/user/dashboard"})
         \cup (IF RoleOf(shown) \in {"ADMIN", "MANAGER"} THEN {"/transfers"} ELSE {})
         \cup (IF RoleOf(shown) \in {"ADMIN", "AUDITOR"} THEN {"/audit/explorer"} ELSE {})

Visit(p) ==
    /\ Settled /\ p \in Offered
    /\ path' = p /\ hops' = 0
    /\ UNCHANGED <<sessionVars, entering>>

\* An address is typed, or the page reloaded: the tab starts anew.
Open(p) ==
    /\ Reload /\ path' = p
    /\ entering' = FALSE /\ hops' = 0

\* The header and the registration page go home after a logout; the sidebar and the
\* top bar leave the rest to the guard of the page.
LogoutFrom(p) ==
    /\ Logout /\ p \in {path, "/"}
    /\ path' = p /\ entering' = FALSE /\ hops' = 0

\* An answer arrives.  enterPortal takes a tab that waits for its registration into
\* its portal, wherever it has gone since; a 401 leaves it where it is.
ArriveAt(c) ==
    /\ Arrive(c) /\ hops' = 0
    /\ path' = IF call[c].session # 0 THEN roleHomePath(RoleOf(call[c].session)) ELSE path
    /\ entering' = (entering /\ call[c].step # "unauthorized")

\* The sign-in is complete: the dialog shows it for a moment.
SignedIn(f) ==
    /\ ReceiveSession(f) /\ hops' = 0
    /\ entering' = (entering \/ stored' # stored)
    /\ UNCHANGED path

\* The dialog closes, and its destination is that of the user shown now.
EnterPortal ==
    /\ entering /\ shown # 0 /\ entering' = FALSE
    /\ path' = (IF Registered(shown) THEN roleHomePath(RoleOf(shown)) ELSE "/register")
    /\ hops' = 0
    /\ UNCHANGED sessionVars

Switch(w) ==
    /\ SwitchAccount(w) /\ hops' = 0
    /\ entering' = (entering /\ shown' # 0)
    /\ UNCHANGED path

\* Everything else in Sessions goes on behind the page.
Behind ==
    /\ \/ \E f \in Flow : \/ \E w \in Wallet, r \in {"verify", "connector"} : Connect(f, w, r)
                          \/ Sign(f) \/ VerifySignature(f) \/ OpenSession(f)
       \/ \E c \in Call : \/ \E kind \in {"work", "status"} : Send(c, kind)
                          \/ Authenticate(c) \/ RegistrationStatus(c)
       \/ \E t \in DOMAIN sessions : SessionExpires(t)
    /\ UNCHANGED <<path, entering, hops>>

NavigationNext ==
    \/ Redirect \/ EnterPortal \/ Behind
    \/ \E p \in Path : Visit(p) \/ Open(p) \/ LogoutFrom(p)
    \/ \E c \in Call : ArriveAt(c)
    \/ \E f \in Flow : SignedIn(f)
    \/ \E w \in Wallet : Switch(w)

NavigationSpec == InitSessions /\ InitNavigation /\ [][NavigationNext]_navigationVars

-----------------------------------------------------------------------------
(* Wherever sign-ins, approvals, sign-outs and late answers have left it,  *)
(* the tab is redirected once at most and then stays on a page; and on a   *)
(* page with a guard it sends the token of somebody whose role may be      *)
(* there.                                                                  *)
SettledIsOwn ==
    /\ hops <= 1
    /\ Settled /\ path \in Guarded => stored # 0 /\ RoleOf(stored) \in allowedRoles[path]
=============================================================================
