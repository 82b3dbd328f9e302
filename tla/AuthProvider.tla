----------------------------- MODULE AuthProvider -----------------------------
(***************************************************************************)
(* One browser with one page of the frontend in front of the sessions of   *)
(* TargetSessions: its cookie, and what AuthProvider believes of it.       *)
(*                                                                         *)
(* A fetch is answered in two steps, as the browser takes the cookie from  *)
(* the head of the answer and the page goes on when it has the body.  The  *)
(* page begins by asking for the session that an earlier page may have     *)
(* left behind; the login form can be used before that is answered.        *)
(***************************************************************************)
EXTENDS TargetSessions

VARIABLES
    cookie,    \* the session cookie
    ui,        \* the state of AuthProvider
    overlaps   \* history: a login, logout or restore was sent while another was under way

browserVars == <<cookie, ui, overlaps>>

vars == <<options, now, roles, store, issued, call, closed, owner, cookie, ui, overlaps>>

AuthKinds == {"login", "session", "logout"}

Anonymous == [status |-> "anonymous", user |-> Nobody, rights |-> {}]

\* What the answer to a login or a restore says.
As(c) == [status |-> "authenticated", user |-> call[c].user, rights |-> call[c].rights]

AuthPending == \E c \in Calls : call[c].kind \in AuthKinds /\ call[c].at # "idle"

-------------------------------------------------------------------------------
(* What the user does. *)

SubmitLogin(c, u, tfs) ==
    /\ ui.status \in {"anonymous", "error"}
    /\ Send(c, "login", cookie, u, tfs)
    /\ ui' = [Anonymous EXCEPT !.status = "authenticating"]
    /\ overlaps' = (overlaps \/ AuthPending)
    /\ UNCHANGED cookie

ClickLogout(c) ==
    /\ ui.status = "authenticated"
    /\ Send(c, "logout", cookie, Nobody, FALSE)
    /\ overlaps' = (overlaps \/ AuthPending)
    /\ UNCHANGED <<cookie, ui>>

\* Pages fetch, and their forms save; none tells AuthProvider of a refusal.
Fetch(c, kind) ==
    /\ ui.status = "authenticated"
    /\ Send(c, kind, cookie, Nobody, FALSE)
    /\ UNCHANGED browserVars

-------------------------------------------------------------------------------
(* What the browser does. *)

\* Slip: the login is sent without credentials, and its cookie not taken.
IgnoreCookie(c) == cookie

\* The cookie after an answer.
CookieOf(c) == IF call[c].kind = "login" THEN call[c].sid ELSE NoCookie

TakeCookie(c) ==
    /\ Deliver(c)
    /\ cookie' = CookieOf(c)
    /\ UNCHANGED <<ui, overlaps>>

LoggedIn(c) ==
    /\ Is(c, {"login"}, "delivered")
    /\ Finish(c)
    /\ ui' = As(c)
    /\ UNCHANGED <<cookie, overlaps>>

\* Slip: an error leaves the form as it is.
LoginHangs(c) ==
    /\ Is(c, {"login"}, "failed")
    /\ Finish(c)
    /\ UNCHANGED browserVars

LoginFailed(c) ==
    /\ Is(c, {"login"}, "failed")
    /\ Finish(c)
    /\ ui' = [Anonymous EXCEPT !.status = "error"]
    /\ UNCHANGED <<cookie, overlaps>>

Restored(c) ==
    /\ Is(c, {"session"}, "answered")
    /\ Finish(c)
    /\ ui' = As(c)
    /\ UNCHANGED <<cookie, overlaps>>

NotRestored(c) ==
    /\ Is(c, {"session"}, "failed")
    /\ Finish(c)
    /\ UNCHANGED browserVars

\* Slip: the status is reset and the rest stays.
LoggedOutPartly(c) ==
    /\ Is(c, {"logout"}, "delivered")
    /\ Finish(c)
    /\ ui' = [ui EXCEPT !.status = "anonymous"]
    /\ UNCHANGED <<cookie, overlaps>>

LoggedOut(c) ==
    /\ Is(c, {"logout"}, "delivered")
    /\ Finish(c)
    /\ ui' = Anonymous
    /\ UNCHANGED <<cookie, overlaps>>

\* The fetch throws before the state is reset.
LogoutFailed(c) ==
    /\ Is(c, {"logout"}, "failed")
    /\ Finish(c)
    /\ UNCHANGED browserVars

-------------------------------------------------------------------------------

\* The first session of an earlier page, if there was one.
Earlier ==
    \E u \in Users, tfs \in BOOLEAN :
        LET rights == IF u \in Mapped THEN Grant(roles[u], tfs) ELSE DirectRights
        IN  /\ u \in Mapped \/ (tfs /\ ~options.mapping)
            /\ cookie = 1
            /\ issued = 1
            /\ store = [s \in Ids |->
                   IF s = 1 THEN [user |-> u, rights |-> rights, cred |-> IF tfs THEN u ELSE Nobody,
                                  expires |-> Lifetime, born |-> 0,
                                  had |-> IF u \in Mapped THEN roles[u] ELSE {}]
                   ELSE NoSession]
            /\ owner = [s \in Ids |-> IF s = 1 THEN u ELSE Nobody]

None ==
    /\ cookie = NoCookie
    /\ issued = 0
    /\ store = [s \in Ids |-> NoSession]
    /\ owner = [s \in Ids |-> Nobody]

\* The page is open and has asked for its session.
Init ==
    /\ options \in Options
    /\ now = 0
    /\ roles \in [Mapped -> RoleSets]
    /\ Earlier \/ None
    /\ \E c \in Calls : call = [[d \in Calls |-> Idle] EXCEPT ![c].at = "sent", ![c].sid = cookie]
    /\ closed = {}
    /\ ui = Anonymous
    /\ overlaps = FALSE

\* The page goes on after a fetch.
Continue(c) ==
    \/ TakeCookie(c)
    \/ LoggedIn(c) \/ LoginFailed(c)
    \/ Restored(c) \/ NotRestored(c)
    \/ LoggedOut(c) \/ LogoutFailed(c)

Next ==
    \/ \E c \in Calls :
          \/ \E u \in Users, tfs \in BOOLEAN : SubmitLogin(c, u, tfs)
          \/ ClickLogout(c)
          \/ \E kind \in Routes : Fetch(c, kind)
          \/ Handle(c) /\ UNCHANGED browserVars
          \/ Continue(c)
    \/ World /\ UNCHANGED browserVars

Spec == Init /\ [][Next]_vars

-------------------------------------------------------------------------------
(* Properties. *)

TypeOK ==
    /\ ServerTypeOK
    /\ cookie \in 0..issued
    /\ ui \in [status : {"anonymous", "authenticating", "authenticated", "error"},
               user : Users \cup {Nobody}, rights : SUBSET Rights]
    /\ ui.status # "authenticated" => ui.user = Nobody /\ ui.rights = {}
    /\ overlaps \in BOOLEAN

\* Whoever the page shows is the one whose session the cookie names, with the
\* permissions of that session as long as it lasts, whatever was lost or refused;
\* unless a login, a logout or a restore was sent while another was under way.
ShownIsLoggedIn ==
    ui.status = "authenticated" /\ ~overlaps /\ ~AuthPending =>
        /\ cookie # NoCookie
        /\ owner[cookie] = ui.user
        /\ store[cookie] # NoSession => store[cookie].rights = ui.rights

\* The login form waits only while a login is under way, and every way in which
\* one can end sets the form free.
WaitingIsForLogin ==
    ui.status = "authenticating" => \E c \in Calls : call[c].kind = "login" /\ call[c].at # "idle"

===============================================================================
