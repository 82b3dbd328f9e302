---------------------------- MODULE TargetSessions ----------------------------
(***************************************************************************)
(* The sessions of the API: login, which copies a user's permissions into  *)
(* a session and keeps the TFS credential with it; the lookups every route *)
(* makes before it serves; logout, expiry and restart.                     *)
(*                                                                         *)
(* Requests are served at once by many threads.  Permissions change while  *)
(* sessions last.  Here requests come from anywhere, at any time, with any *)
(* cookie that was ever set; AuthProvider puts a browser in front.         *)
(***************************************************************************)
EXTENDS Naturals

CONSTANTS
    Users,       \* who may log in
    Mapped,      \* those of them with a user of their own in the identity store
    Nobody,      \* no user
    Calls,       \* requests under way
    Routes,      \* the kinds of request that are checked for permissions
    RoleSets,    \* the permissions a user may hold through roles
    Options,     \* settings of the API
    Lifetime,    \* SessionLifetimeHours, in ticks
    MaxSessions, \* bound: sessions ever created
    MaxTime      \* bound: ticks

\* What may be done in the one form of the model.
Rights == {"ACCESS", "VIEW", "ADD", "EDIT"}

Option == [write : BOOLEAN, mapping : BOOLEAN]

ASSUME SessionAssumption ==
    /\ Mapped \subseteq Users
    /\ Nobody \notin Users
    /\ Routes \subseteq {"read", "create", "edit", "data"}
    /\ RoleSets \subseteq SUBSET Rights
    /\ Options \subseteq Option
    /\ Lifetime \in Nat \ {0}
    /\ MaxSessions \in Nat \ {0}
    /\ MaxTime \in Nat

VARIABLES
    options,   \* Tfs:WriteEnabled, Tfs:RequireIdentityMapping
    now,       \* the clock
    roles,     \* roles[u]: what GetPermissionsAsync would read
    store,     \* the dictionary of sessions, by id
    issued,    \* how many ids were drawn; they are random, hence never drawn twice
    call,      \* the requests
    closed,    \* history: sessions ended by logout or restart
    owner      \* history: owner[s], who logged in for s

serverVars == <<options, now, roles, store, issued, call, closed, owner>>

Ids == 1..MaxSessions

NoCookie == 0

NoSession == [user |-> Nobody, rights |-> {}, cred |-> Nobody, expires |-> 0, had |-> {}, born |-> 0]

\* had and born are history: what the user held during the login, and its time.
Session == [user : Users, rights : SUBSET Rights, cred : Users \cup {Nobody}, expires : Nat,
            had : SUBSET Rights, born : Nat]

TfsKinds == {"read", "create", "edit"}

Kinds == Routes \cup {"login", "session", "logout"}

Stages == {"idle", "sent", "verified", "granted", "checked", "calling",
           "answered", "failed", "delivered"}

\* sid: the cookie it came with, and after a login the one it sets; user: who
\* logs in or was found; had: what the user held at some moment of the login.
Call == [kind : Kinds, at : Stages, sid : Ids \cup {NoCookie}, user : Users \cup {Nobody},
         tfs : BOOLEAN, rights : SUBSET Rights, cred : Users \cup {Nobody}, had : SUBSET Rights]

\* A request of which only this is left.
Only(kind, stage) == [kind |-> kind, at |-> stage, sid |-> NoCookie, user |-> Nobody,
                      tfs |-> FALSE, rights |-> {}, cred |-> Nobody, had |-> {}]

Idle == Only("session", "idle")

Is(c, kinds, stage) == call[c].kind \in kinds /\ call[c].at = stage

Moved(c, stage) == [call EXCEPT ![c].at = stage]

\* A request is over, and what it carried with it.  How a route ended is of no
\* consequence to any session.
Ended(c, stage) ==
    IF call[c].kind \in Routes THEN Idle ELSE Only(call[c].kind, stage)

Over(c, stage) == [call EXCEPT ![c] = Ended(c, stage)]

-------------------------------------------------------------------------------
(* Rights. *)

\* CanRead, CanCreate and CanEdit; the routes of the other pages are reads.
Need(kind) ==
    CASE kind \in {"read", "data"} -> {"ACCESS", "VIEW"}
      [] kind = "create" -> {"ACCESS", "ADD"}
      [] kind = "edit" -> {"ACCESS", "EDIT"}

\* Slip: the form need not be granted.
GrantToAll(rights, tfs) == IF tfs /\ options.write THEN rights \cup {"ADD", "EDIT"} ELSE rights

\* GrantTfsWriteCapability, for sessions of TFS.
Grant(rights, tfs) ==
    IF tfs /\ options.write /\ {"ACCESS", "VIEW"} \subseteq rights
    THEN rights \cup {"ADD", "EDIT"}
    ELSE rights

\* CreateTfsSessionPermissions, for users the identity store does not map.
DirectRights == {"ACCESS", "VIEW"} \cup (IF options.write THEN {"ADD", "EDIT"} ELSE {})

-------------------------------------------------------------------------------
(* Lookups in the dictionary. *)

Valid(s) == s # NoCookie /\ store[s] # NoSession /\ now < store[s].expires

\* A lookup takes an expired session out.
Swept(s) == IF s # NoCookie /\ ~Valid(s) THEN [store EXCEPT ![s] = NoSession] ELSE store

-------------------------------------------------------------------------------
(* Requests. *)

Send(c, kind, s, u, tfs) ==
    /\ call[c].at = "idle"
    /\ call' = [call EXCEPT ![c] =
                   [kind |-> kind, at |-> "sent", sid |-> s, user |-> u, tfs |-> tfs, rights |-> {},
                    cred |-> Nobody, had |-> IF kind = "login" /\ u \in Mapped THEN roles[u] ELSE {}]]
    /\ UNCHANGED <<options, now, roles, store, issued, closed, owner>>

\* Who logs in with a password of this application is in its store.
IsLocal(c) == ~call[c].tfs /\ call[c].user \in Mapped

\* TFS confirms the user, or the password does.
Verify(c) ==
    /\ Is(c, {"login"}, "sent")
    /\ call[c].tfs \/ IsLocal(c)
    /\ call' = Moved(c, "verified")
    /\ UNCHANGED <<options, now, roles, store, issued, closed, owner>>

\* TFS does not answer or says no, the password is wrong, the user is locked.
Reject(c) ==
    /\ Is(c, {"login"}, "sent")
    /\ call' = Over(c, "failed")
    /\ UNCHANGED <<options, now, roles, store, issued, closed, owner>>

\* The permissions of a mapped user are read ...
ReadRights(c) ==
    /\ Is(c, {"login"}, "verified")
    /\ call[c].user \in Mapped
    /\ call' = [call EXCEPT ![c] =
                   [@ EXCEPT !.at = "granted", !.rights = Grant(roles[call[c].user], call[c].tfs)]]
    /\ UNCHANGED <<options, now, roles, store, issued, closed, owner>>

\* ... one of TFS who is not mapped gets what the settings allow ...
GrantDirectly(c) ==
    /\ Is(c, {"login"}, "verified")
    /\ call[c].user \notin Mapped
    /\ ~options.mapping
    /\ call' = [call EXCEPT ![c] = [@ EXCEPT !.at = "granted", !.rights = DirectRights]]
    /\ UNCHANGED <<options, now, roles, store, issued, closed, owner>>

\* ... or, where a mapping is required, nothing.
RefuseUnmapped(c) ==
    /\ Is(c, {"login"}, "verified")
    /\ call[c].user \notin Mapped
    /\ options.mapping
    /\ call' = Over(c, "failed")
    /\ UNCHANGED <<options, now, roles, store, issued, closed, owner>>

\* Slip: a browser that has a session keeps its id.
IdOfCookie(c) == IF call[c].sid # NoCookie THEN call[c].sid ELSE issued + 1

\* The id of the session that a login creates.
NewId(c) == issued + 1

CreateSession(c) ==
    /\ Is(c, {"login"}, "granted")
    /\ issued < MaxSessions
    /\ LET s == NewId(c)
           u == call[c].user
       IN  /\ store' = [store EXCEPT ![s] =
                  [user |-> u, rights |-> call[c].rights,
                   cred |-> IF call[c].tfs THEN u ELSE Nobody, expires |-> now + Lifetime,
                   had |-> call[c].had, born |-> now]]
           /\ owner' = [owner EXCEPT ![s] = u]
           /\ call' = [call EXCEPT ![c] = [@ EXCEPT !.at = "answered", !.sid = s, !.had = {}]]
    /\ issued' = issued + 1
    /\ UNCHANGED <<options, now, roles, closed>>

\* GET auth/session.
ServeSession(c) ==
    /\ Is(c, {"session"}, "sent")
    /\ LET s == call[c].sid
       IN  /\ call' = IF Valid(s)
                      THEN [call EXCEPT ![c] = [@ EXCEPT !.at = "answered", !.user = store[s].user,
                                                         !.rights = store[s].rights]]
                      ELSE Over(c, "failed")
           /\ store' = Swept(s)
    /\ UNCHANGED <<options, now, roles, issued, closed, owner>>

\* Slip: the cookie is deleted and the session stays.
LogoutKeepsSession(c) ==
    /\ Is(c, {"logout"}, "sent")
    /\ call' = Over(c, "answered")
    /\ closed' = closed \cup ({call[c].sid} \ {NoCookie})
    /\ UNCHANGED <<options, now, roles, store, issued, owner>>

\* POST auth/logout.
ServeLogout(c) ==
    /\ Is(c, {"logout"}, "sent")
    /\ call' = Over(c, "answered")
    /\ store' = [s \in Ids |-> IF s = call[c].sid THEN NoSession ELSE store[s]]
    /\ closed' = closed \cup ({call[c].sid} \ {NoCookie})
    /\ UNCHANGED <<options, now, roles, issued, owner>>

\* Every other route looks the session up and checks its permissions ...
PassGate(c) ==
    /\ Is(c, Routes, "sent")
    /\ Valid(call[c].sid)
    /\ Need(call[c].kind) \subseteq store[call[c].sid].rights
    /\ call' = [call EXCEPT ![c] = [@ EXCEPT !.at = "checked", !.user = store[call[c].sid].user]]
    /\ UNCHANGED <<options, now, roles, store, issued, closed, owner>>

RefuseAtGate(c) ==
    /\ Is(c, Routes, "sent")
    /\ Valid(call[c].sid) => ~(Need(call[c].kind) \subseteq store[call[c].sid].rights)
    /\ call' = Over(c, "failed")
    /\ store' = Swept(call[c].sid)
    /\ UNCHANGED <<options, now, roles, issued, closed, owner>>

\* ... those of TFS look its credential up ...
TakeCredential(c) ==
    /\ Is(c, TfsKinds, "checked")
    /\ Valid(call[c].sid)
    /\ store[call[c].sid].cred # Nobody
    /\ call' = [call EXCEPT ![c] = [@ EXCEPT !.at = "calling", !.cred = store[call[c].sid].cred]]
    /\ UNCHANGED <<options, now, roles, store, issued, closed, owner>>

RefuseCredential(c) ==
    /\ Is(c, TfsKinds, "checked")
    /\ Valid(call[c].sid) => store[call[c].sid].cred = Nobody
    /\ call' = Over(c, "failed")
    /\ store' = Swept(call[c].sid)
    /\ UNCHANGED <<options, now, roles, issued, closed, owner>>

\* ... and a reader answers, be it with an error.
Answer(c) ==
    /\ Is(c, TfsKinds, "calling") \/ Is(c, {"data"}, "checked")
    /\ call' = Over(c, "answered")
    /\ UNCHANGED <<options, now, roles, store, issued, closed, owner>>

\* A request or its answer is lost; a handler that awaits something is cancelled.
Lose(c) ==
    /\ call[c].at \notin {"idle", "failed", "delivered"}
    /\ call' = Over(c, "failed")
    /\ UNCHANGED <<options, now, roles, store, issued, closed, owner>>

\* The head of an answer has come, with its Set-Cookie ...
Deliver(c) ==
    /\ Is(c, {"login", "logout"}, "answered")
    /\ call' = Moved(c, "delivered")
    /\ UNCHANGED <<options, now, roles, store, issued, closed, owner>>

\* ... and the client has taken note of how a request ended.
Finish(c) ==
    /\ \/ Is(c, {"login", "logout"}, "delivered")
       \/ Is(c, {"session"}, "answered")
       \/ call[c].at = "failed"
    /\ call' = [call EXCEPT ![c] = Idle]
    /\ UNCHANGED <<options, now, roles, store, issued, closed, owner>>

-------------------------------------------------------------------------------
(* The rest of the world. *)

Tick ==
    /\ now < MaxTime
    /\ now' = now + 1
    /\ UNCHANGED <<options, roles, store, issued, call, closed, owner>>

\* Roles are granted and revoked in the database.
ChangeRoles(u) ==
    /\ \E r \in RoleSets \ {roles[u]} :
          /\ roles' = [roles EXCEPT ![u] = r]
          /\ call' = [c \in Calls |->
                 IF call[c].user = u /\ (Is(c, {"login"}, "sent") \/ Is(c, {"login"}, "verified"))
                 THEN [call[c] EXCEPT !.had = @ \cup r]
                 ELSE call[c]]
    /\ UNCHANGED <<options, now, store, issued, closed, owner>>

\* The API starts again: the dictionary is empty, what it was doing is lost.
Restart ==
    /\ store' = [s \in Ids |-> NoSession]
    /\ closed' = 1..issued
    /\ call' = [c \in Calls |->
           IF call[c].at \in {"idle", "delivered"} THEN call[c] ELSE Ended(c, "failed")]
    /\ UNCHANGED <<options, now, roles, issued, owner>>

-------------------------------------------------------------------------------

Gate(c) == PassGate(c) \/ RefuseAtGate(c)

\* Every route of tfs/...: the session, its permissions, its credential, the
\* reader.
ServeTfs(c) ==
    /\ call[c].kind \in TfsKinds
    /\ Gate(c) \/ TakeCredential(c) \/ RefuseCredential(c) \/ Answer(c)

\* Every route of project-management/... and dashboard/...: they need no
\* credential.
ServeData(c) ==
    /\ call[c].kind = "data"
    /\ Gate(c) \/ Answer(c)

\* What the API does for a request; it awaits nothing without a timeout.
Handle(c) ==
    \/ Verify(c) \/ Reject(c)
    \/ ReadRights(c) \/ GrantDirectly(c) \/ RefuseUnmapped(c) \/ CreateSession(c)
    \/ ServeSession(c) \/ ServeLogout(c)
    \/ ServeTfs(c) \/ ServeData(c)
    \/ Lose(c)

World == Tick \/ Restart \/ \E u \in Mapped : ChangeRoles(u)

ServerInit ==
    /\ options \in Options
    /\ now = 0
    /\ roles \in [Mapped -> RoleSets]
    /\ store = [s \in Ids |-> NoSession]
    /\ issued = 0
    /\ call = [c \in Calls |-> Idle]
    /\ closed = {}
    /\ owner = [s \in Ids |-> Nobody]

\* Any request, with any cookie that was ever set.
Arrive(c) ==
    \E kind \in Kinds, s \in 0..issued, u \in Users, tfs \in BOOLEAN : Send(c, kind, s, u, tfs)

ServerNext ==
    \/ \E c \in Calls : Arrive(c) \/ Handle(c) \/ Deliver(c) \/ Finish(c)
    \/ World

ServerSpec == ServerInit /\ [][ServerNext]_serverVars

-------------------------------------------------------------------------------
(* Properties. *)

ServerTypeOK ==
    /\ options \in Option
    /\ now \in 0..MaxTime
    /\ roles \in [Mapped -> SUBSET Rights]
    /\ store \in [Ids -> Session \cup {NoSession}]
    /\ issued \in 0..MaxSessions
    /\ call \in [Calls -> Call]
    /\ closed \subseteq 1..issued
    /\ owner \in [Ids -> Users \cup {Nobody}]

\* The two lookups of a TFS route, whatever happens between them, are of one
\* session: TFS is called with the credential of the user whose permissions
\* were checked, and that user logged in with it.
OwnCredential ==
    \A c \in Calls : Is(c, TfsKinds, "calling") =>
        /\ call[c].cred = call[c].user
        /\ owner[call[c].sid] = call[c].user

\* A session holds nothing that its user did not hold at some moment of the
\* login, but for the right to write through TFS, for TFS users who may see the
\* form, where the settings allow it; unmapped users have no other way in.
RightsWereGranted ==
    \A s \in Ids : store[s] # NoSession =>
        LET ofTfs == store[s].cred # Nobody
        IN  IF store[s].user \in Mapped
            THEN \A r \in store[s].rights :
                    \/ r \in store[s].had
                    \/ /\ r \in {"ADD", "EDIT"}
                       /\ options.write /\ ofTfs /\ {"ACCESS", "VIEW"} \subseteq store[s].had
            ELSE ofTfs /\ ~options.mapping

\* No lookup finds a session that a logout or a restart has ended, or that is
\* older than its lifetime, whatever the order of the requests.
EndedIsOver ==
    [][\A c \in Calls :
          call[c].at # call'[c].at /\ call'[c].at \in {"checked", "calling"} =>
              /\ call[c].sid \notin closed
              /\ now < store[call[c].sid].born + Lifetime]_serverVars

===============================================================================
