-------------------------- MODULE AuthProviderProofs --------------------------
(***************************************************************************)
(* What holds of sessions and of the browser in front of them for any      *)
(* number of requests, users and sessions.                                 *)
(***************************************************************************)
EXTENDS AuthProvider, TLAPS

\* What gives a login its rights.
Justified(user, tfs, had, rights) ==
    IF user \in Mapped
    THEN \A r \in rights :
            \/ r \in had
            \/ r \in {"ADD", "EDIT"} /\ options.write /\ tfs /\ {"ACCESS", "VIEW"} \subseteq had
    ELSE tfs /\ ~options.mapping

\* A request, wherever it has come to.
CallOK(k) ==
    /\ k \in Call
    /\ k.sid <= issued
    /\ k.kind \in Routes /\ k.at \in {"checked", "calling"} =>
          k.sid # NoCookie /\ k.user = owner[k.sid]
    /\ k.kind \in Routes /\ k.at = "calling" => k.cred = k.user
    /\ k.kind = "login" /\ k.at \in {"sent", "verified", "granted"} => k.user \in Users
    /\ k.kind = "login" /\ k.at \in {"sent", "verified"} /\ k.user \in Mapped =>
          roles[k.user] \subseteq k.had
    /\ k.kind = "login" /\ k.at \in {"verified", "granted"} => k.tfs \/ k.user \in Mapped
    /\ k.kind = "login" /\ k.at = "granted" => Justified(k.user, k.tfs, k.had, k.rights)

\* A session, as long as it is in the dictionary.
SessionOK(s) ==
    store[s] # NoSession =>
        /\ s <= issued
        /\ s \notin closed
        /\ owner[s] = store[s].user
        /\ store[s].cred \in {Nobody, store[s].user}
        /\ store[s].expires = store[s].born + Lifetime
        /\ Justified(store[s].user, store[s].cred # Nobody, store[s].had, store[s].rights)

ServerInv ==
    /\ ServerTypeOK
    /\ \A c \in Calls : CallOK(call[c])
    /\ \A s \in Ids : SessionOK(s)

-------------------------------------------------------------------------------
(* The sessions. *)

\* What is known of a kind that names a TFS route.
LEMMA TfsRoutes ==
    ASSUME NEW k \in Call, k.kind \in TfsKinds
    PROVE  k.kind \in Routes
BY DEF Call, Kinds, TfsKinds

\* A request that is over is a sound one.
LEMMA EndedIsSound ==
    ASSUME ServerInv, NEW c \in Calls, NEW stage \in {"answered", "failed"}
    PROVE  CallOK(Ended(c, stage)) /\ CallOK(Idle)
<1>1. call[c] \in Call /\ issued \in Nat
  BY DEF ServerInv, ServerTypeOK
<1>2. Idle \in Call /\ CallOK(Idle)
  BY <1>1 DEF Idle, Only, Call, CallOK, Kinds, Stages, NoCookie, Ids
<1>3. CASE call[c].kind \in Routes
  BY <1>2, <1>3 DEF Ended
<1>4. CASE call[c].kind \notin Routes
  <2> DEFINE k == Only(call[c].kind, stage)
  <2>1. /\ k \in Call
        /\ k.kind = call[c].kind /\ k.at = stage /\ k.sid = 0
    BY <1>1 DEF Only, Call, Stages, NoCookie
  <2>2. Ended(c, stage) = k
    BY <1>4 DEF Ended
  <2> HIDE DEF k
  <2>3. CallOK(k)
    BY <1>1, <1>4, <2>1 DEF CallOK, NoCookie
  <2> QED BY <1>2, <2>2, <2>3
<1> QED BY <1>3, <1>4

\* A step that changes one request, and at most takes sessions out.
LEMMA OneRequest ==
    ASSUME ServerInv, NEW c \in Calls,
           call' \in [Calls -> Call], CallOK(call'[c]),
           \A d \in Calls \ {c} : call'[d] = call[d],
           store' \in [Ids -> Session \cup {NoSession}],
           \A s \in Ids : store'[s] \in {store[s], NoSession},
           closed \subseteq closed', closed' \subseteq 1..issued,
           \A s \in Ids : s \in closed' \ closed => store'[s] = NoSession,
           UNCHANGED <<options, now, roles, issued, owner>>
    PROVE  ServerInv'
<1>1. ServerTypeOK'
  BY DEF ServerInv, ServerTypeOK
<1>2. \A d \in Calls : CallOK(call'[d])
  BY DEF ServerInv
<1>3. ASSUME NEW d \in Calls PROVE CallOK(call[d])'
  BY <1>2 DEF CallOK, Justified
<1>4. ASSUME NEW s \in Ids PROVE SessionOK(s)'
  <2>1. CASE store'[s] = NoSession
    BY <2>1 DEF SessionOK
  <2>2. CASE store'[s] = store[s] /\ store[s] # NoSession
    BY <2>2 DEF ServerInv, SessionOK, Justified
  <2> QED BY <2>1, <2>2
<1> QED BY <1>1, <1>3, <1>4 DEF ServerInv

\* Dropping expired sessions is such a step.
LEMMA SweptIsSmaller ==
    ASSUME ServerInv, NEW s \in Ids \cup {NoCookie}
    PROVE  /\ Swept(s) \in [Ids -> Session \cup {NoSession}]
           /\ \A t \in Ids : Swept(s)[t] \in {store[t], NoSession}
<1>1. store \in [Ids -> Session \cup {NoSession}]
  BY DEF ServerInv, ServerTypeOK
<1>2. CASE s \in Ids /\ Swept(s) = [store EXCEPT ![s] = NoSession]
  BY <1>1, <1>2
<1>3. CASE Swept(s) = store
  BY <1>1, <1>3
<1> QED BY <1>2, <1>3 DEF Swept, NoCookie

\* Requests that end.
LEMMA OverStep ==
    ASSUME ServerInv, NEW c \in Calls, NEW stage \in {"answered", "failed"},
           call' = Over(c, stage), store' \in {store, Swept(call[c].sid)},
           UNCHANGED <<options, now, roles, issued, closed, owner>>
    PROVE  ServerInv'
<1>1. /\ call \in [Calls -> Call]
      /\ call[c].sid \in Ids \cup {NoCookie}
      /\ store \in [Ids -> Session \cup {NoSession}]
      /\ closed \subseteq 1..issued
  BY DEF ServerInv, ServerTypeOK, Call
<1>2. CallOK(Ended(c, stage)) /\ Ended(c, stage) \in Call
  BY EndedIsSound DEF CallOK
<1>3. /\ call' \in [Calls -> Call]
      /\ call'[c] = Ended(c, stage)
      /\ \A d \in Calls \ {c} : call'[d] = call[d]
  BY <1>1, <1>2 DEF Over
<1>4. /\ store' \in [Ids -> Session \cup {NoSession}]
      /\ \A t \in Ids : store'[t] \in {store[t], NoSession}
  BY <1>1, SweptIsSmaller
<1> QED BY <1>1, <1>2, <1>3, <1>4, OneRequest

\* A request comes.
LEMMA SendStep ==
    ASSUME ServerInv, NEW c \in Calls, NEW kind \in Kinds, NEW s \in 0..issued,
           NEW u \in Users \cup {Nobody}, NEW tfs \in BOOLEAN,
           kind = "login" => u \in Users,
           Send(c, kind, s, u, tfs)
    PROVE  ServerInv'
<1> DEFINE k == [kind |-> kind, at |-> "sent", sid |-> s, user |-> u, tfs |-> tfs, rights |-> {},
                 cred |-> Nobody, had |-> IF kind = "login" /\ u \in Mapped THEN roles[u] ELSE {}]
<1>1. /\ call \in [Calls -> Call]
      /\ roles \in [Mapped -> SUBSET Rights]
      /\ issued \in 0..MaxSessions
      /\ store \in [Ids -> Session \cup {NoSession}]
      /\ closed \subseteq 1..issued
  BY DEF ServerInv, ServerTypeOK
<1>2. s \in Ids \cup {NoCookie}
  BY <1>1, SessionAssumption DEF Ids, NoCookie
<1>3. k \in Call
  BY <1>1, <1>2 DEF Call, Stages
<1>4. CallOK(k)
  BY <1>1, <1>3 DEF CallOK
<1>5. /\ call' = [call EXCEPT ![c] = k]
      /\ UNCHANGED <<options, now, roles, store, issued, closed, owner>>
  BY DEF Send
<1> HIDE DEF k
<1>6. /\ call' \in [Calls -> Call]
      /\ call'[c] = k
      /\ \A d \in Calls \ {c} : call'[d] = call[d]
  BY <1>1, <1>3, <1>5
<1> QED BY <1>1, <1>4, <1>5, <1>6, OneRequest

\* A request that goes on, and how the facts about it follow: only what the
\* step writes is new.
LEMMA Verified ==
    ASSUME ServerInv, NEW c \in Calls, Verify(c)
    PROVE  ServerInv'
<1>1. /\ call \in [Calls -> Call]
      /\ store \in [Ids -> Session \cup {NoSession}]
      /\ closed \subseteq 1..issued
      /\ CallOK(call[c])
  BY DEF ServerInv, ServerTypeOK
<1> DEFINE k == [call[c] EXCEPT !.at = "verified"]
<1>2. k \in Call
  BY <1>1 DEF Call, Stages
<1>3. call' = [call EXCEPT ![c] = k]
  BY DEF Verify, Moved
<1>4. CallOK(k)
  BY <1>1, <1>2 DEF CallOK, Verify, IsLocal, Is
<1>5. /\ call' \in [Calls -> Call]
      /\ call'[c] = k
      /\ \A d \in Calls \ {c} : call'[d] = call[d]
  BY <1>1, <1>2, <1>3
<1> QED BY <1>1, <1>4, <1>5, OneRequest DEF Verify

\* The permissions of a login.
LEMMA RightsRead ==
    ASSUME ServerInv, NEW c \in Calls, ReadRights(c) \/ GrantDirectly(c)
    PROVE  ServerInv'
<1>1. /\ call \in [Calls -> Call]
      /\ roles \in [Mapped -> SUBSET Rights]
      /\ store \in [Ids -> Session \cup {NoSession}]
      /\ closed \subseteq 1..issued
      /\ CallOK(call[c])
  BY DEF ServerInv, ServerTypeOK
<1>2. PICK r \in SUBSET Rights :
          /\ call' = [call EXCEPT ![c] = [@ EXCEPT !.at = "granted", !.rights = r]]
          /\ Justified(call[c].user, call[c].tfs, call[c].had, r)
  <2>1. CASE ReadRights(c)
    <3> DEFINE r == Grant(roles[call[c].user], call[c].tfs)
    <3>1. roles[call[c].user] \subseteq Rights /\ roles[call[c].user] \subseteq call[c].had
      BY <1>1, <2>1 DEF ReadRights, CallOK, Is
    <3>2. r \in SUBSET Rights
      BY <3>1 DEF Grant, Rights
    <3>3. Justified(call[c].user, call[c].tfs, call[c].had, r)
      BY <2>1, <3>1 DEF ReadRights, Justified, Grant
    <3> QED BY <2>1, <3>2, <3>3 DEF ReadRights
  <2>2. CASE GrantDirectly(c)
    <3>1. DirectRights \in SUBSET Rights
      BY DEF DirectRights, Rights
    <3>2. Justified(call[c].user, call[c].tfs, call[c].had, DirectRights)
      BY <1>1, <2>2 DEF GrantDirectly, Justified, CallOK, Is
    <3> QED BY <2>2, <3>1, <3>2 DEF GrantDirectly
  <2> QED BY <2>1, <2>2
<1>3. Is(c, {"login"}, "verified") /\ UNCHANGED <<options, now, roles, store, issued, closed, owner>>
  BY DEF ReadRights, GrantDirectly
<1>4. /\ call' \in [Calls -> Call]
      /\ call'[c].at = "granted" /\ call'[c].rights = r
      /\ call'[c].kind = call[c].kind /\ call'[c].sid = call[c].sid
      /\ call'[c].user = call[c].user /\ call'[c].tfs = call[c].tfs /\ call'[c].had = call[c].had
      /\ \A d \in Calls \ {c} : call'[d] = call[d]
  BY <1>1, <1>2 DEF Call, Stages
<1>5. CallOK(call'[c])
  BY <1>1, <1>2, <1>3, <1>4 DEF CallOK, Is
<1> QED BY <1>1, <1>3, <1>4, <1>5, OneRequest

\* What steps write into a request.
LEMMA UserWritten ==
    ASSUME NEW k \in Call, NEW v \in Users
    PROVE  LET m == [k EXCEPT !.at = "checked", !.user = v]
           IN  m \in Call /\ m.kind = k.kind /\ m.at = "checked" /\ m.sid = k.sid /\ m.user = v
BY DEF Call, Stages

\* ... or its credential ...
LEMMA CredentialWritten ==
    ASSUME NEW k \in Call, NEW v \in Users
    PROVE  LET m == [k EXCEPT !.at = "calling", !.cred = v]
           IN  /\ m \in Call /\ m.kind = k.kind /\ m.at = "calling" /\ m.sid = k.sid
               /\ m.user = k.user /\ m.cred = v
BY DEF Call, Stages

\* ... or its session.
LEMMA IdWritten ==
    ASSUME NEW k \in Call, NEW s \in Ids
    PROVE  LET m == [k EXCEPT !.at = "answered", !.sid = s, !.had = {}]
           IN  m \in Call /\ m.kind = k.kind /\ m.at = "answered" /\ m.sid = s
BY DEF Call, Stages

\* What that makes of the requests.
LEMMA Rewritten ==
    ASSUME call \in [Calls -> Call], NEW c \in Calls, NEW k \in Call, call' = [call EXCEPT ![c] = k]
    PROVE  /\ call' \in [Calls -> Call]
           /\ call'[c] = k
           /\ \A d \in Calls \ {c} : call'[d] = call[d]
OBVIOUS

\* The end of a login.
LEMMA SessionCreated ==
    ASSUME ServerInv, NEW c \in Calls, CreateSession(c)
    PROVE  ServerInv'
<1> DEFINE s == issued + 1
           u == call[c].user
           new == [user |-> u, rights |-> call[c].rights,
                   cred |-> IF call[c].tfs THEN u ELSE Nobody, expires |-> now + Lifetime,
                   had |-> call[c].had, born |-> now]
<1>1. /\ ServerTypeOK
      /\ call \in [Calls -> Call] /\ call[c] \in Call
      /\ CallOK(call[c])
      /\ issued \in Nat /\ now \in Nat
      /\ closed \subseteq 1..issued
      /\ store \in [Ids -> Session \cup {NoSession}]
      /\ owner \in [Ids -> Users \cup {Nobody}]
  BY SessionAssumption DEF ServerInv, ServerTypeOK
<1>2. s \in Ids /\ u \in Users
  BY <1>1, SessionAssumption DEF CreateSession, Ids, CallOK, Is
<1>3. new \in Session /\ Justified(u, new.cred # Nobody, new.had, new.rights)
  <2>1. call[c].rights \in SUBSET Rights /\ call[c].had \in SUBSET Rights /\ call[c].tfs \in BOOLEAN
    BY <1>1 DEF Call
  <2>2. Justified(u, call[c].tfs, call[c].had, call[c].rights)
    BY <1>1 DEF CreateSession, CallOK, Is
  <2>3. (new.cred # Nobody) = call[c].tfs
    BY <1>2, <2>1, SessionAssumption
  <2>4. now + Lifetime \in Nat
    BY <1>1, SessionAssumption
  <2> QED BY <1>1, <1>2, <2>1, <2>2, <2>3, <2>4 DEF Session
<1>4. /\ new.user = u /\ new.cred \in {Nobody, u}
      /\ new.expires = new.born + Lifetime
  OBVIOUS
<1>5. /\ store' = [store EXCEPT ![s] = new]
      /\ owner' = [owner EXCEPT ![s] = u]
      /\ issued' = issued + 1
      /\ UNCHANGED <<options, now, roles, closed>>
  BY DEF CreateSession, NewId
<1> HIDE DEF new
<1>6. /\ call' \in [Calls -> Call]
      /\ call'[c].at = "answered" /\ call'[c].kind = "login" /\ call'[c].sid = s
      /\ \A d \in Calls \ {c} : call'[d] = call[d]
  <2> DEFINE k == [call[c] EXCEPT !.at = "answered", !.sid = s, !.had = {}]
  <2>1. call' = [call EXCEPT ![c] = k]
    BY Zenon DEF CreateSession, NewId
  <2>2. k \in Call /\ k.at = "answered" /\ k.kind = call[c].kind /\ k.sid = s
    BY <1>1, <1>2, IdWritten, Zenon
  <2>3. call[c].kind = "login"
    BY DEF CreateSession, Is
  <2> HIDE DEF k
  <2> QED BY <1>1, <2>1, <2>2, <2>3, Rewritten
<1>7. ServerTypeOK'
  BY <1>1, <1>2, <1>3, <1>5, <1>6, SessionAssumption DEF ServerTypeOK, CreateSession
<1>8. ASSUME NEW d \in Calls PROVE CallOK(call[d])'
  <2>1. CASE d = c
    BY <1>1, <1>5, <1>6, <2>1 DEF CallOK
  <2>2. CASE d # c
    <3>1. call'[d] = call[d] /\ CallOK(call[d])
      BY <1>6, <2>2 DEF ServerInv
    <3>2. /\ call[d].sid \in Ids \cup {NoCookie} /\ call[d].sid <= issued
      BY <3>1 DEF CallOK, Call
    <3>3. call[d].sid # s
      BY <1>1, <3>2 DEF Ids, NoCookie
    <3>4. call[d].sid # NoCookie => owner'[call[d].sid] = owner[call[d].sid]
      BY <1>1, <1>5, <3>2, <3>3
    <3>5. call[d].sid <= issued'
      BY <1>1, <1>5, <3>2, SessionAssumption DEF Ids, NoCookie
    <3> QED BY <1>5, <3>1, <3>4, <3>5 DEF CallOK, Justified
  <2> QED BY <2>1, <2>2
<1>9. ASSUME NEW t \in Ids PROVE SessionOK(t)'
  <2>1. CASE t = s
    <3>1. store'[t] = new /\ owner'[t] = u
      BY <1>1, <1>2, <1>5, <2>1
    <3>2. t <= issued' /\ t \notin closed'
      BY <1>1, <1>5, <2>1
    <3> QED BY <1>3, <1>4, <1>5, <3>1, <3>2 DEF SessionOK, Justified
  <2>2. CASE t # s
    <3>1. store'[t] = store[t] /\ owner'[t] = owner[t]
      BY <1>1, <1>5, <2>2
    <3>2. SessionOK(t)
      BY DEF ServerInv
    <3>3. t <= issued => t <= issued'
      BY <1>1, <1>5, SessionAssumption DEF Ids
    <3> QED BY <1>5, <3>1, <3>2, <3>3 DEF SessionOK, Justified
  <2> QED BY <2>1, <2>2
<1> QED BY <1>7, <1>8, <1>9 DEF ServerInv

\* The lookups of a request.
LEMMA LookedUp ==
    ASSUME ServerInv, NEW c \in Calls,
           ServeSession(c) \/ PassGate(c) \/ RefuseAtGate(c) \/ TakeCredential(c) \/ RefuseCredential(c)
    PROVE  ServerInv'
<1>1. /\ call \in [Calls -> Call]
      /\ call[c] \in Call
      /\ call[c].sid \in Ids \cup {NoCookie}
      /\ store \in [Ids -> Session \cup {NoSession}]
      /\ closed \subseteq 1..issued
      /\ CallOK(call[c])
  BY DEF ServerInv, ServerTypeOK, Call
<1>2. CASE RefuseAtGate(c) \/ RefuseCredential(c) \/ (ServeSession(c) /\ ~Valid(call[c].sid))
  BY <1>2, OverStep DEF RefuseAtGate, RefuseCredential, ServeSession
<1>3. ASSUME Valid(call[c].sid)
      PROVE  LET s == call[c].sid
             IN  /\ s \in Ids /\ Swept(s) = store
                 /\ store[s].user \in Users /\ store[s].rights \in SUBSET Rights
                 /\ owner[s] = store[s].user
                 /\ store[s].cred \in {Nobody, store[s].user}
  BY <1>1, <1>3 DEF Valid, Swept, ServerInv, SessionOK, Session
<1>4. CASE ServeSession(c) /\ Valid(call[c].sid)
  <2>1. /\ call' \in [Calls -> Call]
        /\ call'[c].at = "answered" /\ call'[c].kind = "session" /\ call'[c].sid = call[c].sid
        /\ \A d \in Calls \ {c} : call'[d] = call[d]
    <3> DEFINE v == store[call[c].sid].user
               r == store[call[c].sid].rights
               k == [call[c] EXCEPT !.at = "answered", !.user = v, !.rights = r]
    <3>1. call' = [call EXCEPT ![c] = k]
      BY <1>4, Zenon DEF ServeSession
    <3>2. k \in Call /\ k.at = "answered" /\ k.kind = call[c].kind /\ k.sid = call[c].sid
      <4>1. v \in Users /\ r \subseteq Rights
        BY <1>3, <1>4
      <4> HIDE DEF v, r
      <4>2. call[c] \in Call
        BY <1>1
      <4>3. "answered" \in Stages
        BY DEF Stages
      <4> QED BY <4>1, <4>2, <4>3 DEF k, Call
    <3>3. call[c].kind = "session"
      BY <1>4 DEF ServeSession, Is
    <3> HIDE DEF k
    <3> QED BY <1>1, <3>1, <3>2, <3>3, Rewritten
  <2>2. CallOK(call'[c])
    BY <1>1, <2>1, SessionAssumption DEF CallOK
  <2>3. store' = store
    BY <1>3, <1>4 DEF ServeSession
  <2> QED BY <1>1, <1>4, <2>1, <2>2, <2>3, OneRequest DEF ServeSession
<1>5. CASE PassGate(c)
  <2>1. Valid(call[c].sid) /\ call[c].kind \in Routes
    BY <1>5 DEF PassGate, Is
  <2>2. /\ call' \in [Calls -> Call]
        /\ call'[c].at = "checked" /\ call'[c].kind = call[c].kind /\ call'[c].sid = call[c].sid
        /\ call'[c].user = store[call[c].sid].user
        /\ \A d \in Calls \ {c} : call'[d] = call[d]
    <3> DEFINE v == store[call[c].sid].user
               k == [call[c] EXCEPT !.at = "checked", !.user = v]
    <3>1. call' = [call EXCEPT ![c] = k]
      BY <1>5, Zenon DEF PassGate
    <3>2. k \in Call /\ k.at = "checked" /\ k.kind = call[c].kind /\ k.sid = call[c].sid /\ k.user = v
      BY <1>1, <1>3, <2>1, UserWritten, Zenon
    <3> HIDE DEF k
    <3> QED BY <1>1, <3>1, <3>2, Rewritten
  <2>3. CallOK(call'[c])
    BY <1>1, <1>3, <2>1, <2>2, SessionAssumption DEF CallOK, Valid
  <2> QED BY <1>1, <1>5, <2>2, <2>3, OneRequest DEF PassGate
<1>6. CASE TakeCredential(c)
  <2>1. /\ Valid(call[c].sid) /\ call[c].kind \in Routes /\ call[c].at = "checked"
        /\ store[call[c].sid].cred # Nobody
    BY <1>1, <1>6, TfsRoutes DEF TakeCredential, Is
  <2>2. /\ call' \in [Calls -> Call]
        /\ call'[c].at = "calling" /\ call'[c].kind = call[c].kind /\ call'[c].sid = call[c].sid
        /\ call'[c].user = call[c].user /\ call'[c].cred = store[call[c].sid].cred
        /\ \A d \in Calls \ {c} : call'[d] = call[d]
    <3> DEFINE v == store[call[c].sid].cred
               k == [call[c] EXCEPT !.at = "calling", !.cred = v]
    <3>1. call' = [call EXCEPT ![c] = k]
      BY <1>6, Zenon DEF TakeCredential
    <3>0. v \in Users
      BY <1>3, <2>1
    <3>2. /\ k \in Call /\ k.at = "calling" /\ k.kind = call[c].kind /\ k.sid = call[c].sid
          /\ k.user = call[c].user /\ k.cred = v
      BY <1>1, <3>0, CredentialWritten, Zenon
    <3> HIDE DEF k
    <3> QED BY <1>1, <3>1, <3>2, Rewritten
  <2>3. CallOK(call'[c])
    BY <1>1, <1>3, <2>1, <2>2, SessionAssumption DEF CallOK
  <2> QED BY <1>1, <1>6, <2>2, <2>3, OneRequest DEF TakeCredential
<1> QED BY <1>2, <1>4, <1>5, <1>6

\* The other steps of a request.
LEMMA Handled ==
    ASSUME ServerInv, NEW c \in Calls, Handle(c) \/ Deliver(c) \/ Finish(c)
    PROVE  ServerInv'
<1>1. /\ call \in [Calls -> Call]
      /\ call[c] \in Call /\ CallOK(call[c])
      /\ store \in [Ids -> Session \cup {NoSession}]
      /\ closed \subseteq 1..issued /\ call[c].sid <= issued
      /\ call[c].sid \in Ids \cup {NoCookie}
      /\ issued \in Nat
  BY DEF ServerInv, ServerTypeOK, CallOK, Call
<1>2. CASE Reject(c) \/ RefuseUnmapped(c) \/ Answer(c) \/ Lose(c)
  BY <1>2, OverStep DEF Reject, RefuseUnmapped, Answer, Lose
<1>3. CASE ServeLogout(c)
  <2>1. CallOK(Ended(c, "answered")) /\ Ended(c, "answered") \in Call
    BY EndedIsSound DEF CallOK
  <2>2. call' = [call EXCEPT ![c] = Ended(c, "answered")]
    BY <1>3 DEF ServeLogout, Over
  <2>3. /\ store' \in [Ids -> Session \cup {NoSession}]
        /\ \A s \in Ids : store'[s] \in {store[s], NoSession}
        /\ call[c].sid \in Ids => store'[call[c].sid] = NoSession
    BY <1>1, <1>3 DEF ServeLogout
  <2>4. /\ closed \subseteq closed'
        /\ \A s \in Ids : s \in closed' \ closed => s = call[c].sid
    BY <1>1, <1>3 DEF ServeLogout
  <2>5. closed' \subseteq 1..issued
    <3>1. call[c].sid # NoCookie => call[c].sid \in 1..issued
      BY <1>1, SessionAssumption DEF NoCookie, Ids
    <3>2. closed' = closed \cup ({call[c].sid} \ {NoCookie})
      BY <1>3 DEF ServeLogout
    <3> QED BY <1>1, <3>1, <3>2
  <2>6. UNCHANGED <<options, now, roles, issued, owner>>
    BY <1>3 DEF ServeLogout
  <2>7. /\ call' \in [Calls -> Call]
        /\ call'[c] = Ended(c, "answered")
        /\ \A d \in Calls \ {c} : call'[d] = call[d]
    BY <1>1, <2>1, <2>2, Rewritten
  <2> QED BY <2>1, <2>3, <2>4, <2>5, <2>6, <2>7, OneRequest
<1>4. CASE Deliver(c)
  <2> DEFINE k == [call[c] EXCEPT !.at = "delivered"]
  <2>1. k \in Call /\ k.at = "delivered" /\ k.kind = call[c].kind /\ k.sid = call[c].sid
    BY <1>1 DEF Call, Stages
  <2>2. call' = [call EXCEPT ![c] = k]
    BY <1>4 DEF Deliver, Moved
  <2> HIDE DEF k
  <2>3. CallOK(k)
    BY <1>1, <2>1 DEF CallOK
  <2>4. /\ call' \in [Calls -> Call]
        /\ call'[c] = k
        /\ \A d \in Calls \ {c} : call'[d] = call[d]
    BY <1>1, <2>1, <2>2, Rewritten
  <2> QED BY <1>1, <1>4, <2>3, <2>4, OneRequest DEF Deliver
<1>5. CASE Finish(c)
  <2>1. CallOK(Idle) /\ Idle \in Call
    BY EndedIsSound DEF CallOK
  <2>2. call' = [call EXCEPT ![c] = Idle]
    BY <1>5 DEF Finish
  <2>3. /\ call' \in [Calls -> Call]
        /\ call'[c] = Idle
        /\ \A d \in Calls \ {c} : call'[d] = call[d]
    BY <1>1, <2>1, <2>2, Rewritten
  <2> QED BY <1>1, <1>5, <2>1, <2>3, OneRequest DEF Finish
<1> QED BY <1>2, <1>3, <1>4, <1>5, Verified, RightsRead, SessionCreated, LookedUp
    DEF Handle, ServeTfs, ServeData, Gate

\* What happens to all of them at once.
LEMMA WorldGoesOn ==
    ASSUME ServerInv, World
    PROVE  ServerInv'
<1>1. /\ call \in [Calls -> Call]
      /\ roles \in [Mapped -> SUBSET Rights]
      /\ now \in 0..MaxTime /\ issued \in 0..MaxSessions
  BY DEF ServerInv, ServerTypeOK
<1>2. CASE Tick
  <2>1. ServerTypeOK'
    BY <1>1, <1>2, SessionAssumption DEF ServerInv, ServerTypeOK, Tick
  <2>2. ASSUME NEW c \in Calls PROVE CallOK(call[c])'
    BY <1>2 DEF Tick, ServerInv, CallOK, Justified
  <2>3. ASSUME NEW s \in Ids PROVE SessionOK(s)'
    BY <1>2 DEF Tick, ServerInv, SessionOK, Justified
  <2> QED BY <2>1, <2>2, <2>3 DEF ServerInv
<1>3. CASE Restart
  <2>1. ASSUME NEW c \in Calls PROVE CallOK(call'[c]) /\ call'[c] \in Call
    BY <1>1, <1>3, EndedIsSound DEF Restart, ServerInv, CallOK
  <2>2. call' \in [Calls -> Call]
    BY <1>3, <2>1 DEF Restart
  <2>3. ServerTypeOK'
    BY <1>3, <2>2 DEF ServerInv, ServerTypeOK, Restart
  <2>4. ASSUME NEW c \in Calls PROVE CallOK(call[c])'
    BY <1>3, <2>1 DEF Restart, CallOK, Justified
  <2>5. ASSUME NEW s \in Ids PROVE SessionOK(s)'
    BY <1>3 DEF Restart, SessionOK
  <2> QED BY <2>3, <2>4, <2>5 DEF ServerInv
<1>4. ASSUME NEW u \in Mapped, ChangeRoles(u)
      PROVE  ServerInv'
  <2>1. PICK r \in SUBSET Rights :
            /\ roles' = [roles EXCEPT ![u] = r]
            /\ call' = [c \in Calls |->
                   IF call[c].user = u /\ (Is(c, {"login"}, "sent") \/ Is(c, {"login"}, "verified"))
                   THEN [call[c] EXCEPT !.had = @ \cup r]
                   ELSE call[c]]
    BY <1>4, SessionAssumption DEF ChangeRoles
  <2>2. UNCHANGED <<options, now, store, issued, closed, owner>>
    BY <1>4 DEF ChangeRoles
  <2>3. ASSUME NEW c \in Calls PROVE call'[c] \in Call /\ CallOK(call[c])'
    <3>1. call[c] \in Call /\ CallOK(call[c])
      BY DEF ServerInv, ServerTypeOK
    <3>2. CASE call'[c] = call[c] /\ ~(/\ call[c].user = u
                                       /\ Is(c, {"login"}, "sent") \/ Is(c, {"login"}, "verified"))
      <4>1. /\ call[c].kind = "login" /\ call[c].at \in {"sent", "verified"} /\ call[c].user \in Mapped
            => roles'[call[c].user] = roles[call[c].user]
        BY <1>1, <2>1, <3>2 DEF Is
      <4> QED BY <2>2, <3>1, <3>2, <4>1 DEF CallOK, Justified
    <3>3. CASE /\ call'[c] = [call[c] EXCEPT !.had = @ \cup r]
               /\ call[c].user = u
               /\ Is(c, {"login"}, "sent") \/ Is(c, {"login"}, "verified")
      <4> DEFINE k == [call[c] EXCEPT !.had = @ \cup r]
      <4>1. /\ k \in Call /\ k.had = call[c].had \cup r
            /\ k.at = call[c].at /\ k.kind = call[c].kind /\ k.sid = call[c].sid
            /\ k.user = call[c].user /\ k.tfs = call[c].tfs
        BY <3>1 DEF Call
      <4> HIDE DEF k
      <4>2. call'[c] = k
        BY <3>3 DEF k
      <4>3. roles'[u] = r
        BY <1>1, <2>1
      <4> QED BY <2>2, <3>1, <3>3, <4>1, <4>2, <4>3 DEF CallOK, Is
    <3> QED BY <2>1, <3>2, <3>3
  <2>4. call' \in [Calls -> Call]
    BY <2>1, <2>3
  <2>5. roles' \in [Mapped -> SUBSET Rights]
    BY <1>1, <2>1
  <2>6. ServerTypeOK'
    BY <2>2, <2>4, <2>5 DEF ServerInv, ServerTypeOK
  <2>7. ASSUME NEW s \in Ids PROVE SessionOK(s)'
    BY <2>2 DEF ServerInv, SessionOK, Justified
  <2> QED BY <2>3, <2>6, <2>7 DEF ServerInv
<1> QED BY <1>2, <1>3, <1>4 DEF World

\* What the invariant has to say of requests and sessions.
LEMMA InvariantSuffices ==
    ASSUME ServerInv
    PROVE  OwnCredential /\ RightsWereGranted
<1>1. ASSUME NEW c \in Calls, Is(c, TfsKinds, "calling")
      PROVE  call[c].cred = call[c].user /\ owner[call[c].sid] = call[c].user
  <2>1. CallOK(call[c]) /\ call[c] \in Call
    BY DEF ServerInv, ServerTypeOK
  <2>2. call[c].kind \in Routes /\ call[c].at = "calling"
    BY <1>1, <2>1, TfsRoutes DEF Is
  <2> QED BY <2>1, <2>2 DEF CallOK
<1>2. ASSUME NEW s \in Ids, store[s] # NoSession
      PROVE  Justified(store[s].user, store[s].cred # Nobody, store[s].had, store[s].rights)
  BY <1>2 DEF ServerInv, SessionOK
<1> QED BY <1>1, <1>2 DEF OwnCredential, RightsWereGranted, Justified

\* A request passes a lookup only by the two steps that find its session.
LEMMA FoundInTime ==
    ASSUME ServerInv, NEW c \in Calls,
           call[c].at # call'[c].at, call'[c].at \in {"checked", "calling"},
           NEW d \in Calls, Handle(d) \/ Deliver(d) \/ Finish(d)
    PROVE  /\ call[c].sid \notin closed
           /\ now < store[call[c].sid].born + Lifetime
<1>1. /\ call \in [Calls -> Call] /\ call[d] \in Call
      /\ call[c].sid \in Ids \cup {NoCookie}
  BY DEF ServerInv, ServerTypeOK, Call
<1>2. CASE c = d /\ Valid(call[c].sid)
  <2>1. call[c].sid \in Ids /\ store[call[c].sid] # NoSession /\ now < store[call[c].sid].expires
    BY <1>1, <1>2 DEF Valid
  <2> QED BY <2>1 DEF ServerInv, SessionOK
<1>3. ASSUME NEW k, call' = [call EXCEPT ![d] = k], k.at \notin {"checked", "calling"}
      PROVE  FALSE
  BY <1>1, <1>3
<1>4. ASSUME NEW k, call' = [call EXCEPT ![d] = k], ~(c = d)
      PROVE  FALSE
  BY <1>1, <1>4
<1>5. ASSUME NEW stage \in {"answered", "failed"}, call' = Over(d, stage)
      PROVE  FALSE
  <2>1. call' = [call EXCEPT ![d] = Ended(d, stage)]
    BY <1>5 DEF Over
  <2>2. Ended(d, stage).at \notin {"checked", "calling"}
    BY DEF Ended, Only, Idle
  <2> QED BY <1>3, <2>1, <2>2
<1>6. CASE PassGate(d)
  <2>1. call' = [call EXCEPT ![d] = [call[d] EXCEPT !.at = "checked", !.user = store[call[d].sid].user]]
    BY <1>6, Zenon DEF PassGate
  <2>2. c = d
    BY <1>4, <2>1
  <2> QED BY <1>2, <1>6, <2>2 DEF PassGate
<1>7. CASE TakeCredential(d)
  <2>1. call' = [call EXCEPT ![d] = [call[d] EXCEPT !.at = "calling", !.cred = store[call[d].sid].cred]]
    BY <1>7, Zenon DEF TakeCredential
  <2>2. c = d
    BY <1>4, <2>1
  <2> QED BY <1>2, <1>7, <2>2 DEF TakeCredential
<1>8. CASE Verify(d) \/ Deliver(d)
  <2>1. PICK stage \in {"verified", "delivered"} : call' = [call EXCEPT ![d] = [call[d] EXCEPT !.at = stage]]
    BY <1>8 DEF Verify, Deliver, Moved
  <2>2. [call[d] EXCEPT !.at = stage].at = stage
    BY <1>1 DEF Call
  <2> QED BY <1>3, <2>1, <2>2
<1>9. CASE ReadRights(d) \/ GrantDirectly(d)
  <2>1. PICK r : call' = [call EXCEPT ![d] = [call[d] EXCEPT !.at = "granted", !.rights = r]]
    BY <1>9, Zenon DEF ReadRights, GrantDirectly
  <2>2. [call[d] EXCEPT !.at = "granted", !.rights = r].at = "granted"
    BY <1>1 DEF Call
  <2> QED BY <1>3, <2>1, <2>2
<1>10. CASE CreateSession(d)
  <2>1. PICK s : call' = [call EXCEPT ![d] = [call[d] EXCEPT !.at = "answered", !.sid = s, !.had = {}]]
    BY <1>10, Zenon DEF CreateSession
  <2>2. [call[d] EXCEPT !.at = "answered", !.sid = s, !.had = {}].at = "answered"
    BY <1>1 DEF Call
  <2> QED BY <1>3, <2>1, <2>2
<1>11. CASE ServeSession(d) /\ Valid(call[d].sid)
  <2>1. PICK v, r : call' = [call EXCEPT ![d] = [call[d] EXCEPT !.at = "answered", !.user = v, !.rights = r]]
    BY <1>11, Zenon DEF ServeSession
  <2>2. [call[d] EXCEPT !.at = "answered", !.user = v, !.rights = r].at = "answered"
    BY <1>1 DEF Call
  <2> QED BY <1>3, <2>1, <2>2
<1>12. CASE Finish(d)
  <2>1. Idle.at = "idle" /\ call' = [call EXCEPT ![d] = Idle]
    BY <1>12 DEF Finish, Idle, Only
  <2> QED BY <1>3, <2>1
<1>13. CASE ServeSession(d) /\ ~Valid(call[d].sid)
  BY <1>5, <1>13 DEF ServeSession
<1>14. CASE \/ Reject(d) \/ RefuseUnmapped(d) \/ ServeLogout(d) \/ RefuseAtGate(d)
            \/ RefuseCredential(d) \/ Answer(d) \/ Lose(d)
  BY <1>5, <1>14 DEF Reject, RefuseUnmapped, ServeLogout, RefuseAtGate, RefuseCredential, Answer, Lose
<1> QED BY <1>6, <1>7, <1>8, <1>9, <1>10, <1>11, <1>12, <1>13, <1>14 DEF Handle, ServeTfs, ServeData, Gate

-------------------------------------------------------------------------------
(* Any clients at all. *)

\* What the invariant says of no request and no session.
LEMMA NoneYet ==
    ASSUME options \in Options, now = 0, roles \in [Mapped -> RoleSets],
           store = [s \in Ids |-> NoSession], issued = 0, call = [c \in Calls |-> Idle],
           closed = {}, owner = [s \in Ids |-> Nobody]
    PROVE  ServerInv
<1>1. Idle \in Call
  BY DEF Idle, Only, Call, Kinds, Stages, NoCookie, Ids
<1>2. ServerTypeOK
  BY <1>1, SessionAssumption DEF ServerTypeOK
<1>3. CallOK(Idle)
  BY <1>1 DEF CallOK, Idle, Only, NoCookie
<1> QED BY <1>2, <1>3 DEF ServerInv, SessionOK

\* Every step of the API and every request, whoever sends it.
LEMMA ServerStep ==
    ASSUME ServerInv, [ServerNext]_serverVars
    PROVE  ServerInv'
<1>1. ASSUME NEW c \in Calls, Arrive(c)
      PROVE  ServerInv'
  BY <1>1, SendStep DEF Arrive
<1>2. CASE UNCHANGED serverVars
  BY <1>2 DEF serverVars, ServerInv, ServerTypeOK, CallOK, SessionOK, Justified
<1> QED BY <1>1, <1>2, Handled, WorldGoesOn DEF ServerNext

\* Whoever sends whatever, requests and sessions stay sound.
THEOREM ServerInvariance == ServerSpec => []ServerInv
<1>1. ServerInit => ServerInv
  BY NoneYet DEF ServerInit
<1>2. ServerInv /\ [ServerNext]_serverVars => ServerInv'
  BY ServerStep
<1> QED BY <1>1, <1>2, PTL DEF ServerSpec

\* Whatever clients send, and with any cookie that was ever set, TFS is called
\* with the credential of the user whose permissions were checked.
THEOREM CredentialForAnyClient == ServerSpec => []OwnCredential
<1>1. ServerInv => OwnCredential
  BY InvariantSuffices
<1> QED BY <1>1, ServerInvariance, PTL

-------------------------------------------------------------------------------
(* The browser. *)

IInv == ServerInv /\ TypeOK /\ WaitingIsForLogin

\* The API and the world leave a login a login, and set no cookie free.
LEMMA LoginsStay ==
    ASSUME ServerInv, World \/ \E d \in Calls : Handle(d) \/ Deliver(d),
           NEW c \in Calls, call[c].kind = "login", call[c].at # "idle"
    PROVE  call'[c].kind = "login" /\ call'[c].at # "idle"
<1>1. /\ call \in [Calls -> Call] /\ call[c] \in Call
      /\ "login" \notin Routes
  BY SessionAssumption DEF ServerInv, ServerTypeOK
<1>2. ASSUME NEW stage \in {"answered", "failed"}
      PROVE  Ended(c, stage).kind = "login" /\ Ended(c, stage).at # "idle"
  BY <1>1 DEF Ended, Only
<1>3. CASE Tick
  BY <1>3 DEF Tick
<1>4. CASE Restart
  BY <1>2, <1>4 DEF Restart
<1>5. ASSUME NEW u \in Mapped, ChangeRoles(u)
      PROVE  call'[c].kind = "login" /\ call'[c].at # "idle"
  <2>1. PICK r : call'[c] \in {call[c], [call[c] EXCEPT !.had = @ \cup r]}
    BY <1>5 DEF ChangeRoles
  <2>2. /\ [call[c] EXCEPT !.had = @ \cup r].kind = "login"
        /\ [call[c] EXCEPT !.had = @ \cup r].at # "idle"
    BY <1>1 DEF Call
  <2> QED BY <2>1, <2>2
<1>6. ASSUME NEW d \in Calls, Handle(d) \/ Deliver(d)
      PROVE  call'[c].kind = "login" /\ call'[c].at # "idle"
  <2>1. call[d] \in Call
    BY <1>1
  <2>2. ASSUME NEW k, call' = [call EXCEPT ![d] = k], k.kind = call[d].kind, k.at # "idle"
        PROVE  call'[c].kind = "login" /\ call'[c].at # "idle"
    BY <1>1, <2>2
  <2>3. ASSUME NEW stage \in {"answered", "failed"}, call' = Over(d, stage)
        PROVE  call'[c].kind = "login" /\ call'[c].at # "idle"
    BY <1>1, <1>2, <2>3 DEF Over
  <2>4. CASE Verify(d) \/ Deliver(d)
    <3>1. PICK stage \in {"verified", "delivered"} : call' = [call EXCEPT ![d] = [call[d] EXCEPT !.at = stage]]
      BY <2>4 DEF Verify, Deliver, Moved
    <3>2. [call[d] EXCEPT !.at = stage].at = stage /\ [call[d] EXCEPT !.at = stage].kind = call[d].kind
      BY <2>1 DEF Call
    <3> QED BY <2>2, <3>1, <3>2
  <2>5. CASE ReadRights(d) \/ GrantDirectly(d)
    <3>1. PICK r : call' = [call EXCEPT ![d] = [call[d] EXCEPT !.at = "granted", !.rights = r]]
      BY <2>5, Zenon DEF ReadRights, GrantDirectly
    <3>2. /\ [call[d] EXCEPT !.at = "granted", !.rights = r].at = "granted"
          /\ [call[d] EXCEPT !.at = "granted", !.rights = r].kind = call[d].kind
      BY <2>1 DEF Call
    <3> QED BY <2>2, <3>1, <3>2
  <2>6. CASE CreateSession(d)
    <3>1. PICK s : call' = [call EXCEPT ![d] = [call[d] EXCEPT !.at = "answered", !.sid = s, !.had = {}]]
      BY <2>6, Zenon DEF CreateSession
    <3>2. /\ [call[d] EXCEPT !.at = "answered", !.sid = s, !.had = {}].at = "answered"
          /\ [call[d] EXCEPT !.at = "answered", !.sid = s, !.had = {}].kind = call[d].kind
      BY <2>1 DEF Call
    <3> QED BY <2>2, <3>1, <3>2
  <2>7. CASE (ServeSession(d) /\ Valid(call[d].sid)) \/ PassGate(d) \/ TakeCredential(d)
    <3>1. call[d].kind # "login"
      BY <1>1, <2>7 DEF ServeSession, PassGate, TakeCredential, Is, TfsKinds
    <3>2. PICK k : call' = [call EXCEPT ![d] = k]
      BY <2>7, Zenon DEF ServeSession, PassGate, TakeCredential
    <3>3. c # d
      BY <3>1
    <3> QED BY <1>1, <3>2, <3>3
  <2>8. CASE ServeSession(d) /\ ~Valid(call[d].sid)
    BY <2>3, <2>8 DEF ServeSession
  <2>9. CASE \/ Reject(d) \/ RefuseUnmapped(d) \/ ServeLogout(d) \/ RefuseAtGate(d)
             \/ RefuseCredential(d) \/ Answer(d) \/ Lose(d)
    BY <2>3, <2>9 DEF Reject, RefuseUnmapped, ServeLogout, RefuseAtGate, RefuseCredential, Answer, Lose
  <2> QED BY <1>6, <2>4, <2>5, <2>6, <2>7, <2>8, <2>9 DEF Handle, ServeTfs, ServeData, Gate
<1> QED BY <1>3, <1>4, <1>5, <1>6 DEF World

\* The page begins with what an earlier page may have left.
LEMMA Begins == Init => IInv
<1> SUFFICES ASSUME Init PROVE IInv
  OBVIOUS
<1>1. PICK c \in Calls : call = [[d \in Calls |-> Idle] EXCEPT ![c].at = "sent", ![c].sid = cookie]
  BY DEF Init
<1>2. cookie \in 0..issued /\ issued \in 0..MaxSessions /\ cookie \in Ids \cup {NoCookie}
  BY SessionAssumption DEF Init, Earlier, None, NoCookie, Ids
<1>3. /\ store \in [Ids -> Session \cup {NoSession}]
      /\ owner \in [Ids -> Users \cup {Nobody}]
      /\ \A s \in Ids : SessionOK(s)
  <2>1. CASE None
    BY <2>1 DEF None, SessionOK
  <2>2. CASE Earlier
    <3>1. PICK u \in Users, tfs \in BOOLEAN :
              LET rights == IF u \in Mapped THEN Grant(roles[u], tfs) ELSE DirectRights
              IN  /\ u \in Mapped \/ (tfs /\ ~options.mapping)
                  /\ issued = 1
                  /\ store = [s \in Ids |->
                         IF s = 1 THEN [user |-> u, rights |-> rights, cred |-> IF tfs THEN u ELSE Nobody,
                                        expires |-> Lifetime, born |-> 0,
                                        had |-> IF u \in Mapped THEN roles[u] ELSE {}]
                         ELSE NoSession]
                  /\ owner = [s \in Ids |-> IF s = 1 THEN u ELSE Nobody]
      BY <2>2 DEF Earlier
    <3> DEFINE rights == IF u \in Mapped THEN Grant(roles[u], tfs) ELSE DirectRights
               had == IF u \in Mapped THEN roles[u] ELSE {}
               first == [user |-> u, rights |-> rights, cred |-> IF tfs THEN u ELSE Nobody,
                         expires |-> Lifetime, born |-> 0, had |-> had]
    <3>2. store = [s \in Ids |-> IF s = 1 THEN first ELSE NoSession]
      BY <3>1
    <3>3. had \subseteq Rights
      BY SessionAssumption DEF Init
    <3>4. rights \subseteq Rights
      BY <3>3 DEF Grant, DirectRights, Rights
    <3>5. Justified(u, tfs, had, rights)
      BY <3>1 DEF Justified, Grant
    <3>6. (first.cred # Nobody) = tfs
      BY SessionAssumption
    <3> HIDE DEF rights, had
    <3>7. /\ first \in Session
          /\ Justified(first.user, first.cred # Nobody, first.had, first.rights)
      BY <3>3, <3>4, <3>5, <3>6, SessionAssumption DEF Session
    <3>8. /\ first.user = u /\ first.cred \in {Nobody, u}
          /\ first.expires = first.born + Lifetime
      BY SessionAssumption
    <3> HIDE DEF first
    <3>9. store \in [Ids -> Session \cup {NoSession}]
      BY <3>2, <3>7
    <3>10. owner \in [Ids -> Users \cup {Nobody}]
      BY <3>1
    <3>11. ASSUME NEW s \in Ids PROVE SessionOK(s)
      <4>1. CASE s = 1
        BY <3>1, <3>2, <3>7, <3>8, <4>1, SMTT(30) DEF SessionOK, Init
      <4>2. CASE s # 1
        BY <3>2, <4>2 DEF SessionOK
      <4> QED BY <4>1, <4>2
    <3> QED BY <3>9, <3>10, <3>11
  <2> QED BY <2>1, <2>2 DEF Init
<1> DEFINE k == [Idle EXCEPT !.at = "sent", !.sid = cookie]
<1>4. Idle \in Call
  BY DEF Idle, Only, Call, Kinds, Stages, NoCookie, Ids
<1>5. k \in Call /\ k.kind = Idle.kind /\ k.at = "sent" /\ k.sid = cookie
  BY <1>2, <1>4 DEF Call, Stages
<1>6. CallOK(Idle)
  BY <1>2, <1>4 DEF CallOK, Idle, Only, NoCookie
<1>7. Idle.kind = "session"
  BY DEF Idle, Only
<1>8. call = [d \in Calls |-> IF d = c THEN k ELSE Idle]
  BY <1>1
<1> HIDE DEF k
<1>9. call \in [Calls -> Call]
  BY <1>4, <1>5, <1>8
<1>10. CallOK(k)
  BY <1>2, <1>5, <1>7 DEF CallOK
<1>11. ServerTypeOK
  BY <1>2, <1>3, <1>9, SessionAssumption DEF ServerTypeOK, Init
<1>12. ServerInv
  BY <1>3, <1>6, <1>8, <1>10, <1>11 DEF ServerInv
<1>13. TypeOK /\ WaitingIsForLogin
  BY <1>2, <1>11 DEF TypeOK, WaitingIsForLogin, Init, Anonymous
<1> QED BY <1>12, <1>13 DEF IInv

\* Cookies stay cookies that were set.
LEMMA IdsGrow ==
    ASSUME ServerInv, World \/ \E d \in Calls : Handle(d) \/ Deliver(d) \/ Finish(d)
    PROVE  issued' \in {issued, issued + 1}
BY Zenon DEF World, Tick, Restart, ChangeRoles, Handle, ServeTfs, ServeData, Gate, Verify,
             Reject, ReadRights, GrantDirectly, RefuseUnmapped, CreateSession, ServeSession, ServeLogout, PassGate, RefuseAtGate,
             TakeCredential, RefuseCredential, Answer, Lose, Deliver, Finish

\* Every step of the browser is one of any client.
LEMMA BrowserStep ==
    ASSUME ServerInv, TypeOK, [Next]_vars
    PROVE  ServerInv'
<1>1. cookie \in 0..issued
  BY DEF TypeOK
<1>2. "login" \in Kinds /\ "logout" \in Kinds /\ Routes \subseteq Kinds
  BY DEF Kinds
<1>3. "login" \notin Routes
  BY SessionAssumption
<1>4. ASSUME NEW c \in Calls, NEW u \in Users, NEW tfs \in BOOLEAN, SubmitLogin(c, u, tfs)
      PROVE  ServerInv'
  BY <1>1, <1>2, <1>4, SendStep DEF SubmitLogin
<1>5. ASSUME NEW c \in Calls, ClickLogout(c)
      PROVE  ServerInv'
  BY <1>1, <1>2, <1>5, SendStep DEF ClickLogout
<1>6. ASSUME NEW c \in Calls, NEW kind \in Routes, Fetch(c, kind)
      PROVE  ServerInv'
  BY <1>1, <1>2, <1>3, <1>6, SendStep DEF Fetch
<1>7. ASSUME NEW c \in Calls, Continue(c)
      PROVE  ServerInv'
  <2>1. Deliver(c) \/ Finish(c)
    BY <1>7 DEF Continue, TakeCookie, LoggedIn, LoginFailed, Restored, NotRestored, LoggedOut, LogoutFailed
  <2> QED BY <2>1, Handled
<1>8. CASE UNCHANGED vars
  BY <1>8, ServerStep DEF vars, serverVars
<1> QED BY <1>4, <1>5, <1>6, <1>7, <1>8, Handled, WorldGoesOn DEF Next

\* What a request carries is fit to be shown.
LEMMA AnswersAreShowable ==
    ASSUME ServerInv, NEW c \in Calls
    PROVE  As(c) \in [status : {"anonymous", "authenticating", "authenticated", "error"},
                      user : Users \cup {Nobody}, rights : SUBSET Rights]
<1>1. call[c] \in Call
  BY DEF ServerInv, ServerTypeOK
<1> QED BY <1>1 DEF As, Call

\* No step of the page, the API or the world breaks the invariant.
LEMMA Preserved ==
    ASSUME IInv, [Next]_vars
    PROVE  IInv'
<1> DEFINE UI == [status : {"anonymous", "authenticating", "authenticated", "error"},
                  user : Users \cup {Nobody}, rights : SUBSET Rights]
           UIOK == /\ ui \in UI
                   /\ ui.status # "authenticated" => ui.user = Nobody /\ ui.rights = {}
           Waiting(f, c) == f[c].kind = "login" /\ f[c].at # "idle"
<1>1. /\ ServerInv /\ ServerInv' /\ ServerTypeOK'
      /\ cookie \in 0..issued /\ UIOK /\ overlaps \in BOOLEAN
      /\ ui.status = "authenticating" => \E c \in Calls : Waiting(call, c)
      /\ call \in [Calls -> Call] /\ issued \in Nat /\ issued' \in Nat
  BY BrowserStep, SessionAssumption DEF IInv, TypeOK, WaitingIsForLogin, ServerInv, ServerTypeOK
<1>2. /\ Anonymous \in UI /\ Anonymous.status = "anonymous" /\ Anonymous.user = Nobody /\ Anonymous.rights = {}
      /\ LET e == [Anonymous EXCEPT !.status = "error"]
         IN  e \in UI /\ e.status = "error" /\ e.user = Nobody /\ e.rights = {}
      /\ LET a == [Anonymous EXCEPT !.status = "authenticating"]
         IN  a \in UI /\ a.status = "authenticating" /\ a.user = Nobody /\ a.rights = {}
      /\ \A c \in Calls : As(c) \in UI /\ As(c).status = "authenticated"
  BY <1>1, AnswersAreShowable DEF Anonymous, As
<1>3. ASSUME cookie' \in 0..issued', UIOK', overlaps' \in BOOLEAN,
             ui'.status = "authenticating" => \E c \in Calls : Waiting(call', c)
      PROVE  IInv'
  BY <1>1, <1>3 DEF IInv, TypeOK, WaitingIsForLogin
<1> HIDE DEF UI
<1>4. ASSUME NEW c \in Calls, NEW u \in Users, NEW tfs \in BOOLEAN, SubmitLogin(c, u, tfs)
      PROVE  IInv'
  <2>1. /\ UNCHANGED <<cookie, issued>> /\ ui' = [Anonymous EXCEPT !.status = "authenticating"]
        /\ overlaps' \in BOOLEAN
    BY <1>1, <1>4 DEF SubmitLogin, Send, AuthPending
  <2>2. PICK h : call' = [call EXCEPT ![c] =
            [kind |-> "login", at |-> "sent", sid |-> cookie, user |-> u, tfs |-> tfs, rights |-> {},
             cred |-> Nobody, had |-> h]]
    BY <1>4, Zenon DEF SubmitLogin, Send
  <2>3. Waiting(call', c)
    BY <1>1, <2>2
  <2> QED BY <1>1, <1>2, <1>3, <2>1, <2>3
<1>5. ASSUME NEW c \in Calls, ClickLogout(c) \/ \E kind \in Routes : Fetch(c, kind)
      PROVE  IInv'
  <2>1. /\ UNCHANGED <<cookie, issued, ui>> /\ ui.status = "authenticated"
        /\ overlaps' \in BOOLEAN
    BY <1>1, <1>5 DEF ClickLogout, Fetch, Send, AuthPending, browserVars
  <2> QED BY <1>1, <1>3, <2>1
<1>6. CASE (World \/ \E d \in Calls : Handle(d)) /\ UNCHANGED browserVars
  <2>1. UNCHANGED <<cookie, ui, overlaps>>
    BY <1>6 DEF browserVars
  <2>2. issued' \in {issued, issued + 1}
    BY <1>1, <1>6, IdsGrow
  <2>3. ASSUME NEW c \in Calls, Waiting(call, c) PROVE Waiting(call', c)
    BY <1>1, <1>6, <2>3, LoginsStay
  <2> QED BY <1>1, <1>3, <2>1, <2>2, <2>3
<1>7. ASSUME NEW c \in Calls, TakeCookie(c)
      PROVE  IInv'
  <2>1. Deliver(c) /\ UNCHANGED <<ui, overlaps, issued>> /\ cookie' \in {call[c].sid, NoCookie}
    BY <1>7 DEF TakeCookie, CookieOf, Deliver
  <2>2. call[c].sid \in 0..issued
    BY <1>1, SessionAssumption DEF ServerInv, CallOK, Call, Ids, NoCookie
  <2>3. ASSUME NEW d \in Calls, Waiting(call, d) PROVE Waiting(call', d)
    BY <1>1, <2>1, <2>3, LoginsStay
  <2> QED BY <1>1, <1>3, <2>1, <2>2, <2>3 DEF NoCookie
<1>8. ASSUME NEW c \in Calls, LoggedIn(c) \/ Restored(c) \/ LoginFailed(c) \/ LoggedOut(c)
      PROVE  IInv'
  <2>1. /\ UNCHANGED <<cookie, issued, overlaps>>
        /\ ui' \in {As(c), [Anonymous EXCEPT !.status = "error"], Anonymous}
    BY <1>8 DEF LoggedIn, Restored, LoginFailed, LoggedOut, Finish
  <2> QED BY <1>1, <1>2, <1>3, <2>1
<1>9. ASSUME NEW c \in Calls, NotRestored(c) \/ LogoutFailed(c)
      PROVE  IInv'
  <2>1. /\ UNCHANGED <<cookie, issued, ui, overlaps>>
        /\ call[c].kind # "login" /\ call' = [call EXCEPT ![c] = Idle]
    BY <1>9 DEF NotRestored, LogoutFailed, Finish, browserVars, Is
  <2>2. ASSUME NEW d \in Calls, Waiting(call, d) PROVE Waiting(call', d)
    BY <1>1, <2>1, <2>2
  <2> QED BY <1>1, <1>3, <2>1, <2>2
<1>10. CASE UNCHANGED vars
  BY <1>1, <1>3, <1>10 DEF vars
<1> QED BY <1>4, <1>5, <1>6, <1>7, <1>8, <1>9, <1>10 DEF Next, Continue

\* The invariant that the theorems below are drawn from.
THEOREM Invariance == Spec => []IInv
<1>1. IInv /\ [Next]_vars => IInv'
  BY Preserved
<1> QED BY <1>1, Begins, PTL DEF Spec

\* Sessions, requests and the page keep their shape; the cookie is one that was set.
THEOREM TypeCorrect == Spec => []TypeOK
<1>1. IInv => TypeOK
  BY DEF IInv
<1> QED BY <1>1, Invariance, PTL

\* TFS is never called with another user's credential, whatever logins, logouts,
\* expiries and restarts come between the two lookups of a request.
THEOREM CredentialIsOwn == Spec => []OwnCredential
<1>1. IInv => OwnCredential
  BY InvariantSuffices DEF IInv
<1> QED BY <1>1, Invariance, PTL

\* However roles change during logins, no session holds what nobody granted.
THEOREM RightsAreGranted == Spec => []RightsWereGranted
<1>1. IInv => RightsWereGranted
  BY InvariantSuffices DEF IInv
<1> QED BY <1>1, Invariance, PTL

\* The login form never waits for nothing.
THEOREM LoginEnds == Spec => []WaitingIsForLogin
<1>1. IInv => WaitingIsForLogin
  BY DEF IInv
<1> QED BY <1>1, Invariance, PTL

\* No request is served for a session that has ended or expired.
THEOREM EndedSessionsAreOver == Spec => EndedIsOver
<1> DEFINE P(c) == /\ call[c].sid \notin closed
                   /\ now < store[call[c].sid].born + Lifetime
           Found(c) == call[c].at # call'[c].at /\ call'[c].at \in {"checked", "calling"}
<1>1. ASSUME IInv, [Next]_vars, NEW c \in Calls, Found(c)
      PROVE  P(c)
  <2>1. ServerInv /\ call \in [Calls -> Call]
    BY <1>1 DEF IInv, ServerInv, ServerTypeOK
  <2>2. ASSUME NEW d \in Calls, Handle(d) \/ Deliver(d) \/ Finish(d)
        PROVE  P(c)
    BY <1>1, <2>1, <2>2, FoundInTime
  <2>3. ASSUME NEW d \in Calls, NEW kind, NEW s, NEW u, NEW tfs, Send(d, kind, s, u, tfs)
        PROVE  FALSE
    <3>1. PICK h : call' = [call EXCEPT ![d] =
              [kind |-> kind, at |-> "sent", sid |-> s, user |-> u, tfs |-> tfs, rights |-> {},
               cred |-> Nobody, had |-> h]]
      BY <2>3, Zenon DEF Send
    <3> QED BY <1>1, <2>1, <3>1
  <2>4. CASE World
    <3>1. CASE Tick
      BY <1>1, <3>1 DEF Tick
    <3>2. CASE Restart
      <4>1. call'[c] \in {call[c], Ended(c, "failed")}
        BY <3>2 DEF Restart
      <4> QED BY <1>1, <4>1 DEF Ended, Only, Idle
    <3>3. ASSUME NEW u \in Mapped, ChangeRoles(u)
          PROVE  FALSE
      <4>1. PICK r : call'[c] \in {call[c], [call[c] EXCEPT !.had = @ \cup r]}
        BY <3>3 DEF ChangeRoles
      <4>2. [call[c] EXCEPT !.had = @ \cup r].at = call[c].at
        BY <2>1 DEF Call
      <4> QED BY <1>1, <4>1, <4>2
    <3> QED BY <2>4, <3>1, <3>2, <3>3 DEF World
  <2>5. CASE UNCHANGED vars
    BY <1>1, <2>5 DEF vars
  <2>6. ASSUME NEW d \in Calls, Continue(d)
        PROVE  P(c)
    BY <2>2, <2>6 DEF Continue, TakeCookie, LoggedIn, LoginFailed, Restored, NotRestored, LoggedOut, LogoutFailed
  <2>7. ASSUME NEW d \in Calls,
               \/ \E u \in Users, tfs \in BOOLEAN : SubmitLogin(d, u, tfs)
               \/ ClickLogout(d)
               \/ \E kind \in Routes : Fetch(d, kind)
        PROVE  P(c)
    BY <2>3, <2>7 DEF SubmitLogin, ClickLogout, Fetch
  <2> QED BY <1>1, <2>2, <2>4, <2>5, <2>6, <2>7 DEF Next
<1>2. IInv /\ [Next]_vars => [\A c \in Calls : Found(c) => P(c)]_serverVars
  BY <1>1
<1> QED BY <1>2, Invariance, PTL DEF Spec, EndedIsOver

-------------------------------------------------------------------------------
(* What the page shows. *)

\* Session s of owners o and dictionary d is u's, with rights r as long as it lasts.
Names(o, d, s, u, r) == s # NoCookie /\ o[s] = u /\ (d[s] # NoSession => d[s].rights = r)

\* An answer that shows who is logged in.
Shows(k) == \/ k.kind = "login" /\ k.at \in {"answered", "delivered"}
            \/ k.kind = "session" /\ k.at = "answered"

Same(k, m) == /\ m.kind = k.kind /\ m.at = k.at /\ m.sid = k.sid
              /\ m.user = k.user /\ m.rights = k.rights

\* What can become of request k, as m, at the hands of the API and the world.
Outcome(k, m) ==
    \/ Same(k, m)
    \/ k.kind \in Routes /\ (m.kind \in Routes \/ m.at = "idle")
    \/ /\ k.kind \in AuthKinds /\ m.kind = k.kind /\ k.at \notin {"idle", "delivered"}
       /\ m.at = "failed" \/ (m.kind = "logout" /\ m.at = "answered")
    \/ /\ k.kind = "login" /\ m.kind = "login" /\ k.at \notin {"idle", "delivered"}
       /\ m.at \in {"verified", "granted"}
    \/ /\ k.kind = m.kind /\ k.at \notin {"idle", "delivered"} /\ Shows(m) /\ m.at = "answered"
       /\ m.kind = "session" => m.sid = k.sid /\ k.at = "sent"
       /\ Names(owner', store', m.sid, m.user, m.rights)

\* What the API and the world make of a request.
LEMMA Outcomes ==
    ASSUME ServerInv, World \/ \E d \in Calls : Handle(d), NEW c \in Calls
    PROVE  Outcome(call[c], call'[c])
<1>1. /\ call \in [Calls -> Call] /\ call[c] \in Call /\ CallOK(call[c])
      /\ call[c].kind \in Routes \cup AuthKinds
      /\ "login" \notin Routes /\ "session" \notin Routes /\ "logout" \notin Routes
  BY SessionAssumption DEF ServerInv, ServerTypeOK, Call, Kinds, AuthKinds
<1>2. ASSUME call[c].at \notin {"idle", "delivered"}, call'[c] = Ended(c, "failed")
      PROVE  Outcome(call[c], call'[c])
  <2>1. CASE call[c].kind \in Routes
    BY <1>2, <2>1 DEF Ended, Idle, Only, Outcome
  <2>2. CASE call[c].kind \in AuthKinds
    BY <1>1, <1>2, <2>2 DEF Ended, Only, Outcome, AuthKinds
  <2> QED BY <1>1, <2>1, <2>2
<1>3. CASE Tick
  BY <1>3 DEF Tick, Outcome, Same
<1>4. CASE Restart
  <2>1. CASE call'[c] = call[c]
    BY <2>1 DEF Outcome, Same
  <2> QED BY <1>2, <1>4, <2>1 DEF Restart
<1>5. ASSUME NEW u \in Mapped, ChangeRoles(u)
      PROVE  Outcome(call[c], call'[c])
  <2>1. PICK r : call'[c] \in {call[c], [call[c] EXCEPT !.had = @ \cup r]}
    BY <1>5 DEF ChangeRoles
  <2>2. Same(call[c], [call[c] EXCEPT !.had = @ \cup r])
    BY <1>1 DEF Call, Same
  <2>3. Same(call[c], call[c])
    BY DEF Same
  <2> QED BY <2>1, <2>2, <2>3 DEF Outcome
<1>6. ASSUME NEW d \in Calls, Handle(d), d # c
      PROVE  Outcome(call[c], call'[c])
  <2>1. PICK k : call' = [call EXCEPT ![d] = k]
    BY <1>6, Zenon DEF Handle, ServeTfs, ServeData, Gate, Verify, Reject, ReadRights, GrantDirectly, RefuseUnmapped, CreateSession,
       ServeSession, ServeLogout, PassGate, RefuseAtGate, TakeCredential, RefuseCredential, Answer, Lose,
       Moved, Over
  <2>2. call'[c] = call[c]
    BY <1>1, <1>6, <2>1
  <2> QED BY <2>2 DEF Outcome, Same
<1>7. CASE Reject(c) \/ RefuseUnmapped(c) \/ RefuseAtGate(c) \/ RefuseCredential(c) \/ Lose(c)
           \/ (ServeSession(c) /\ ~Valid(call[c].sid))
  <2>1. call' = Over(c, "failed")
    BY <1>7 DEF Reject, RefuseUnmapped, RefuseAtGate, RefuseCredential, Lose, ServeSession
  <2>2. call'[c] = Ended(c, "failed")
    BY <1>1, <2>1 DEF Over
  <2>3. call[c].at \notin {"idle", "delivered"}
    BY <1>7 DEF Reject, RefuseUnmapped, RefuseAtGate, RefuseCredential, Lose, ServeSession, Is
  <2> QED BY <1>2, <2>2, <2>3
<1>8. CASE ServeLogout(c) \/ Answer(c)
  <2>1. call'[c] = Ended(c, "answered")
    BY <1>1, <1>8 DEF ServeLogout, Answer, Over
  <2>2. CASE ServeLogout(c)
    <3>1. call[c].kind = "logout" /\ call[c].at = "sent"
      BY <2>2 DEF ServeLogout, Is
    <3> QED BY <1>1, <2>1, <3>1 DEF Ended, Only, Outcome, AuthKinds
  <2>3. CASE Answer(c)
    <3>1. call[c].kind \in Routes
      BY <1>1, <2>3 DEF Answer, Is, TfsKinds, AuthKinds
    <3> QED BY <2>1, <3>1 DEF Ended, Idle, Only, Outcome
  <2> QED BY <1>8, <2>2, <2>3
<1>9. CASE Verify(c)
  <2>1. call' = [call EXCEPT ![c] = [call[c] EXCEPT !.at = "verified"]]
    BY <1>9, Zenon DEF Verify, Moved
  <2>2. /\ [call[c] EXCEPT !.at = "verified"].at = "verified"
        /\ [call[c] EXCEPT !.at = "verified"].kind = call[c].kind
    BY <1>1 DEF Call
  <2>3. call[c].kind = "login" /\ call[c].at = "sent"
    BY <1>9 DEF Verify, IsLocal, Is
  <2>4. call'[c].at = "verified" /\ call'[c].kind = "login"
    BY <1>1, <2>1, <2>2, <2>3
  <2> QED BY <2>3, <2>4 DEF Outcome
<1>10. CASE ReadRights(c) \/ GrantDirectly(c)
  <2>1. PICK r : call' = [call EXCEPT ![c] = [call[c] EXCEPT !.at = "granted", !.rights = r]]
    BY <1>10, Zenon DEF ReadRights, GrantDirectly
  <2>2. /\ [call[c] EXCEPT !.at = "granted", !.rights = r].at = "granted"
        /\ [call[c] EXCEPT !.at = "granted", !.rights = r].kind = call[c].kind
    BY <1>1 DEF Call
  <2>3. call[c].kind = "login" /\ call[c].at = "verified"
    BY <1>10 DEF ReadRights, GrantDirectly, Is
  <2>4. call'[c].at = "granted" /\ call'[c].kind = "login"
    BY <1>1, <2>1, <2>2, <2>3
  <2> QED BY <2>3, <2>4 DEF Outcome
<1>11. CASE PassGate(c) \/ TakeCredential(c)
  <2>1. PICK k : call' = [call EXCEPT ![c] = k] /\ k.kind = call[c].kind
    <3>1. CASE PassGate(c)
      <4>1. call' = [call EXCEPT ![c] = [call[c] EXCEPT !.at = "checked", !.user = store[call[c].sid].user]]
        BY <3>1, Zenon DEF PassGate
      <4>2. [call[c] EXCEPT !.at = "checked", !.user = store[call[c].sid].user].kind = call[c].kind
        BY <1>1 DEF Call
      <4> QED BY <4>1, <4>2
    <3>2. CASE TakeCredential(c)
      <4>1. call' = [call EXCEPT ![c] = [call[c] EXCEPT !.at = "calling", !.cred = store[call[c].sid].cred]]
        BY <3>2, Zenon DEF TakeCredential
      <4>2. [call[c] EXCEPT !.at = "calling", !.cred = store[call[c].sid].cred].kind = call[c].kind
        BY <1>1 DEF Call
      <4> QED BY <4>1, <4>2
    <3> QED BY <1>11, <3>1, <3>2
  <2>2. call[c].kind \in Routes
    BY <1>1, <1>11 DEF PassGate, TakeCredential, Is, TfsKinds, AuthKinds
  <2>3. call'[c].kind \in Routes
    BY <1>1, <2>1, <2>2
  <2> QED BY <2>2, <2>3 DEF Outcome
<1>12. CASE CreateSession(c)
  <2> DEFINE s == issued + 1
             k == [call[c] EXCEPT !.at = "answered", !.sid = s, !.had = {}]
             new == [user |-> call[c].user, rights |-> call[c].rights,
                     cred |-> IF call[c].tfs THEN call[c].user ELSE Nobody, expires |-> now + Lifetime,
                     had |-> call[c].had, born |-> now]
  <2>1. s \in Ids /\ s # NoCookie
    BY <1>12, SessionAssumption DEF CreateSession, ServerInv, ServerTypeOK, Ids, NoCookie
  <2>2. /\ k.at = "answered" /\ k.sid = s /\ k.kind = call[c].kind
        /\ k.user = call[c].user /\ k.rights = call[c].rights
    BY <1>1 DEF Call
  <2>3. call' = [call EXCEPT ![c] = k]
    BY <1>12, Zenon DEF CreateSession, NewId
  <2> HIDE DEF k
  <2>4. store' = [store EXCEPT ![s] = new] /\ owner' = [owner EXCEPT ![s] = call[c].user]
    BY <1>12 DEF CreateSession, NewId
  <2>5. owner'[s] = call[c].user /\ store'[s] = new
    BY <2>1, <2>4 DEF ServerInv, ServerTypeOK
  <2>6. new.rights = call[c].rights
    OBVIOUS
  <2> HIDE DEF new
  <2>7. call'[c] = k
    BY <1>1, <2>3
  <2>8. call[c].kind = "login" /\ call[c].at = "granted"
    BY <1>12 DEF CreateSession, Is
  <2>9. Names(owner', store', k.sid, k.user, k.rights)
    BY <2>1, <2>2, <2>5, <2>6 DEF Names
  <2> QED BY <2>2, <2>7, <2>8, <2>9 DEF Outcome, Shows
<1>13. CASE ServeSession(c) /\ Valid(call[c].sid)
  <2> DEFINE s == call[c].sid
             v == store[s].user
             r == store[s].rights
             k == [call[c] EXCEPT !.at = "answered", !.user = v, !.rights = r]
  <2>1. s \in Ids /\ s # NoCookie /\ store[s] # NoSession /\ Swept(s) = store
    BY <1>1, <1>13 DEF Valid, Swept, Call
  <2>2. owner[s] = v
    BY <2>1 DEF ServerInv, SessionOK
  <2>3. /\ k.at = "answered" /\ k.sid = s /\ k.kind = call[c].kind
        /\ k.user = v /\ k.rights = r
    BY <1>1 DEF Call
  <2>4. call' = [call EXCEPT ![c] = k]
    BY <1>13, Zenon DEF ServeSession
  <2> HIDE DEF k
  <2>5. call'[c] = k
    BY <1>1, <2>4
  <2>6. call[c].kind = "session" /\ call[c].at = "sent" /\ store' = store /\ owner' = owner
    BY <1>13, <2>1 DEF ServeSession, Is
  <2>7. Names(owner', store', k.sid, k.user, k.rights)
    BY <2>1, <2>2, <2>3, <2>6 DEF Names
  <2> QED BY <2>3, <2>5, <2>6, <2>7 DEF Outcome, Shows
<1> QED
  BY <1>3, <1>4, <1>5, <1>6, <1>7, <1>8, <1>9, <1>10, <1>11, <1>12, <1>13 DEF World, Handle, ServeTfs, ServeData, Gate

\* A session once named keeps its owner, and its rights as long as it lasts.
LEMMA NamesStay ==
    ASSUME ServerInv, World \/ \E d \in Calls : Handle(d),
           NEW s \in 0..issued, NEW u, NEW r, Names(owner, store, s, u, r)
    PROVE  Names(owner', store', s, u, r)
<1>1. /\ s \in Ids /\ issued \in Nat
      /\ store \in [Ids -> Session \cup {NoSession}]
      /\ owner \in [Ids -> Users \cup {Nobody}]
  BY SessionAssumption DEF ServerInv, ServerTypeOK, Names, Ids, NoCookie
<1>2. ASSUME owner' = owner, store' = store \/ store'[s] \in {store[s], NoSession}
      PROVE  Names(owner', store', s, u, r)
  BY <1>2 DEF Names
<1>3. CASE World
  <2>1. owner' = owner /\ (store' = store \/ store' = [t \in Ids |-> NoSession])
    BY <1>3 DEF World, Tick, Restart, ChangeRoles
  <2> QED BY <1>1, <1>2, <2>1
<1>4. ASSUME NEW d \in Calls, CreateSession(d)
      PROVE  Names(owner', store', s, u, r)
  <2>1. s # issued + 1
    BY <1>1
  <2>2. owner'[s] = owner[s] /\ store'[s] = store[s]
    BY <1>1, <1>4, <2>1 DEF CreateSession, NewId
  <2> QED BY <2>2 DEF Names
<1>5. ASSUME NEW d \in Calls, Handle(d), ~CreateSession(d)
      PROVE  Names(owner', store', s, u, r)
  <2>1. /\ owner' = owner
        /\ \/ store' \in {store, Swept(call[d].sid)}
           \/ store' = [t \in Ids |-> IF t = call[d].sid THEN NoSession ELSE store[t]]
    BY <1>5, Zenon DEF Handle, ServeTfs, ServeData, Gate, Verify, Reject, ReadRights, GrantDirectly, RefuseUnmapped, ServeSession,
       ServeLogout, PassGate, RefuseAtGate, TakeCredential, RefuseCredential, Answer, Lose
  <2>2. call[d].sid \in Ids \cup {NoCookie}
    BY DEF ServerInv, ServerTypeOK, Call
  <2>3. Swept(call[d].sid)[s] \in {store[s], NoSession}
    BY <1>1, <2>2, SweptIsSmaller
  <2> QED BY <1>1, <1>2, <2>1, <2>3
<1> QED BY <1>3, <1>4, <1>5

Pending(k) == k.kind \in AuthKinds /\ k.at # "idle"

LogoutTaken(k) == k.kind = "logout" /\ k.at = "delivered"

\* Answers name sessions they describe; and one login, logout or restore at a
\* time leaves the page with what the last one said.
AnswersName ==
    \A c \in Calls : Shows(call[c]) => Names(owner, store, call[c].sid, call[c].user, call[c].rights)

OneAtATime ==
    /\ \A c, d \in Calls : Pending(call[c]) /\ Pending(call[d]) => c = d
    /\ ui.status = "authenticated" => \A c \in Calls : Pending(call[c]) => call[c].kind = "logout"
    /\ ui.status = "authenticated" /\ (\A c \in Calls : ~LogoutTaken(call[c])) =>
          Names(owner, store, cookie, ui.user, ui.rights)
    /\ \A c \in Calls : call[c].kind = "login" /\ call[c].at = "delivered" => cookie = call[c].sid
    /\ \A c \in Calls : call[c].kind = "session" /\ call[c].at \in {"sent", "answered"} => cookie = call[c].sid

ShownInv == AnswersName /\ (~overlaps => OneAtATime)

\* What the API does meanwhile.
LEMMA ShownThroughHandling ==
    ASSUME IInv, ShownInv, World \/ \E d \in Calls : Handle(d), UNCHANGED browserVars
    PROVE  ShownInv'
<1>1. /\ ServerInv /\ UNCHANGED <<cookie, ui, overlaps>>
      /\ cookie \in 0..issued
      /\ \A c \in Calls : call[c].sid \in 0..issued
      /\ "login" \notin Routes /\ "session" \notin Routes /\ "logout" \notin Routes
  BY SessionAssumption DEF IInv, TypeOK, ServerInv, ServerTypeOK, CallOK, Call, Ids, NoCookie, browserVars
<1>2. \A c \in Calls : Outcome(call[c], call'[c])
  BY <1>1, Outcomes
<1>3. \A s \in 0..issued : \A u, r : Names(owner, store, s, u, r) => Names(owner', store', s, u, r)
  BY <1>1, NamesStay
<1>4. ASSUME NEW c \in Calls
      PROVE  /\ Pending(call'[c]) => Pending(call[c]) /\ call'[c].kind = call[c].kind
             /\ LogoutTaken(call[c]) => LogoutTaken(call'[c])
             /\ call'[c].kind = "login" /\ call'[c].at = "delivered" =>
                   call[c].kind = "login" /\ call[c].at = "delivered" /\ call'[c].sid = call[c].sid
             /\ call'[c].kind = "session" /\ call'[c].at \in {"sent", "answered"} =>
                   call[c].kind = "session" /\ call[c].at \in {"sent", "answered"} /\ call'[c].sid = call[c].sid
             /\ Shows(call'[c]) =>
                   \/ Names(owner', store', call'[c].sid, call'[c].user, call'[c].rights)
                   \/ Shows(call[c]) /\ Same(call[c], call'[c])
  BY <1>1, <1>2 DEF Outcome, Pending, LogoutTaken, Shows, Same, AuthKinds
<1>5. AnswersName'
  BY <1>1, <1>3, <1>4 DEF ShownInv, AnswersName, Same
<1>6. ASSUME OneAtATime PROVE OneAtATime'
  <2>1. ui'.status = "authenticated" /\ (\A c \in Calls : ~LogoutTaken(call'[c])) =>
           Names(owner', store', cookie', ui'.user, ui'.rights)
    BY <1>1, <1>3, <1>4, <1>6 DEF OneAtATime
  <2> QED BY <1>1, <1>4, <1>6, <2>1 DEF OneAtATime
<1> QED BY <1>1, <1>5, <1>6 DEF ShownInv

\* A new request: if it is one of the three, no other is under way.
LEMMA ShownThroughSending ==
    ASSUME IInv, ShownInv, NEW c \in Calls,
           \/ \E u \in Users, tfs \in BOOLEAN : SubmitLogin(c, u, tfs)
           \/ ClickLogout(c)
           \/ \E kind \in Routes : Fetch(c, kind)
    PROVE  ShownInv'
<1>1. /\ call \in [Calls -> Call] /\ UNCHANGED <<owner, store, cookie>>
      /\ "login" \notin Routes /\ "session" \notin Routes /\ "logout" \notin Routes
  BY SessionAssumption DEF IInv, ServerInv, ServerTypeOK, SubmitLogin, ClickLogout, Fetch, Send, browserVars
<1>2. PICK k : /\ call' = [call EXCEPT ![c] = k] /\ k.at = "sent"
               /\ k.kind \in Routes \cup {"login", "logout"}
  <2>1. PICK kind \in Routes \cup {"login", "logout"}, u \in Users \cup {Nobody}, tfs \in BOOLEAN :
            Send(c, kind, cookie, u, tfs)
    BY DEF SubmitLogin, ClickLogout, Fetch
  <2> DEFINE m(h) == [kind |-> kind, at |-> "sent", sid |-> cookie, user |-> u, tfs |-> tfs, rights |-> {},
                      cred |-> Nobody, had |-> h]
  <2>2. PICK h : call' = [call EXCEPT ![c] = m(h)]
    BY <2>1, Zenon DEF Send
  <2>3. m(h).at = "sent" /\ m(h).kind = kind
    OBVIOUS
  <2> HIDE DEF m
  <2> QED BY <2>1, <2>2, <2>3
<1>3. call'[c] = k /\ \A d \in Calls \ {c} : call'[d] = call[d]
  BY <1>1, <1>2
<1>4. AnswersName'
  BY <1>1, <1>2, <1>3 DEF ShownInv, AnswersName, Shows
<1>5. CASE \E kind \in Routes : Fetch(c, kind)
  <2>1. UNCHANGED <<ui, overlaps>> /\ k.kind \in Routes /\ call[c].at = "idle"
    <3>1. PICK kind \in Routes : Fetch(c, kind)
      BY <1>5
    <3>2. PICK h : call' = [call EXCEPT ![c] =
              [kind |-> kind, at |-> "sent", sid |-> cookie, user |-> Nobody, tfs |-> FALSE, rights |-> {},
               cred |-> Nobody, had |-> h]]
      BY <3>1, Zenon DEF Fetch, Send
    <3>3. call'[c].kind = kind
      BY <1>1, <3>2
    <3> QED BY <1>3, <3>1, <3>3 DEF Fetch, Send, browserVars
  <2>2. ~Pending(k) /\ ~Pending(call[c]) /\ ~LogoutTaken(k) /\ ~LogoutTaken(call[c])
    BY <1>1, <1>2, <2>1 DEF Pending, LogoutTaken, AuthKinds
  <2>3. OneAtATime => OneAtATime'
    BY <1>1, <1>2, <1>3, <2>1, <2>2 DEF OneAtATime
  <2> QED BY <1>4, <2>1, <2>3 DEF ShownInv
<1>6. CASE ClickLogout(c) \/ \E u \in Users, tfs \in BOOLEAN : SubmitLogin(c, u, tfs)
  <2>1. overlaps' = (overlaps \/ AuthPending)
    BY <1>6 DEF ClickLogout, SubmitLogin
  <2>2. /\ ui'.status = "authenticated" => ui' = ui /\ k.kind = "logout"
    <3>1. CASE ClickLogout(c)
      <4>1. PICK h : call' = [call EXCEPT ![c] =
                [kind |-> "logout", at |-> "sent", sid |-> cookie, user |-> Nobody, tfs |-> FALSE, rights |-> {},
                 cred |-> Nobody, had |-> h]]
        BY <3>1, Zenon DEF ClickLogout, Send
      <4>2. call'[c].kind = "logout"
        BY <1>1, <4>1
      <4> QED BY <1>3, <3>1, <4>2 DEF ClickLogout
    <3>2. CASE \E u \in Users, tfs \in BOOLEAN : SubmitLogin(c, u, tfs)
      BY <3>2 DEF SubmitLogin, Anonymous
    <3> QED BY <1>6, <3>1, <3>2
  <2>3. ASSUME ~overlaps' PROVE OneAtATime'
    <3>1. OneAtATime /\ \A d \in Calls : ~Pending(call[d])
      BY <2>1, <2>3 DEF ShownInv, AuthPending, Pending
    <3>2. \A d \in Calls : ~LogoutTaken(call[d])
      BY <3>1 DEF LogoutTaken, Pending, AuthKinds
    <3>3. \A d \in Calls : Pending(call'[d]) => d = c
      BY <1>3, <3>1
    <3>4. \A d \in Calls \ {c} : /\ ~(call'[d].kind = "login" /\ call'[d].at = "delivered")
                                 /\ ~(call'[d].kind = "session" /\ call'[d].at \in {"sent", "answered"})
      BY <1>3, <3>1 DEF Pending, AuthKinds
    <3>5. ui'.status = "authenticated" => Names(owner', store', cookie', ui'.user, ui'.rights)
      BY <1>1, <2>2, <3>1, <3>2 DEF OneAtATime
    <3> QED BY <1>1, <1>2, <1>3, <2>2, <3>3, <3>4, <3>5 DEF OneAtATime
  <2> QED BY <1>4, <2>3 DEF ShownInv
<1> QED BY <1>5, <1>6

\* The page goes on: what was delivered is what it shows.
LEMMA ShownThroughAnswers ==
    ASSUME IInv, ShownInv, NEW c \in Calls, Continue(c)
    PROVE  ShownInv'
<1>1. /\ call \in [Calls -> Call] /\ UNCHANGED <<owner, store, overlaps>>
      /\ "login" \notin Routes /\ "session" \notin Routes /\ "logout" \notin Routes
  BY SessionAssumption DEF IInv, ServerInv, ServerTypeOK, Continue, TakeCookie, LoggedIn, LoginFailed, Restored,
     NotRestored, LoggedOut, LogoutFailed, Deliver, Finish, browserVars
<1>2. CASE TakeCookie(c)
  <2> DEFINE k == [call[c] EXCEPT !.at = "delivered"]
  <2>1. call' = [call EXCEPT ![c] = k]
    BY <1>2, Zenon DEF TakeCookie, Deliver, Moved
  <2>2. /\ k.at = "delivered" /\ k.kind = call[c].kind /\ k.sid = call[c].sid
        /\ k.user = call[c].user /\ k.rights = call[c].rights
    BY <1>1 DEF Call
  <2> HIDE DEF k
  <2>3. call'[c] = k /\ \A d \in Calls \ {c} : call'[d] = call[d]
    BY <1>1, <2>1
  <2>4. /\ call[c].kind \in {"login", "logout"} /\ call[c].at = "answered"
        /\ UNCHANGED ui
        /\ call[c].kind = "login" => cookie' = call[c].sid
    BY <1>2 DEF TakeCookie, Deliver, Is, CookieOf
  <2>5. AnswersName'
    BY <1>1, <2>2, <2>3, <2>4 DEF ShownInv, AnswersName, Shows
  <2>6. ASSUME OneAtATime PROVE OneAtATime'
    <3>1. Pending(call[c]) /\ Pending(call'[c])
      BY <2>2, <2>3, <2>4 DEF Pending, AuthKinds
    <3>2. \A d \in Calls \ {c} : ~Pending(call[d]) /\ ~Pending(call'[d])
      BY <2>3, <2>6, <3>1 DEF OneAtATime
    <3>3. ui.status = "authenticated" => LogoutTaken(call'[c]) /\ call'[c].kind = "logout"
      BY <2>2, <2>3, <2>6, <3>1 DEF OneAtATime, LogoutTaken
    <3>4. \A d \in Calls \ {c} : call'[d].kind \in AuthKinds => call'[d].at = "idle"
      BY <3>2 DEF Pending
    <3>5. ASSUME NEW d \in Calls, call'[d].kind = "login", call'[d].at = "delivered"
          PROVE  cookie' = call'[d].sid
      <4>1. d = c
        BY <3>4, <3>5 DEF AuthKinds
      <4> QED BY <2>2, <2>3, <2>4, <3>5, <4>1
    <3>6. \A d \in Calls : ~(call'[d].kind = "session" /\ call'[d].at \in {"sent", "answered"})
      BY <2>2, <2>3, <2>4, <3>4 DEF AuthKinds
    <3>7. ui'.status = "authenticated" => \A d \in Calls : Pending(call'[d]) => call'[d].kind = "logout"
      BY <2>4, <3>2, <3>3
    <3>8. ui'.status = "authenticated" => \E d \in Calls : LogoutTaken(call'[d])
      BY <2>4, <3>3
    <3>9. \A d, e \in Calls : Pending(call'[d]) /\ Pending(call'[e]) => d = e
      BY <3>2
    <3> QED BY <3>5, <3>6, <3>7, <3>8, <3>9 DEF OneAtATime
  <2> QED BY <1>1, <2>5, <2>6 DEF ShownInv
<1>3. CASE Finish(c)
  <2>1. /\ call'[c] = Idle /\ \A d \in Calls \ {c} : call'[d] = call[d]
        /\ Idle.at = "idle"
    BY <1>1, <1>3 DEF Finish, Idle, Only
  <2>2. ~Shows(Idle) /\ ~Pending(Idle) /\ ~LogoutTaken(Idle)
    BY <2>1 DEF Shows, Pending, LogoutTaken
  <2>3. AnswersName'
    BY <1>1, <2>1, <2>2 DEF ShownInv, AnswersName
  <2>4. UNCHANGED cookie
    <3>1. ~TakeCookie(c)
      <4>1. call[c].kind \in {"login", "logout"} => call[c].at # "answered"
        BY <1>3 DEF Finish, Is
      <4> QED BY <4>1 DEF TakeCookie, Deliver, Is
    <3> QED BY <3>1 DEF Continue, LoggedIn, LoginFailed, Restored, NotRestored, LoggedOut, LogoutFailed, browserVars
  <2>5. ASSUME OneAtATime, Pending(call[c]),
               ui'.status = "authenticated" => Names(owner, store, cookie, ui'.user, ui'.rights)
        PROVE  OneAtATime'
    <3>1. \A d \in Calls : ~Pending(call'[d])
      BY <2>1, <2>2, <2>5 DEF OneAtATime
    <3>2. \A d \in Calls : call'[d].kind \in AuthKinds => call'[d].at = "idle"
      BY <3>1 DEF Pending
    <3> QED BY <1>1, <2>4, <2>5, <3>1, <3>2 DEF OneAtATime, AuthKinds
  <2>6. CASE LoggedIn(c) \/ Restored(c)
    <3>1. Shows(call[c]) /\ Pending(call[c]) /\ ui' = As(c)
      BY <2>6 DEF LoggedIn, Restored, Is, Shows, Pending, AuthKinds
    <3>2. Names(owner, store, call[c].sid, ui'.user, ui'.rights)
      BY <3>1 DEF ShownInv, AnswersName, As
    <3>3. OneAtATime => cookie = call[c].sid
      BY <2>6 DEF OneAtATime, LoggedIn, Restored, Is
    <3>4. OneAtATime => OneAtATime'
      BY <2>5, <3>1, <3>2, <3>3
    <3> QED BY <1>1, <2>3, <3>4 DEF ShownInv
  <2>7. CASE LoginFailed(c) \/ LoggedOut(c)
    <3>1. Pending(call[c]) /\ ui'.status # "authenticated"
      BY <2>7 DEF LoginFailed, LoggedOut, Is, Pending, AuthKinds, Anonymous
    <3>2. OneAtATime => OneAtATime'
      BY <2>5, <3>1
    <3> QED BY <1>1, <2>3, <3>2 DEF ShownInv
  <2>8. CASE NotRestored(c) \/ LogoutFailed(c)
    <3>1. /\ call[c].kind \in {"session", "logout"} /\ call[c].at = "failed" /\ UNCHANGED ui
          /\ Pending(call[c]) /\ ~LogoutTaken(call[c])
      BY <2>8 DEF NotRestored, LogoutFailed, Is, Pending, LogoutTaken, AuthKinds, browserVars
    <3>2. ASSUME OneAtATime PROVE \A d \in Calls : ~LogoutTaken(call[d])
      BY <3>1, <3>2 DEF OneAtATime, LogoutTaken, Pending, AuthKinds
    <3>3. OneAtATime /\ ui.status = "authenticated" => Names(owner, store, cookie, ui.user, ui.rights)
      BY <3>2 DEF OneAtATime
    <3>4. OneAtATime => OneAtATime'
      BY <2>5, <3>1, <3>3
    <3> QED BY <1>1, <2>3, <3>4 DEF ShownInv
  <2>9. TakeCookie(c) => ShownInv'
    BY <1>2
  <2> QED BY <2>6, <2>7, <2>8, <2>9 DEF Continue
<1> QED
  BY <1>2, <1>3 DEF Continue, LoggedIn, LoginFailed, Restored, NotRestored, LoggedOut, LogoutFailed

\* At first nothing is shown, and the one request is of the session that the cookie names.
LEMMA ShownAtFirst == Init => ShownInv
<1> SUFFICES ASSUME Init PROVE ShownInv
  OBVIOUS
<1>1. PICK c \in Calls : call = [[d \in Calls |-> Idle] EXCEPT ![c].at = "sent", ![c].sid = cookie]
  BY DEF Init
<1> DEFINE k == [Idle EXCEPT !.at = "sent", !.sid = cookie]
<1>2. k.at = "sent" /\ k.sid = cookie /\ k.kind = "session" /\ Idle.at = "idle"
  BY DEF Idle, Only
<1>3. call = [d \in Calls |-> IF d = c THEN k ELSE Idle]
  BY <1>1
<1> HIDE DEF k
<1>4. \A d \in Calls : call[d] = IF d = c THEN k ELSE Idle
  BY <1>3
<1>5. ui.status # "authenticated"
  BY DEF Init, Anonymous
<1>6. AnswersName
  BY <1>2, <1>4 DEF AnswersName, Shows
<1>7. \A d \in Calls : Pending(call[d]) => d = c
  BY <1>2, <1>4 DEF Pending
<1>8. \A d \in Calls : ~(call[d].kind = "login" /\ call[d].at = "delivered")
  BY <1>2, <1>4
<1>9. \A d \in Calls : call[d].at \in {"sent", "answered"} => call[d].sid = cookie
  BY <1>2, <1>4
<1>10. OneAtATime
  BY <1>5, <1>7, <1>8, <1>9 DEF OneAtATime
<1> QED BY <1>6, <1>10 DEF ShownInv

\* Whoever the page shows is the one whose session its cookie names, unless a
\* login, a logout or a restore was sent while another was under way.
THEOREM ShownIsTrue == Spec => []ShownIsLoggedIn
<1>1. IInv /\ ShownInv /\ [Next]_vars => ShownInv'
  <2> SUFFICES ASSUME IInv, ShownInv, [Next]_vars PROVE ShownInv'
    OBVIOUS
  <2>1. CASE UNCHANGED vars
    BY <2>1 DEF vars, ShownInv, AnswersName, OneAtATime, Names, Pending, LogoutTaken, Shows
  <2> QED BY <2>1, ShownThroughHandling, ShownThroughSending, ShownThroughAnswers DEF Next
<1>2. ShownInv => ShownIsLoggedIn
  <2> SUFFICES ASSUME ShownInv, ui.status = "authenticated", ~overlaps, ~AuthPending
               PROVE  Names(owner, store, cookie, ui.user, ui.rights)
    BY DEF ShownIsLoggedIn, Names
  <2>1. \A c \in Calls : ~LogoutTaken(call[c])
    BY DEF AuthPending, LogoutTaken, AuthKinds
  <2> QED BY <2>1 DEF ShownInv, OneAtATime
<1> QED BY <1>1, <1>2, ShownAtFirst, Invariance, PTL DEF Spec

===============================================================================
