------------------------- MODULE IdPSessionsProofs -------------------------
(***************************************************************************)
(* Proofs about IdPSessions for every value of its constants: however many *)
(* users, browsers and requests there are and however long it all lasts.   *)
(***************************************************************************)
EXTENDS IdPSessions, TLAPS

\* The map holds one session for an ID.
OneSessionEach == \A s, t \in idpSessions : s.id = t.id => s = t

\* A session has an ID that randomSecret returned, and so has a session that
\* issued ID tokens.
IdsWereDrawn ==
    /\ \A s \in idpSessions : s.id < nextSession
    /\ \A i \in noted : i < nextSession

\* The map knows which of its sessions issued ID tokens.
NotedIsStored == \A s \in idpSessions : s.oidc <=> s.id \in noted

IInv ==
    /\ TypeOK
    /\ OneSessionEach
    /\ IdsWereDrawn
    /\ NotedIsStored
    /\ LogoutOnce
    /\ DeactivationEndsSessions

-----------------------------------------------------------------------------
(* Type correctness. *)

RequestState == {Idle} \union SigningIn \union Answering \union LoggingOut

\* The phase tells which record a request holds.
LEMMA Phases ==
    ASSUME NEW q \in RequestState
    PROVE  /\ q.phase \in {"signing in", "replacing", "joining"} => q \in SigningIn
           /\ q.phase = "answering" => q \in Answering
           /\ q.phase = "logging out" => q \in LoggingOut
<1>1. Idle.phase = "idle"
    BY DEF Idle
<1>2. \A x \in SigningIn : x.phase \in {"signing in", "replacing", "joining"}
    BY DEF SigningIn
<1>3. \A x \in Answering : x.phase = "answering"
    BY DEF Answering
<1>4. \A x \in LoggingOut : x.phase = "logging out"
    BY DEF LoggingOut
<1> QED BY <1>1, <1>2, <1>3, <1>4 DEF RequestState

LEMMA EndType ==
    ASSUME TypeOK, NEW gone, End(gone)
    PROVE  idpSessions' \subseteq Session /\ logouts' \in [Ids -> Nat]
BY DEF TypeOK, End

LEMMA SessionUpdate ==
    ASSUME NEW s \in Session, NEW at \in Nat
    PROVE  /\ [s EXCEPT !.at = at] \in Session
           /\ [s EXCEPT !.saml = TRUE] \in Session
           /\ [s EXCEPT !.oidc = TRUE] \in Session
BY DEF Session

LEMMA TypeInit == Init => TypeOK
<1> SUFFICES ASSUME Init PROVE TypeOK
    OBVIOUS
<1>1. nextSession \in 0 .. MaxSession /\ now \in Nat
    BY SessionBoundsAssumption DEF Init
<1>2. logouts \in [Ids -> Nat] /\ cookie \in [Browsers -> Ids \union {NoSession}]
    BY DEF Init
<1> QED BY <1>1, <1>2 DEF Init, TypeOK

LEMMA TypeStep == TypeOK /\ [Next]_vars => TypeOK'
<1> SUFFICES ASSUME TypeOK, [Next]_vars PROVE TypeOK'
    OBVIOUS
<1>0. /\ now \in Nat /\ nextSession \in 0 .. MaxSession /\ idpSessions \subseteq Session
      /\ active \in [Users -> BOOLEAN] /\ saving \in BOOLEAN
      /\ cookie \in [Browsers -> Ids \union {NoSession}]
      /\ request \in [Requests -> RequestState] /\ grants \subseteq Ids
      /\ logouts \in [Ids -> Nat] /\ noted \subseteq Ids /\ late \subseteq Ids
    BY DEF TypeOK, RequestState
<1>a. /\ now' \in Nat /\ nextSession' \in 0 .. MaxSession /\ idpSessions' \subseteq Session
      /\ active' \in [Users -> BOOLEAN] /\ saving' \in BOOLEAN
      /\ cookie' \in [Browsers -> Ids \union {NoSession}]
      /\ request' \in [Requests -> RequestState] /\ grants' \subseteq Ids
      /\ logouts' \in [Ids -> Nat] /\ noted' \subseteq Ids /\ late' \subseteq Ids
      => TypeOK'
    BY DEF TypeOK, RequestState
<1>b. ASSUME NEW r \in Requests, NEW q \in RequestState, request' = [request EXCEPT ![r] = q]
      PROVE  request' \in [Requests -> RequestState]
    BY <1>0, <1>b
<1>1. ASSUME NEW r \in Requests, NEW b \in Browsers, NEW u \in Users, SignInFresh(r, b, u)
      PROVE  TypeOK'
  <2>1. [phase |-> "signing in", browser |-> b, user |-> u, at |-> now, session |-> cookie[b]]
        \in RequestState
      BY <1>0 DEF RequestState, SigningIn
  <2>2. request' \in [Requests -> RequestState]
      BY <1>1, <1>b, <2>1 DEF SignInFresh
  <2> QED BY <1>0, <1>a, <1>1, <2>2 DEF SignInFresh, sessionHistory
<1>2. ASSUME NEW r \in Requests, NEW b \in Browsers, SignInAgain(r, b) PROVE TypeOK'
  <2>1. PICK s \in Live :
           request' = [request EXCEPT ![r] =
               [phase |-> "signing in", browser |-> b, user |-> s.user, at |-> s.at,
                session |-> cookie[b]]]
      BY <1>2 DEF SignInAgain
  <2>2. [phase |-> "signing in", browser |-> b, user |-> s.user, at |-> s.at,
         session |-> cookie[b]] \in RequestState
      BY <1>0 DEF RequestState, SigningIn, Live, Session
  <2>3. request' \in [Requests -> RequestState]
      BY <1>b, <2>1, <2>2
  <2> QED BY <1>0, <1>a, <1>2, <2>3, EndType DEF SignInAgain, sessionHistory
<1>3. ASSUME NEW r \in Requests, FindSession(r) PROVE TypeOK'
  <2>1. request[r] \in SigningIn
      BY <1>0, <1>3, Phases DEF FindSession
  <2>2. PICK phase \in {"replacing", "joining"}, session \in {NoSession, request[r].session} :
           request' = [request EXCEPT
               ![r] = [request[r] EXCEPT !.phase = phase, !.session = session]]
      BY <1>3 DEF FindSession
  <2>3. [request[r] EXCEPT !.phase = phase, !.session = session] \in RequestState
      BY <2>1 DEF RequestState, SigningIn
  <2>4. request' \in [Requests -> RequestState]
      BY <1>b, <2>2, <2>3
  <2> QED BY <1>0, <1>a, <1>3, <2>4, EndType DEF FindSession, sessionHistory
<1>4. ASSUME NEW r \in Requests, ReplaceSession(r) PROVE TypeOK'
  <2>1. request[r] \in SigningIn
      BY <1>0, <1>4, Phases DEF ReplaceSession
  <2>2. [request[r] EXCEPT !.phase = "joining"] \in RequestState
      BY <2>1 DEF RequestState, SigningIn
  <2>3. request' \in [Requests -> RequestState]
      BY <1>0, <1>4, <2>2 DEF ReplaceSession
  <2> QED BY <1>0, <1>a, <1>4, <2>3, EndType DEF ReplaceSession, sessionHistory
<1>5. ASSUME NEW r \in Requests, JoinIdPSession(r) PROVE TypeOK'
  <2>1. request[r] \in SigningIn
      BY <1>0, <1>5, Phases DEF JoinIdPSession
  <2>2. ASSUME NEW id \in Ids, Joined(r, id)
        PROVE  request' \in [Requests -> RequestState] /\ late' \subseteq Ids
    <3>1. [phase |-> "answering", browser |-> request[r].browser, session |-> id] \in RequestState
        BY <2>1 DEF RequestState, SigningIn, Answering
    <3>2. request' \in [Requests -> RequestState]
        BY <1>0, <2>2, <3>1 DEF Joined
    <3>3. late' \subseteq Ids
        BY <1>0, <2>2 DEF Joined
    <3> QED BY <3>2, <3>3
  <2>3. ASSUME NEW s \in idpSessions, Update(request[r], s), Joined(r, s.id),
               UNCHANGED nextSession
        PROVE  TypeOK'
    <3>1. s \in Session /\ s.id \in Ids /\ request[r].at \in Nat
        BY <1>0, <2>1 DEF Session, SigningIn
    <3>2. idpSessions' \subseteq Session
        BY <1>0, <2>3, <3>1, SessionUpdate DEF Update
    <3> QED BY <1>0, <1>a, <1>5, <2>2, <2>3, <3>1, <3>2 DEF JoinIdPSession
  <2>4. ASSUME nextSession < MaxSession,
               idpSessions' = idpSessions \union
                   {[id |-> nextSession, user |-> request[r].user, at |-> request[r].at,
                     oidc |-> FALSE, saml |-> FALSE]},
               nextSession' = nextSession + 1, Joined(r, nextSession)
        PROVE  TypeOK'
    <3>1. nextSession \in Ids /\ nextSession' \in 0 .. MaxSession
        BY <1>0, <2>4, SessionBoundsAssumption DEF Ids
    <3>2. [id |-> nextSession, user |-> request[r].user, at |-> request[r].at,
           oidc |-> FALSE, saml |-> FALSE] \in Session
        BY <2>1, <3>1 DEF Session, SigningIn
    <3>3. idpSessions' \subseteq Session
        BY <1>0, <2>4, <3>2
    <3> QED BY <1>0, <1>a, <1>5, <2>2, <2>4, <3>1, <3>3 DEF JoinIdPSession
  <2> QED BY <1>5, <2>3, <2>4 DEF JoinIdPSession, Named
<1>6. ASSUME NEW r \in Requests, AnswerOIDC(r) \/ AnswerSAML(r) PROVE TypeOK'
  <2>1. request[r] \in Answering
      BY <1>0, <1>6, Phases DEF AnswerOIDC, AnswerSAML
  <2>2. /\ request' = [request EXCEPT ![r] = Idle]
        /\ cookie' = [cookie EXCEPT ![request[r].browser] = request[r].session]
      BY <1>6 DEF AnswerOIDC, AnswerSAML, Answered
  <2>3. /\ request' \in [Requests -> RequestState]
        /\ cookie' \in [Browsers -> Ids \union {NoSession}]
        /\ request[r].session \in Ids
      BY <1>0, <2>1, <2>2 DEF RequestState, Answering
  <2>4. CASE AnswerOIDC(r)
      BY <1>0, <1>a, <2>3, <2>4 DEF AnswerOIDC, sessionHistory
  <2>5. CASE AnswerSAML(r)
    <3>1. idpSessions' \subseteq Session
      <4>1. ASSUME NEW s \in idpSessions,
                   idpSessions' = (idpSessions \ {s}) \union {[s EXCEPT !.saml = TRUE]}
            PROVE  idpSessions' \subseteq Session
          BY <1>0, <4>1 DEF Session
      <4> QED BY <1>0, <2>5, <4>1 DEF AnswerSAML, Named
    <3> QED BY <1>0, <1>a, <2>3, <2>5, <3>1 DEF AnswerSAML
  <2> QED BY <1>6, <2>4, <2>5
<1>7. ASSUME NEW r \in Requests, NEW b \in Browsers, NEW kind \in {"RP", "SP", "inspector"},
             NEW targets \in SUBSET Ids, StartLogout(r, b, kind, targets)
      PROVE  TypeOK'
  <2>1. [phase |-> "logging out", kind |-> kind, browser |-> b, targets |-> targets,
         cookie |-> IF kind # "inspector" /\ cookie[b] \in targets THEN cookie[b] ELSE NoSession]
        \in RequestState
      BY <1>0 DEF RequestState, LoggingOut
  <2>2. request' \in [Requests -> RequestState]
      BY <1>7, <1>b, <2>1 DEF StartLogout
  <2> QED BY <1>0, <1>a, <1>7, <2>2, EndType DEF StartLogout, sessionHistory
<1>8. ASSUME NEW r \in Requests, NEW b \in Browsers,
             LogoutRP(r, b) \/ LogoutSP(r, b) \/ LogoutInspector(r, b)
      PROVE  TypeOK'
  <2>1. \A s \in Live : s.id \in Ids
      BY <1>0 DEF Live, Session
  <2>2. \E kind \in {"RP", "SP", "inspector"}, targets \in SUBSET Ids :
           StartLogout(r, b, kind, targets)
      BY <1>8, <2>1 DEF LogoutRP, LogoutSP, LogoutInspector
  <2> QED BY <1>7, <2>2
<1>9. ASSUME NEW r \in Requests, FinishLogout(r) PROVE TypeOK'
  <2>1. request[r] \in LoggingOut
      BY <1>0, <1>9, Phases DEF FinishLogout
  <2>2. /\ request' \in [Requests -> RequestState]
        /\ cookie' \in [Browsers -> Ids \union {NoSession}]
      BY <1>0, <1>9, <2>1 DEF FinishLogout, RequestState, LoggingOut
  <2> QED BY <1>0, <1>a, <1>9, <2>2, EndType DEF FinishLogout, sessionHistory
<1>10. ASSUME NEW i \in Ids, NoteIDTokenIssued(i) PROVE TypeOK'
  <2>1. idpSessions' \subseteq Session
      BY <1>0, <1>10 DEF NoteIDTokenIssued, Named, Session
  <2> QED BY <1>0, <1>a, <1>10, <2>1 DEF NoteIDTokenIssued
<1>11. CASE ExpireIdPSessions
    BY <1>0, <1>a, <1>11, EndType DEF ExpireIdPSessions, sessionHistory
<1>12. CASE EndAppIdPSessions
    BY <1>0, <1>a, <1>12, EndType DEF EndAppIdPSessions, sessionHistory
<1>13. CASE SaveState
    BY <1>0, <1>a, <1>13 DEF SaveState, sessionHistory
<1>14. CASE EndInactiveUserSessions
    BY <1>0, <1>a, <1>14, EndType DEF EndInactiveUserSessions, sessionHistory
<1>15. CASE Tick
    BY <1>0, <1>a, <1>15 DEF Tick, sessionHistory
<1>16. CASE UNCHANGED vars
    BY <1>0, <1>a, <1>16 DEF vars, sessionHistory
<1> QED
    BY <1>1, <1>2, <1>3, <1>4, <1>5, <1>6, <1>8, <1>9, <1>10, <1>11, <1>12, <1>13, <1>14, <1>15,
       <1>16 DEF Next

\* Every sign-in, logout, expiry and save keeps the state well formed.
THEOREM TypeCorrect == Spec => []TypeOK
BY TypeInit, TypeStep, PTL DEF Spec
-----------------------------------------------------------------------------
(* Ending and changing sessions. *)

\* The part of the invariant that ending sessions and issuing tokens keep in
\* step with each other.
Ledger == OneSessionEach /\ IdsWereDrawn /\ NotedIsStored /\ LogoutOnce

LEMMA InvInit == Init => IInv
<1> SUFFICES ASSUME Init PROVE IInv
    OBVIOUS
<1>1. TypeOK
    BY TypeInit
<1>2. LogoutOnce
    BY DEF Init, LogoutOnce, Ended, LiveIds
<1> QED BY <1>1, <1>2 DEF Init, IInv, OneSessionEach, IdsWereDrawn, NotedIsStored,
        DeactivationEndsSessions

\* Sessions end together with their one delivery, whoever ends them.
LEMMA EndStep ==
    ASSUME TypeOK, Ledger, NEW gone \in SUBSET idpSessions, End(gone),
           UNCHANGED <<nextSession, noted>>
    PROVE  Ledger'
<1>1. OneSessionEach' /\ IdsWereDrawn' /\ NotedIsStored'
    BY DEF End, Ledger, OneSessionEach, IdsWereDrawn, NotedIsStored
<1>2. ASSUME NEW i \in Ids
      PROVE  logouts'[i] = IF i \in Ended' /\ i \in noted' THEN 1 ELSE 0
  <2>1. logouts[i] = IF i \in Ended /\ i \in noted THEN 1 ELSE 0
      BY DEF Ledger, LogoutOnce
  <2>2. CASE \E s \in gone : s.id = i
    <3>1. PICK s \in gone : s.id = i
        BY <2>2
    <3>2. i \notin Ended /\ i \in Ended'
      <4>1. i < nextSession
          BY <3>1 DEF Ledger, IdsWereDrawn
      <4>2. \A t \in idpSessions' : t.id # i
          BY <3>1 DEF End, Ledger, OneSessionEach
      <4> QED BY <3>1, <4>1, <4>2 DEF Ended, LiveIds
    <3>3. (\E t \in gone : t.id = i /\ t.oidc) <=> i \in noted
        BY <3>1 DEF Ledger, OneSessionEach, NotedIsStored
    <3>4. logouts'[i] = IF i \in noted THEN logouts[i] + 1 ELSE logouts[i]
        BY <3>3 DEF End
    <3> QED BY <2>1, <3>2, <3>4
  <2>3. CASE ~\E s \in gone : s.id = i
    <3>1. i \in Ended <=> i \in Ended'
        BY <2>3 DEF End, Ended, LiveIds
    <3>2. logouts'[i] = logouts[i]
        BY <2>3 DEF End
    <3> QED BY <2>1, <3>1, <3>2
  <2> QED BY <2>2, <2>3
<1> QED BY <1>1, <1>2 DEF Ledger, LogoutOnce

\* A session that ends leaves no other for an inactive user.
LEMMA EndKeepsDeactivation ==
    ASSUME DeactivationEndsSessions, NEW gone, End(gone), UNCHANGED <<active, saving, late>>
    PROVE  DeactivationEndsSessions'
BY DEF End, DeactivationEndsSessions

\* One session is replaced by a record of the same session.
LEMMA UpdateStep ==
    ASSUME TypeOK, Ledger, NEW s \in idpSessions, NEW t,
           t.id = s.id, t.oidc <=> t.id \in noted',
           idpSessions' = (idpSessions \ {s}) \union {t},
           noted' \in {noted, noted \union {s.id}}, UNCHANGED <<nextSession, logouts>>
    PROVE  Ledger'
<1>1. OneSessionEach'
    BY DEF Ledger, OneSessionEach
<1>2. IdsWereDrawn'
    BY DEF Ledger, IdsWereDrawn
<1>3. NotedIsStored'
    BY DEF Ledger, OneSessionEach, NotedIsStored
<1>4. Ended' = Ended /\ s.id \notin Ended
    BY DEF Ended, LiveIds
<1>5. LogoutOnce'
    BY <1>4 DEF Ledger, LogoutOnce
<1> QED BY <1>1, <1>2, <1>3, <1>5 DEF Ledger

\* A new session has an ID of its own.
LEMMA StartStep ==
    ASSUME TypeOK, Ledger, NEW t, t.id = nextSession, ~t.oidc,
           idpSessions' = idpSessions \union {t}, nextSession' = nextSession + 1,
           UNCHANGED <<noted, logouts>>
    PROVE  Ledger'
<1>0. /\ nextSession \in Int /\ \A s \in idpSessions : s.id \in Int /\ s.id < nextSession
      /\ \A i \in noted : i \in Int /\ i < nextSession
    BY SessionBoundsAssumption DEF TypeOK, Session, Ids, Ledger, IdsWereDrawn
<1>1. OneSessionEach'
    BY <1>0 DEF Ledger, OneSessionEach
<1>2. IdsWereDrawn'
    BY <1>0 DEF IdsWereDrawn
<1>3. NotedIsStored'
    BY <1>0 DEF Ledger, NotedIsStored
<1>4. Ended' = Ended
    BY <1>0, SessionBoundsAssumption DEF Ended, LiveIds, Ids
<1>5. LogoutOnce'
    BY <1>4 DEF Ledger, LogoutOnce
<1> QED BY <1>1, <1>2, <1>3, <1>5 DEF Ledger

\* What End, in a handler that changes nothing else of the ledger, keeps.
LEMMA EndingStep ==
    ASSUME IInv, NEW gone \in SUBSET idpSessions, End(gone),
           UNCHANGED <<nextSession, active, saving, sessionHistory>>
    PROVE  Ledger' /\ DeactivationEndsSessions'
BY EndStep, EndKeepsDeactivation DEF IInv, Ledger, sessionHistory

\* A step that leaves sessions and deliveries alone keeps what is said of them.
LEMMA QuietStep ==
    ASSUME IInv, UNCHANGED <<nextSession, idpSessions, active, saving, logouts, sessionHistory>>
    PROVE  Ledger' /\ DeactivationEndsSessions'
BY DEF IInv, Ledger, OneSessionEach, IdsWereDrawn, NotedIsStored, LogoutOnce, Ended, LiveIds,
   DeactivationEndsSessions, sessionHistory

\* Every step keeps the invariant.
LEMMA InvStep == IInv /\ [Next]_vars => IInv'
<1> SUFFICES ASSUME IInv, [Next]_vars PROVE IInv'
    OBVIOUS
<1>0. TypeOK' /\ TypeOK /\ Ledger /\ idpSessions \subseteq Session
    BY TypeStep DEF IInv, Ledger, TypeOK
<1>a. Ledger' /\ DeactivationEndsSessions' => IInv'
    BY <1>0 DEF IInv, Ledger
<1>b. ASSUME NEW gone \in SUBSET idpSessions, End(gone),
             UNCHANGED <<nextSession, active, saving, sessionHistory>>
      PROVE  IInv'
    BY <1>a, <1>b, EndingStep
<1>c. Expired \in SUBSET idpSessions /\ \A ids : Named(ids) \in SUBSET idpSessions
    BY DEF Expired, Named
<1>1. ASSUME NEW r \in Requests, NEW b \in Browsers, NEW u \in Users, SignInFresh(r, b, u)
      PROVE  IInv'
    BY <1>1, <1>a, QuietStep DEF SignInFresh
<1>2. ASSUME NEW r \in Requests, NEW b \in Browsers, SignInAgain(r, b) PROVE IInv'
    BY <1>2, <1>b, <1>c DEF SignInAgain
<1>3. ASSUME NEW r \in Requests, FindSession(r) PROVE IInv'
    BY <1>3, <1>b, <1>c DEF FindSession
<1>4. ASSUME NEW r \in Requests, ReplaceSession(r) PROVE IInv'
    BY <1>4, <1>b, <1>c DEF ReplaceSession
<1>5. ASSUME NEW r \in Requests, JoinIdPSession(r) PROVE IInv'
  <2>1. UNCHANGED <<active, saving, logouts, noted>>
      BY <1>5 DEF JoinIdPSession
  <2>2. ASSUME NEW s \in idpSessions, s.user = request[r].user,
               Update(request[r], s), Joined(r, s.id), UNCHANGED nextSession
        PROVE  IInv'
    <3> DEFINE t == [s EXCEPT !.at = request[r].at]
    <3>1. /\ t.id = s.id /\ t.oidc = s.oidc /\ t.user = s.user
          /\ idpSessions' = (idpSessions \ {s}) \union {t}
        BY <1>0, <2>2 DEF Session, Update
    <3>2. s.oidc <=> s.id \in noted
        BY <1>0 DEF Ledger, NotedIsStored
    <3> HIDE DEF t
    <3>3. t.oidc <=> t.id \in noted'
        BY <2>1, <3>1, <3>2
    <3>4. Ledger'
        BY <1>0, <2>1, <2>2, <3>1, <3>3, UpdateStep
    <3>5. DeactivationEndsSessions'
        BY <1>0, <2>1, <2>2, <3>1 DEF IInv, DeactivationEndsSessions, Joined, Ledger, OneSessionEach
    <3> QED BY <1>a, <3>4, <3>5
  <2>3. ASSUME idpSessions' = idpSessions \union
                   {[id |-> nextSession, user |-> request[r].user, at |-> request[r].at,
                     oidc |-> FALSE, saml |-> FALSE]},
               nextSession' = nextSession + 1, Joined(r, nextSession)
        PROVE  IInv'
    <3> DEFINE t == [id |-> nextSession, user |-> request[r].user, at |-> request[r].at,
                     oidc |-> FALSE, saml |-> FALSE]
    <3>1. /\ t.id = nextSession /\ ~t.oidc /\ t.user = request[r].user
          /\ idpSessions' = idpSessions \union {t}
        BY <2>3
    <3> HIDE DEF t
    <3>2. Ledger'
        BY <1>0, <2>1, <2>3, <3>1, StartStep
    <3>3. \A s \in idpSessions : s.id # nextSession
      <4>1. \A s \in idpSessions : s.id \in Int /\ s.id < nextSession
          BY <1>0 DEF Ledger, IdsWereDrawn, Session, Ids
      <4>2. nextSession \in Int
          BY <1>0 DEF TypeOK
      <4> QED BY <4>1, <4>2
    <3>4. DeactivationEndsSessions'
        BY <2>1, <2>3, <3>1, <3>3 DEF IInv, DeactivationEndsSessions, Joined
    <3> QED BY <1>a, <3>2, <3>4
  <2> QED BY <1>5, <2>2, <2>3 DEF JoinIdPSession, Named
<1>6. ASSUME NEW r \in Requests, AnswerOIDC(r) PROVE IInv'
    BY <1>6, <1>a, QuietStep DEF AnswerOIDC
<1>7. ASSUME NEW r \in Requests, AnswerSAML(r) PROVE IInv'
  <2>1. UNCHANGED <<nextSession, active, saving, logouts, noted, late>>
      BY <1>7 DEF AnswerSAML
  <2>2. CASE UNCHANGED idpSessions
      BY <1>a, <2>1, <2>2, QuietStep DEF sessionHistory
  <2>3. ASSUME NEW s \in idpSessions,
               idpSessions' = (idpSessions \ {s}) \union {[s EXCEPT !.saml = TRUE]}
        PROVE  IInv'
    <3> DEFINE t == [s EXCEPT !.saml = TRUE]
    <3>1. /\ t.id = s.id /\ t.oidc = s.oidc /\ t.user = s.user
          /\ idpSessions' = (idpSessions \ {s}) \union {t}
        BY <1>0, <2>3 DEF Session
    <3> HIDE DEF t
    <3>2. t.oidc <=> t.id \in noted'
        BY <1>0, <2>1, <3>1 DEF Ledger, NotedIsStored
    <3>3. Ledger'
        BY <1>0, <2>1, <3>1, <3>2, UpdateStep
    <3>4. DeactivationEndsSessions'
        BY <2>1, <3>1 DEF IInv, DeactivationEndsSessions
    <3> QED BY <1>a, <3>3, <3>4
  <2> QED BY <1>7, <2>2, <2>3 DEF AnswerSAML, Named
<1>8. ASSUME NEW i \in Ids, NoteIDTokenIssued(i) PROVE IInv'
  <2>1. UNCHANGED <<nextSession, active, saving, logouts, late>> /\ noted' = noted \union {i}
      BY <1>8 DEF NoteIDTokenIssued
  <2>2. PICK s \in idpSessions :
           s.id = i /\ idpSessions' = (idpSessions \ {s}) \union {[s EXCEPT !.oidc = TRUE]}
      BY <1>8 DEF NoteIDTokenIssued, Named
  <2> DEFINE t == [s EXCEPT !.oidc = TRUE]
  <2>3. /\ t.id = s.id /\ t.oidc /\ t.user = s.user
        /\ idpSessions' = (idpSessions \ {s}) \union {t}
      BY <1>0, <2>2 DEF Session
  <2> HIDE DEF t
  <2>4. Ledger'
      BY <1>0, <2>1, <2>2, <2>3, UpdateStep
  <2>5. DeactivationEndsSessions'
      BY <2>1, <2>3 DEF IInv, DeactivationEndsSessions
  <2> QED BY <1>a, <2>4, <2>5
<1>9. ASSUME NEW r \in Requests, NEW b \in Browsers,
             LogoutRP(r, b) \/ LogoutSP(r, b) \/ LogoutInspector(r, b)
      PROVE  IInv'
    BY <1>9, <1>b, <1>c DEF LogoutRP, LogoutSP, LogoutInspector, StartLogout
<1>10. ASSUME NEW r \in Requests, FinishLogout(r) PROVE IInv'
    BY <1>10, <1>b, <1>c DEF FinishLogout
<1>11. CASE ExpireIdPSessions
    BY <1>11, <1>b, <1>c DEF ExpireIdPSessions
<1>12. CASE EndAppIdPSessions
    BY <1>12, <1>b DEF EndAppIdPSessions
<1>13. CASE SaveState
  <2>1. Ledger'
      BY <1>0, <1>13 DEF SaveState, sessionHistory, Ledger, OneSessionEach, IdsWereDrawn,
         NotedIsStored, LogoutOnce, Ended, LiveIds
  <2>2. DeactivationEndsSessions'
      BY <1>13 DEF SaveState, DeactivationEndsSessions
  <2> QED BY <1>a, <2>1, <2>2
<1>14. CASE EndInactiveUserSessions
  <2>1. Ledger'
      BY <1>0, <1>14, EndStep DEF EndInactiveUserSessions, sessionHistory
  <2>2. DeactivationEndsSessions'
      BY <1>14 DEF EndInactiveUserSessions, End, DeactivationEndsSessions
  <2> QED BY <1>a, <2>1, <2>2
<1>15. CASE Tick \/ UNCHANGED vars
    BY <1>15, <1>a, QuietStep DEF Tick, vars, sessionHistory
<1> QED
    BY <1>1, <1>2, <1>3, <1>4, <1>5, <1>6, <1>7, <1>8, <1>9, <1>10, <1>11, <1>12, <1>13, <1>14,
       <1>15 DEF Next

-----------------------------------------------------------------------------
(* What a step may do to a session. *)

\* The sessions of the map after a step: those that were there, some of them
\* with more noted in them or a new sign-in, and at most one that is new.
LEMMA SessionsStep ==
    ASSUME IInv, [Next]_vars
    PROVE  \A t \in idpSessions' :
               \/ t.id = nextSession
               \/ \E s \in idpSessions :
                     s.id = t.id /\ s.user = t.user /\ (s.saml => t.saml) /\ (s.oidc => t.oidc)
<1> DEFINE Kept(s, t) ==
        s.id = t.id /\ s.user = t.user /\ (s.saml => t.saml) /\ (s.oidc => t.oidc)
<1>0. idpSessions \subseteq Session
    BY DEF IInv, TypeOK
<1>1. CASE idpSessions' \subseteq idpSessions
    BY <1>1
<1>2. ASSUME NEW s \in idpSessions, NEW t, Kept(s, t),
             idpSessions' = (idpSessions \ {s}) \union {t}
      PROVE  \A u \in idpSessions' : u.id = nextSession \/ \E v \in idpSessions : Kept(v, u)
    BY <1>2
<1>3. ASSUME NEW r \in Requests, JoinIdPSession(r)
      PROVE  \A u \in idpSessions' : u.id = nextSession \/ \E v \in idpSessions : Kept(v, u)
  <2>1. ASSUME NEW s \in idpSessions, Update(request[r], s)
        PROVE  \A u \in idpSessions' : u.id = nextSession \/ \E v \in idpSessions : Kept(v, u)
    <3>1. Kept(s, [s EXCEPT !.at = request[r].at])
        BY <1>0 DEF Session
    <3> QED BY <1>2, <2>1, <3>1 DEF Update
  <2>2. CASE idpSessions' = idpSessions \union
                 {[id |-> nextSession, user |-> request[r].user, at |-> request[r].at,
                   oidc |-> FALSE, saml |-> FALSE]}
      BY <2>2
  <2> QED BY <1>3, <2>1, <2>2 DEF JoinIdPSession, Named
<1>4. ASSUME NEW r \in Requests, AnswerSAML(r)
      PROVE  \A u \in idpSessions' : u.id = nextSession \/ \E v \in idpSessions : Kept(v, u)
  <2>1. \A s \in idpSessions : Kept(s, [s EXCEPT !.saml = TRUE])
      BY <1>0 DEF Session
  <2> QED BY <1>1, <1>2, <1>4, <2>1 DEF AnswerSAML, Named
<1>5. ASSUME NEW i \in Ids, NoteIDTokenIssued(i)
      PROVE  \A u \in idpSessions' : u.id = nextSession \/ \E v \in idpSessions : Kept(v, u)
  <2>1. \A s \in idpSessions : Kept(s, [s EXCEPT !.oidc = TRUE])
      BY <1>0 DEF Session
  <2> QED BY <1>2, <1>5, <2>1 DEF NoteIDTokenIssued, Named
<1>6. \/ idpSessions' \subseteq idpSessions
      \/ \E r \in Requests : JoinIdPSession(r) \/ AnswerSAML(r)
      \/ \E i \in Ids : NoteIDTokenIssued(i)
    BY DEF Next, vars, SignInFresh, SignInAgain, FindSession, ReplaceSession, AnswerOIDC,
       LogoutRP, LogoutSP, LogoutInspector, StartLogout, FinishLogout, ExpireIdPSessions,
       EndAppIdPSessions, SaveState, EndInactiveUserSessions, Tick, End
<1> QED BY <1>1, <1>3, <1>4, <1>5, <1>6

-----------------------------------------------------------------------------
(* The theorems. *)

\* The inductive invariant holds in every state of every environment.
THEOREM Invariant == Spec => []IInv
BY InvInit, InvStep, PTL DEF Spec

\* However many requests, inspectors, saves and expiries end a session at once,
\* an app that got an ID token in it is sent exactly one logout token.
THEOREM OneLogoutEach == Spec => []LogoutOnce
<1>1. IInv => LogoutOnce
    BY DEF IInv
<1> QED BY Invariant, <1>1, PTL

\* A save that has returned leaves an inactive user no session but the ones
\* that a sign-in from before the save joined later.
THEOREM DeactivationsEndSessions == Spec => []DeactivationEndsSessions
<1>1. IInv => DeactivationEndsSessions
    BY DEF IInv
<1> QED BY Invariant, <1>1, PTL

\* joinIdPSession brings back no session that ended between its lookups, and
\* hands no session to another user.
THEOREM EndedSessionsStayEnded == Spec => EndedStaysEnded
<1>1. ASSUME IInv, [Next]_vars
      PROVE  \A s \in idpSessions' :
                 s.id < nextSession => \E t \in idpSessions : t.id = s.id /\ t.user = s.user
  <2>1. nextSession \in Int
      BY <1>1 DEF IInv, TypeOK
  <2> QED BY <1>1, <2>1, SessionsStep
<1>2. IInv /\ [Next]_vars =>
          [\A s \in idpSessions' :
              s.id < nextSession => \E t \in idpSessions : t.id = s.id /\ t.user = s.user]_vars
    BY <1>1
<1> QED BY Invariant, <1>2, PTL DEF Spec, EndedStaysEnded

\* No sign-in loses the SessionIndex or the ID token that an earlier one left
\* in its session: a LogoutRequest still finds it and its end still reaches the app.
THEOREM AssertionsAreKept == Spec => AssertionsStayMatchable
<1>1. ASSUME IInv, [Next]_vars, NEW s \in idpSessions, NEW t \in idpSessions', s.id = t.id
      PROVE  (s.saml => t.saml) /\ (s.oidc => t.oidc)
  <2>1. s.id # nextSession
      BY <1>1 DEF IInv, IdsWereDrawn, TypeOK, Session, Ids
  <2> QED BY <1>1, <2>1, SessionsStep DEF IInv, OneSessionEach
<1>2. IInv /\ [Next]_vars =>
          [\A s \in idpSessions, t \in idpSessions' :
              s.id = t.id => (s.saml => t.saml) /\ (s.oidc => t.oidc)]_vars
    BY <1>1
<1> QED BY Invariant, <1>2, PTL DEF Spec, AssertionsStayMatchable
=============================================================================
