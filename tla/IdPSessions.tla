---------------------------- MODULE IdPSessions ----------------------------
(***************************************************************************)
(* The IdP sessions of one environment in internal/web: the sign-ins that  *)
(* join them, the ID tokens and SAML assertions noted in them, everything  *)
(* that ends them, and the back-channel logout tokens that follow.         *)
(*                                                                         *)
(* sessionMu guards the map for one lookup or one update at a time, so a   *)
(* sign-in and a logout are several actions each, and the directory, which *)
(* a.mu guards, may change between any two of them.                        *)
(***************************************************************************)
EXTENDS Integers

CONSTANTS Users, Browsers, Requests,
          NoSession,    \* an absent cookie, and the ID of the zero idpSession
          Life,         \* idpSessionLifetime
          MaxTime,      \* bound: the clock stops here
          MaxSession    \* bound: so many sessions are started

ASSUME NoSessionAssumption == NoSession \notin Nat
ASSUME LifeAssumption == Life \in Nat \ {0}
ASSUME SessionBoundsAssumption == MaxTime \in Nat /\ MaxSession \in Nat

VARIABLES
    now,            \* time.Now, in ticks
    nextSession,    \* the IDs below it are the ones randomSecret returned
    idpSessions,    \* the map, as a set of records
    active,         \* which users of the directory may sign in
    saving,         \* a.mu is held between a save and endInactiveUserSessions
    cookie,         \* the session cookie of each browser
    request,        \* what each request in progress remembers
    grants,         \* sessions whose codes and refresh tokens can be redeemed
    logouts,        \* per session, the back-channel deliveries that were started
    noted,          \* history: sessions in which an ID token was noted
    late            \* history: sessions joined after their user was deactivated

vars == <<now, nextSession, idpSessions, active, saving, cookie, request, grants,
          logouts, noted, late>>
sessionHistory == <<noted, late>>

Ids == 0 .. MaxSession - 1

\* oidc: OIDCIssuer is set; saml: SAMLSessionIndex is set.
Session == [id : Ids, user : Users, at : Nat, oidc : BOOLEAN, saml : BOOLEAN]

Idle == [phase |-> "idle"]
\* session is the cookie, then current.ID, then the ID of the joined session.
SigningIn == [phase : {"signing in", "replacing", "joining"}, browser : Browsers,
              user : Users, at : Nat, session : Ids \union {NoSession}]
\* Whether the request came over OIDC or SAML makes a difference from here on.
Answering == [phase : {"answering"}, browser : Browsers, session : Ids]
\* cookie is the one the request came with, if it names a target.
LoggingOut == [phase : {"logging out"}, kind : {"RP", "SP", "inspector"}, browser : Browsers,
               cookie : Ids \union {NoSession}, targets : SUBSET Ids]

TypeOK ==
    /\ now \in Nat /\ nextSession \in 0 .. MaxSession
    /\ idpSessions \subseteq Session
    /\ active \in [Users -> BOOLEAN] /\ saving \in BOOLEAN
    /\ cookie \in [Browsers -> Ids \union {NoSession}]
    /\ request \in [Requests -> {Idle} \union SigningIn \union Answering \union LoggingOut]
    /\ grants \subseteq Ids
    /\ logouts \in [Ids -> Nat]
    /\ noted \subseteq Ids /\ late \subseteq Ids

Init ==
    /\ now = 0 /\ nextSession = 0 /\ idpSessions = {}
    /\ active = [u \in Users |-> TRUE] /\ saving = FALSE
    /\ cookie = [b \in Browsers |-> NoSession]
    /\ request = [r \in Requests |-> Idle]
    /\ grants = {}
    /\ logouts = [i \in Ids |-> 0]
    /\ noted = {} /\ late = {}

-----------------------------------------------------------------------------
(* Ending sessions. *)

\* Seeded defect: expiry drops sessions without endIdPSessions.
EndSilently(gone) ==
    /\ idpSessions' = idpSessions \ gone
    /\ UNCHANGED logouts

\* endIdPSessions: deletes the sessions in one locked step, then starts, in the
\* background, the one attempt to deliver a logout token for each that issued
\* ID tokens; the delivery changes no session, whatever comes of it.
End(gone) ==
    /\ idpSessions' = idpSessions \ gone
    /\ logouts' = [i \in Ids |->
          IF \E s \in gone : s.id = i /\ s.oidc THEN logouts[i] + 1 ELSE logouts[i]]

Named(ids) == {s \in idpSessions : s.id \in ids}

Expired == {s \in idpSessions : s.at + Life <= now}

\* liveIdPSession looks a session up after it ended the expired ones.
Live == idpSessions \ Expired

\* The lists of the inspectors and the API, and every lookup without effect.
ExpireIdPSessions ==
    /\ Expired # {}
    /\ End(Expired)
    /\ UNCHANGED <<now, nextSession, active, saving, cookie, request, grants, sessionHistory>>

\* The OIDC inspector and the API end one session or all of them.
EndAppIdPSessions ==
    /\ \E gone \in {{s} : s \in idpSessions} \union {idpSessions} : gone # {} /\ End(gone)
    /\ UNCHANGED <<now, nextSession, active, saving, cookie, request, grants, sessionHistory>>

-----------------------------------------------------------------------------
(* Signing in.  chooserSignIn and rememberedSignIn check the user against  *)
(* the directory the handler loaded; joinIdPSession does not check again.  *)

SignInFresh(r, b, u) ==
    /\ request[r] = Idle
    /\ active[u]
    /\ request' = [request EXCEPT ![r] =
            [phase |-> "signing in", browser |-> b, user |-> u, at |-> now,
             session |-> cookie[b]]]
    /\ UNCHANGED <<now, nextSession, idpSessions, active, saving, cookie, grants,
                   logouts, sessionHistory>>

\* Reuse session and prompt=none: the session's own user and sign-in time.
SignInAgain(r, b) ==
    /\ request[r] = Idle
    /\ End(Expired)
    /\ \E s \in Live :
          /\ s.id = cookie[b] /\ active[s.user]
          /\ request' = [request EXCEPT ![r] =
                [phase |-> "signing in", browser |-> b, user |-> s.user, at |-> s.at,
                 session |-> cookie[b]]]
    /\ UNCHANGED <<now, nextSession, active, saving, cookie, grants, sessionHistory>>

\* joinIdPSession, its lookup of the browser's session ...
FindSession(r) ==
    LET q == request[r]
        current == {s \in Live : s.id = q.session}
    IN /\ q.phase = "signing in"
       /\ End(Expired)
       /\ request' = [request EXCEPT ![r] = [q EXCEPT
             !.phase = IF \E s \in current : s.user # q.user THEN "replacing" ELSE "joining",
             !.session = IF current = {} THEN NoSession ELSE q.session]]
       /\ UNCHANGED <<now, nextSession, active, saving, cookie, grants, sessionHistory>>

\* ... the end of another user's session ...
ReplaceSession(r) ==
    /\ request[r].phase = "replacing"
    /\ End(Named({request[r].session}))
    /\ request' = [request EXCEPT ![r].phase = "joining"]
    /\ UNCHANGED <<now, nextSession, active, saving, cookie, grants, sessionHistory>>

\* Seeded defect: a sign-in of the session's own user stores a new record.
UpdateForgetting(q, s) ==
    idpSessions' = (idpSessions \ {s}) \union
        {[id |-> s.id, user |-> q.user, at |-> q.at, oidc |-> FALSE, saml |-> FALSE]}

\* A sign-in of the session's own user only changes its sign-in.
Update(q, s) == idpSessions' = (idpSessions \ {s}) \union {[s EXCEPT !.at = q.at]}

Joined(r, id) ==
    /\ request' = [request EXCEPT ![r] =
            [phase |-> "answering", browser |-> @.browser, session |-> id]]
    /\ late' = IF active[request[r].user] THEN late \ {id} ELSE late \union {id}

\* Seeded defect: the lookup is not repeated with sessionMu held, so a session
\* that ended meanwhile is stored again.
JoinRevived(r) ==
    LET q == request[r] IN
    /\ q.phase = "joining"
    /\ \/ /\ q.session # NoSession
          /\ idpSessions' = (idpSessions \ Named({q.session})) \union
                {[id |-> q.session, user |-> q.user, at |-> q.at, oidc |-> FALSE, saml |-> FALSE]}
          /\ Joined(r, q.session)
          /\ UNCHANGED nextSession
       \/ /\ q.session = NoSession
          /\ nextSession < MaxSession
          /\ idpSessions' = idpSessions \union
                {[id |-> nextSession, user |-> q.user, at |-> q.at, oidc |-> FALSE, saml |-> FALSE]}
          /\ nextSession' = nextSession + 1
          /\ Joined(r, nextSession)
    /\ UNCHANGED <<now, active, saving, cookie, grants, logouts, noted>>

\* ... and the update: the session is looked up again, and a new one is
\* started unless it is still there for the same user.
JoinIdPSession(r) ==
    LET q == request[r]
        same == {s \in Named({q.session}) : s.user = q.user}
    IN /\ q.phase = "joining"
       /\ \/ /\ \E s \in same : Update(q, s) /\ Joined(r, s.id)
             /\ UNCHANGED nextSession
          \/ /\ same = {}
             /\ nextSession < MaxSession
             /\ idpSessions' = idpSessions \union
                   {[id |-> nextSession, user |-> q.user, at |-> q.at, oidc |-> FALSE, saml |-> FALSE]}
             /\ nextSession' = nextSession + 1
             /\ Joined(r, nextSession)
       /\ UNCHANGED <<now, active, saving, cookie, grants, logouts, noted>>

Answered(r) ==
    /\ request' = [request EXCEPT ![r] = Idle]
    /\ cookie' = [cookie EXCEPT ![request[r].browser] = request[r].session]

\* issueOIDCCode stores a code with the session's ID and redirects.
AnswerOIDC(r) ==
    /\ request[r].phase = "answering"
    /\ Answered(r)
    /\ grants' = grants \union {request[r].session}
    /\ UNCHANGED <<now, nextSession, idpSessions, active, saving, logouts, sessionHistory>>

\* completeSAMLSSO: noteSAMLSignIn fails the sign-in when the session is gone.
AnswerSAML(r) ==
    /\ request[r].phase = "answering"
    /\ Answered(r)
    /\ \/ \E s \in Named({request[r].session}) :
             idpSessions' = (idpSessions \ {s}) \union {[s EXCEPT !.saml = TRUE]}
       \/ /\ Named({request[r].session}) = {}
          /\ UNCHANGED idpSessions
    /\ UNCHANGED <<now, nextSession, active, saving, grants, logouts, noted, late>>

\* noteIDTokenIssued, for a code exchange or a refresh that read the directory
\* at some earlier time; a session that is gone is not noted.
NoteIDTokenIssued(i) ==
    /\ i \in grants
    /\ \E s \in Named({i}) :
          idpSessions' = (idpSessions \ {s}) \union {[s EXCEPT !.oidc = TRUE]}
    /\ noted' = noted \union {i}
    /\ UNCHANGED <<now, nextSession, active, saving, cookie, request, grants, logouts, late>>

-----------------------------------------------------------------------------
(* Logging out: the handler picks live sessions, then ends them by ID. *)

StartLogout(r, b, kind, targets) ==
    /\ request[r] = Idle
    /\ End(Expired)
    /\ request' = [request EXCEPT ![r] =
            [phase |-> "logging out", kind |-> kind, browser |-> b, targets |-> targets,
             cookie |-> IF kind # "inspector" /\ cookie[b] \in targets THEN cookie[b] ELSE NoSession]]
    /\ UNCHANGED <<now, nextSession, active, saving, cookie, grants, sessionHistory>>

\* handleOIDCLogout picks the hint's session or the browser's.
LogoutRP(r, b) == \E s \in Live : StartLogout(r, b, "RP", {s.id})

\* matchSAMLLogoutSessions: sessions of one NameID, all of them or some.
LogoutSP(r, b) ==
    \E u \in Users :
        \E targets \in SUBSET {s.id : s \in {t \in Live : t.saml /\ t.user = u}} :
            targets # {} /\ StartLogout(r, b, "SP", targets)

\* logOutSAMLSession, for the inspector and the API.
LogoutInspector(r, b) == \E s \in Live : s.saml /\ StartLogout(r, b, "inspector", {s.id})

\* The end, and the cookie the response clears: an RP's logout clears it when it
\* names the target, an SP's when the session it names was ended just now.
FinishLogout(r) ==
    LET q == request[r]
        gone == Named(q.targets)
        forget == \/ q.kind = "RP" /\ q.cookie # NoSession
                  \/ q.kind = "SP" /\ \E s \in gone : s.id = q.cookie
    IN /\ q.phase = "logging out"
       /\ End(gone)
       /\ cookie' = IF forget THEN [cookie EXCEPT ![q.browser] = NoSession] ELSE cookie
       /\ request' = [request EXCEPT ![r] = Idle]
       /\ UNCHANGED <<now, nextSession, active, saving, grants, sessionHistory>>

-----------------------------------------------------------------------------
(* The directory.  a.mu is held from the save to the end of the sessions,  *)
(* so no other save comes between them.                                    *)

\* Seeded defect: saveRequestState alone, which ends no sessions.
SaveStateOnly ==
    /\ ~saving
    /\ active' \in [Users -> BOOLEAN]
    /\ UNCHANGED <<now, nextSession, idpSessions, saving, cookie, request, grants, logouts,
                   sessionHistory>>

SaveState ==
    /\ ~saving
    /\ active' \in [Users -> BOOLEAN]
    /\ saving' = TRUE
    /\ UNCHANGED <<now, nextSession, idpSessions, cookie, request, grants, logouts,
                   sessionHistory>>

EndInactiveUserSessions ==
    /\ saving
    /\ End({s \in idpSessions : ~active[s.user]})
    /\ saving' = FALSE
    /\ UNCHANGED <<now, nextSession, active, cookie, request, grants, sessionHistory>>

-----------------------------------------------------------------------------

Tick ==
    /\ now < MaxTime
    /\ now' = now + 1
    /\ UNCHANGED <<nextSession, idpSessions, active, saving, cookie, request, grants,
                   logouts, sessionHistory>>

Next ==
    \/ \E r \in Requests :
          \/ \E b \in Browsers :
                \/ \E u \in Users : SignInFresh(r, b, u)
                \/ SignInAgain(r, b)
          \/ FindSession(r)
          \/ ReplaceSession(r)
          \/ JoinIdPSession(r)
          \/ AnswerOIDC(r)
          \/ AnswerSAML(r)
          \/ \E b \in Browsers : LogoutRP(r, b) \/ LogoutSP(r, b) \/ LogoutInspector(r, b)
          \/ FinishLogout(r)
    \/ \E i \in Ids : NoteIDTokenIssued(i)
    \/ ExpireIdPSessions
    \/ EndAppIdPSessions
    \/ SaveState
    \/ EndInactiveUserSessions
    \/ Tick

Spec == Init /\ [][Next]_vars

-----------------------------------------------------------------------------
(* Properties. *)

LiveIds == {s.id : s \in idpSessions}
Ended == {i \in Ids : i < nextSession} \ LiveIds

\* A session that issued ID tokens gets exactly one logout delivery, when it
\* ends, however many requests end it at once and whatever joined it after the
\* tokens; any other session gets none.
LogoutOnce ==
    \A i \in Ids : logouts[i] = IF i \in Ended /\ i \in noted THEN 1 ELSE 0

\* A session that ended never comes back, and its sid never moves to another
\* user, although joinIdPSession decides on a session it looked up before.
EndedStaysEnded ==
    [][\A s \in idpSessions' :
          s.id < nextSession => \E t \in idpSessions : t.id = s.id /\ t.user = s.user]_vars

\* While a session is live, a LogoutRequest for the SessionIndex that its
\* assertions carried finds it, and its end reaches the app that holds its ID
\* tokens: no later sign-in loses what noteSAMLSignIn and noteIDTokenIssued
\* stored, however old the session was that its lookup returned.
AssertionsStayMatchable ==
    [][\A s \in idpSessions, t \in idpSessions' :
          s.id = t.id => (s.saml => t.saml) /\ (s.oidc => t.oidc)]_vars

\* Once a save is done, an inactive user has no live session, except one that
\* a sign-in joined after it had read the directory from before the save.
DeactivationEndsSessions ==
    ~saving => \A s \in idpSessions : active[s.user] \/ s.id \in late

\* README.md: "A session ends when [...] its user is deactivated or deleted."
\* The code lets a sign-in that read the directory before the deactivation
\* start or join a session after it.
InactiveUserHasNoSession ==
    ~saving => \A s \in idpSessions : active[s.user]
=============================================================================
