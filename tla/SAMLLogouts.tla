----------------------------- MODULE SAMLLogouts -----------------------------
(***************************************************************************)
(* IdP-initiated SAML Single Logout (internal/web/saml_logout.go): the     *)
(* LogoutRequests that the inspector and a leaver's checklist send through *)
(* the tester's browsers, the log that remembers the newest of them, the   *)
(* SP's answers, and the checklist step (internal/web/lifecycle.go) that   *)
(* shows the answer to its latest request.                                 *)
(***************************************************************************)
EXTENDS Integers, Sequences, FiniteSetsExt

CONSTANTS Sessions,     \* sessions with a SAML sign-in
          NoSession, NoRequest,
          LogSize,      \* maxInspections
          MaxRequests,  \* bound: LogoutRequests sent
          Tabs          \* the tester's requests in progress

LogoutIds == 1 .. MaxRequests

VARIABLES
    live,       \* the sessions that have not ended
    log,        \* samlLogoutLog[slug], newest first
    steps,      \* the checklist steps of a leaver's sessions
    tab,        \* what each request to this program is about to do
    carried,    \* the requests that a browser has carried to the SP
    sent,       \* the LogoutRequests sent so far
    first       \* history: the first answer of the SP that was accepted

vars == <<live, log, steps, tab, carried, sent, first>>

Outcome == {"ok", "failed"}
Idle == [at |-> "idle", session |-> NoSession, request |-> NoRequest]
NoStep == [status |-> "none", request |-> NoRequest]

TypeOK ==
    /\ live \subseteq Sessions
    /\ log \in Seq([request : LogoutIds, outcome : Outcome \union {"pending"}])
    /\ Len(log) <= LogSize
    /\ steps \in [Sessions -> [status : Outcome \union {"none", "needs_browser", "waiting"},
                               request : LogoutIds \union {NoRequest}]]
    /\ tab \in [Tabs -> [at : {"idle", "live", "offered", "sent"},
                         session : Sessions \union {NoSession},
                         request : LogoutIds \union {NoRequest}]]
    /\ carried \subseteq LogoutIds
    /\ sent \in 0 .. MaxRequests
    /\ first \in [LogoutIds -> Outcome \union {"none"}]

-----------------------------------------------------------------------------
(* The log. *)

\* rememberSAMLLogout.
Remembered(request) ==
    LET entries == <<[request |-> request, outcome |-> "pending"]>> \o log
    IN SubSeq(entries, 1, Min({LogSize, Len(entries)}))

\* samlLogoutResult; settleSAMLLogout looks for a pending one.
Entries(request) == {i \in 1 .. Len(log) : log[i].request = request}
\* Seeded defect: an answer settles a request that has been answered.
PendingOrNot(request) == Entries(request)
Pending(request) == {i \in Entries(request) : log[i].outcome = "pending"}

\* startSAMLLogout: the request is in the log before a browser has it.
StartSAMLLogout ==
    /\ sent < MaxRequests
    /\ sent' = sent + 1
    /\ log' = Remembered(sent + 1)

-----------------------------------------------------------------------------
(* The inspector and the API. *)

\* logOutSAMLSession, its checks: the session is read under its lock ...
CheckLive(t, s) ==
    /\ tab[t].at = "idle" /\ s \in live
    /\ tab' = [tab EXCEPT ![t] = [Idle EXCEPT !.at = "live", !.session = s]]
    /\ UNCHANGED <<live, log, steps, carried, sent, first>>
\* ... and sent its request even if another tab has ended it since.
LogOutSAMLSession(t) ==
    /\ tab[t].at = "live"
    /\ live' = live \ {tab[t].session}
    /\ StartSAMLLogout
    /\ carried' = carried \union {sent'}
    /\ tab' = [tab EXCEPT ![t] = Idle]
    /\ UNCHANGED <<steps, first>>

-----------------------------------------------------------------------------
(* The checklist of a leaver. *)

\* startLeaver ends the sessions; samlLogoutSteps offers each its request.
EndSessions ==
    /\ live # {}
    /\ live' = {}
    /\ steps' = [s \in Sessions |->
                    IF s \in live THEN [NoStep EXCEPT !.status = "needs_browser"] ELSE steps[s]]
    /\ UNCHANGED <<log, tab, carried, sent, first>>

\* lifecycleLogoutSession, CanSendLogout.
CheckOffered(t, s) ==
    /\ tab[t].at = "idle"
    /\ steps[s].status \notin {"none", "ok"}
    /\ tab' = [tab EXCEPT ![t] = [Idle EXCEPT !.at = "offered", !.session = s]]
    /\ UNCHANGED <<live, log, steps, carried, sent, first>>

\* handleLifecycleSAMLLogout up to startSAMLLogout ...
SendLogout(t) ==
    /\ tab[t].at = "offered"
    /\ StartSAMLLogout
    /\ tab' = [tab EXCEPT ![t].at = "sent", ![t].request = sent']
    /\ UNCHANGED <<live, steps, carried, first>>

\* ... and after it: the step waits for this request, whichever another tab
\* has sent, and the browser carries the message on.
NoteSent(t) ==
    /\ tab[t].at = "sent"
    /\ steps' = [steps EXCEPT ![tab[t].session] =
                    [status |-> "waiting", request |-> tab[t].request]]
    /\ carried' = carried \union {tab[t].request}
    /\ tab' = [tab EXCEPT ![t] = Idle]
    /\ UNCHANGED <<live, log, sent, first>>

\* settleSAMLLogoutStep: what the step shows.
Shown(step) ==
    IF step.request = NoRequest \/ Entries(step.request) = {} THEN step.status
    ELSE LET outcome == log[Max(Entries(step.request))].outcome
         IN IF outcome = "pending" THEN "waiting" ELSE outcome

\* settleLifecycleRun, when the checklist is looked at.
View ==
    /\ steps' = [s \in Sessions |-> [steps[s] EXCEPT !.status = Shown(steps[s])]]
    /\ UNCHANGED <<live, log, tab, carried, sent, first>>

-----------------------------------------------------------------------------
(* The SP. *)

\* serveSAMLLogoutResponse, settleSAMLLogout: an answer that checkSAMLLogout-
\* Response accepts. The SP, or a reloaded page, may answer again and late.
AnswerLogout(request, outcome) ==
    /\ request \in carried
    /\ Pending(request) # {}
    /\ log' = [i \in 1 .. Len(log) |->
                  IF i \in Pending(request) THEN [log[i] EXCEPT !.outcome = outcome] ELSE log[i]]
    /\ first' = [first EXCEPT ![request] = IF @ = "none" THEN outcome ELSE @]
    /\ UNCHANGED <<live, steps, tab, carried, sent>>

-----------------------------------------------------------------------------
Init ==
    /\ live = Sessions
    /\ log = <<>>
    /\ steps = [s \in Sessions |-> NoStep]
    /\ tab = [t \in Tabs |-> Idle]
    /\ carried = {}
    /\ sent = 0
    /\ first = [r \in LogoutIds |-> "none"]

Next ==
    \/ EndSessions
    \/ View
    \/ \E t \in Tabs :
          \/ LogOutSAMLSession(t)
          \/ SendLogout(t)
          \/ NoteSent(t)
          \/ \E s \in Sessions : CheckLive(t, s) \/ CheckOffered(t, s)
    \/ \E r \in LogoutIds, outcome \in Outcome : AnswerLogout(r, outcome)

Spec == Init /\ [][Next]_vars

-----------------------------------------------------------------------------
(* Properties. *)

\* A step that has an answer shows the SP's first answer to the very request
\* it last sent, although two tabs send, the SP answers twice and late, and
\* newer requests push that one out of the log; and a request that is still
\* in the log shows that answer as soon as it is there (saml_logout.go:738).
StepsShowTheirAnswer ==
    \A s \in Sessions :
        LET step == steps[s]
        IN /\ step.status \in Outcome => step.status = first[step.request]
           /\ (step.request # NoRequest /\ Entries(step.request) # {}
                 /\ first[step.request] # "none")
              => Shown(step) = first[step.request]
=============================================================================
