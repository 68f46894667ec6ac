--------------------------- MODULE LifecycleRuns ---------------------------
(***************************************************************************)
(* The joiner, mover and leaver runs of one environment and the checklist  *)
(* each keeps (internal/web/lifecycle.go), with what settles its steps:    *)
(* the sync job a run starts and polls for, the logout tokens that are     *)
(* sent in the background, the tokens and assertions issued to a mover.    *)
(* The LogoutRequest step of a leaver is in SAMLLogouts.                   *)
(***************************************************************************)
EXTENDS Integers, Sequences, FiniteSetsExt

CONSTANTS Users,        \* users that movers and leavers may pick
          NewUser,      \* the user a joiner creates
          NoJob, NoIssue,
          MaxRuns,      \* maxLifecycleRuns
          MaxStarted    \* bound: runs started

RunIds == 1 .. MaxStarted
JobIds == 1 .. MaxStarted + 2   \* an ID nobody remembers may come again

VARIABLES
    settings,   \* whether the environment has SCIM, and OIDC and SAML, set up
    runs,       \* lifecycleRuns[slug], newest first
    pushing,    \* the goroutine of each run: runLifecyclePushes
    job,        \* syncJobs[appID]
    tokenSent,  \* logoutResults: how the app took the logout token of a run
    member,     \* whether each user is in the group
    issuing,    \* a token or assertion whose groups have been read
    started,    \* the runs started
    succeeded   \* history: the pushes whose own job succeeded

vars == <<settings, runs, pushing, job, tokenSent, member, issuing, started, succeeded>>

Status == {"none", "running", "waiting", "ok", "failed", "skipped"}
\* directory: what the run changed here; user and group: SCIM pushes;
\* issued: the next token or assertion; token: the logout token.
Steps == {"directory", "user", "group", "issued", "token"}
Pushes == {"user", "group"}
Run == [id : RunIds, kind : {"joiner", "mover", "leaver"}, user : Users \union {NewUser},
        step : [Steps -> Status], wanted : BOOLEAN]
Pushing == [queue : Seq(Pushes), failed : SUBSET Pushes, job : JobIds \union {NoJob}]
Job == [id : JobIds, running : BOOLEAN, success : BOOLEAN]
Outcome == {"ok", "failed"}

TypeOK ==
    /\ settings \in [scim : BOOLEAN, idp : BOOLEAN]
    /\ runs \in Seq(Run) /\ Len(runs) <= MaxRuns
    /\ pushing \in [RunIds -> Pushing]
    /\ job \in Job \union {NoJob}
    /\ tokenSent \in [RunIds -> {"no", "pending"} \union Outcome]
    /\ member \in [Users -> BOOLEAN]
    /\ issuing \in [user : Users, groups : BOOLEAN] \union {NoIssue}
    /\ started \in 0 .. MaxStarted
    /\ succeeded \subseteq RunIds \X Pushes

-----------------------------------------------------------------------------
(* The runs. *)

Kept(id) == \E i \in 1 .. Len(runs) : runs[i].id = id
RunOf(id) == runs[CHOOSE i \in 1 .. Len(runs) : runs[i].id = id]

\* updateLifecycleStep: a run that has left the list is not updated.
WithStep(id, s, status) ==
    [i \in 1 .. Len(runs) |->
        IF runs[i].id = id THEN [runs[i] EXCEPT !.step[s] = status] ELSE runs[i]]

\* status: what the run shows.
StatusOf(run) ==
    LET shown == {run.step[s] : s \in Steps}
    IN IF "running" \in shown THEN "running"
       ELSE IF "failed" \in shown THEN "failed"
       ELSE IF "waiting" \in shown THEN "waiting"
       ELSE "ok"

NoPush == [queue |-> <<>>, failed |-> {}, job |-> NoJob]
Blank == [s \in Steps |-> "none"]

First(seq, n) == SubSeq(seq, 1, IF Len(seq) < n THEN Len(seq) ELSE n)

\* A job of another environment refuses others the same way.
JobRunning == job # NoJob /\ job.running

\* startSyncJob: an ID that neither the table nor a poll remembers.
NewJob ==
    LET used == {pushing[id].job : id \in RunIds} \union (IF job = NoJob THEN {} ELSE {job.id})
    IN [id |-> Min(JobIds \ used), running |-> TRUE, success |-> FALSE]

\* The pushes of a run are its steps that are still to be done.
PushIf(step, s) == IF step[s] = "running" THEN <<s>> ELSE <<>>

\* startLifecycleRun; rejectWhileSyncing lets no run start while a job runs.
StartLifecycleRun(kind, user, step, wanted) ==
    LET id == started + 1
        queue == PushIf(step, "user") \o PushIf(step, "group")
        run == [id |-> id, kind |-> kind, user |-> user, step |-> step, wanted |-> wanted]
    IN /\ started < MaxStarted /\ ~JobRunning
       /\ started' = id
       /\ runs' = First(<<run>> \o runs, MaxRuns)
       /\ pushing' = [pushing EXCEPT ![id].queue = queue]
       /\ tokenSent' = [tokenSent EXCEPT ![id] = IF step["token"] = "running" THEN "pending" ELSE "no"]
       /\ UNCHANGED <<job, issuing, succeeded>>

\* scimSkipReason; what OIDC and SAML have to do.
ScimStep == IF settings.scim THEN "running" ELSE "skipped"
IdpStep(status) == IF settings.idp THEN status ELSE "skipped"

\* startJoiner: adding the user to the group may fail after it was created.
StartJoiner(withGroup, added) ==
    /\ added => withGroup
    /\ StartLifecycleRun("joiner", NewUser,
          [Blank EXCEPT !["directory"] = IF withGroup /\ ~added THEN "failed" ELSE "ok",
                        !["user"] = ScimStep,
                        !["group"] = IF added /\ settings.scim THEN "running" ELSE "none"],
          FALSE)
    /\ UNCHANGED member

\* startMover, changeUserGroups; an environment with OIDC and SAML sends groups.
StartMover(u) ==
    /\ StartLifecycleRun("mover", u,
          [Blank EXCEPT !["directory"] = "ok", !["group"] = ScimStep,
                        !["issued"] = IdpStep("waiting")],
          ~member[u])
    /\ member' = [member EXCEPT ![u] = ~@]

\* startLeaver: ending a session has sent its logout token already.
StartLeaver(u, signedIn) ==
    /\ StartLifecycleRun("leaver", u,
          [Blank EXCEPT !["directory"] = "ok", !["user"] = ScimStep,
                        !["token"] = IF signedIn THEN IdpStep("running") ELSE "skipped"],
          FALSE)
    /\ UNCHANGED member

-----------------------------------------------------------------------------
(* The pushes of a run and the sync jobs of the environment. *)

\* The run's first push has ended with this status.
PushEnds(id, status) ==
    LET s == Head(pushing[id].queue)
    IN /\ runs' = WithStep(id, s, status)
       /\ pushing' = [pushing EXCEPT ![id] =
                         [queue |-> Tail(@.queue), job |-> NoJob,
                          failed |-> @.failed \union (IF status = "failed" THEN {s} ELSE {})]]

\* A joiner's group is pushed only if its user was.
Depends(id) == Head(pushing[id].queue) = "group" /\ "user" \in pushing[id].failed

AboutToPush(id) == pushing[id].queue # <<>> /\ pushing[id].job = NoJob

\* runLifecyclePushes and the first half of runLifecyclePush.
SkipPush(id) ==
    /\ AboutToPush(id) /\ Depends(id)
    /\ PushEnds(id, "skipped")
    /\ UNCHANGED job
RefusePush(id) ==
    /\ AboutToPush(id) /\ ~Depends(id)
    /\ JobRunning
    /\ PushEnds(id, "failed")
    /\ UNCHANGED job
StartPush(id) ==
    /\ AboutToPush(id) /\ ~Depends(id)
    /\ ~JobRunning
    /\ job' = NewJob
    /\ pushing' = [pushing EXCEPT ![id].job = NewJob.id]
    /\ UNCHANGED runs

\* Seeded defect: the poll takes whatever job is there for its own.
AwaitAnySyncJob(id) ==
    /\ pushing[id].job # NoJob
    /\ ~job.running
    /\ PushEnds(id, IF job.success THEN "ok" ELSE "failed")
\* Seeded defect: the poll waits for its job, though another has replaced it.
AwaitOwnSyncJob(id) ==
    /\ pushing[id].job # NoJob
    /\ job.id = pushing[id].job /\ ~job.running
    /\ PushEnds(id, IF job.success THEN "ok" ELSE "failed")
\* awaitSyncJob and the second half of runLifecyclePush: a job that has been
\* replaced counts as failed.
AwaitSyncJob(id) ==
    /\ pushing[id].job # NoJob
    /\ \/ job.id # pushing[id].job /\ PushEnds(id, "failed")
       \/ job.id = pushing[id].job /\ ~job.running
          /\ PushEnds(id, IF job.success THEN "ok" ELSE "failed")

PushStep(id) ==
    /\ \/ SkipPush(id) \/ RefusePush(id) \/ StartPush(id)
       \/ AwaitSyncJob(id) /\ UNCHANGED job
    /\ UNCHANGED <<tokenSent, member, issuing, started, succeeded>>

\* startSyncJob for somebody else.
StartOtherJob ==
    /\ ~JobRunning
    /\ job' = NewJob
    /\ UNCHANGED <<runs, pushing, tokenSent, member, issuing, started, succeeded>>

\* finishSyncJob.
FinishSyncJob(success) ==
    /\ job # NoJob /\ job.running
    /\ job' = [job EXCEPT !.running = FALSE, !.success = success]
    /\ succeeded' = succeeded \union
          {<<id, Head(pushing[id].queue)>> : id \in {k \in RunIds : success /\ pushing[k].job = job.id}}
    /\ UNCHANGED <<runs, pushing, tokenSent, member, issuing,
                   started>>
-----------------------------------------------------------------------------
(* Logout tokens. *)

\* sendBackchannelLogout, postLogoutToken: answered, refused or timed out.
SendLogoutToken(id, outcome) ==
    /\ tokenSent[id] = "pending"
    /\ tokenSent' = [tokenSent EXCEPT ![id] = outcome]
    /\ UNCHANGED <<runs, pushing, job, member, issuing, started, succeeded>>

\* settleLifecycleRun, settleBackchannelStep.
Settled(run) ==
    [run EXCEPT !.step["token"] =
        IF @ # "skipped" /\ tokenSent[run.id] \in Outcome THEN tokenSent[run.id] ELSE @]

\* lifecycleRunsFor, which the Lifecycle tab asks while a run is running.
View ==
    /\ runs' = [i \in 1 .. Len(runs) |-> Settled(runs[i])]
    /\ UNCHANGED <<pushing, job, tokenSent, member, issuing,
                   started, succeeded>>

-----------------------------------------------------------------------------
(* What is issued to a mover. *)

\* issueOIDCTokens and completeSAMLSSO read the directory, then sign.
StartIssue(u) ==
    /\ issuing = NoIssue
    /\ \E i \in 1 .. Len(runs) : runs[i].user = u /\ runs[i].step["issued"] = "waiting"
    /\ issuing' = [user |-> u, groups |-> member[u]]
    /\ UNCHANGED <<runs, pushing, job, tokenSent, member, started, succeeded>>

\* noteIssuedGroups; carried: claimGroups or samlAssertionGroups found any.
NoteIssuedGroups(carried) ==
    /\ issuing # NoIssue
    /\ issuing' = NoIssue
    /\ runs' = [i \in 1 .. Len(runs) |->
                  IF runs[i].kind = "mover" /\ runs[i].user = issuing.user
                     /\ runs[i].step["issued"] = "waiting"
                  THEN [runs[i] EXCEPT !.step["issued"] =
                           IF carried /\ issuing.groups = runs[i].wanted THEN "ok" ELSE "failed"]
                  ELSE runs[i]]
    /\ UNCHANGED <<pushing, job, tokenSent, member, started, succeeded>>

-----------------------------------------------------------------------------
Init ==
    /\ settings \in [scim : BOOLEAN, idp : BOOLEAN]
    /\ runs = <<>> /\ pushing = [id \in RunIds |-> NoPush]
    /\ job = NoJob
    /\ tokenSent = [id \in RunIds |-> "no"]
    /\ member = [u \in Users |-> FALSE] /\ issuing = NoIssue
    /\ started = 0
    /\ succeeded = {}

Start ==
    \/ \E withGroup, added \in BOOLEAN : StartJoiner(withGroup, added)
    \/ \E u \in Users : StartMover(u) \/ \E signedIn \in BOOLEAN : StartLeaver(u, signedIn)

Step ==
    \/ Start
    \/ \E id \in RunIds :
          PushStep(id) \/ \E outcome \in Outcome : SendLogoutToken(id, outcome)
    \/ StartOtherJob
    \/ \E success \in BOOLEAN : FinishSyncJob(success)
    \/ View
    \/ \E u \in Users : StartIssue(u)
    \/ \E carried \in BOOLEAN : NoteIssuedGroups(carried)

Next == Step /\ UNCHANGED settings

\* A goroutine runs on, a job ends since each of its exchanges does, a logout
\* token has its answer after backchannelLogoutTimeout, and the tab refreshes.
Fairness ==
    /\ \A id \in RunIds :
          /\ WF_vars(PushStep(id) /\ UNCHANGED settings)
          /\ WF_vars((\E outcome \in Outcome : SendLogoutToken(id, outcome)) /\ UNCHANGED settings)
    /\ WF_vars((\E success \in BOOLEAN : FinishSyncJob(success)) /\ UNCHANGED settings)
    /\ WF_vars(View /\ UNCHANGED settings)
Spec == Init /\ [][Next]_vars /\ Fairness

-----------------------------------------------------------------------------
(* Properties. *)

\* A push says ok only if the job that the run itself started for it
\* succeeded, whatever jobs refuse, outrun and replace it, and a joiner's group
\* never goes before its user (awaitSyncJob, runLifecyclePushes).
PushesTellTheTruth ==
    \A i \in 1 .. Len(runs) :
        LET run == runs[i]
        IN /\ \A s \in Pushes : run.step[s] = "ok" => <<run.id, s>> \in succeeded
           /\ (run.kind = "joiner" /\ <<run.id, "group">> \in succeeded) => run.step["user"] = "ok"

\* No run stays running: its pushes end although other jobs refuse, outrun
\* and replace its own, and its logout tokens are answered (lifecycle.go:26,
\* the status "running" means that scimtest is still working on a step).
Unsettled(id) == Kept(id) /\ StatusOf(RunOf(id)) = "running"
RunsSettle == \A id \in RunIds : Unsettled(id) ~> ~Unsettled(id)
=============================================================================
