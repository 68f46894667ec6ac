------------------------------ MODULE ScimSync ------------------------------
(***************************************************************************)
(* One environment's directory, the sync row of each of its resources, the *)
(* SCIM service it is pushed to and the background jobs that push it       *)
(* (internal/core/scim*.go, state_sync.go; internal/web/handlers_sync.go   *)
(* and the handlers that change the directory).                            *)
(*                                                                         *)
(* A job walks a copy of the directory, one resource and one exchange with *)
(* the service at a time, without a.mu; it writes its copy back when it    *)
(* ends.  rejectWhileSyncing keeps the handlers out in the meantime.       *)
(*                                                                         *)
(* The resources are the users 1 .. NumUsers, in the directory's order,    *)
(* and one group, which is pushed after them.                              *)
(***************************************************************************)
EXTENDS Integers, FiniteSets, FiniteSetsExt

CONSTANTS NumUsers,
          NoId,         \* no RemoteID
          NoRow,        \* no row in UserSync or GroupSync
          NoJob,
          NoPreview,
          BaseURLs,     \* SCIM services the environment may be pointed at
          NoURL,        \* SCIM is not set up
          MaxIds,       \* bound: resources the service creates
          MaxEdits,     \* bound: changes of the directory
          MaxJobs,      \* bound: jobs
          MaxFaults,    \* bound: failures, imports and losses together
          MaxImports,   \* bound: import previews
          MaxLosses     \* bound: resources deleted at the service by others

ASSUME NumUsersAssumption == NumUsers \in Nat \ {0}
ASSUME SyncValuesAssumption == NoId \notin Nat /\ NoURL \notin BaseURLs
ASSUME SyncBoundsAssumption ==
    /\ MaxIds \in Nat /\ MaxEdits \in Nat /\ MaxJobs \in Nat
    /\ MaxFaults \in Nat /\ MaxImports \in Nat /\ MaxLosses \in Nat

Users == 1 .. NumUsers
Group == NumUsers + 1
Resources == Users \union {Group}
Ids == 1 .. MaxIds

VARIABLES
    directory,  \* the users and the group
    rows,       \* UserSync[appID], GroupSync[appID]
    scim,       \* the environment's SCIM settings
    service,    \* the resources the SCIM services hold
    nextId,     \* the IDs below it are taken
    job,        \* the running job, of any environment
    preview,    \* importPreviews[appID]
    edits, jobs, faults, imports, losses,    \* what the bounds count
    intended,   \* history: the directory as the administrator left it
    vanished,   \* history: a row kept the ID of a resource that was gone
    home,       \* history: the service whose IDs the rows hold; NoURL once they mix
    known,      \* history: IDs that a saved row has held since the rows started over
    dropped     \* history: known IDs whose rows a re-enabled SCIM set up again

vars == <<directory, rows, scim, service, nextId, job, preview, edits, jobs, faults,
          imports, losses, intended, vanished, home, known, dropped>>

\* attrs: whether the user is active, for every attribute the service is sent.
\* refs: a user's manager, the group's members.
Resource == [status : {"unborn", "live", "deleted", "purged"}, attrs : BOOLEAN,
             refs : SUBSET Users]
Row == [id : Ids \union {NoId}, dirty : BOOLEAN, deleted : BOOLEAN]
\* url and token: SCIMBaseURL, SCIMBearerToken; entra: the persona matches
\* resources by externalId.
Settings == [url : BaseURLs \union {NoURL}, token : BOOLEAN, entra : BOOLEAN]
RemoteResource == [url : BaseURLs, id : Ids, ext : Resources, attrs : BOOLEAN, refs : SUBSET Ids]
\* work is the job's copy: a resource of the directory with its row.
WorkItem == [status : {"unborn", "live", "deleted", "purged", "gone"}, attrs : BOOLEAN,
             refs : SUBSET Users, id : Ids \union {NoId}, dirty : BOOLEAN]
Job == [kind : {"sync", "reconcile", "push"}, target : Resources,
        loaded : [Resources -> Resource], loadedRows : [Resources -> Row \union {NoRow}],
        work : [Resources -> WorkItem], todo : SUBSET Resources, awaiting : SUBSET Users,
        failed : BOOLEAN, stopped : BOOLEAN, cancelled : BOOLEAN]
\* seen: what the digest of importPreviewBaselineDigest covers.
Preview == [seen : [directory : [Resources -> Resource],
                    rows : [Resources -> Row \union {NoRow}], scim : Settings],
            found : SUBSET RemoteResource]

ASSUME SyncNullsAssumption ==
    NoRow \notin Row /\ NoJob \notin Job /\ NoPreview \notin Preview

TypeOK ==
    /\ directory \in [Resources -> Resource]
    /\ intended \in [Resources -> Resource]
    /\ rows \in [Resources -> Row \union {NoRow}]
    /\ scim \in Settings
    /\ service \subseteq RemoteResource
    /\ nextId \in 1 .. MaxIds + 1
    /\ job \in Job \union {NoJob}
    /\ edits \in 0 .. MaxEdits /\ jobs \in 0 .. MaxJobs
    /\ preview \in Preview \union {NoPreview}
    /\ faults \in 0 .. MaxFaults /\ imports \in 0 .. MaxImports /\ losses \in 0 .. MaxLosses
    /\ known \subseteq Ids /\ dropped \subseteq Ids /\ home \in BaseURLs \union {NoURL}
    /\ vanished \in BOOLEAN

Present(d) == {r \in Resources : d[r].status \in {"live", "deleted"}}
Live(d) == {r \in Resources : d[r].status = "live"}

-----------------------------------------------------------------------------
(* The directory and its rows (state_sync.go). *)

\* SCIMSetupStatus: SCIM is enabled once it is configured.
Configured(settings) == settings.url # NoURL /\ settings.token
enabled == Configured(scim)

\* AppHasSyncState and scimTracksDirectory: a paused environment with rows
\* still tracks deletions.
HasRows == \E r \in Resources : rows[r] # NoRow
Tracks == enabled \/ HasRows

\* MarkUserDirty and MarkGroupDirty: a change of a user also marks the users
\* it manages.  A paused environment marks only what it has a row for.
Reports(d, u) == {r \in Users \ {u} : d[r].status = "live" /\ u \in d[r].refs}
Marked(d, rs, changed, deleted) ==
    LET marks == changed \union UNION {Reports(d, u) : u \in changed \ {Group}}
    IN [r \in Resources |->
          IF r \notin marks \/ (~enabled /\ rs[r] = NoRow) THEN rs[r]
          ELSE [id |-> IF rs[r] = NoRow THEN NoId ELSE rs[r].id, dirty |-> TRUE,
                deleted |-> deleted /\ r \in changed]]

\* InitializeAppSync: every resource is to be created again.
Initialized(d) ==
    [r \in Resources |->
        IF r \in Present(d)
        THEN [id |-> NoId, dirty |-> TRUE, deleted |-> d[r].status = "deleted"]
        ELSE NoRow]

\* StateForApp: what a job works on.  A resource without a row is dirty, and
\* the group loses its deleted members.
Projected(d, rs) ==
    LET gone(r) == d[r].status # "live" \/ (rs[r] # NoRow /\ rs[r].deleted)
    IN [r \in Resources |->
          [status |-> IF d[r].status = "live" /\ gone(r) THEN "deleted" ELSE d[r].status,
           attrs |-> d[r].attrs,
           refs |-> IF r = Group THEN {u \in d[r].refs : ~gone(u)} ELSE d[r].refs,
           id |-> IF rs[r] = NoRow THEN NoId ELSE rs[r].id,
           dirty |-> rs[r] = NoRow \/ rs[r].dirty]]

\* Seeded defect: a deletion counts as done once it was asked for.
DeletedEverywhereIfTried(rs, r) == rs[r] # NoRow /\ rs[r].deleted

\* syncDeletionSettled, resourceDeletedEverywhere: nothing is left to delete.
DeletionSettled(row) == row # NoRow /\ row.deleted /\ ~row.dirty /\ row.id = NoId
DeletedEverywhere(rs, r) ==
    IF enabled THEN DeletionSettled(rs[r]) ELSE rs[r] = NoRow \/ DeletionSettled(rs[r])

\* PurgeFullySyncedDeletions.
PurgedResources(d, rs) == {r \in Present(d) : d[r].status = "deleted" /\ DeletedEverywhere(rs, r)}
Purged(d, gone) ==
    [r \in Resources |->
        [d[r] EXCEPT !.status = IF r \in gone THEN "purged" ELSE @,
                     !.refs = IF r = Group THEN @ \ gone ELSE @]]

\* The row that a job's copy leaves.
RowOf(item) ==
    IF item.status = "gone" THEN [id |-> NoId, dirty |-> FALSE, deleted |-> TRUE]
    ELSE [id |-> item.id, dirty |-> item.dirty, deleted |-> item.status = "deleted"]

\* MergeAppSyncState: the rows of a whole pass.
MergedRows(j) ==
    [r \in Resources |-> IF r \in Present(j.loaded) THEN RowOf(j.work[r]) ELSE NoRow]
\* applyPushResult: the target's row and no other.
PushedRows(j) == [j.loadedRows EXCEPT ![j.target] = RowOf(j.work[j.target])]

\* What MaxFaults bounds.
Spared == faults + imports + losses < MaxFaults

RowIds(rs) == {rs[r].id : r \in {q \in Resources : rs[q] # NoRow}} \ {NoId}

-----------------------------------------------------------------------------
(* The handlers that change the directory; rejectWhileSyncing keeps them   *)
(* out while any job runs.                                                 *)

MayEdit == job = NoJob /\ edits < MaxEdits

\* The rows forget what they knew, and are about one service from now on.
StartOver(url) == home' = url /\ known' = {} /\ dropped' = {}

\* d becomes the directory; the changed resources need a sync.
Change(d, changed, deleted) ==
    /\ directory' = d
    /\ intended' = d
    /\ rows' = Marked(d, rows, changed, deleted)
    /\ edits' = edits + 1
    /\ UNCHANGED <<scim, service, nextId, job, preview, jobs, faults, imports, losses, vanished,
                   home, known, dropped>>

\* Seeded defect: the handler does not ask whether a job is running.
SaveUserWhileSyncing(u, attrs, manager) ==
    /\ edits < MaxEdits
    /\ directory[u].status # "purged"
    /\ manager = directory[u].refs \/ manager \subseteq Live(directory) \ {u}
    /\ Change([directory EXCEPT ![u] = [status |-> "live", attrs |-> attrs, refs |-> manager]],
              {u}, FALSE)

\* handleUserSave: creates, edits or restores.  validateManager looks at a
\* changed manager only.
SaveUser(u, attrs, manager) ==
    /\ MayEdit
    /\ directory[u].status # "purged"
    /\ manager = directory[u].refs \/ manager \subseteq Live(directory) \ {u}
    /\ Change([directory EXCEPT ![u] = [status |-> "live", attrs |-> attrs, refs |-> manager]],
              {u}, FALSE)

\* handleToolsSetAllActive; handleUserToggleActive changes one of them.
SetActive(us, active) ==
    /\ MayEdit /\ us # {}
    /\ \A u \in us : directory[u].status = "live" /\ directory[u].attrs # active
    /\ Change([r \in Resources |->
                  IF r \in us THEN [directory[r] EXCEPT !.attrs = active] ELSE directory[r]],
              us, FALSE)

\* handleToolsCreateUsers.
CreateUsers(us) ==
    /\ MayEdit /\ us # {}
    /\ \A u \in us : directory[u].status = "unborn"
    /\ Change([r \in Resources |->
                  IF r \in us THEN [status |-> "live", attrs |-> TRUE, refs |-> {}]
                  ELSE directory[r]],
              us, FALSE)

\* deleteUsers, deleteGroups, setUserDeleted, setGroupDeleted and
\* handleToolsDeleteAll: what nobody tracks is dropped at once, and leaves
\* the group; anything else waits for its deletion at the service.
Delete(gone) ==
    /\ MayEdit /\ gone # {}
    /\ gone \subseteq Users \/ gone = {Group}
    /\ \A r \in gone : directory[r].status = "live" \/ (Cardinality(gone) = 1 /\ directory[r].status = "deleted")
    /\ IF Tracks
       THEN Change([r \in Resources |->
                       IF r \in gone THEN [directory[r] EXCEPT !.status = "deleted"]
                       ELSE directory[r]],
                   gone, TRUE)
       ELSE Change(Purged(directory, gone), {}, TRUE)

\* handleUserDeletedState, handleGroupDeletedState.
Restore(r) ==
    /\ MayEdit /\ Tracks
    /\ r \in Present(directory)
    /\ Change([directory EXCEPT ![r].status = "live"], {r}, FALSE)

\* handleGroupSave: any user the directory holds may be a member; mover runs
\* change the members the same way.
SaveGroup(attrs, members) ==
    /\ MayEdit
    /\ directory[Group].status # "purged"
    /\ members \subseteq Present(directory)
    /\ Change([directory EXCEPT ![Group] = [status |-> "live", attrs |-> attrs, refs |-> members]],
              {Group}, FALSE)

\* handleToolsClearDirectoryLocal forgets everything without a sync.
ClearDirectory ==
    /\ MayEdit
    /\ directory' = [r \in Resources |->
                        IF r \in Present(directory)
                        THEN [directory[r] EXCEPT !.status = "purged", !.refs = {}]
                        ELSE directory[r]]
    /\ intended' = directory'
    /\ rows' = [r \in Resources |-> NoRow]
    /\ StartOver(scim.url)
    /\ edits' = edits + 1
    /\ UNCHANGED <<scim, service, nextId, job, preview, jobs, faults, imports, losses,
                   vanished>>

\* handleReset.
Reset ==
    /\ MayEdit /\ enabled
    /\ Present(directory) # {}
    /\ rows' = Initialized(directory)
    /\ StartOver(scim.url)
    /\ edits' = edits + 1
    /\ UNCHANGED <<directory, scim, service, nextId, job, preview, jobs, faults, imports, losses,
                   intended, vanished>>

\* handleAppSave: without a token SCIM pauses, and the form's switch clears the
\* base URL as well.  SCIM that is configured with another URL than it had
\* before, or set up first, gets new rows: also SCIM that was switched off and
\* on, but not SCIM whose URL changed while it was paused.
SaveApp(url, token, entra) ==
    LET settings == [url |-> url, token |-> token /\ url # NoURL, entra |-> entra]
        again == /\ Configured(settings)
                 /\ url # scim.url \/ (~enabled /\ ~HasRows)
    IN /\ MayEdit
       /\ settings # scim
       /\ scim' = settings
       /\ rows' = IF again THEN Initialized(directory) ELSE rows
       /\ IF again /\ url # home THEN StartOver(url)
          ELSE /\ dropped' = IF again THEN known ELSE dropped
               /\ UNCHANGED <<home, known>>
       /\ edits' = edits + 1
       /\ UNCHANGED <<directory, service, nextId, job, preview, jobs, faults, imports, losses,
                      intended, vanished>>

\* The pages and the JSON API (api_directory.go) do the same.
Edit ==
    \/ \E u \in Users : \E attrs \in BOOLEAN :
          \E manager \in {{}, directory[u].refs} \union {{m} : m \in Users} : SaveUser(u, attrs, manager)
    \/ \E us \in SUBSET Users : CreateUsers(us) \/ \E active \in BOOLEAN : SetActive(us, active)
    \/ \E gone \in (SUBSET Users) \union {{Group}} : Delete(gone)
    \/ \E r \in Resources : Restore(r)
    \/ \E attrs \in BOOLEAN, members \in SUBSET Users : SaveGroup(attrs, members)
    \/ ClearDirectory
    \/ Reset
    \/ \E url \in BaseURLs \union {NoURL}, token, entra \in BOOLEAN : SaveApp(url, token, entra)

-----------------------------------------------------------------------------
(* What a job exchanges with the service, one resource at a time.  The     *)
(* exchanges about one resource are one step: nobody else writes it.       *)

Held == {s \in service : s.url = scim.url}
HeldAs(r) == {s \in Held : s.ext = r}
HeldBy(id) == {s \in Held : s.id = id}

\* No RemoteID, or a reconcile that did not find it any more.
Creating(j, r) == j.work[r].id = NoId \/ (j.kind = "reconcile" /\ HeldBy(j.work[r].id) = {})

\* Seeded defect: create does not look for the resource first.
FoundWithoutLookup(j, r) == IF Creating(j, r) THEN {} ELSE HeldBy(j.work[r].id)
\* What a write meets: createUser and Entra look the externalId up.
Found(j, r) == IF Creating(j, r) \/ scim.entra THEN HeldAs(r) ELSE HeldBy(j.work[r].id)

\* newSCIMUserResource, newSCIMGroupResource: references by remote ID.  A
\* group is not sent while a member has none.
SentRefs(j, r) ==
    {j.work[m].id : m \in {n \in j.work[r].refs : j.work[n].status = "live"}} \ {NoId}
Sendable(j, r) ==
    /\ r = Group => \A m \in j.work[r].refs : j.work[m].id # NoId
    /\ IF Creating(j, r) THEN Cardinality(Found(j, r)) <= 1 ELSE Found(j, r) # {}

\* awaitsManager: the manager is live and not created yet.
AwaitsManager(j, u) ==
    \E m \in j.work[u].refs : j.work[m].status = "live" /\ j.work[m].id = NoId

\* Seeded defect: the stop forgets them.
HaltedForgetting(j) == [j EXCEPT !.todo = {}, !.awaiting = {}, !.failed = TRUE, !.stopped = TRUE]
\* A stop (a rate limit that outlasts its retries, a cancel) leaves the rest
\* as it is and the users that await a manager to be sent again.
Halted(j) ==
    [j EXCEPT !.todo = {}, !.awaiting = {}, !.failed = TRUE, !.stopped = TRUE,
              !.work = [r \in Resources |->
                           IF r \in j.awaiting THEN [@[r] EXCEPT !.dirty = TRUE] ELSE @[r]]]

\* The exchange succeeds, fails, stops the job; a failure may come after the
\* service did what was asked.  A cancelled job fails its next exchange.
Outcomes == IF job.cancelled THEN {"stop", "stopLate"}
            ELSE IF Spared THEN {"ok", "refused", "late", "stop", "stopLate"}
            ELSE {"ok"}
Spend(outcome) == faults' = IF outcome = "ok" \/ job.cancelled THEN faults ELSE faults + 1
Effective(outcome) == outcome \in {"ok", "late", "stopLate"}

\* The resource keeps its row dirty, and the walk goes on.
Failed(j, r, outcome) ==
    LET kept == [j EXCEPT !.work[r].dirty = TRUE, !.todo = @ \ {r}, !.failed = TRUE]
    IN IF outcome \in {"stop", "stopLate"} THEN Halted(kept) ELSE kept

\* What the steps of a job leave alone.
SameElsewhere == UNCHANGED <<directory, rows, scim, preview, edits, jobs, imports, losses,
                             intended, vanished, home, known, dropped>>

\* The user or group is gone from the job's copy: pruneUserFromGroups.
WithoutResource(j, r) ==
    LET member == r # Group /\ r \in j.work[Group].refs
    IN [j EXCEPT !.work[r].status = "gone",
                 !.work[Group].refs = @ \ {r},
                 !.work[Group].dirty = @ \/ member,
                 !.todo = (@ \ {r}) \union (IF member THEN {Group} ELSE {})]

Walking(r) == job # NoJob /\ job.todo # {} /\ r = Min(job.todo)
              /\ (r = Group => job.awaiting = {})

\* Deleted and never created: nothing is sent.
Forget(r) ==
    /\ Walking(r)
    /\ job.work[r].status = "deleted" /\ job.work[r].id = NoId
    /\ job' = WithoutResource(job, r)
    /\ UNCHANGED <<service, nextId, faults>>
    /\ SameElsewhere

\* deleteUser, deleteGroup: a resource that is not found counts as deleted.
DeleteRemote(r, outcome) ==
    /\ Walking(r)
    /\ job.work[r].status = "deleted" /\ job.work[r].id # NoId
    /\ outcome \in Outcomes
    /\ service' = IF Effective(outcome) THEN service \ HeldBy(job.work[r].id) ELSE service
    /\ job' = IF outcome = "ok" THEN WithoutResource(job, r) ELSE Failed(job, r, outcome)
    /\ Spend(outcome)
    /\ UNCHANGED nextId
    /\ SameElsewhere

\* Writes r as the job's copy has it.
Put(r, id) ==
    (service \ Found(job, r)) \union
        {[url |-> scim.url, id |-> id, ext |-> r, attrs |-> job.work[r].attrs,
          refs |-> SentRefs(job, r)]}

\* createUser, replaceUser, createGroup, replaceGroup.  A reconcile that
\* finds the resource as it should be writes nothing, which is the same.
Write(r, outcome) ==
    LET new == Found(job, r) = {}
        id == IF new THEN nextId ELSE (CHOOSE s \in Found(job, r) : TRUE).id
    IN /\ Walking(r)
       /\ job.work[r].status = "live"
       /\ Sendable(job, r)
       /\ new => nextId <= MaxIds
       /\ outcome \in Outcomes
       /\ service' = IF Effective(outcome) THEN Put(r, id) ELSE service
       /\ nextId' = IF new /\ Effective(outcome) THEN nextId + 1 ELSE nextId
       /\ job' = IF outcome = "ok"
                 THEN [job EXCEPT !.work[r].id = IF Creating(job, r) THEN id ELSE @,
                                  !.work[r].dirty = FALSE,
                                  !.todo = @ \ {r},
                                  !.awaiting = IF r \in Users /\ AwaitsManager(job, r)
                                               THEN @ \union {r} ELSE @]
                 ELSE Failed(job, r, outcome)
       /\ Spend(outcome)
       /\ SameElsewhere

\* The resource cannot be written: a member without RemoteID, a RemoteID that
\* is gone, an externalId held twice.
Refuse(r) ==
    /\ Walking(r)
    /\ job.work[r].status = "live" /\ ~Sendable(job, r)
    /\ job' = Failed(job, r, "refused")
    /\ UNCHANGED <<service, nextId, faults>>
    /\ SameElsewhere

\* sendAwaitedManagers, once every user has been walked.
SendAwaited(u, outcome) ==
    LET sendable == AwaitsManager(job, u) = FALSE
        live == \E m \in job.work[u].refs : job.work[m].status = "live"
        done == [job EXCEPT !.awaiting = @ \ {u}]
    IN /\ job # NoJob /\ job.todo \subseteq {Group}
       /\ job.awaiting # {} /\ u = Min(job.awaiting)
       /\ IF live /\ sendable /\ Found(job, u) # {}
          THEN /\ outcome \in Outcomes
               /\ service' = IF Effective(outcome)
                             THEN Put(u, (CHOOSE s \in Found(job, u) : TRUE).id) ELSE service
               /\ job' = CASE outcome = "ok" -> done
                           [] outcome \in {"stop", "stopLate"} -> Halted(job)
                           [] OTHER -> [done EXCEPT !.work[u].dirty = TRUE, !.failed = TRUE]
               /\ Spend(outcome)
          ELSE /\ outcome = "ok"
               /\ job' = [done EXCEPT !.work[u].dirty = @ \/ live,
                                      !.failed = @ \/ (live /\ sendable)]
               /\ UNCHANGED <<service, faults>>
       /\ UNCHANGED nextId
       /\ SameElsewhere

-----------------------------------------------------------------------------
(* The job itself (handlers_sync.go).                                      *)

\* restrictDirtyToResource: a push takes its target, dirty or not, alone.
Restricted(projected, target) ==
    [r \in Resources |-> [projected[r] EXCEPT !.dirty = r = target]]

\* startSyncJob and the first part of runSyncJob.
StartJob(kind, target) ==
    LET projected == Projected(directory, rows)
        todo == CASE kind = "reconcile" -> Present(directory)
                  [] kind = "sync" -> {r \in Present(directory) : projected[r].dirty}
                  [] OTHER -> {target}
        work == IF kind = "push" THEN Restricted(projected, target) ELSE projected
    IN /\ job = NoJob /\ enabled /\ jobs < MaxJobs
       /\ target \in (IF kind = "push" THEN Present(directory) ELSE {Group})
       /\ job' = [kind |-> kind, target |-> target, loaded |-> directory, loadedRows |-> rows,
                  work |-> work, todo |-> todo, awaiting |-> {}, failed |-> FALSE,
                  stopped |-> FALSE, cancelled |-> FALSE]
       /\ jobs' = jobs + 1
       /\ UNCHANGED <<directory, rows, scim, service, nextId, preview, edits, faults, imports,
                      losses, intended, vanished, home, known, dropped>>

\* handleSyncCancel.
Cancel ==
    /\ job # NoJob /\ ~job.cancelled /\ Spared
    /\ job' = [job EXCEPT !.cancelled = TRUE]
    /\ faults' = faults + 1
    /\ UNCHANGED <<service, nextId>>
    /\ SameElsewhere

WalkEnded == job # NoJob /\ job.todo = {} /\ job.awaiting = {}

\* Seeded defect: a push stores the whole of its copy.
ResultRowsOfAll(j) == MergedRows(j)


\* What runSyncJob writes back.
ResultRows(j) == IF j.kind = "push" THEN PushedRows(j) ELSE MergedRows(j)

\* What the history variable remembers.
NoteVanished(rs, held) ==
    vanished' = (vanished \/ \E id \in RowIds(rs) : \A s \in held : s.id # id)

\* The rest of runSyncJob: the job's directory, as it loaded it, is stored
\* with the rows the walk leaves, without what is deleted everywhere.
FinishJob ==
    LET result == ResultRows(job)
        gone == PurgedResources(job.loaded, result)
    IN /\ WalkEnded
       /\ directory' = Purged(job.loaded, gone)
       /\ rows' = [r \in Resources |-> IF r \in gone THEN NoRow ELSE result[r]]
       /\ known' = known \union RowIds(rows')
       /\ dropped' = dropped \ RowIds(rows')
       /\ home' = IF scim.url = home THEN home ELSE NoURL
       /\ job' = NoJob
       /\ NoteVanished(rows', service)
       /\ UNCHANGED <<scim, service, nextId, preview, edits, jobs, faults, imports, losses, intended>>

\* The process ends, or the save of the result fails.
LoseJob ==
    /\ job # NoJob /\ Spared
    /\ job' = NoJob
    /\ faults' = faults + 1
    /\ NoteVanished(rows, service)
    /\ UNCHANGED <<directory, rows, scim, service, nextId, preview, edits, jobs, imports, losses,
                   intended, home, known, dropped>>

-----------------------------------------------------------------------------
(* Imports, and what others do at the service.                             *)

\* previewImport: an externalId held twice fails it.
PreviewImport ==
    /\ job = NoJob /\ enabled /\ imports < MaxImports /\ Spared /\ preview = NoPreview
    /\ \A r \in Resources : Cardinality(HeldAs(r)) <= 1
    /\ preview' = [seen |-> [directory |-> directory, rows |-> rows, scim |-> scim], found |-> Held]
    /\ imports' = imports + 1
    /\ UNCHANGED <<directory, rows, scim, service, nextId, job, edits, jobs, faults, losses,
                   intended, vanished, home, known, dropped>>

\* Ten minutes pass, or handleImport finds another directory than it saw.
DropPreview ==
    /\ preview # NoPreview
    /\ preview' = NoPreview
    /\ UNCHANGED <<directory, rows, scim, service, nextId, job, edits, jobs, faults, imports,
                   losses, intended, vanished, home, known, dropped>>

\* replaceStateFromSCIM: references to resources that are not imported drop.
Imported(found, r) ==
    LET one == CHOOSE s \in found : s.ext = r
    IN [status |-> "live", attrs |-> one.attrs,
        refs |-> {u \in Users \ {r} : \E s \in found : s.ext = u /\ s.id \in one.refs}]

\* MergeAppImportState: the import replaces the directory, and what it does
\* not hold is purged at once.
ImportedDirectory(found) ==
    [r \in Resources |->
        IF \E s \in found : s.ext = r THEN Imported(found, r)
        ELSE IF r \in Present(directory)
        THEN [directory[r] EXCEPT !.status = "purged", !.refs = {}]
        ELSE directory[r]]
ImportedRows(found) ==
    [r \in Resources |->
        IF \E s \in found : s.ext = r
        THEN [id |-> (CHOOSE s \in found : s.ext = r).id, dirty |-> FALSE, deleted |-> FALSE]
        ELSE NoRow]

ApplyImport ==
    /\ job = NoJob /\ enabled /\ preview # NoPreview
    /\ preview.seen = [directory |-> directory, rows |-> rows, scim |-> scim]
    /\ directory' = ImportedDirectory(preview.found)
    /\ rows' = ImportedRows(preview.found)
    /\ intended' = directory'
    /\ home' = scim.url
    /\ known' = known \union RowIds(rows')
    /\ preview' = NoPreview
    /\ UNCHANGED <<scim, service, nextId, job, edits, jobs, faults, imports, losses, vanished,
                   dropped>>

\* Somebody else deletes a resource at the service.
LoseResource ==
    /\ losses < MaxLosses /\ Spared
    /\ \E s \in service : service' = service \ {s}
    /\ losses' = losses + 1
    /\ NoteVanished(rows, service')
    /\ UNCHANGED <<directory, rows, scim, nextId, job, preview, edits, jobs, faults, imports,
                   intended, home, known, dropped>>

-----------------------------------------------------------------------------
\* Two users, the first reporting to the last, and a group of both; nothing
\* has been synced yet, or everything.
Init ==
    /\ \E unborn \in {{}, {NumUsers}} :
          directory = [r \in Resources |->
              [status |-> IF r \in unborn THEN "unborn" ELSE "live", attrs |-> TRUE,
               refs |-> IF r = Group THEN Users \ unborn
                        ELSE IF r = 1 /\ NumUsers > 1 THEN {NumUsers} \ unborn ELSE {}]]
    /\ scim \in [url : BaseURLs, token : {TRUE}, entra : BOOLEAN]
    /\ \/ /\ rows = [r \in Resources |-> NoRow]
          /\ service = {} /\ nextId = 1
       \/ /\ \A r \in Resources : directory[r].status = "live"
          /\ MaxIds >= Group
          /\ rows = [r \in Resources |-> [id |-> r, dirty |-> FALSE, deleted |-> FALSE]]
          /\ service = {[url |-> scim.url, id |-> r, ext |-> r, attrs |-> TRUE,
                         refs |-> directory[r].refs] : r \in Resources}
          /\ nextId = Group + 1
    /\ job = NoJob /\ preview = NoPreview
    /\ edits = 0 /\ jobs = 0 /\ faults = 0 /\ imports = 0 /\ losses = 0
    /\ intended = directory
    /\ home = scim.url /\ known = RowIds(rows) /\ dropped = {} /\ vanished = FALSE

JobStep ==
    \/ \E r \in Resources :
          \/ Forget(r) \/ Refuse(r)
          \/ \E outcome \in {"ok", "refused", "late", "stop", "stopLate"} :
                DeleteRemote(r, outcome) \/ Write(r, outcome)
    \/ \E u \in Users, outcome \in {"ok", "refused", "late", "stop", "stopLate"} :
          SendAwaited(u, outcome)
    \/ FinishJob

Next ==
    \/ Edit
    \/ \E kind \in {"sync", "reconcile", "push"}, target \in Resources : StartJob(kind, target)
    \/ JobStep
    \/ Cancel \/ LoseJob
    \/ PreviewImport \/ DropPreview \/ ApplyImport
    \/ LoseResource

Spec == Init /\ [][Next]_vars

-----------------------------------------------------------------------------
(* Properties.                                                             *)

\* A job that is lost, refused or answered late never leaves two resources for
\* one externalId: the next create finds what the service already holds
\* (createUser, createGroup).
OneResourceEach == \A r \in Resources : Cardinality(HeldAs(r)) <= 1

\* Nobody deleted a resource at the service, and no import replaced the
\* directory by an older view of it.
Undisturbed == losses = 0 /\ imports = 0

\* What is held by the service that the rows are about.
Ours == {s \in service : s.url = home}

IdsOf(rs) == {s.id : s \in {t \in Held : t.ext \in rs}}

\* The user of a resource left the directory, and no row ever held its ID: a job
\* that was lost had created it.
Forgotten(s) == s.id \notin known \ dropped /\ directory[s.ext].status = "purged"

\* A resource whose row is clean is held by the service as the directory has
\* it, with its manager as the service knows the manager, and a group never holds a
\* member that the directory's group does not have: no order of edits,
\* partial jobs and retries marks a row clean too early (syncDirtyUsers,
\* reconcileUsers, sendAwaitedManagers, MarkUserDirty).  A member that is
\* missing is another matter: StateForApp strips deleted users without
\* marking the group.  A deletion that was carried out but not recorded, and
\* one by others, may leave references to the ID that vanished, and a forgotten
\* member stays one: the job that created its user, and sent the group, was
\* lost, and the user deleted before the next one.  It is said of the service
\* that the rows are about: handleAppSave does not rebuild the rows when the base
\* URL changes while SCIM is paused (CleanIsAtService), and a job that then works
\* on them mixes the IDs of two services (home is NoURL) until the rows start over.
CleanIsMirrored ==
    (~vanished /\ imports = 0 /\ enabled /\ scim.url = home /\ job = NoJob) =>
        \A r \in Live(directory) : (rows[r] # NoRow /\ ~rows[r].dirty) =>
            \E s \in HeldBy(rows[r].id) :
                /\ s.attrs = directory[r].attrs
                /\ IF r = Group
                   THEN \A t \in Held : t.id \in s.refs => t.ext \in directory[r].refs \/ Forgotten(t)
                   ELSE s.refs = IdsOf(directory[r].refs \intersect Live(directory))

\* What the administrator saved stays until he changes it: no job writes back
\* a directory that it loaded before an edit (rejectWhileSyncing).
EditsSurvive ==
    \A r \in Resources :
        /\ directory[r].attrs = intended[r].attrs
        /\ \/ directory[r].status = intended[r].status
           \/ directory[r].status = "purged" /\ intended[r].status = "deleted"

\* A deleted resource leaves the directory only once the service that the rows
\* are about no longer holds what its row knew of: no failed delete, lost job or
\* pause that empties the token forgets a remote ID in between
\* (PurgeFullySyncedDeletions, scimTracksDirectory).  What forgets them is
\* handleAppSave when SCIM is switched off and on: the switch clears the base URL,
\* so the rows are set up again without their IDs, which are dropped until a row
\* holds them again.  Reset, ClearDirectory and another base URL start over too.
PurgedIsGone ==
    imports = 0 => \A s \in Ours : s.id \in known \ dropped => directory[s.ext].status # "purged"

\* A resource whose row is clean is held by the service that the environment is
\* pointed at, whichever that was before ("First enable or SCIM base URL change
\* rebuilds sync rows", app_form.go:220).
CleanIsAtService ==
    (~vanished /\ imports = 0 /\ enabled /\ job = NoJob) =>
        \A r \in Live(directory) : (rows[r] # NoRow /\ ~rows[r].dirty) =>
            \E s \in HeldBy(rows[r].id) : s.attrs = directory[r].attrs

Shown(attrs) == IF attrs THEN "on" ELSE "off"

\* A sync implements the mirror that ScimMirror describes at the service that the
\* rows are about; what others change there, an import, and a job whose rows are
\* about another service, end its promise.
Mirror ==
    INSTANCE ScimMirror WITH
        Keys <- Resources, Values <- {"on", "off"}, Absent <- "absent",
        local <- [r \in Resources |->
                     IF directory[r].status = "live" THEN Shown(directory[r].attrs) ELSE "absent"],
        remote <- [r \in Resources |->
                      IF \A s \in Ours : s.ext # r THEN "absent"
                      ELSE Shown((CHOOSE s \in Ours : s.ext = r).attrs)],
        settled <- [r \in Resources |->
                      Undisturbed /\ home # NoURL /\ rows[r] # NoRow /\ ~rows[r].dirty]
Mirrors == Mirror!MirrorSpec
=============================================================================
