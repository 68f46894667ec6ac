--------------------------- MODULE ScimSyncProofs ---------------------------
(***************************************************************************)
(* Proofs about ScimSync: the sync implements ScimMirror, no service ever  *)
(* holds two resources for one externalId, no job loses an edit, what a    *)
(* row knew is deleted at the service before the directory forgets it, and *)
(* what a row has as clean is there as the directory has it, references    *)
(* included, for any number of users, edits, jobs, failures and losses.    *)
(***************************************************************************)
EXTENDS ScimSync, FiniteSetTheorems, WellFoundedInduction, TLAPS

USE NumUsersAssumption, SyncValuesAssumption

-----------------------------------------------------------------------------
(* The inductive invariant.                                                *)

\* Every resource at a service has its own ID, and IDs are not used again.
IdsAreOwn ==
    /\ \A s \in service : s.id < nextId
    /\ \A s, t \in service : s.id = t.id => s = t
    /\ \A i \in known : i < nextId

\* The IDs of the rows, and of a job that talks to the service the rows are
\* about, are that service's; while an environment is pointed elsewhere, the
\* service that its rows are about is left alone.
RowsAreHome ==
    home # NoURL /\ imports = 0 =>
        \A s \in service : rows[s.ext] # NoRow /\ rows[s.ext].id = s.id => s.url = home
AtHome == job # NoJob /\ scim.url = home
JobIsHome ==
    AtHome /\ imports = 0 => \A s \in service : job.work[s.ext].id = s.id => s.url = home

\* OneResourceEach, of every service the environment was ever pointed at.
OnePerService == \A s, t \in service : s.url = t.url /\ s.ext = t.ext => s = t

\* An ID that a row, a job or a preview remembers for r was never another's.
Names(held, free, id, r) == id # NoId => id < free /\ \A s \in held : s.id = id => s.ext = r
RowsNameTheirOwn ==
    \A r \in Resources : rows[r] # NoRow => Names(service, nextId, rows[r].id, r)
JobNamesItsOwn ==
    job # NoJob => \A r \in Resources : Names(service, nextId, job.work[r].id, r)
PreviewNamesItsOwn ==
    preview # NoPreview => \A s \in preview.found : Names(service, nextId, s.id, s.ext)

\* A row says deleted if and only if the directory does, and is dirty then.
RowsFollowDirectory ==
    \A r \in Resources : rows[r] # NoRow =>
        /\ directory[r].status = IF rows[r].deleted THEN "deleted" ELSE "live"
        /\ rows[r].deleted => rows[r].dirty

\* The resources that a job writes back: all, or the target of a push.
WritesBack(j, r) == j.kind # "push" \/ r = j.target

\* While a job runs the directory and the rows are as it loaded them, and its
\* copy differs from them by what the walk did: a deleted resource may be gone.
JobFollowsDirectory ==
    job # NoJob =>
        /\ job.loaded = directory /\ job.loadedRows = rows /\ enabled
        /\ job.kind = "push" => job.target \in Present(directory)
        /\ job.kind = "push" => job.todo \subseteq {job.target}
        /\ \A u \in job.awaiting \union job.work[Group].refs : directory[u].status = "live"
        /\ \A r \in Resources :
              /\ job.work[r].attrs = directory[r].attrs
              /\ \/ job.work[r].status = directory[r].status
                 \/ /\ job.work[r].status = "gone" /\ directory[r].status = "deleted"
                    /\ WritesBack(job, r)
              /\ WritesBack(job, r) /\ job.work[r].status = "deleted" => job.work[r].dirty

\* What counts as settled, in a row or in the copy of a job, is at a service
\* as the directory has it.
Mirrored(r) == \E s \in Ours : s.ext = r /\ s.attrs = directory[r].attrs
SettledIsMirrored ==
    Undisturbed /\ home # NoURL =>
        \A r \in Resources : rows[r] # NoRow /\ ~rows[r].dirty => Mirrored(r)
WalkedIsMirrored ==
    Undisturbed /\ AtHome =>
        \A r \in Resources :
            WritesBack(job, r) /\ job.work[r].status = "live" /\ ~job.work[r].dirty => Mirrored(r)

\* What a row knew, and the service holds, the row still knows, and the job.
KnownByRow ==
    imports = 0 =>
        \A s \in Ours : s.id \in known \ dropped =>
            rows[s.ext] # NoRow /\ rows[s.ext].id = s.id
KnownByJob ==
    AtHome /\ imports = 0 =>
        \A s \in Ours : s.id \in known \ dropped =>
            job.work[s.ext].id = s.id /\ job.work[s.ext].status # "gone"

PreviewCounts == preview # NoPreview => imports > 0

IInv ==
    /\ TypeOK /\ IdsAreOwn /\ OnePerService /\ RowsAreHome /\ JobIsHome
    /\ RowsNameTheirOwn /\ JobNamesItsOwn /\ PreviewNamesItsOwn
    /\ RowsFollowDirectory /\ JobFollowsDirectory
    /\ SettledIsMirrored /\ WalkedIsMirrored
    /\ KnownByRow /\ KnownByJob
    /\ PreviewCounts /\ EditsSurvive

-----------------------------------------------------------------------------
(* What CleanIsMirrored needs besides: the IDs that clean rows, and a      *)
(* job's clean items, stand for.                                           *)

\* The rows are about one service, nothing that they remember has vanished,
\* and no import was applied.
Quiet == home # NoURL /\ ~vanished /\ imports = 0

\* The IDs that the rows, and the copy of a job, remember.
RowId == [r \in Resources |-> IF rows[r] = NoRow THEN NoId ELSE rows[r].id]
WorkId == [r \in Resources |-> job.work[r].id]
Managers(r) == directory[r].refs \intersect Live(directory)

\* References name IDs that were given out.
RefsWereDrawn == \A s \in service : \A i \in s.refs : i < nextId

\* What a row remembers is there; while a job runs it may have been deleted.
RowsHeld ==
    Quiet => \A r \in Resources :
        RowId[r] # NoId /\ (job = NoJob \/ directory[r].status = "live")
            => \E s \in Ours : s.id = RowId[r]

\* A job sends what the directory has, and has not drawn an ID for what it has
\* still to walk, nor for what it does not write back.
JobSendsDirectory ==
    job # NoJob =>
        /\ \A u \in Users : job.work[u].refs = directory[u].refs
        /\ job.work[Group].refs \subseteq directory[Group].refs
        /\ \A r \in Resources : r \in job.todo \/ ~WritesBack(job, r) => WorkId[r] = RowId[r]
        /\ \A u \in job.awaiting : Managers(u) # {}

\* A job draws a second ID for no resource that a row knows.
JobKeepsIds ==
    Quiet /\ AtHome => \A r \in Live(directory) : RowId[r] # NoId => WorkId[r] = RowId[r]

\* What the service holds under r's ID is r as the directory has it.
HeldAsSaved(held, ids, r) ==
    \A s \in held : s.id = ids[r] =>
        /\ s.attrs = directory[r].attrs
        /\ r # Group => s.refs = {ids[m] : m \in Managers(r)} \ {NoId}
        /\ r = Group => \A t \in held : t.id \in s.refs =>
                            t.ext \in directory[r].refs \/ directory[t.ext].status = "purged"
\* r was created, and so were its managers.
Created(ids, r) == ids[r] # NoId /\ (r # Group => \A m \in Managers(r) : ids[m] # NoId)

\* What a row, or a job's copy, has as clean is at the service as it should be,
\* but for the users that await a manager.
CleanRowsAgree ==
    Quiet => \A r \in Live(directory) : rows[r] # NoRow /\ ~rows[r].dirty =>
        Created(RowId, r) /\ HeldAsSaved(Ours, RowId, r)
CleanWorkAgrees ==
    Quiet /\ AtHome =>
        \A r \in Live(directory) : WritesBack(job, r) /\ ~job.work[r].dirty =>
            /\ WorkId[r] # NoId
            /\ r \in job.awaiting \/ (Created(WorkId, r) /\ HeldAsSaved(Ours, WorkId, r))

CleanInv ==
    /\ RefsWereDrawn /\ RowsHeld /\ JobSendsDirectory /\ JobKeepsIds
    /\ CleanRowsAgree /\ CleanWorkAgrees

-----------------------------------------------------------------------------
(* What the helpers on rows, copies and jobs return.                       *)

\* The resources are numbered, the group after the users.
LEMMA ResourceFacts ==
    /\ Group \in Resources /\ Group \notin Users /\ Users \subseteq Resources
    /\ Users \subseteq Nat /\ Resources \subseteq Nat /\ Ids \subseteq Nat /\ NoId \notin Ids
  BY DEF Group, Resources, Users, Ids

\* A copy of a job keeps what it is about.
SameJob(j, k) ==
    /\ k \in Job
    /\ k.kind = j.kind /\ k.target = j.target
    /\ k.loaded = j.loaded /\ k.loadedRows = j.loadedRows
\* An item keeps what the service is sent, and is not forgotten to be sent.
SameItem(x, y) ==
    /\ y.status = x.status /\ y.attrs = x.attrs /\ y.id = x.id /\ y.refs \subseteq x.refs
    /\ x.dirty => y.dirty
\* Users keep their managers, and one that awaits no manager any more is dirty.
Keeps(j, k) ==
    /\ \A u \in Users : k.work[u].refs = j.work[u].refs
    /\ \A q \in Resources : ~k.work[q].dirty => q \in k.awaiting \/ q \notin j.awaiting

\* A halted walk keeps every item, and what is dirty.
LEMMA HaltedFacts ==
    ASSUME NEW j \in Job
    PROVE  /\ SameJob(j, Halted(j)) /\ Halted(j).awaiting = {} /\ Halted(j).todo = {}
           /\ \A q \in Resources : SameItem(j.work[q], Halted(j).work[q])
           /\ Keeps(j, Halted(j))
<1> DEFINE w == [r \in Resources |->
                    IF r \in j.awaiting THEN [j.work[r] EXCEPT !.dirty = TRUE] ELSE j.work[r]]
<1>1. j.work \in [Resources -> WorkItem]
  BY DEF Job
<1>2. w \in [Resources -> WorkItem]
  BY <1>1 DEF WorkItem
<1>3. Halted(j) = [j EXCEPT !.todo = {}, !.awaiting = {}, !.failed = TRUE, !.stopped = TRUE,
                            !.work = w]
  BY DEF Halted
<1> HIDE DEF w
<1>4. Halted(j) \in Job /\ Halted(j).work = w
  BY <1>2, <1>3 DEF Job
<1>5. SameJob(j, Halted(j)) /\ Halted(j).awaiting = {} /\ Halted(j).todo = {}
  BY <1>3, <1>4 DEF SameJob, Job
<1>6. \A q \in Resources : SameItem(j.work[q], w[q])
  BY <1>1 DEF w, SameItem, WorkItem
<1>7. /\ \A u \in Users : w[u].refs = j.work[u].refs
      /\ \A q \in Resources : ~w[q].dirty => q \notin j.awaiting
  BY <1>1, ResourceFacts DEF w, WorkItem
<1> QED BY <1>4, <1>5, <1>6, <1>7 DEF Keeps

\* After a failed exchange the resource is dirty, and every other item kept.
LEMMA FailedFacts ==
    ASSUME NEW j \in Job, NEW r \in Resources, NEW outcome
    PROVE  /\ SameJob(j, Failed(j, r, outcome))
           /\ Failed(j, r, outcome).awaiting \subseteq j.awaiting
           /\ Failed(j, r, outcome).todo \subseteq j.todo
           /\ \A q \in Resources : SameItem(j.work[q], Failed(j, r, outcome).work[q])
           /\ Keeps(j, Failed(j, r, outcome)) /\ Failed(j, r, outcome).work[r].dirty
<1> DEFINE w == [j.work EXCEPT ![r].dirty = TRUE]
           kept == [j EXCEPT !.work[r].dirty = TRUE, !.todo = @ \ {r}, !.failed = TRUE]
<1>1. j.work \in [Resources -> WorkItem]
  BY DEF Job
<1>2. w \in [Resources -> WorkItem] /\ \A q \in Resources : SameItem(j.work[q], w[q])
  BY <1>1 DEF WorkItem, SameItem
<1>a. w[r].dirty
  BY <1>1 DEF WorkItem
<1>b. \A u \in Users : w[u].refs = j.work[u].refs
  BY <1>1, ResourceFacts DEF WorkItem
<1>3. kept = [j EXCEPT !.work = w, !.todo = @ \ {r}, !.failed = TRUE]
  OBVIOUS
<1>4. Failed(j, r, outcome) = IF outcome \in {"stop", "stopLate"} THEN Halted(kept) ELSE kept
  BY DEF Failed
<1> HIDE DEF w, kept
<1>5. kept \in Job /\ kept.work = w /\ kept.awaiting = j.awaiting /\ kept.todo \subseteq j.todo /\ SameJob(j, kept)
  BY <1>2, <1>3 DEF Job, SameJob
<1>6. CASE outcome \in {"stop", "stopLate"}
  BY <1>2, <1>a, <1>b, <1>4, <1>5, <1>6, HaltedFacts DEF SameJob, SameItem, Keeps
<1>7. CASE outcome \notin {"stop", "stopLate"}
  BY <1>2, <1>a, <1>b, <1>4, <1>5, <1>7 DEF Keeps
<1> QED BY <1>6, <1>7

\* Forgetting a resource keeps the others, but for the group's members.
LEMMA WithoutFacts ==
    ASSUME NEW j \in Job, NEW r \in Resources
    PROVE  LET k == WithoutResource(j, r) IN
           /\ SameJob(j, k)
           /\ k.awaiting = j.awaiting
           /\ k.todo \subseteq j.todo
                 \union (IF r # Group /\ r \in j.work[Group].refs THEN {Group} ELSE {})
           /\ k.work[r].status = "gone"
           /\ k.work[r].attrs = j.work[r].attrs /\ k.work[r].id = j.work[r].id
           /\ k.work[r].refs \subseteq j.work[r].refs
           /\ \A q \in Resources \ {r} : SameItem(j.work[q], k.work[q])
           /\ Keeps(j, k)
<1> DEFINE member == r # Group /\ r \in j.work[Group].refs
           w == [q \in Resources |->
                   IF q = Group
                   THEN [j.work[q] EXCEPT !.status = IF r = Group THEN "gone" ELSE @,
                                          !.refs = @ \ {r}, !.dirty = @ \/ member]
                   ELSE IF q = r THEN [j.work[q] EXCEPT !.status = "gone"] ELSE j.work[q]]
<1>1. j.work \in [Resources -> WorkItem] /\ Group \in Resources /\ j \in Job
  BY ResourceFacts DEF Job
<1>a. DEFINE v1 == [j.work EXCEPT ![r].status = "gone"]
             v2 == [v1 EXCEPT ![Group].refs = j.work[Group].refs \ {r}]
             v3 == [v2 EXCEPT ![Group].dirty = j.work[Group].dirty \/ member]
<1>b. WithoutResource(j, r)
        = [j EXCEPT !.work = v3, !.todo = (@ \ {r}) \union (IF member THEN {Group} ELSE {})]
  BY <1>1 DEF WithoutResource, Job
<1>2. WithoutResource(j, r).work = w
  <2>1. v1 \in [Resources -> WorkItem]
    BY <1>1 DEF WorkItem
  <2>2. v2 \in [Resources -> WorkItem]
    BY <1>1, <2>1 DEF WorkItem
  <2>3. v3 = w
    BY <1>1 DEF WorkItem
  <2>4. WithoutResource(j, r).work = v3
    BY <1>1, <1>b DEF Job
  <2> QED BY <2>3, <2>4
<1>3. w \in [Resources -> WorkItem]
  BY <1>1 DEF WorkItem
<1>4. /\ w[r].status = "gone" /\ w[r].attrs = j.work[r].attrs /\ w[r].id = j.work[r].id
      /\ w[r].refs \subseteq j.work[r].refs
      /\ \A q \in Resources \ {r} : SameItem(j.work[q], w[q])
  BY <1>1 DEF WorkItem, SameItem
<1>d. \A u \in Users : w[u].refs = j.work[u].refs
  <2>1. \A u \in Users : u \in Resources /\ u # Group
    BY ResourceFacts
  <2>2. \A u \in Users : w[u] = IF u = r THEN [j.work[u] EXCEPT !.status = "gone"] ELSE j.work[u]
    BY <2>1
  <2>3. \A u \in Users : [j.work[u] EXCEPT !.status = "gone"].refs = j.work[u].refs
    BY <1>1, <2>1 DEF WorkItem
  <2> HIDE DEF w
  <2> QED BY <2>2, <2>3
<1> HIDE DEF w
<1>5. WithoutResource(j, r)
        = [j EXCEPT !.work = w, !.todo = (@ \ {r}) \union (IF member THEN {Group} ELSE {})]
  <2> HIDE DEF v3
  <2> QED BY <1>b, <1>2 DEF Job
<1> HIDE DEF v1, v2, v3
<1> DEFINE t == (j.todo \ {r}) \union (IF member THEN {Group} ELSE {})
<1>6. t \in SUBSET Resources
  BY <1>1 DEF Job
<1>7. WithoutResource(j, r) = [j EXCEPT !.work = w, !.todo = t]
  BY <1>5
<1> HIDE DEF t
<1>8. SameJob(j, WithoutResource(j, r)) /\ WithoutResource(j, r).work = w
      /\ WithoutResource(j, r).awaiting = j.awaiting /\ WithoutResource(j, r).todo = t
  BY <1>1, <1>3, <1>6, <1>7 DEF Job, SameJob
<1>9. Keeps(j, WithoutResource(j, r))
  BY <1>8, <1>d DEF Keeps
<1> QED BY <1>4, <1>8, <1>9 DEF t

\* What a job loads follows the directory and the rows.
LEMMA ProjectedFacts ==
    ASSUME NEW d \in [Resources -> Resource], NEW rs \in [Resources -> Row \union {NoRow}],
           \A r \in Resources : rs[r] # NoRow /\ rs[r].deleted => d[r].status = "deleted"
    PROVE  /\ Projected(d, rs) \in [Resources -> WorkItem]
           /\ \A u \in Projected(d, rs)[Group].refs : d[u].status = "live"
           /\ \A r \in Resources :
                 /\ Projected(d, rs)[r].status = d[r].status
                 /\ Projected(d, rs)[r].attrs = d[r].attrs
                 /\ Projected(d, rs)[r].refs \subseteq d[r].refs
                 /\ r # Group => Projected(d, rs)[r].refs = d[r].refs
                 /\ Projected(d, rs)[r].id = IF rs[r] = NoRow THEN NoId ELSE rs[r].id
                 /\ Projected(d, rs)[r].dirty = (rs[r] = NoRow \/ rs[r].dirty)
<1>1. ASSUME NEW r \in Resources
      PROVE  /\ Projected(d, rs)[r].status = d[r].status
             /\ Projected(d, rs)[r].attrs = d[r].attrs
             /\ Projected(d, rs)[r].refs \subseteq d[r].refs
             /\ r # Group => Projected(d, rs)[r].refs = d[r].refs
             /\ Projected(d, rs)[r].id = IF rs[r] = NoRow THEN NoId ELSE rs[r].id
             /\ Projected(d, rs)[r].dirty = (rs[r] = NoRow \/ rs[r].dirty)
             /\ Projected(d, rs)[r] \in WorkItem
  <2>1. d[r] \in Resource /\ (rs[r] # NoRow => rs[r] \in Row)
    OBVIOUS
  <2>2. Projected(d, rs)[r] \in WorkItem
    BY <2>1 DEF Projected, Resource, Row, WorkItem
  <2> QED BY <2>1, <2>2 DEF Projected
<1>2. Projected(d, rs) = [r \in Resources |-> Projected(d, rs)[r]]
  BY DEF Projected
<1>3. \A u \in Projected(d, rs)[Group].refs : d[u].status = "live"
  BY ResourceFacts DEF Projected
<1> QED BY <1>1, <1>2, <1>3

\* The row that an item leaves.
LEMMA RowOfFacts ==
    ASSUME NEW item \in WorkItem
    PROVE  /\ RowOf(item) \in Row
           /\ RowOf(item).deleted <=> item.status \in {"gone", "deleted"}
           /\ item.status = "gone" => ~RowOf(item).dirty /\ RowOf(item).id = NoId
           /\ item.status # "gone" => RowOf(item).dirty = item.dirty /\ RowOf(item).id = item.id
  BY DEF RowOf, WorkItem, Row

\* The rows that a job leaves: of what it does not write back, the old ones.
LEMMA ResultFacts ==
    ASSUME NEW j \in Job, j.kind = "push" => j.target \in Present(j.loaded)
    PROVE  /\ ResultRows(j) \in [Resources -> Row \union {NoRow}]
           /\ \A r \in Resources :
                 \/ WritesBack(j, r) /\ r \in Present(j.loaded)
                    /\ ResultRows(j)[r] = RowOf(j.work[r])
                 \/ WritesBack(j, r) /\ r \notin Present(j.loaded) /\ ResultRows(j)[r] = NoRow
                 \/ ~WritesBack(j, r) /\ ResultRows(j)[r] = j.loadedRows[r]
<1>1. \A r \in Resources : RowOf(j.work[r]) \in Row
  BY RowOfFacts DEF Job
<1>2. j.loadedRows \in [Resources -> Row \union {NoRow}] /\ j.target \in Resources
  BY DEF Job
<1>3. CASE j.kind = "push"
  BY <1>1, <1>2, <1>3 DEF ResultRows, PushedRows, WritesBack
<1>4. CASE j.kind # "push"
  BY <1>1, <1>4 DEF ResultRows, MergedRows, WritesBack
<1> QED BY <1>3, <1>4

\* Marking keeps IDs and what is deleted, makes what changed dirty, and who
\* reports to it, and leaves no clean row that was not clean before.
Marks(d, rs, ms, changed, deleted) ==
    \A r \in Resources :
        \/ /\ ms[r] = rs[r]
           /\ rs[r] # NoRow => r \notin changed /\ \A u \in changed \ {Group} : r \notin Reports(d, u)
        \/ /\ ms[r] \in Row
           /\ ms[r].id = IF rs[r] = NoRow THEN NoId ELSE rs[r].id
           /\ ms[r].dirty
           /\ ms[r].deleted = (deleted /\ r \in changed)
           /\ r \in changed \/ d[r].status = "live"
\* A mark keeps the identifier and makes a row of a live or changed resource dirty.
LEMMA MarkedFacts ==
    ASSUME NEW d \in [Resources -> Resource], NEW rs \in [Resources -> Row \union {NoRow}],
           NEW changed \in SUBSET Resources, NEW deleted
    PROVE  /\ Marked(d, rs, changed, deleted) \in [Resources -> Row \union {NoRow}]
           /\ Marks(d, rs, Marked(d, rs, changed, deleted), changed, deleted)
<1> DEFINE marks == changed \union UNION {Reports(d, u) : u \in changed \ {Group}}
           mark(r) == [id |-> IF rs[r] = NoRow THEN NoId ELSE rs[r].id, dirty |-> TRUE,
                       deleted |-> deleted /\ r \in changed]
<1>1. \A r \in marks : r \in changed \/ d[r].status = "live"
  BY DEF Reports
<1>2. Marked(d, rs, changed, deleted)
        = [r \in Resources |-> IF r \notin marks \/ (~enabled /\ rs[r] = NoRow) THEN rs[r]
                               ELSE mark(r)]
  BY DEF Marked
<1>3. \A r \in Resources : mark(r) \in Row
  BY DEF Row
<1>4. /\ \A r \in changed : r \in marks
      /\ \A u \in changed \ {Group} : \A r \in Reports(d, u) : r \in marks
  OBVIOUS
<1>5. \A r \in Resources : /\ mark(r).id = IF rs[r] = NoRow THEN NoId ELSE rs[r].id
                           /\ mark(r).dirty /\ mark(r).deleted = (deleted /\ r \in changed)
  OBVIOUS
<1> HIDE DEF marks, mark
<1> QED BY <1>1, <1>2, <1>3, <1>4, <1>5 DEF Marks

\* Starting over gives a dirty row without ID to whatever is in the directory.
LEMMA InitializedFacts ==
    ASSUME NEW d \in [Resources -> Resource]
    PROVE  /\ Initialized(d) \in [Resources -> Row \union {NoRow}]
           /\ \A r \in Resources :
                 \/ Initialized(d)[r] = NoRow
                 \/ /\ Initialized(d)[r] \in Row /\ r \in Present(d)
                    /\ Initialized(d)[r].id = NoId /\ Initialized(d)[r].dirty
                    /\ Initialized(d)[r].deleted = (d[r].status = "deleted")
<1>1. \A r \in Resources : [id |-> NoId, dirty |-> TRUE, deleted |-> d[r].status = "deleted"] \in Row
  BY DEF Row
<1> QED BY <1>1 DEF Initialized

\* Purging changes the status of what is gone, and the group's members.
LEMMA PurgedFacts ==
    ASSUME NEW d \in [Resources -> Resource], NEW gone \in SUBSET Resources
    PROVE  /\ Purged(d, gone) \in [Resources -> Resource]
           /\ \A r \in Resources :
                 /\ Purged(d, gone)[r].status = IF r \in gone THEN "purged" ELSE d[r].status
                 /\ Purged(d, gone)[r].attrs = d[r].attrs
<1>1. ASSUME NEW r \in Resources
      PROVE  /\ Purged(d, gone)[r] \in Resource
             /\ Purged(d, gone)[r].status = IF r \in gone THEN "purged" ELSE d[r].status
             /\ Purged(d, gone)[r].attrs = d[r].attrs
  BY DEF Purged, Resource
<1>2. Purged(d, gone) = [r \in Resources |-> Purged(d, gone)[r]]
  BY DEF Purged
<1> QED BY <1>1, <1>2

-----------------------------------------------------------------------------
(* The exchanges with a service.                                           *)

\* What every exchange keeps: IDs are their resources' own, a live resource that
\* was mirrored is mirrored, a resource that is new has a new ID, and no service
\* but the one the environment is pointed at changes.
SafeExchange ==
    /\ service' \subseteq RemoteResource /\ nextId' \in 1 .. MaxIds + 1
    /\ IdsAreOwn' /\ OnePerService'
    /\ \A q \in Resources, id \in Ids \union {NoId} :
          Names(service, nextId, id, q) => Names(service', nextId', id, q)
    /\ \A q \in Resources :
          directory[q].status = "live" /\ Mirrored(q)
             => \E s \in service' : s.url = home /\ s.ext = q /\ s.attrs = directory[q].attrs
    /\ \A s \in service' :
          \/ \E t \in service : t.id = s.id /\ t.ext = s.ext /\ t.url = s.url
          \/ s.id = nextId /\ s.url = scim.url
    /\ \A s \in RemoteResource : s.url # scim.url => (s \in service' <=> s \in service)

\* What a write meets is all that the service holds for the resource.
LEMMA FoundFacts ==
    ASSUME TypeOK, OnePerService, JobNamesItsOwn, job # NoJob, NEW r \in Resources,
           Creating(job, r) \/ Found(job, r) # {}
    PROVE  /\ Found(job, r) = HeldAs(r)
           /\ Found(job, r) \subseteq service
           /\ \A s \in Found(job, r) : s.url = scim.url /\ s.ext = r
           /\ \A s, t \in Found(job, r) : s = t
<1>1. \A s, t \in HeldAs(r) : s = t
  BY DEF OnePerService, HeldAs, Held
<1>2. CASE Creating(job, r) \/ scim.entra
  BY <1>1, <1>2 DEF Found, HeldAs, Held
<1>3. CASE ~Creating(job, r) /\ ~scim.entra
  <2>1. Found(job, r) = HeldBy(job.work[r].id) /\ job.work[r].id # NoId
    BY <1>3 DEF Found, Creating
  <2>2. \A s \in HeldBy(job.work[r].id) : s \in HeldAs(r)
    BY <2>1 DEF JobNamesItsOwn, Names, HeldBy, HeldAs, Held
  <2>3. Found(job, r) = HeldAs(r)
    BY <1>1, <1>3, <2>1, <2>2
  <2> QED BY <1>1, <2>3 DEF HeldAs, Held
<1> QED BY <1>2, <1>3

\* What a job sends for a resource is a resource a service can hold.
LEMMA SentFacts ==
    ASSUME TypeOK, job # NoJob, enabled, NEW r \in Resources, NEW id \in Ids
    PROVE  [url |-> scim.url, id |-> id, ext |-> r, attrs |-> job.work[r].attrs,
            refs |-> SentRefs(job, r)] \in RemoteResource
<1>1. job \in Job /\ scim \in Settings
  BY DEF TypeOK
<1>2. job.work[r] \in WorkItem /\ \A m \in Users : job.work[m] \in WorkItem
  BY <1>1, ResourceFacts DEF Job
<1>3. SentRefs(job, r) \subseteq Ids
  BY <1>2 DEF SentRefs, WorkItem
<1>4. scim.url \in BaseURLs
  BY <1>1 DEF enabled, Configured, Settings
<1> QED BY <1>2, <1>3, <1>4 DEF RemoteResource, WorkItem

\* Writing a live resource, as a new one or in place of the one found.
LEMMA PutIsSafe ==
    ASSUME TypeOK, IdsAreOwn, OnePerService, JobNamesItsOwn, JobFollowsDirectory,
           job # NoJob, NEW r \in Resources, NEW id,
           Creating(job, r) \/ Found(job, r) # {},
           \/ Found(job, r) = {} /\ id = nextId /\ nextId <= MaxIds /\ nextId' = nextId + 1
           \/ nextId' = nextId /\ \E s \in Found(job, r) : id = s.id,
           service' = Put(r, id), UNCHANGED <<directory, known, home, dropped>>
    PROVE  SafeExchange
<1> DEFINE new == [url |-> scim.url, id |-> id, ext |-> r, attrs |-> job.work[r].attrs,
                   refs |-> SentRefs(job, r)]
<1>1. /\ service \subseteq RemoteResource /\ nextId \in 1 .. MaxIds + 1 /\ nextId \in Nat
      /\ known \subseteq Ids
  BY SyncBoundsAssumption DEF TypeOK
<1>2. /\ Found(job, r) = HeldAs(r) /\ Found(job, r) \subseteq service
      /\ \A s \in Found(job, r) : s.url = scim.url /\ s.ext = r
      /\ \A s, t \in Found(job, r) : s = t
  BY FoundFacts
<1>3. id \in Ids /\ nextId' \in 1 .. MaxIds + 1 /\ nextId <= nextId' /\ id < nextId'
  BY <1>1, <1>2, SyncBoundsAssumption DEF Ids, RemoteResource, IdsAreOwn
<1>4. new \in RemoteResource
  BY <1>3, SentFacts DEF JobFollowsDirectory
<1>5. service' = (service \ Found(job, r)) \union {new}
  BY DEF Put
<1>6. new.url = scim.url /\ new.id = id /\ new.ext = r /\ new.attrs = job.work[r].attrs
  OBVIOUS
<1> HIDE DEF new
<1>7. \A s \in service \ Found(job, r) : s.id # id
  BY <1>1, <1>2 DEF IdsAreOwn, RemoteResource, Ids
<1>8. IdsAreOwn'
  BY <1>1, <1>3, <1>5, <1>6, <1>7 DEF IdsAreOwn, RemoteResource, Ids
<1>9. OnePerService'
  <2>1. \A s \in service \ Found(job, r) : ~(s.url = scim.url /\ s.ext = r)
    BY <1>2 DEF HeldAs, Held
  <2> QED BY <1>5, <1>6, <2>1 DEF OnePerService
<1>10. ASSUME NEW q \in Resources, NEW i \in Ids \union {NoId}, Names(service, nextId, i, q)
       PROVE  Names(service', nextId', i, q)
  <2>1. CASE i = NoId
    BY <2>1 DEF Names
  <2>2. CASE i # NoId
    <3>1. i \in Nat /\ i < nextId /\ \A s \in service : s.id = i => s.ext = q
      BY <1>10, <2>2 DEF Names, Ids
    <3>2. i = id => q = r
      BY <1>1, <1>2, <3>1
    <3>3. i < nextId'
      BY <1>1, <1>3, <3>1
    <3> QED BY <1>5, <1>6, <3>1, <3>2, <3>3 DEF Names
  <2> QED BY <2>1, <2>2
<1>11. ASSUME NEW q \in Resources, Mirrored(q)
       PROVE  \E s \in service' : s.url = home /\ s.ext = q /\ s.attrs = directory[q].attrs
  <2>1. CASE q = r /\ scim.url = home
    BY <1>5, <1>6, <2>1 DEF JobFollowsDirectory
  <2>2. CASE q # r \/ scim.url # home
    BY <1>2, <1>5, <1>11, <2>2 DEF Mirrored, Ours
  <2> QED BY <2>1, <2>2
<1>12. ASSUME NEW s \in service'
       PROVE  \/ \E t \in service : t.id = s.id /\ t.ext = s.ext /\ t.url = s.url
              \/ s.id = nextId /\ s.url = scim.url
  <2>1. CASE s \in service
    BY <2>1
  <2>2. CASE s = new
    BY <1>2, <1>6, <2>2
  <2> QED BY <1>5, <2>1, <2>2
<1>13. service' \subseteq RemoteResource
  BY <1>1, <1>4, <1>5
<1>14. \A s \in RemoteResource : s.url # scim.url => (s \in service' <=> s \in service)
  BY <1>2, <1>5, <1>6
<1> QED BY <1>3, <1>8, <1>9, <1>10, <1>11, <1>12, <1>13, <1>14 DEF SafeExchange

\* Deleting a resource that the directory has deleted.
LEMMA DeletionIsSafe ==
    ASSUME TypeOK, IdsAreOwn, OnePerService, JobNamesItsOwn, JobFollowsDirectory,
           job # NoJob, NEW r \in Resources,
           job.work[r].status = "deleted", job.work[r].id # NoId,
           service' = service \ HeldBy(job.work[r].id),
           UNCHANGED <<directory, known, home, dropped, nextId>>
    PROVE  SafeExchange
<1>1. \A s \in HeldBy(job.work[r].id) : s.ext = r
  BY DEF JobNamesItsOwn, Names, HeldBy, Held
<1>2. directory[r].status = "deleted"
  BY DEF JobFollowsDirectory
<1>3. service' \subseteq service
  OBVIOUS
<1>4. IdsAreOwn' /\ OnePerService'
  BY <1>3 DEF IdsAreOwn, OnePerService
<1>5. \A q \in Resources, id \in Ids \union {NoId} :
          Names(service, nextId, id, q) => Names(service', nextId', id, q)
  BY <1>3 DEF Names
<1>6. \A q \in Resources :
          directory[q].status = "live" /\ Mirrored(q)
             => \E s \in service' : s.url = home /\ s.ext = q /\ s.attrs = directory[q].attrs
  BY <1>1, <1>2 DEF Mirrored, Ours
<1>7. \A s \in RemoteResource : s.url # scim.url => (s \in service' <=> s \in service)
  BY DEF HeldBy, Held
<1> QED BY <1>3, <1>4, <1>5, <1>6, <1>7 DEF SafeExchange, TypeOK

\* An exchange that the service has not seen.
LEMMA NoExchangeIsSafe ==
    ASSUME TypeOK, IdsAreOwn, OnePerService,
           UNCHANGED <<service, directory, known, home, dropped, nextId>>
    PROVE  SafeExchange
<1>1. IdsAreOwn' /\ OnePerService'
  BY DEF IdsAreOwn, OnePerService
<1> QED BY <1>1 DEF SafeExchange, TypeOK, Names, Mirrored, Ours

\* The IDs are numbers.
LEMMA IdNumbers ==
    ASSUME TypeOK
    PROVE  /\ nextId \in Nat /\ known \subseteq Nat
           /\ \A s \in RemoteResource : s.id \in Nat /\ s.id # NoId /\ s.ext \in Resources
<1>1. nextId \in Nat
  BY SyncBoundsAssumption DEF TypeOK
<1>2. known \subseteq Nat
  BY ResourceFacts DEF TypeOK
<1>3. \A s \in RemoteResource : s.id \in Nat /\ s.id # NoId /\ s.ext \in Resources
  BY ResourceFacts DEF RemoteResource
<1> QED BY <1>1, <1>2, <1>3

\* A resource under an ID that was given out is where it was.
LEMMA OldIdFacts ==
    ASSUME IInv, SafeExchange, NEW s \in service', s.id # nextId
    PROVE  \E t \in service : t.id = s.id /\ t.ext = s.ext /\ t.url = s.url
  BY DEF SafeExchange

\* No known ID comes back.
LEMMA KnownIdFacts ==
    ASSUME IInv, SafeExchange, NEW s \in service', s.url = home, s.id \in known
    PROVE  \E t \in Ours : t.id = s.id /\ t.ext = s.ext
<1>1. nextId \in Nat /\ s.id \in Nat /\ s.id < nextId
  <2>1. TypeOK /\ IdsAreOwn
    BY DEF IInv
  <2> QED BY <2>1, IdNumbers DEF IdsAreOwn
<1> QED BY <1>1, OldIdFacts DEF Ours

-----------------------------------------------------------------------------
(* The steps of a job.                                                     *)

\* What a step of the walk has to show, besides a safe exchange.
LEMMA WalkStep ==
    ASSUME IInv, job # NoJob, SameElsewhere, SafeExchange, faults' \in 0 .. MaxFaults,
           SameJob(job, job'), \A u \in job'.awaiting : directory[u].status = "live",
           job.kind = "push" => job'.todo \subseteq {job.target},
           \A q \in Resources :
              /\ job'.work[q].attrs = job.work[q].attrs
              /\ job'.work[q].refs \subseteq job.work[q].refs
              /\ \/ job'.work[q].status = job.work[q].status
                 \/ /\ job'.work[q].status = "gone" /\ job.work[q].status = "deleted"
                    /\ WritesBack(job, q)
              /\ job'.work[q].status = "deleted" /\ job.work[q].dirty => job'.work[q].dirty
              /\ Names(service', nextId', job'.work[q].id, q)
              /\ AtHome /\ WritesBack(job, q) /\ job'.work[q].status = "live" /\ ~job'.work[q].dirty
                    => ~job.work[q].dirty \/ Mirrored(q)',
           KnownByJob', JobIsHome'
    PROVE  IInv'
<1> USE DEF SameElsewhere
<1>1. TypeOK /\ job' \in Job /\ job' # NoJob
  BY SyncNullsAssumption DEF IInv, SameJob
<1>2. TypeOK'
  BY <1>1 DEF SafeExchange, TypeOK
<1>3. IdsAreOwn' /\ OnePerService'
  BY DEF SafeExchange
<1>4. RowsNameTheirOwn'
  <2>1. \A r \in Resources : rows[r] # NoRow => rows[r].id \in Ids \union {NoId}
    BY <1>1 DEF TypeOK, Row
  <2> QED BY <2>1 DEF IInv, RowsNameTheirOwn, SafeExchange
<1>5. JobNamesItsOwn'
  BY <1>1 DEF JobNamesItsOwn
<1>6. PreviewNamesItsOwn'
  <2>1. preview # NoPreview => \A s \in preview.found : s.id \in Ids /\ s.ext \in Resources
    BY <1>1 DEF TypeOK, Preview, RemoteResource
  <2> QED BY <2>1 DEF IInv, PreviewNamesItsOwn, SafeExchange
<1>7. RowsFollowDirectory' /\ PreviewCounts' /\ EditsSurvive'
  BY DEF IInv, RowsFollowDirectory, PreviewCounts, EditsSurvive
<1>8. JobFollowsDirectory'
  <2>1. JobFollowsDirectory
    BY DEF IInv
  <2>2. \A q \in Resources : WritesBack(job', q) = WritesBack(job, q)
    BY DEF WritesBack, SameJob
  <2>3. job'.loaded = directory' /\ job'.loadedRows = rows' /\ enabled'
    BY <2>1 DEF JobFollowsDirectory, SameJob, enabled
  <2>4. /\ job'.kind = "push" => job'.target \in Present(directory')
        /\ job'.kind = "push" => job'.todo \subseteq {job'.target}
        /\ \A u \in job'.awaiting \union job'.work[Group].refs : directory'[u].status = "live"
    BY <2>1, ResourceFacts DEF JobFollowsDirectory, SameJob
  <2>5. ASSUME NEW r \in Resources
        PROVE  /\ job'.work[r].attrs = directory[r].attrs
               /\ \/ job'.work[r].status = directory[r].status
                  \/ /\ job'.work[r].status = "gone" /\ directory[r].status = "deleted"
                     /\ WritesBack(job, r)
               /\ WritesBack(job, r) /\ job'.work[r].status = "deleted" => job'.work[r].dirty
    <3>1. directory[r].status # "gone"
      BY <1>1 DEF TypeOK, Resource
    <3> QED BY <2>1, <3>1 DEF JobFollowsDirectory
  <2> QED BY <2>2, <2>3, <2>4, <2>5 DEF JobFollowsDirectory
<1>9. SettledIsMirrored'
  BY DEF IInv, SettledIsMirrored, RowsFollowDirectory, SafeExchange, Undisturbed, Mirrored, Ours
<1>10. WalkedIsMirrored'
  <2> SUFFICES ASSUME Undisturbed, AtHome, NEW q \in Resources, WritesBack(job, q),
                      job'.work[q].status = "live", ~job'.work[q].dirty, ~job.work[q].dirty
               PROVE  Mirrored(q)'
    BY DEF WalkedIsMirrored, WritesBack, SameJob, Undisturbed, AtHome
  <2>1. job.work[q].status = "live"
    BY DEF IInv
  <2>2. Mirrored(q) /\ directory[q].status = "live"
    BY <1>1, <2>1 DEF IInv, WalkedIsMirrored, JobFollowsDirectory
  <2> QED BY <2>2 DEF SafeExchange, Mirrored, Ours
<1>11. KnownByRow'
  <2> SUFFICES ASSUME imports = 0, NEW s \in service', s.url = home, s.id \in known \ dropped
               PROVE  rows[s.ext] # NoRow /\ rows[s.ext].id = s.id
    BY DEF KnownByRow, Ours
  <2> QED BY KnownIdFacts DEF IInv, KnownByRow
<1>12. RowsAreHome'
  <2> SUFFICES ASSUME home # NoURL, imports = 0, NEW s \in service',
                      rows[s.ext] # NoRow, rows[s.ext].id = s.id
               PROVE  s.url = home
    BY DEF RowsAreHome
  <2>1. s.ext \in Resources /\ s.id \in Nat /\ s.id # NoId /\ nextId \in Nat
    BY <1>1, IdNumbers DEF SafeExchange
  <2>2. s.id < nextId
    BY <2>1 DEF IInv, RowsNameTheirOwn, Names
  <2> QED BY <2>1, <2>2, OldIdFacts DEF IInv, RowsAreHome
<1> QED BY <1>2, <1>3, <1>4, <1>5, <1>6, <1>7, <1>8, <1>9, <1>10, <1>11, <1>12 DEF IInv

\* A job whose items keep their IDs stays at home.
LEMMA SameIdsAtHome ==
    ASSUME IInv, job # NoJob, SameElsewhere, SafeExchange,
           \A q \in Resources : job'.work[q].id = job.work[q].id
    PROVE  JobIsHome'
<1> SUFFICES ASSUME AtHome, imports = 0, NEW s \in service', job'.work[s.ext].id = s.id
             PROVE  s.url = home
  BY DEF JobIsHome, AtHome, SameElsewhere
<1>1. s.ext \in Resources /\ s.id \in Nat /\ s.id # NoId /\ nextId \in Nat
  <2>1. TypeOK /\ s \in RemoteResource
    BY DEF IInv, SafeExchange
  <2> QED BY <2>1, IdNumbers
<1>2. s.id < nextId
  BY <1>1 DEF IInv, JobNamesItsOwn, Names
<1> QED BY <1>1, <1>2, OldIdFacts DEF IInv, JobIsHome

\* A step that keeps every item keeps the invariant.
LEMMA KeepingStep ==
    ASSUME IInv, job # NoJob, SameElsewhere, SafeExchange, faults' \in 0 .. MaxFaults,
           SameJob(job, job'), job'.awaiting \subseteq job.awaiting,
           job'.todo \subseteq job.todo,
           \A q \in Resources : SameItem(job.work[q], job'.work[q])
    PROVE  IInv'
<1>1. /\ \A u \in job'.awaiting : directory[u].status = "live"
      /\ job.kind = "push" => job'.todo \subseteq {job.target}
  BY DEF IInv, JobFollowsDirectory
<1>2. \A q \in Resources : Names(service', nextId', job'.work[q].id, q)
  <2>1. \A q \in Resources : job.work[q].id \in Ids \union {NoId}
    BY DEF IInv, TypeOK, Job, WorkItem
  <2> QED BY <2>1 DEF IInv, JobNamesItsOwn, SafeExchange, SameItem
<1>3. KnownByJob'
  <2> SUFFICES ASSUME AtHome, imports = 0, NEW s \in service', s.url = home,
                      s.id \in known \ dropped
               PROVE  job'.work[s.ext].id = s.id /\ job'.work[s.ext].status # "gone"
    BY DEF KnownByJob, SameElsewhere, AtHome, Ours
  <2>1. PICK t \in Ours : t.id = s.id /\ t.ext = s.ext
    BY KnownIdFacts
  <2>2. t.ext \in Resources
    BY DEF IInv, TypeOK, RemoteResource, Ours
  <2> QED BY <2>1, <2>2 DEF IInv, KnownByJob, SameItem
<1>4. JobIsHome'
  BY SameIdsAtHome DEF SameItem
<1> QED BY <1>1, <1>2, <1>3, <1>4, WalkStep DEF SameItem

\* The faults stay within their bound.
LEMMA SpendFacts ==
    ASSUME TypeOK, NEW outcome \in Outcomes, Spend(outcome)
    PROVE  faults' \in 0 .. MaxFaults
<1>1. CASE job.cancelled \/ outcome = "ok"
  BY <1>1 DEF Spend, TypeOK
<1>2. CASE ~job.cancelled /\ outcome # "ok"
  <2>1. Spared
    BY <1>2 DEF Outcomes
  <2> QED BY <1>2, <2>1, SyncBoundsAssumption DEF Spend, TypeOK, Spared
<1> QED BY <1>1, <1>2

\* A nonempty set of resources has a least one.
LEMMA MinFacts ==
    ASSUME NEW S \in SUBSET Nat, S # {}
    PROVE  Min(S) \in S
<1> DEFINE Less == {ss \in Nat \X Nat : ss[1] < ss[2]}
<1>1. IsWellFoundedOn(Less, Nat)
  BY NatLessThanWellFounded DEF OpToRel
<1>2. \A x, y \in Nat : y < x => <<y, x>> \in Less
  OBVIOUS
<1> HIDE DEF Less
<1>3. PICK x \in S : \A y \in S : ~(<<y, x>> \in Less)
  BY <1>1, WFMin
<1>4. ASSUME NEW y \in S PROVE x <= y
  <2>1. x \in Nat /\ y \in Nat /\ ~(y < x)
    BY <1>2, <1>3
  <2> QED BY <2>1
<1> QED BY <1>4 DEF Min

\* The walk is at a resource that is to be done; a push has only its target.
LEMMA WalkingFacts ==
    ASSUME IInv, NEW r, Walking(r)
    PROVE  job # NoJob /\ job \in Job /\ r \in job.todo /\ WritesBack(job, r)
<1>1. job # NoJob /\ job \in Job /\ job.todo # {} /\ r = Min(job.todo)
  BY DEF Walking, IInv, TypeOK
<1>2. job.todo \in SUBSET Nat
  BY <1>1, ResourceFacts DEF Job
<1>3. r \in job.todo
  BY <1>1, <1>2, MinFacts
<1> QED BY <1>1, <1>3 DEF IInv, JobFollowsDirectory, WritesBack

\* A deleted resource is no member of the group in the job's copy any more.
LEMMA NotMember ==
    ASSUME IInv, job # NoJob, NEW r \in Resources, job.work[r].status = "deleted"
    PROVE  r \notin job.work[Group].refs
  BY DEF IInv, JobFollowsDirectory

\* The step that forgets a deleted resource, if the service does not hold it.
LEMMA ForgettingStep ==
    ASSUME IInv, NEW r \in Resources, Walking(r), SameElsewhere, SafeExchange,
           faults' \in 0 .. MaxFaults, job.work[r].status = "deleted",
           job' = WithoutResource(job, r),
           AtHome => \A s \in service' : s.url = home => s.id # job.work[r].id
    PROVE  IInv'
<1>1. job # NoJob /\ job \in Job /\ r \in job.todo /\ WritesBack(job, r)
      /\ r \notin job.work[Group].refs
  BY WalkingFacts, NotMember
<1>2. /\ SameJob(job, job') /\ job'.awaiting = job.awaiting /\ job'.todo \subseteq job.todo
      /\ job'.work[r].status = "gone"
      /\ job'.work[r].attrs = job.work[r].attrs /\ job'.work[r].id = job.work[r].id
      /\ job'.work[r].refs \subseteq job.work[r].refs
      /\ \A q \in Resources \ {r} : SameItem(job.work[q], job'.work[q])
  BY <1>1, WithoutFacts
<1>3. KnownByJob'
  <2> SUFFICES ASSUME AtHome, imports = 0, NEW s \in service', s.url = home,
                      s.id \in known \ dropped
               PROVE  job'.work[s.ext].id = s.id /\ job'.work[s.ext].status # "gone"
    BY <1>1 DEF KnownByJob, SameElsewhere, AtHome, Ours
  <2>1. PICK t \in Ours : t.id = s.id /\ t.ext = s.ext
    BY KnownIdFacts
  <2>2. t.ext \in Resources
    BY DEF IInv, TypeOK, RemoteResource, Ours
  <2>3. job.work[t.ext].id = t.id /\ job.work[t.ext].status # "gone"
    BY <1>1, <2>1 DEF IInv, KnownByJob
  <2>4. t.ext # r
    BY <2>1, <2>3
  <2> QED BY <1>2, <2>1, <2>2, <2>3, <2>4 DEF SameItem
<1>4. \A q \in Resources : Names(service', nextId', job'.work[q].id, q)
  <2>1. \A q \in Resources : job.work[q].id \in Ids \union {NoId} /\ job'.work[q].id = job.work[q].id
    BY <1>1, <1>2 DEF Job, WorkItem, SameItem
  <2> QED BY <1>1, <2>1 DEF IInv, JobNamesItsOwn, SafeExchange
<1>5. /\ \A u \in job'.awaiting : directory[u].status = "live"
      /\ job.kind = "push" => job'.todo \subseteq {job.target}
  BY <1>1, <1>2 DEF IInv, JobFollowsDirectory
<1>6. \A q \in Resources :
         /\ job'.work[q].attrs = job.work[q].attrs
         /\ job'.work[q].refs \subseteq job.work[q].refs
         /\ \/ job'.work[q].status = job.work[q].status
            \/ /\ job'.work[q].status = "gone" /\ job.work[q].status = "deleted"
               /\ WritesBack(job, q)
         /\ job'.work[q].status = "deleted" /\ job.work[q].dirty => job'.work[q].dirty
         /\ WritesBack(job, q) /\ job'.work[q].status = "live" /\ ~job'.work[q].dirty
               => ~job.work[q].dirty
  BY <1>1, <1>2 DEF SameItem
<1>7. \A q \in Resources : job'.work[q].id = job.work[q].id
  BY <1>2 DEF SameItem
<1>8. JobIsHome'
  BY <1>1, <1>7, SameIdsAtHome
<1> QED BY <1>1, <1>2, <1>3, <1>4, <1>5, <1>6, <1>8, WalkStep

LEMMA ForgetStep == ASSUME IInv, NEW r \in Resources, Forget(r) PROVE IInv'
<1>1. UNCHANGED <<service, nextId, faults, directory, known, home, dropped>> /\ Walking(r) /\ SameElsewhere
      /\ job.work[r].status = "deleted" /\ job.work[r].id = NoId
      /\ job' = WithoutResource(job, r)
  BY DEF Forget, SameElsewhere
<1>2. SafeExchange
  BY <1>1, NoExchangeIsSafe DEF IInv
<1>3. \A s \in service' : s.id # job.work[r].id
  BY <1>1, ResourceFacts DEF IInv, TypeOK, RemoteResource
<1>4. faults' \in 0 .. MaxFaults
  BY <1>1 DEF IInv, TypeOK
<1> QED BY <1>1, <1>2, <1>3, <1>4, ForgettingStep

LEMMA RefuseStep == ASSUME IInv, NEW r \in Resources, Refuse(r) PROVE IInv'
<1>1. UNCHANGED <<service, nextId, faults, directory, known, home, dropped>> /\ Walking(r) /\ SameElsewhere
      /\ job' = Failed(job, r, "refused")
  BY DEF Refuse, SameElsewhere
<1>2. SafeExchange /\ faults' \in 0 .. MaxFaults
  BY <1>1, NoExchangeIsSafe DEF IInv, TypeOK
<1>3. job # NoJob /\ job \in Job
  BY <1>1, WalkingFacts
<1> QED BY <1>1, <1>2, <1>3, FailedFacts, KeepingStep

LEMMA DeleteRemoteStep ==
    ASSUME IInv, NEW r \in Resources, NEW outcome, DeleteRemote(r, outcome) PROVE IInv'
<1>1. /\ UNCHANGED <<nextId, directory, known, home, dropped>> /\ Walking(r) /\ SameElsewhere
      /\ job.work[r].status = "deleted" /\ job.work[r].id # NoId
      /\ outcome \in Outcomes /\ Spend(outcome)
      /\ service' = IF Effective(outcome) THEN service \ HeldBy(job.work[r].id) ELSE service
      /\ job' = IF outcome = "ok" THEN WithoutResource(job, r) ELSE Failed(job, r, outcome)
  BY DEF DeleteRemote, SameElsewhere
<1>2. job # NoJob /\ job \in Job
  BY <1>1, WalkingFacts
<1>3. SafeExchange
  BY <1>1, <1>2, DeletionIsSafe, NoExchangeIsSafe DEF IInv
<1>4. faults' \in 0 .. MaxFaults
  BY <1>1, SpendFacts DEF IInv
<1>5. CASE outcome = "ok"
  <2>1. service' = service \ HeldBy(job.work[r].id)
    BY <1>1, <1>5 DEF Effective
  <2>2. AtHome => \A s \in service' : s.url = home => s.id # job.work[r].id
    BY <2>1 DEF HeldBy, Held, AtHome
  <2> QED BY <1>1, <1>3, <1>4, <1>5, <2>2, ForgettingStep
<1>6. CASE outcome # "ok"
  BY <1>1, <1>2, <1>3, <1>4, <1>6, FailedFacts, KeepingStep
<1> QED BY <1>5, <1>6

\* An item that was written has an ID and is clean; the others are kept.
Written(j, r, id, waiting) ==
    [j EXCEPT !.work[r].id = id, !.work[r].dirty = FALSE, !.todo = @ \ {r}, !.awaiting = waiting]
\* The items are the same, but r has the ID and is clean.
SameItemsBut(j, k, r, id) ==
    \A q \in Resources :
        /\ k.work[q].status = j.work[q].status /\ k.work[q].attrs = j.work[q].attrs
        /\ k.work[q].refs = j.work[q].refs
        /\ k.work[q].id = IF q = r THEN id ELSE j.work[q].id
        /\ k.work[q].dirty = IF q = r THEN FALSE ELSE j.work[q].dirty
\* A written resource is clean under its identifier; nothing else of the job moves.
LEMMA WrittenFacts ==
    ASSUME NEW j \in Job, NEW r \in Resources, NEW id \in Ids \union {NoId},
           NEW waiting \in SUBSET Users
    PROVE  /\ SameJob(j, Written(j, r, id, waiting))
           /\ Written(j, r, id, waiting).awaiting = waiting
           /\ Written(j, r, id, waiting).todo = j.todo \ {r}
           /\ SameItemsBut(j, Written(j, r, id, waiting), r, id)
<1> DEFINE v == [j.work EXCEPT ![r].id = id]
           w == [v EXCEPT ![r].dirty = FALSE]
           t == j.todo \ {r}
           k == Written(j, r, id, waiting)
<1>1. j.work \in [Resources -> WorkItem] /\ t \in SUBSET Resources
  BY DEF Job
<1>2. v \in [Resources -> WorkItem]
  BY <1>1 DEF WorkItem
<1>3. w \in [Resources -> WorkItem]
  BY <1>2 DEF WorkItem
<1>4. \A q \in Resources :
         /\ w[q].status = j.work[q].status /\ w[q].attrs = j.work[q].attrs
         /\ w[q].refs = j.work[q].refs
         /\ w[q].id = IF q = r THEN id ELSE j.work[q].id
         /\ w[q].dirty = IF q = r THEN FALSE ELSE j.work[q].dirty
  BY <1>1 DEF WorkItem
<1>5. k = [j EXCEPT !.work = w, !.todo = t, !.awaiting = waiting]
  BY DEF Job, Written
<1> HIDE DEF w, t, k
<1>6. SameJob(j, k) /\ k.work = w /\ k.awaiting = waiting /\ k.todo = t
  BY <1>1, <1>3, <1>5 DEF Job, SameJob
<1> QED BY <1>4, <1>6 DEF t, k, SameItemsBut

LEMMA WriteStep ==
    ASSUME IInv, NEW r \in Resources, NEW outcome, Write(r, outcome) PROVE IInv'
<1> DEFINE new == Found(job, r) = {}
           id == IF new THEN nextId ELSE (CHOOSE s \in Found(job, r) : TRUE).id
           waiting == IF r \in Users /\ AwaitsManager(job, r) THEN job.awaiting \union {r}
                      ELSE job.awaiting
           own == IF Creating(job, r) THEN id ELSE job.work[r].id
<1>1. /\ Walking(r) /\ job.work[r].status = "live" /\ Sendable(job, r)
      /\ new => nextId <= MaxIds
      /\ outcome \in Outcomes /\ Spend(outcome) /\ SameElsewhere
      /\ service' = IF Effective(outcome) THEN Put(r, id) ELSE service
      /\ nextId' = IF new /\ Effective(outcome) THEN nextId + 1 ELSE nextId
      /\ outcome = "ok" =>
            job' = [job EXCEPT !.work[r].id = own, !.work[r].dirty = FALSE,
                               !.todo = @ \ {r}, !.awaiting = waiting]
      /\ outcome # "ok" => job' = Failed(job, r, outcome)
  BY DEF Write
<1> HIDE DEF id, waiting, own
<1>2. job # NoJob /\ job \in Job /\ WritesBack(job, r) /\ UNCHANGED <<directory, known, home, dropped>>
  BY <1>1, WalkingFacts DEF SameElsewhere
<1>3. Creating(job, r) \/ Found(job, r) # {}
  BY <1>1 DEF Sendable
<1>4. \/ Found(job, r) = {} /\ id = nextId /\ nextId <= MaxIds
      \/ Found(job, r) # {} /\ \E s \in Found(job, r) : id = s.id
  BY <1>1 DEF id
<1>5. SafeExchange
  <2>1. CASE Effective(outcome)
    BY <1>1, <1>2, <1>3, <1>4, <2>1, PutIsSafe DEF IInv
  <2>2. CASE ~Effective(outcome)
    BY <1>1, <1>2, <2>2, NoExchangeIsSafe DEF IInv
  <2> QED BY <2>1, <2>2
<1>6. faults' \in 0 .. MaxFaults
  BY <1>1, SpendFacts DEF IInv
<1>7. CASE outcome # "ok"
  BY <1>1, <1>2, <1>5, <1>6, <1>7, FailedFacts, KeepingStep
<1>8. CASE outcome = "ok"
  <2>1. service' = Put(r, id)
    BY <1>1, <1>8 DEF Effective
  <2> DEFINE sent == [url |-> scim.url, id |-> id, ext |-> r, attrs |-> job.work[r].attrs,
                      refs |-> SentRefs(job, r)]
  <2>a. sent \in service'
    BY <2>1 DEF Put
  <2>2. PICK item \in service' :
           /\ item.url = scim.url /\ item.id = id /\ item.ext = r
           /\ item.attrs = job.work[r].attrs
    BY <2>a
  <2>3. id \in Ids /\ own \in Ids \union {NoId}
    BY <1>2, <1>5, <2>2 DEF own, SafeExchange, RemoteResource, Job, WorkItem
  <2>4. waiting \in SUBSET Users
    BY <1>2 DEF waiting, Job
  <2>5. /\ SameJob(job, job')
        /\ job'.awaiting = waiting /\ job'.todo \subseteq job.todo
        /\ \A q \in Resources :
              /\ job'.work[q].status = job.work[q].status
              /\ job'.work[q].attrs = job.work[q].attrs
              /\ job'.work[q].refs = job.work[q].refs
              /\ job'.work[q].id = IF q = r THEN own ELSE job.work[q].id
              /\ job'.work[q].dirty = IF q = r THEN FALSE ELSE job.work[q].dirty
    <3>1. job' = Written(job, r, own, waiting)
      BY <1>1, <1>8 DEF Written
    <3>2. job \in Job
      BY <1>2
    <3> HIDE DEF sent
    <3>3. own \in Ids \union {NoId} /\ waiting \in SUBSET Users
      BY <2>3, <2>4
    <3>4. SameJob(job, job') /\ job'.awaiting = waiting /\ job'.todo \subseteq job.todo
          /\ SameItemsBut(job, job', r, own)
      BY <3>1, <3>2, <3>3, WrittenFacts
    <3> QED BY <3>4 DEF SameItemsBut
  <2>6. /\ \A u \in job'.awaiting : directory[u].status = "live"
        /\ job.kind = "push" => job'.todo \subseteq {job.target}
    BY <1>1, <1>2, <2>5 DEF waiting, IInv, JobFollowsDirectory
  <2>7. \A q \in Resources : job.work[q].id \in Ids \union {NoId}
                             /\ Names(service', nextId', job.work[q].id, q)
    BY <1>2, <1>5 DEF IInv, JobNamesItsOwn, SafeExchange, Job, WorkItem
  <2>8. Names(service', nextId', id, r)
    BY <1>5, <2>2 DEF SafeExchange, IdsAreOwn, Names
  <2>9. \A q \in Resources : Names(service', nextId', job'.work[q].id, q)
    BY <2>5, <2>7, <2>8 DEF own
  <2>10. AtHome => Mirrored(r)'
    BY <1>2, <2>2 DEF Mirrored, IInv, JobFollowsDirectory, AtHome, Ours
  <2>11. KnownByJob'
    <3> SUFFICES ASSUME AtHome, imports = 0, NEW s \in service', s.url = home,
                        s.id \in known \ dropped
                 PROVE  job'.work[s.ext].id = s.id /\ job'.work[s.ext].status # "gone"
      <4>1. SameElsewhere
        BY <1>1
      <4> QED BY <1>2, <4>1 DEF KnownByJob, SameElsewhere, AtHome, Ours
    <3>1. PICK t \in Ours : t.id = s.id /\ t.ext = s.ext
      BY <1>5, KnownIdFacts
    <3>2. t.ext \in Resources /\ t.id # NoId /\ t \in service
      BY ResourceFacts DEF IInv, TypeOK, RemoteResource, Ours
    <3>3. job.work[t.ext].id = t.id /\ job.work[t.ext].status # "gone"
      BY <1>2, <3>1 DEF IInv, KnownByJob
    <3>4. t.url = scim.url
      BY DEF Ours, AtHome
    <3>5. t.ext = r => ~Creating(job, r)
      BY <3>2, <3>3, <3>4 DEF Creating, HeldBy, Held
    <3> QED BY <2>5, <3>1, <3>2, <3>3, <3>5 DEF own
  <2>12. \A q \in Resources :
            /\ job'.work[q].attrs = job.work[q].attrs
            /\ job'.work[q].refs \subseteq job.work[q].refs
            /\ job'.work[q].status = job.work[q].status
            /\ job'.work[q].status = "deleted" /\ job.work[q].dirty => job'.work[q].dirty
            /\ AtHome /\ WritesBack(job, q) /\ job'.work[q].status = "live" /\ ~job'.work[q].dirty
                  => ~job.work[q].dirty \/ Mirrored(q)'
    BY <1>1, <2>5, <2>10
  <2>13. JobIsHome'
    <3> SUFFICES ASSUME AtHome, imports = 0, NEW s \in service', job'.work[s.ext].id = s.id
                 PROVE  s.url = home
      <4>1. SameElsewhere
        BY <1>1
      <4> QED BY <1>2, <4>1 DEF JobIsHome, AtHome, SameElsewhere
    <3>1. s.ext \in Resources /\ s.id \in Nat /\ s.id # NoId /\ nextId \in Nat
      <4>1. TypeOK /\ s \in RemoteResource
        BY <1>5 DEF IInv, SafeExchange
      <4> QED BY <4>1, IdNumbers
    <3>2. CASE s.id = id
      BY <1>5, <2>2, <3>2 DEF SafeExchange, IdsAreOwn, AtHome
    <3>3. CASE s.id # id
      <4>1. job.work[s.ext].id = s.id
        BY <2>5, <3>1, <3>3 DEF own
      <4>2. s.id < nextId
        BY <1>2, <3>1, <4>1 DEF IInv, JobNamesItsOwn, Names
      <4> QED BY <1>2, <1>5, <3>1, <4>1, <4>2, OldIdFacts DEF IInv, JobIsHome
    <3> QED BY <3>2, <3>3
  <2> QED BY <1>1, <1>2, <1>5, <1>6, <2>5, <2>6, <2>9, <2>11, <2>12, <2>13, WalkStep
<1> QED BY <1>7, <1>8

\* A user that was sent again, or not, awaits its manager no more.
Dropped(j, u, dirty, failed) ==
    [j EXCEPT !.awaiting = @ \ {u}, !.work[u].dirty = dirty, !.failed = failed]
\* A user that awaits no manager any more keeps its identifier.
LEMMA DroppedFacts ==
    ASSUME NEW j \in Job, NEW u \in Resources, NEW dirty \in BOOLEAN, NEW failed \in BOOLEAN,
           j.work[u].dirty => dirty
    PROVE  /\ SameJob(j, Dropped(j, u, dirty, failed))
           /\ Dropped(j, u, dirty, failed).awaiting \subseteq j.awaiting
           /\ Dropped(j, u, dirty, failed).todo \subseteq j.todo
           /\ \A q \in Resources : SameItem(j.work[q], Dropped(j, u, dirty, failed).work[q])
           /\ dirty => Keeps(j, Dropped(j, u, dirty, failed))
<1> DEFINE w == [j.work EXCEPT ![u].dirty = dirty]
           a == j.awaiting \ {u}
           k == Dropped(j, u, dirty, failed)
<1>1. j.work \in [Resources -> WorkItem] /\ a \in SUBSET Users /\ a \subseteq j.awaiting
  BY DEF Job
<1>2. /\ w \in [Resources -> WorkItem] /\ \A q \in Resources : SameItem(j.work[q], w[q])
      /\ w[u].dirty = dirty /\ \A q \in Users : w[q].refs = j.work[q].refs
  BY <1>1, ResourceFacts DEF WorkItem, SameItem
<1>3. k = [j EXCEPT !.work = w, !.awaiting = a, !.failed = failed]
  BY DEF Job, Dropped
<1> HIDE DEF w, a, k
<1>4. SameJob(j, k) /\ k.work = w /\ k.awaiting = a /\ k.todo = j.todo
  BY <1>1, <1>2, <1>3 DEF Job, SameJob
<1>5. dirty => Keeps(j, k)
  BY <1>1, <1>2, <1>4 DEF a, Keeps
<1> QED BY <1>1, <1>2, <1>4, <1>5 DEF k

LEMMA SendAwaitedStep ==
    ASSUME IInv, NEW u \in Users, NEW outcome, SendAwaited(u, outcome) PROVE IInv'
<1> DEFINE live == \E m \in job.work[u].refs : job.work[m].status = "live"
           sendable == AwaitsManager(job, u) = FALSE
           sends == live /\ sendable /\ Found(job, u) # {}
           done == [job EXCEPT !.awaiting = @ \ {u}]
           dirty == job.work[u].dirty \/ live
           failed == job.failed \/ (live /\ sendable)
           own == (CHOOSE s \in Found(job, u) : TRUE).id
<1>1. /\ job # NoJob /\ UNCHANGED nextId /\ SameElsewhere
      /\ sends => /\ outcome \in Outcomes /\ Spend(outcome)
                  /\ service' = IF Effective(outcome) THEN Put(u, own) ELSE service
                  /\ job' = CASE outcome = "ok" -> done
                              [] outcome \in {"stop", "stopLate"} -> Halted(job)
                              [] OTHER -> [done EXCEPT !.work[u].dirty = TRUE, !.failed = TRUE]
      /\ ~sends => /\ UNCHANGED <<service, faults>>
                   /\ job' = [done EXCEPT !.work[u].dirty = @ \/ live,
                                          !.failed = @ \/ (live /\ sendable)]
  BY DEF SendAwaited
<1>2. job \in Job /\ UNCHANGED <<directory, known, home, dropped>> /\ u \in Resources
  BY <1>1, ResourceFacts DEF IInv, TypeOK, SameElsewhere
<1>3. job.work[u].dirty \in BOOLEAN /\ job.failed \in BOOLEAN
  BY <1>2 DEF Job, WorkItem
<1>4. dirty \in BOOLEAN /\ failed \in BOOLEAN /\ (job.work[u].dirty => dirty)
  OBVIOUS
<1>5. ASSUME NEW d \in BOOLEAN, NEW f \in BOOLEAN, job.work[u].dirty => d,
             job' = Dropped(job, u, d, f), SafeExchange, faults' \in 0 .. MaxFaults
      PROVE  IInv'
  BY <1>1, <1>2, <1>5, DroppedFacts, KeepingStep
<1>6. CASE sends
  <2>1. SafeExchange
    <3>1. CASE Effective(outcome)
      <4>1. \E s \in Found(job, u) : own = s.id
        BY <1>6
      <4> HIDE DEF own
      <4> QED BY <1>1, <1>2, <1>6, <3>1, <4>1, PutIsSafe DEF IInv
    <3>2. CASE ~Effective(outcome)
      BY <1>1, <1>2, <1>6, <3>2, NoExchangeIsSafe DEF IInv
    <3> QED BY <3>1, <3>2
  <2>2. faults' \in 0 .. MaxFaults
    BY <1>1, <1>6, SpendFacts DEF IInv
  <2>3. CASE outcome = "ok"
    <3>1. job' = done
      BY <1>1, <1>6, <2>3
    <3>2. SameJob(job, job') /\ job'.awaiting \subseteq job.awaiting /\ job'.todo = job.todo
          /\ job'.work = job.work
      BY <1>2, <3>1 DEF Job, SameJob
    <3>3. \A q \in Resources : SameItem(job.work[q], job'.work[q])
      BY <3>2 DEF SameItem
    <3> QED BY <1>1, <2>1, <2>2, <3>2, <3>3, KeepingStep
  <2>4. CASE outcome \in {"stop", "stopLate"}
    <3>1. job' = Halted(job)
      BY <1>1, <1>6, <2>4
    <3>2. Halted(job).awaiting \subseteq job.awaiting /\ Halted(job).todo \subseteq job.todo
      BY <1>2, HaltedFacts
    <3> QED BY <1>1, <1>2, <2>1, <2>2, <3>1, <3>2, HaltedFacts, KeepingStep
  <2>5. CASE outcome \notin {"ok", "stop", "stopLate"}
    <3>1. job' = Dropped(job, u, TRUE, TRUE)
      BY <1>1, <1>2, <1>6, <2>5 DEF Dropped, Job
    <3> QED BY <1>5, <2>1, <2>2, <3>1
  <2> QED BY <2>3, <2>4, <2>5
<1>7. CASE ~sends
  <2>1. SafeExchange /\ faults' \in 0 .. MaxFaults
    BY <1>1, <1>2, <1>7, NoExchangeIsSafe DEF IInv, TypeOK
  <2>2. job' = Dropped(job, u, dirty, failed)
    BY <1>1, <1>2, <1>7 DEF Dropped, Job
  <2> QED BY <1>4, <1>5, <2>1, <2>2
<1> QED BY <1>6, <1>7

LEMMA CancelStep == ASSUME IInv, Cancel PROVE IInv'
<1>1. /\ job # NoJob /\ Spared /\ SameElsewhere /\ UNCHANGED <<service, nextId, directory, known, home, dropped>>
      /\ job' = [job EXCEPT !.cancelled = TRUE] /\ faults' = faults + 1
  BY DEF Cancel, SameElsewhere
<1>2. job \in Job /\ SafeExchange
  BY <1>1, NoExchangeIsSafe DEF IInv, TypeOK
<1>3. faults' \in 0 .. MaxFaults
  BY <1>1, SyncBoundsAssumption DEF IInv, TypeOK, Spared
<1>4. SameJob(job, job') /\ job'.awaiting = job.awaiting /\ job'.todo = job.todo
      /\ job'.work = job.work
  BY <1>1, <1>2 DEF Job, SameJob
<1>5. \A q \in Resources : SameItem(job.work[q], job'.work[q])
  BY <1>4 DEF SameItem
<1> QED BY <1>1, <1>2, <1>3, <1>4, <1>5, KeepingStep

\* The steps that start, end or lose a job, and those that leave none running.
LEMMA StartJobStep ==
    ASSUME IInv, NEW kind \in {"sync", "reconcile", "push"}, NEW target \in Resources,
           StartJob(kind, target)
    PROVE  IInv'
<1> DEFINE projected == Projected(directory, rows)
           todo == CASE kind = "reconcile" -> Present(directory)
                     [] kind = "sync" -> {r \in Present(directory) : projected[r].dirty}
                     [] OTHER -> {target}
           work == IF kind = "push" THEN Restricted(projected, target) ELSE projected
<1>1. /\ job = NoJob /\ enabled /\ jobs < MaxJobs /\ jobs' = jobs + 1
      /\ kind = "push" => target \in Present(directory)
      /\ job' = [kind |-> kind, target |-> target, loaded |-> directory, loadedRows |-> rows,
                 work |-> work, todo |-> todo, awaiting |-> {}, failed |-> FALSE,
                 stopped |-> FALSE, cancelled |-> FALSE]
      /\ UNCHANGED <<directory, rows, scim, service, nextId, preview, edits, faults, imports,
                     losses, intended, vanished, known, home, dropped>>
  BY DEF StartJob
<1>2. TypeOK /\ directory \in [Resources -> Resource] /\ rows \in [Resources -> Row \union {NoRow}]
  BY DEF IInv, TypeOK
<1>3. \A r \in Resources : rows[r] # NoRow /\ rows[r].deleted => directory[r].status = "deleted"
  BY DEF IInv, RowsFollowDirectory
<1>4. /\ projected \in [Resources -> WorkItem]
      /\ \A u \in projected[Group].refs : directory[u].status = "live"
      /\ \A r \in Resources :
            /\ projected[r].status = directory[r].status
            /\ projected[r].attrs = directory[r].attrs
            /\ projected[r].id = IF rows[r] = NoRow THEN NoId ELSE rows[r].id
            /\ projected[r].dirty = (rows[r] = NoRow \/ rows[r].dirty)
  BY <1>2, <1>3, ProjectedFacts
<1> HIDE DEF projected
<1>5. /\ work \in [Resources -> WorkItem]
      /\ \A u \in work[Group].refs : directory[u].status = "live"
      /\ \A r \in Resources :
            /\ work[r].status = directory[r].status
            /\ work[r].attrs = directory[r].attrs
            /\ work[r].id = IF rows[r] = NoRow THEN NoId ELSE rows[r].id
            /\ kind # "push" \/ r = target => (rows[r] = NoRow \/ rows[r].dirty => work[r].dirty)
  <2>1. CASE kind # "push"
    BY <1>4, <2>1
  <2>2. CASE kind = "push"
    <3>1. \A r \in Resources : (r = target) \in BOOLEAN
      OBVIOUS
    <3>2. work = [r \in Resources |-> [projected[r] EXCEPT !.dirty = r = target]]
      BY <2>2 DEF Restricted
    <3>3. ASSUME NEW r \in Resources
          PROVE  /\ work[r] \in WorkItem /\ work[r].status = projected[r].status
                 /\ work[r].attrs = projected[r].attrs /\ work[r].id = projected[r].id
                 /\ work[r].refs = projected[r].refs /\ work[r].dirty = (r = target)
      <4>1. work[r] = [projected[r] EXCEPT !.dirty = (r = target)] /\ projected[r] \in WorkItem
        BY <1>4, <3>2
      <4> HIDE DEF work
      <4> QED BY <3>1, <4>1 DEF WorkItem
    <3>4. work \in [Resources -> WorkItem]
      <4>1. work = [r \in Resources |-> work[r]]
        BY <3>2
      <4> HIDE DEF work
      <4> QED BY <3>3, <4>1
    <3> HIDE DEF work
    <3>5. \A u \in work[Group].refs : directory[u].status = "live"
      BY <1>4, <3>3, ResourceFacts
    <3>6. ASSUME NEW r \in Resources
          PROVE  /\ work[r].status = directory[r].status
                 /\ work[r].attrs = directory[r].attrs
                 /\ work[r].id = IF rows[r] = NoRow THEN NoId ELSE rows[r].id
                 /\ kind # "push" \/ r = target
                       => (rows[r] = NoRow \/ rows[r].dirty => work[r].dirty)
      <4>1. r = target => work[r].dirty
        BY <3>3
      <4>2. work[r].id = projected[r].id
        BY <3>3
      <4> QED BY <1>4, <2>2, <3>3, <4>1, <4>2
    <3> QED BY <3>4, <3>5, <3>6
  <2> QED BY <2>1, <2>2
<1>6. todo \subseteq Resources
  BY DEF Present
<1>7. kind = "push" => todo = {target}
  OBVIOUS
<1> HIDE DEF work, todo
<1>8. job' \in Job /\ job' # NoJob
  <2>1. job' \in Job
    BY <1>1, <1>2, <1>5, <1>6 DEF Job
  <2> QED BY <2>1, SyncNullsAssumption
<1>9. /\ job'.kind = kind /\ job'.target = target /\ job'.loaded = directory
      /\ job'.loadedRows = rows /\ job'.work = work /\ job'.todo = todo /\ job'.awaiting = {}
  BY <1>1
<1>10. TypeOK'
  BY <1>1, <1>2, <1>8, SyncBoundsAssumption DEF TypeOK
<1>11. /\ IdsAreOwn' /\ OnePerService' /\ RowsNameTheirOwn' /\ PreviewNamesItsOwn'
       /\ RowsFollowDirectory' /\ SettledIsMirrored' /\ KnownByRow' /\ PreviewCounts'
       /\ EditsSurvive' /\ RowsAreHome'
  BY <1>1 DEF IInv, IdsAreOwn, OnePerService, RowsNameTheirOwn, PreviewNamesItsOwn,
              RowsFollowDirectory, SettledIsMirrored, KnownByRow, PreviewCounts, EditsSurvive,
              Undisturbed, Mirrored, Ours, RowsAreHome
<1>12. JobNamesItsOwn'
  BY <1>1, <1>5, <1>9 DEF IInv, JobNamesItsOwn, RowsNameTheirOwn, Names
<1>13. JobFollowsDirectory'
  <2>1. ASSUME NEW r \in Resources, WritesBack(job', r), work[r].status = "deleted"
        PROVE  work[r].dirty
    BY <1>5, <1>9, <2>1 DEF IInv, RowsFollowDirectory, WritesBack
  <2> QED BY <1>1, <1>5, <1>7, <1>9, <2>1 DEF JobFollowsDirectory, enabled
<1>14. WalkedIsMirrored'
  <2> SUFFICES ASSUME Undisturbed, scim.url = home, NEW r \in Resources, WritesBack(job', r),
                      ~work[r].dirty
               PROVE  Mirrored(r)
    BY <1>1, <1>9 DEF WalkedIsMirrored, Undisturbed, Mirrored, Ours, AtHome
  <2>1. rows[r] # NoRow /\ ~rows[r].dirty
    BY <1>5, <1>9 DEF WritesBack
  <2> QED BY <1>1, <2>1 DEF IInv, SettledIsMirrored, enabled, Configured
<1>15. KnownByJob'
  <2> SUFFICES ASSUME imports = 0, NEW s \in Ours, s.id \in known \ dropped
               PROVE  work[s.ext].id = s.id /\ work[s.ext].status # "gone"
    BY <1>1, <1>9 DEF KnownByJob, Ours
  <2>1. s.ext \in Resources
    BY <1>2 DEF TypeOK, RemoteResource, Ours
  <2> QED BY <1>2, <1>5, <2>1 DEF IInv, KnownByRow, Resource
<1>16. JobIsHome'
  <2> SUFFICES ASSUME imports = 0, scim.url = home, NEW s \in service, work[s.ext].id = s.id
               PROVE  s.url = home
    BY <1>1, <1>9 DEF JobIsHome, AtHome
  <2>1. s.ext \in Resources /\ s.id # NoId /\ home # NoURL
    BY <1>1, <1>2, ResourceFacts DEF TypeOK, RemoteResource, enabled, Configured
  <2> QED BY <1>5, <2>1 DEF IInv, RowsAreHome
<1> QED BY <1>10, <1>11, <1>12, <1>13, <1>14, <1>15, <1>16 DEF IInv

LEMMA LoseJobStep == ASSUME IInv, LoseJob PROVE IInv'
<1>1. /\ job' = NoJob /\ Spared /\ faults' = faults + 1
      /\ UNCHANGED <<directory, rows, scim, service, nextId, preview, edits, jobs, imports, losses,
                     intended, known, home, dropped>>
      /\ vanished' \in BOOLEAN
  BY DEF LoseJob, NoteVanished, IInv, TypeOK
<1>2. TypeOK'
  BY <1>1, SyncBoundsAssumption DEF IInv, TypeOK, Spared
<1>3. /\ IdsAreOwn' /\ OnePerService' /\ RowsNameTheirOwn' /\ PreviewNamesItsOwn'
      /\ RowsFollowDirectory' /\ SettledIsMirrored' /\ KnownByRow' /\ PreviewCounts'
      /\ EditsSurvive' /\ RowsAreHome'
  BY <1>1 DEF IInv, IdsAreOwn, OnePerService, RowsNameTheirOwn, PreviewNamesItsOwn,
              RowsFollowDirectory, SettledIsMirrored, KnownByRow, PreviewCounts, EditsSurvive,
              Undisturbed, Mirrored, Ours, RowsAreHome
<1>4. JobNamesItsOwn' /\ JobFollowsDirectory' /\ WalkedIsMirrored' /\ KnownByJob' /\ JobIsHome'
  BY <1>1 DEF JobNamesItsOwn, JobFollowsDirectory, WalkedIsMirrored, KnownByJob, JobIsHome, AtHome
<1> QED BY <1>2, <1>3, <1>4 DEF IInv

\* Without a running job, what is about jobs holds.
LEMMA NoJobFacts ==
    ASSUME job' = NoJob
    PROVE  JobNamesItsOwn' /\ JobFollowsDirectory' /\ WalkedIsMirrored' /\ KnownByJob' /\ JobIsHome'
  BY DEF JobNamesItsOwn, JobFollowsDirectory, WalkedIsMirrored, KnownByJob, JobIsHome, AtHome

\* The identifiers of a table are those of its rows.
LEMMA RowIdsFacts ==
    ASSUME NEW rs \in [Resources -> Row \union {NoRow}]
    PROVE  /\ RowIds(rs) \subseteq Ids
           /\ \A id \in RowIds(rs) : \E q \in Resources : rs[q] # NoRow /\ rs[q].id = id
  BY DEF RowIds, Row

LEMMA FinishJobStep == ASSUME IInv, FinishJob PROVE IInv'
<1> DEFINE result == ResultRows(job)
           gone == PurgedResources(job.loaded, result)
<1>1. /\ job # NoJob /\ directory' = Purged(directory, gone)
      /\ rows' = [r \in Resources |-> IF r \in gone THEN NoRow ELSE result[r]]
      /\ known' = known \union RowIds(rows') /\ job' = NoJob /\ vanished' \in BOOLEAN
      /\ dropped' = dropped \ RowIds(rows') /\ home' = IF scim.url = home THEN home ELSE NoURL
      /\ UNCHANGED <<scim, service, nextId, preview, edits, jobs, faults, imports, losses,
                     intended>>
  BY DEF FinishJob, WalkEnded, NoteVanished, IInv, TypeOK, JobFollowsDirectory
<1>2. /\ TypeOK /\ job \in Job /\ job.loaded = directory /\ job.loadedRows = rows /\ enabled
      /\ directory \in [Resources -> Resource] /\ rows \in [Resources -> Row \union {NoRow}]
      /\ job.work \in [Resources -> WorkItem]
  BY <1>1 DEF IInv, TypeOK, JobFollowsDirectory, Job
<1>3. result \in [Resources -> Row \union {NoRow}]
  BY <1>1, <1>2, ResultFacts DEF IInv, JobFollowsDirectory
<1>4. ASSUME NEW r \in Resources
      PROVE  \/ WritesBack(job, r) /\ r \in Present(directory) /\ result[r] = RowOf(job.work[r])
             \/ WritesBack(job, r) /\ r \notin Present(directory) /\ result[r] = NoRow
             \/ ~WritesBack(job, r) /\ result[r] = rows[r]
  BY <1>1, <1>2, ResultFacts DEF IInv, JobFollowsDirectory
<1> HIDE DEF result
<1>5. \A r \in Resources :
         r \in gone <=> /\ directory[r].status = "deleted" /\ result[r] # NoRow
                        /\ result[r].deleted /\ ~result[r].dirty /\ result[r].id = NoId
  BY <1>2 DEF PurgedResources, DeletedEverywhere, DeletionSettled, Present
<1>6. gone \in SUBSET Resources
  BY DEF PurgedResources, Present
<1> HIDE DEF gone
<1>7. /\ directory' \in [Resources -> Resource]
      /\ \A r \in Resources :
            /\ directory'[r].status = IF r \in gone THEN "purged" ELSE directory[r].status
            /\ directory'[r].attrs = directory[r].attrs
  BY <1>1, <1>2, <1>6, PurgedFacts
<1>8. rows' \in [Resources -> Row \union {NoRow}]
  BY <1>1, <1>3
<1>9. ASSUME NEW r \in Resources, rows'[r] # NoRow
      PROVE  /\ r \notin gone /\ rows'[r] = result[r] /\ rows'[r] \in Row
             /\ \/ /\ WritesBack(job, r) /\ r \in Present(directory)
                   /\ rows'[r] = RowOf(job.work[r]) /\ job.work[r].status # "gone"
                   /\ job.work[r].status = directory[r].status
                   /\ rows'[r].id = job.work[r].id /\ rows'[r].dirty = job.work[r].dirty
                   /\ rows'[r].deleted = (directory[r].status = "deleted")
                \/ ~WritesBack(job, r) /\ rows'[r] = rows[r]
  <2>1. r \notin gone /\ rows'[r] = result[r] /\ rows'[r] \in Row
    BY <1>1, <1>8, <1>9
  <2>2. CASE WritesBack(job, r)
    <3>1. r \in Present(directory) /\ result[r] = RowOf(job.work[r]) /\ job.work[r] \in WorkItem
      BY <1>2, <1>4, <1>9, <2>1, <2>2
    <3>2. \/ job.work[r].status = directory[r].status
          \/ job.work[r].status = "gone" /\ directory[r].status = "deleted"
      BY <1>1 DEF IInv, JobFollowsDirectory
    <3>3. job.work[r].status # "gone"
      <4> SUFFICES ASSUME job.work[r].status = "gone" PROVE FALSE
        OBVIOUS
      <4>1. directory[r].status = "deleted"
        BY <1>2, <3>2 DEF Resource
      <4>2. result[r].deleted /\ ~result[r].dirty /\ result[r].id = NoId
        BY <3>1, RowOfFacts
      <4> QED BY <1>5, <1>9, <2>1, <4>1, <4>2
    <3>4. rows'[r].deleted = (directory[r].status = "deleted")
      BY <2>1, <3>1, <3>2, <3>3, RowOfFacts DEF Row
    <3> QED BY <2>1, <2>2, <3>1, <3>2, <3>3, <3>4, RowOfFacts
  <2>3. CASE ~WritesBack(job, r)
    BY <1>4, <2>1, <2>3
  <2> QED BY <2>1, <2>2, <2>3
<1>10. TypeOK'
  <2>1. known' \subseteq Ids
    BY <1>1, <1>2, <1>8, RowIdsFacts DEF TypeOK
  <2>2. dropped' \subseteq Ids /\ home' \in BaseURLs \union {NoURL}
    BY <1>1, <1>2 DEF TypeOK
  <2> QED BY <1>1, <1>2, <1>7, <1>8, <2>1, <2>2 DEF TypeOK
<1>11. RowsNameTheirOwn'
  <2> SUFFICES ASSUME NEW r \in Resources, rows'[r] # NoRow
               PROVE  Names(service, nextId, rows'[r].id, r)
    BY <1>1 DEF RowsNameTheirOwn
  <2> QED BY <1>1, <1>9 DEF IInv, RowsNameTheirOwn, JobNamesItsOwn
<1>12. IdsAreOwn' /\ OnePerService' /\ PreviewNamesItsOwn' /\ PreviewCounts'
  <2>1. \A i \in RowIds(rows') : i < nextId
    <3> SUFFICES ASSUME NEW i \in RowIds(rows') PROVE i < nextId
      OBVIOUS
    <3>1. i # NoId
      BY DEF RowIds
    <3>2. PICK q \in Resources : rows'[q] # NoRow /\ rows'[q].id = i
      BY <1>8, RowIdsFacts
    <3> QED BY <1>1, <1>11, <3>1, <3>2 DEF RowsNameTheirOwn, Names
  <2> QED BY <1>1, <2>1 DEF IInv, IdsAreOwn, OnePerService, PreviewNamesItsOwn, PreviewCounts
<1>13. RowsFollowDirectory'
  <2> SUFFICES ASSUME NEW r \in Resources, rows'[r] # NoRow
               PROVE  /\ directory'[r].status = IF rows'[r].deleted THEN "deleted" ELSE "live"
                      /\ rows'[r].deleted => rows'[r].dirty
    BY DEF RowsFollowDirectory
  <2>1. directory'[r].status = directory[r].status
    BY <1>7, <1>9
  <2>2. CASE WritesBack(job, r)
    <3>1. directory[r].status \in {"live", "deleted"}
      BY <1>9, <2>2 DEF Present
    <3>2. directory[r].status = "deleted" => job.work[r].dirty
      BY <1>1, <1>9, <2>2 DEF IInv, JobFollowsDirectory
    <3> QED BY <1>9, <2>1, <2>2, <3>1, <3>2
  <2>3. CASE ~WritesBack(job, r)
    BY <1>9, <2>1, <2>3 DEF IInv, RowsFollowDirectory
  <2> QED BY <2>2, <2>3
<1>14. SettledIsMirrored'
  <2> SUFFICES ASSUME Undisturbed, AtHome, home # NoURL, NEW r \in Resources,
                      rows'[r] # NoRow, ~rows'[r].dirty
               PROVE  Mirrored(r)
    BY <1>1, <1>7 DEF SettledIsMirrored, Undisturbed, Mirrored, AtHome, Ours
  <2>1. CASE WritesBack(job, r)
    <3>1. job.work[r].status = "live" /\ ~job.work[r].dirty
      BY <1>1, <1>9, <2>1 DEF Present, IInv, JobFollowsDirectory
    <3> QED BY <1>1, <2>1, <3>1 DEF IInv, WalkedIsMirrored
  <2>2. CASE ~WritesBack(job, r)
    BY <1>9, <2>2 DEF IInv, SettledIsMirrored
  <2> QED BY <2>1, <2>2
<1>15. KnownByRow'
  <2> SUFFICES ASSUME imports = 0, NEW s \in Ours', s.id \in known' \ dropped'
               PROVE  rows'[s.ext] # NoRow /\ rows'[s.ext].id = s.id
    BY <1>1 DEF KnownByRow
  <2>0. AtHome /\ s \in Ours /\ s \in service
    BY <1>1, <1>2 DEF AtHome, Ours, TypeOK, RemoteResource
  <2>1. s.ext \in Resources /\ s.id \in Ids /\ s.id # NoId
    BY <1>2, <2>0, ResourceFacts DEF TypeOK, RemoteResource
  <2>2. CASE s.id \in known \ dropped
    <3>1. rows[s.ext] # NoRow /\ rows[s.ext].id = s.id
      BY <2>0, <2>2 DEF IInv, KnownByRow
    <3>2. job.work[s.ext].id = s.id /\ job.work[s.ext].status # "gone"
      BY <1>1, <2>0, <2>2 DEF IInv, KnownByJob
    <3>3. s.ext \in Present(directory)
      BY <2>1, <3>1 DEF IInv, RowsFollowDirectory, Present
    <3>4. result[s.ext] # NoRow /\ result[s.ext].id = s.id
      <4>1. CASE WritesBack(job, s.ext)
        <5>1. result[s.ext] = RowOf(job.work[s.ext]) /\ job.work[s.ext] \in WorkItem
          BY <1>2, <1>4, <2>1, <3>3, <4>1
        <5> QED BY <3>2, <5>1, RowOfFacts, SyncNullsAssumption
      <4>2. CASE ~WritesBack(job, s.ext)
        BY <1>4, <2>1, <3>1, <4>2
      <4> QED BY <4>1, <4>2
    <3>5. s.ext \notin gone
      BY <1>5, <2>1, <3>4
    <3> QED BY <1>1, <2>1, <3>4, <3>5
  <2>3. CASE s.id \in RowIds(rows')
    <3>1. PICK q \in Resources : rows'[q] # NoRow /\ rows'[q].id = s.id
      BY <1>8, <2>3, RowIdsFacts
    <3>2. s.ext = q
      BY <1>1, <1>11, <2>0, <2>1, <3>1 DEF RowsNameTheirOwn, Names
    <3> QED BY <3>1, <3>2
  <2> QED BY <1>1, <2>2, <2>3
<1>16. EditsSurvive'
  BY <1>1, <1>5, <1>7 DEF IInv, EditsSurvive
<1>17. RowsAreHome'
  <2> SUFFICES ASSUME AtHome, home # NoURL, imports = 0, NEW s \in service,
                      rows'[s.ext] # NoRow, rows'[s.ext].id = s.id
               PROVE  s.url = home
    BY <1>1 DEF RowsAreHome, AtHome
  <2>1. s.ext \in Resources
    BY <1>2 DEF TypeOK, RemoteResource
  <2>2. job.work[s.ext].id = s.id \/ (rows[s.ext] # NoRow /\ rows[s.ext].id = s.id)
    BY <1>9, <2>1
  <2> QED BY <2>1, <2>2 DEF IInv, JobIsHome, RowsAreHome
<1> QED BY <1>1, <1>10, <1>11, <1>12, <1>13, <1>14, <1>15, <1>16, <1>17, NoJobFacts DEF IInv

-----------------------------------------------------------------------------
(* The edits of the directory.                                             *)

\* An edit leaves a row clean only where it changes nothing, with the managers.
CleanIsUntouched ==
    \A r \in Resources : rows'[r] # NoRow /\ ~rows'[r].dirty =>
        /\ rows'[r] = rows[r] /\ directory'[r].status = directory[r].status
        /\ directory'[r].attrs = directory[r].attrs
        /\ directory'[r].refs = directory[r].refs
        /\ r # Group => \A m \in directory[r].refs :
                          directory'[m] = directory[m] /\ RowId'[m] = RowId[m]
\* It draws no ID, and brings back nothing that was purged.
NothingComesBack ==
    \A r \in Resources :
        /\ RowId'[r] \in {RowId[r], NoId}
        /\ directory[r].status = "purged" => directory'[r].status = "purged"
\* The rows are about another service only when none of them is clean or has an
\* ID any more.
RowsStayHome ==
    home' = home \/ \A r \in Resources : rows'[r] # NoRow => rows'[r].dirty /\ rows'[r].id = NoId
EditKept ==
    /\ IInv' /\ CleanIsUntouched /\ NothingComesBack /\ RowsStayHome
    /\ job = NoJob /\ UNCHANGED <<service, job, nextId, vanished, imports, losses>>

\* What an edit has to show: it changes the directory and the rows.
LEMMA EditingStep ==
    ASSUME IInv, job = NoJob, edits < MaxEdits, edits' = edits + 1,
           UNCHANGED <<service, nextId, job, preview, jobs, faults, imports, losses, vanished>>,
           scim' \in Settings, directory' \in [Resources -> Resource],
           intended' \in [Resources -> Resource],
           rows' \in [Resources -> Row \union {NoRow}], known' \subseteq known,
           dropped' \subseteq Ids, home' \in BaseURLs \union {NoURL},
           RowsNameTheirOwn', RowsFollowDirectory', CleanIsUntouched, NothingComesBack, RowsStayHome,
           KnownByRow', EditsSurvive'
    PROVE  EditKept
<1>1. TypeOK'
  BY SyncBoundsAssumption DEF IInv, TypeOK
<1>2. IdsAreOwn' /\ OnePerService' /\ PreviewNamesItsOwn' /\ PreviewCounts'
  BY DEF IInv, IdsAreOwn, OnePerService, PreviewNamesItsOwn, PreviewCounts
<1>3. SettledIsMirrored'
  BY DEF IInv, SettledIsMirrored, CleanIsUntouched, RowsStayHome, Undisturbed, Mirrored, Ours
<1>4. RowsAreHome'
  <2> SUFFICES ASSUME home' # NoURL, imports = 0, NEW s \in service,
                      rows'[s.ext] # NoRow, rows'[s.ext].id = s.id
               PROVE  s.url = home'
    BY DEF RowsAreHome
  <2>1. s.ext \in Resources /\ s.id # NoId
    BY ResourceFacts DEF IInv, TypeOK, RemoteResource
  <2>2. home' = home
    BY <2>1 DEF RowsStayHome
  <2>3. rows[s.ext] # NoRow /\ rows[s.ext].id = s.id
    BY <2>1 DEF NothingComesBack, RowId
  <2> QED BY <2>2, <2>3 DEF IInv, RowsAreHome
<1> QED BY <1>1, <1>2, <1>3, <1>4, NoJobFacts DEF IInv, EditKept

\* What marks a change: the changed resources have the new status, and of the
\* others only one without a row may differ.
LEMMA ChangeStep ==
    ASSUME IInv, MayEdit, NEW d \in [Resources -> Resource], NEW changed \in SUBSET Resources,
           NEW deleted, Change(d, changed, deleted),
           \A r \in changed : d[r].status = IF deleted THEN "deleted" ELSE "live",
           \A r \in Resources : directory[r].status = "purged" => d[r].status = "purged",
           \/ \A r \in Resources \ changed : d[r] = directory[r]
           \/ \A r \in Resources : rows[r] = NoRow
    PROVE  EditKept
<1>1. /\ job = NoJob /\ edits < MaxEdits /\ directory' = d /\ intended' = d
      /\ rows' = Marked(d, rows, changed, deleted) /\ edits' = edits + 1
      /\ UNCHANGED <<scim, service, nextId, job, preview, jobs, faults, imports, losses, vanished,
                     known, home, dropped>>
  BY DEF Change, MayEdit
<1>2. TypeOK /\ rows \in [Resources -> Row \union {NoRow}] /\ scim \in Settings
  BY DEF IInv, TypeOK
<1>3. /\ rows' \in [Resources -> Row \union {NoRow}]
      /\ \A r \in Resources :
            \/ /\ rows'[r] = rows[r]
               /\ rows[r] # NoRow
                     => r \notin changed /\ \A u \in changed \ {Group} : r \notin Reports(d, u)
            \/ /\ rows'[r] \in Row
               /\ rows'[r].id = IF rows[r] = NoRow THEN NoId ELSE rows[r].id
               /\ rows'[r].dirty
               /\ rows'[r].deleted = (deleted /\ r \in changed)
               /\ r \in changed \/ d[r].status = "live"
  <2>1. rows \in [Resources -> Row \union {NoRow}]
    BY <1>2
  <2>2. Marked(d, rows, changed, deleted) \in [Resources -> Row \union {NoRow}]
    BY <2>1, MarkedFacts
  <2>3. Marks(d, rows, Marked(d, rows, changed, deleted), changed, deleted)
    BY <2>1, MarkedFacts
  <2> QED BY <1>1, <2>2, <2>3 DEF Marks
<1>4. RowsNameTheirOwn'
  BY <1>1, <1>3 DEF IInv, RowsNameTheirOwn, Names
<1>5. RowsFollowDirectory'
  <2> SUFFICES ASSUME NEW r \in Resources, rows'[r] # NoRow
               PROVE  /\ d[r].status = IF rows'[r].deleted THEN "deleted" ELSE "live"
                      /\ rows'[r].deleted => rows'[r].dirty
    BY <1>1 DEF RowsFollowDirectory
  <2>1. CASE rows'[r] = rows[r] /\ (rows[r] # NoRow => r \notin changed)
    BY <2>1 DEF IInv, RowsFollowDirectory
  <2>2. CASE ~(rows'[r] = rows[r] /\ (rows[r] # NoRow => r \notin changed))
    BY <1>3, <2>2
  <2> QED BY <2>1, <2>2
<1>r. \A r \in Resources : RowId'[r] = RowId[r]
  BY <1>3, SyncNullsAssumption DEF RowId
<1>6. CleanIsUntouched
  <2> SUFFICES ASSUME NEW r \in Resources, rows'[r] # NoRow, ~rows'[r].dirty
               PROVE  /\ rows'[r] = rows[r] /\ d[r] = directory[r]
                      /\ r # Group => \A m \in directory[r].refs : d[m] = directory[m]
    <3>1. \A q, m \in Resources : m \in directory[q].refs => RowId'[m] = RowId[m]
      BY <1>r
    <3>2. \A q \in Resources : \A m \in directory[q].refs : m \in Resources
      BY <1>2, ResourceFacts DEF TypeOK, Resource
    <3> QED BY <1>1, <3>1, <3>2 DEF CleanIsUntouched
  <2>1. rows'[r] = rows[r] /\ r \notin changed
        /\ \A u \in changed \ {Group} : r \notin Reports(d, u)
    BY <1>3
  <2>2. \A q \in Resources \ changed : d[q] = directory[q]
    BY <2>1
  <2>3. directory[r].status = "live"
    BY <1>2, <2>1 DEF IInv, RowsFollowDirectory, Row
  <2>4. ASSUME r # Group, NEW m \in directory[r].refs PROVE d[m] = directory[m]
    <3>1. m \in Users /\ m \in Resources /\ m # Group /\ r \in Users
      BY <1>2, <2>4, ResourceFacts DEF TypeOK, Resource, Resources
    <3>2. m \notin changed
      BY <2>1, <2>2, <2>3, <2>4, <3>1 DEF Reports
    <3> QED BY <2>2, <3>1, <3>2
  <2> QED BY <2>1, <2>2, <2>4
<1>n. NothingComesBack
  BY <1>1, <1>r DEF NothingComesBack
<1>7. KnownByRow'
  <2> SUFFICES ASSUME imports = 0, NEW s \in Ours, s.id \in known \ dropped
               PROVE  rows'[s.ext] # NoRow /\ rows'[s.ext].id = s.id
    BY <1>1 DEF KnownByRow, Ours
  <2>1. s.ext \in Resources
    BY <1>2 DEF TypeOK, RemoteResource, Ours
  <2>2. rows[s.ext] # NoRow /\ rows[s.ext].id = s.id
    BY DEF IInv, KnownByRow
  <2> QED BY <1>3, <2>1, <2>2, SyncNullsAssumption
<1>8. EditsSurvive'
  BY <1>1 DEF EditsSurvive
<1>9. dropped' \subseteq Ids /\ home' \in BaseURLs \union {NoURL} /\ RowsStayHome
  BY <1>1, <1>2 DEF TypeOK, RowsStayHome
<1> QED BY <1>1, <1>2, <1>3, <1>4, <1>5, <1>6, <1>n, <1>7, <1>8, <1>9, EditingStep

LEMMA UpdateStep ==
    ASSUME IInv, MayEdit, NEW d \in [Resources -> Resource], NEW changed \in SUBSET Resources,
           Change(d, changed, FALSE), \A r \in changed : d[r].status = "live",
           \A r \in changed : directory[r].status # "purged",
           \A r \in Resources \ changed : d[r] = directory[r]
    PROVE  EditKept
<1>1. \A r \in Resources : directory[r].status = "purged" => d[r].status = "purged"
  OBVIOUS
<1>2. \A r \in changed : d[r].status = IF FALSE THEN "deleted" ELSE "live"
  OBVIOUS
<1> DEFINE deleted == FALSE
<1>3. deleted \in BOOLEAN /\ Change(d, changed, deleted)
      /\ \A r \in changed : d[r].status = IF deleted THEN "deleted" ELSE "live"
  BY <1>2
<1> HIDE DEF deleted
<1> QED BY <1>1, <1>3, ChangeStep

LEMMA SaveUserStep ==
    ASSUME IInv, NEW u \in Users, NEW attrs \in BOOLEAN, NEW manager \in SUBSET Users,
           SaveUser(u, attrs, manager)
    PROVE  EditKept
<1> DEFINE d == [directory EXCEPT ![u] = [status |-> "live", attrs |-> attrs, refs |-> manager]]
<1>1. MayEdit /\ Change(d, {u}, FALSE) /\ directory[u].status # "purged"
  BY DEF SaveUser
<1>2. directory \in [Resources -> Resource] /\ u \in Resources
  BY ResourceFacts DEF IInv, TypeOK
<1>3. d \in [Resources -> Resource] /\ d[u].status = "live"
      /\ \A r \in Resources \ {u} : d[r] = directory[r]
  BY <1>2 DEF Resource
<1> HIDE DEF d
<1>4. {u} \in SUBSET Resources /\ (\A q \in {u} : d[q].status = "live")
      /\ (\A q \in {u} : directory[q].status # "purged")
      /\ d \in [Resources -> Resource] /\ (\A q \in Resources \ {u} : d[q] = directory[q])
  BY <1>1, <1>2, <1>3
<1> QED BY <1>1, <1>4, UpdateStep

LEMMA SetActiveStep ==
    ASSUME IInv, NEW us \in SUBSET Users, NEW active \in BOOLEAN, SetActive(us, active)
    PROVE  EditKept
<1> DEFINE d == [r \in Resources |->
                    IF r \in us THEN [directory[r] EXCEPT !.attrs = active] ELSE directory[r]]
<1>1. MayEdit /\ Change(d, us, FALSE) /\ \A u \in us : directory[u].status = "live"
  BY DEF SetActive
<1>2. directory \in [Resources -> Resource] /\ us \in SUBSET Resources
  BY ResourceFacts DEF IInv, TypeOK
<1>3. /\ d \in [Resources -> Resource] /\ (\A r \in us : d[r].status = "live")
      /\ \A r \in Resources \ us : d[r] = directory[r]
  BY <1>1, <1>2 DEF Resource
<1> HIDE DEF d
<1>4. us \in SUBSET Resources /\ (\A q \in us : d[q].status = "live")
      /\ (\A q \in us : directory[q].status # "purged")
      /\ d \in [Resources -> Resource] /\ (\A q \in Resources \ us : d[q] = directory[q])
  BY <1>1, <1>2, <1>3
<1> QED BY <1>1, <1>4, UpdateStep

LEMMA CreateUsersStep == ASSUME IInv, NEW us \in SUBSET Users, CreateUsers(us) PROVE EditKept
<1> DEFINE d == [r \in Resources |->
                    IF r \in us THEN [status |-> "live", attrs |-> TRUE, refs |-> {}]
                    ELSE directory[r]]
<1>1. MayEdit /\ Change(d, us, FALSE) /\ \A u \in us : directory[u].status = "unborn"
  BY DEF CreateUsers
<1>2. directory \in [Resources -> Resource] /\ us \in SUBSET Resources
  BY ResourceFacts DEF IInv, TypeOK
<1>3. /\ d \in [Resources -> Resource] /\ (\A r \in us : d[r].status = "live")
      /\ \A r \in Resources \ us : d[r] = directory[r]
  BY <1>1, <1>2 DEF Resource
<1> HIDE DEF d
<1>4. us \in SUBSET Resources /\ (\A q \in us : d[q].status = "live")
      /\ (\A q \in us : directory[q].status # "purged")
      /\ d \in [Resources -> Resource] /\ (\A q \in Resources \ us : d[q] = directory[q])
  BY <1>1, <1>2, <1>3
<1> QED BY <1>1, <1>4, UpdateStep

LEMMA DeleteStep == ASSUME IInv, NEW gone \in SUBSET Resources, Delete(gone) PROVE EditKept
<1> DEFINE d == [r \in Resources |->
                    IF r \in gone THEN [directory[r] EXCEPT !.status = "deleted"]
                    ELSE directory[r]]
<1>1. directory \in [Resources -> Resource]
  BY DEF IInv, TypeOK
<1>2. CASE Tracks
  <2>1. MayEdit /\ Change(d, gone, TRUE) /\ \A r \in gone : directory[r].status # "purged"
    BY <1>2 DEF Delete
  <2>2. /\ d \in [Resources -> Resource] /\ (\A r \in gone : d[r].status = "deleted")
        /\ \A r \in Resources \ gone : d[r] = directory[r]
    BY <1>1 DEF Resource
  <2> DEFINE deleted == TRUE
  <2> HIDE DEF d
  <2>3. /\ deleted \in BOOLEAN /\ Change(d, gone, deleted)
        /\ \A r \in gone : d[r].status = IF deleted THEN "deleted" ELSE "live"
    BY <2>1, <2>2
  <2>4. /\ \A r \in Resources \ gone : d[r] = directory[r]
        /\ \A r \in Resources : directory[r].status = "purged" => d[r].status = "purged"
    BY <2>1, <2>2
  <2> HIDE DEF deleted
  <2> QED BY <2>1, <2>2, <2>3, <2>4, ChangeStep
<1>3. CASE ~Tracks
  <2>1. MayEdit /\ Change(Purged(directory, gone), {}, TRUE)
    BY <1>3 DEF Delete
  <2>2. \A r \in Resources : rows[r] = NoRow
    BY <1>3 DEF Tracks, HasRows
  <2>3. Purged(directory, gone) \in [Resources -> Resource]
    BY <1>1, PurgedFacts
  <2> DEFINE deleted == TRUE
             none == {}
  <2>4. /\ deleted \in BOOLEAN /\ none \in SUBSET Resources
        /\ Change(Purged(directory, gone), none, deleted)
        /\ \A r \in none :
               Purged(directory, gone)[r].status = IF deleted THEN "deleted" ELSE "live"
    BY <2>1
  <2>5. \A r \in Resources :
           directory[r].status = "purged" => Purged(directory, gone)[r].status = "purged"
    BY <1>1, PurgedFacts
  <2> HIDE DEF deleted, none
  <2> QED BY <2>1, <2>2, <2>3, <2>4, <2>5, ChangeStep
<1> QED BY <1>2, <1>3

LEMMA RestoreStep == ASSUME IInv, NEW r \in Resources, Restore(r) PROVE EditKept
<1> DEFINE d == [directory EXCEPT ![r].status = "live"]
<1>1. MayEdit /\ Change(d, {r}, FALSE) /\ directory[r].status # "purged"
  BY DEF Restore, Present
<1>2. directory \in [Resources -> Resource]
  BY DEF IInv, TypeOK
<1>3. d \in [Resources -> Resource] /\ d[r].status = "live"
      /\ \A q \in Resources \ {r} : d[q] = directory[q]
  BY <1>2 DEF Resource
<1> HIDE DEF d
<1>4. {r} \in SUBSET Resources /\ (\A q \in {r} : d[q].status = "live")
      /\ (\A q \in {r} : directory[q].status # "purged")
      /\ d \in [Resources -> Resource] /\ (\A q \in Resources \ {r} : d[q] = directory[q])
  BY <1>1, <1>2, <1>3
<1> QED BY <1>1, <1>4, UpdateStep

LEMMA SaveGroupStep ==
    ASSUME IInv, NEW attrs \in BOOLEAN, NEW members \in SUBSET Users, SaveGroup(attrs, members)
    PROVE  EditKept
<1> DEFINE d == [directory EXCEPT ![Group] = [status |-> "live", attrs |-> attrs, refs |-> members]]
<1>1. MayEdit /\ Change(d, {Group}, FALSE) /\ directory[Group].status # "purged"
  BY DEF SaveGroup
<1>2. directory \in [Resources -> Resource] /\ Group \in Resources
  BY ResourceFacts DEF IInv, TypeOK
<1>3. d \in [Resources -> Resource] /\ d[Group].status = "live"
      /\ \A r \in Resources \ {Group} : d[r] = directory[r]
  BY <1>2 DEF Resource
<1> HIDE DEF d
<1>4. {Group} \in SUBSET Resources /\ (\A q \in {Group} : d[q].status = "live")
      /\ (\A q \in {Group} : directory[q].status # "purged")
      /\ d \in [Resources -> Resource] /\ (\A q \in Resources \ {Group} : d[q] = directory[q])
  BY <1>1, <1>2, <1>3
<1> QED BY <1>1, <1>4, UpdateStep

LEMMA ClearDirectoryStep == ASSUME IInv, ClearDirectory PROVE EditKept
<1>1. /\ job = NoJob /\ edits < MaxEdits /\ edits' = edits + 1
      /\ known' = {} /\ dropped' = {} /\ home' = scim.url
      /\ directory' = [r \in Resources |->
                          IF r \in Present(directory)
                          THEN [directory[r] EXCEPT !.status = "purged", !.refs = {}]
                          ELSE directory[r]]
      /\ intended' = directory' /\ rows' = [r \in Resources |-> NoRow]
      /\ UNCHANGED <<scim, service, nextId, job, preview, jobs, faults, imports, losses,
                     vanished>>
  BY DEF ClearDirectory, MayEdit, StartOver
<1>2. directory \in [Resources -> Resource] /\ scim \in Settings
      /\ scim.url \in BaseURLs \union {NoURL}
  BY DEF IInv, TypeOK, Settings
<1>3. directory' \in [Resources -> Resource]
  BY <1>1, <1>2 DEF Resource
<1>4. \A r \in Resources : rows'[r] = NoRow
  BY <1>1
<1>5. RowsNameTheirOwn' /\ RowsFollowDirectory' /\ CleanIsUntouched /\ EditsSurvive'
  BY <1>1, <1>4 DEF RowsNameTheirOwn, RowsFollowDirectory, CleanIsUntouched, EditsSurvive
<1>6. KnownByRow' /\ NothingComesBack
  BY <1>1, <1>4 DEF KnownByRow, NothingComesBack, RowId, Present
<1>7. RowsStayHome
  BY <1>4 DEF RowsStayHome
<1> QED BY <1>1, <1>2, <1>3, <1>5, <1>6, <1>7, EditingStep

\* New rows: none has an ID, and none is expected to have one.
LEMMA NewRowsStep ==
    ASSUME IInv, job = NoJob, edits < MaxEdits, edits' = edits + 1, scim' \in Settings,
           rows' = Initialized(directory), known' \subseteq known, dropped' \subseteq Ids,
           known' \subseteq dropped', home' \in BaseURLs \union {NoURL},
           UNCHANGED <<directory, service, nextId, job, preview, jobs, faults, imports, losses,
                       intended, vanished>>
    PROVE  EditKept
<1>1. directory \in [Resources -> Resource] /\ intended \in [Resources -> Resource]
  BY DEF IInv, TypeOK
<1>2. /\ rows' \in [Resources -> Row \union {NoRow}]
      /\ \A r \in Resources :
            \/ rows'[r] = NoRow
            \/ /\ rows'[r] \in Row /\ r \in Present(directory)
               /\ rows'[r].id = NoId /\ rows'[r].dirty
               /\ rows'[r].deleted = (directory[r].status = "deleted")
  BY <1>1, InitializedFacts
<1>3. RowsNameTheirOwn' /\ CleanIsUntouched /\ NothingComesBack
  BY <1>2 DEF RowsNameTheirOwn, CleanIsUntouched, Names, NothingComesBack, RowId
<1>4. RowsFollowDirectory'
  BY <1>1, <1>2 DEF RowsFollowDirectory, Present
<1>5. KnownByRow' /\ EditsSurvive'
  BY <1>1 DEF KnownByRow, EditsSurvive, IInv
<1>6. RowsStayHome
  BY <1>2 DEF RowsStayHome
<1> QED BY <1>1, <1>2, <1>3, <1>4, <1>5, <1>6, EditingStep

LEMMA ResetStep == ASSUME IInv, Reset PROVE EditKept
<1>1. scim \in Settings /\ scim.url \in BaseURLs \union {NoURL}
  BY DEF IInv, TypeOK, Settings
<1> QED BY <1>1, NewRowsStep DEF Reset, MayEdit, StartOver

LEMMA SaveAppStep ==
    ASSUME IInv, NEW url \in BaseURLs \union {NoURL}, NEW token \in BOOLEAN,
           NEW entra \in BOOLEAN, SaveApp(url, token, entra)
    PROVE  EditKept
<1> DEFINE settings == [url |-> url, token |-> (token /\ url # NoURL), entra |-> entra]
           again == /\ Configured(settings)
                    /\ url # scim.url \/ (~enabled /\ ~HasRows)
<1>1. /\ job = NoJob /\ edits < MaxEdits /\ edits' = edits + 1 /\ scim' = settings
      /\ rows' = IF again THEN Initialized(directory) ELSE rows
      /\ IF again /\ url # home THEN home' = url /\ known' = {} /\ dropped' = {}
         ELSE /\ dropped' = IF again THEN known ELSE dropped
              /\ UNCHANGED <<home, known>>
      /\ UNCHANGED <<directory, service, nextId, job, preview, jobs, faults, imports, losses,
                     intended, vanished>>
  BY DEF SaveApp, MayEdit, StartOver
<1>2. /\ TypeOK /\ scim \in Settings /\ directory \in [Resources -> Resource]
      /\ intended \in [Resources -> Resource] /\ rows \in [Resources -> Row \union {NoRow}]
  BY DEF IInv, TypeOK
<1>3. settings \in Settings
  BY DEF Settings
<1> HIDE DEF settings, again
<1>t. known \subseteq Ids /\ dropped \subseteq Ids /\ home \in BaseURLs \union {NoURL}
  BY <1>2 DEF TypeOK
<1>4. CASE again
  <2>1. /\ known' \subseteq known /\ dropped' \subseteq Ids /\ known' \subseteq dropped'
        /\ home' \in BaseURLs \union {NoURL}
    BY <1>1, <1>4, <1>t
  <2> QED BY <1>1, <1>3, <1>4, <2>1, NewRowsStep
<1>5. CASE ~again
  <2>1. rows' = rows /\ known' = known /\ dropped' = dropped /\ home' = home
    BY <1>1, <1>5
  <2>2. RowsNameTheirOwn' /\ RowsFollowDirectory' /\ KnownByRow' /\ EditsSurvive'
    BY <1>1, <2>1 DEF IInv, RowsNameTheirOwn, RowsFollowDirectory, KnownByRow, EditsSurvive, Ours
  <2>3. RowId' = RowId
    BY <2>1 DEF RowId
  <2>4. CleanIsUntouched /\ NothingComesBack
    BY <1>1, <2>1, <2>3 DEF CleanIsUntouched, NothingComesBack
  <2>5. RowsStayHome
    BY <2>1 DEF RowsStayHome
  <2> QED BY <1>1, <1>2, <1>3, <1>t, <2>1, <2>2, <2>4, <2>5, EditingStep
<1> QED BY <1>4, <1>5

LEMMA EditStep == ASSUME IInv, Edit PROVE EditKept
<1>1. \A u \in Users : directory[u].refs \in SUBSET Users
  BY ResourceFacts DEF IInv, TypeOK, Resource
<1>2. ASSUME NEW u \in Users, NEW attrs \in BOOLEAN,
             NEW manager \in {{}, directory[u].refs} \union {{m} : m \in Users},
             SaveUser(u, attrs, manager)
      PROVE  EditKept
  <2>1. manager \in SUBSET Users
    BY <1>1
  <2> QED BY <1>2, <2>1, SaveUserStep
<1>3. ASSUME NEW gone \in (SUBSET Users) \union {{Group}}, Delete(gone) PROVE EditKept
  <2>1. gone \subseteq Resources
    BY <1>3, ResourceFacts
  <2> QED BY <1>3, <2>1, DeleteStep
<1>4. ASSUME NEW us \in SUBSET Users, CreateUsers(us) \/ \E active \in BOOLEAN : SetActive(us, active)
      PROVE  EditKept
  BY <1>4, CreateUsersStep, SetActiveStep
<1>5. ASSUME NEW attrs \in BOOLEAN, NEW members \in SUBSET Users, SaveGroup(attrs, members)
      PROVE  EditKept
  BY <1>5, SaveGroupStep
<1>6. ASSUME NEW url \in BaseURLs \union {NoURL}, NEW token \in BOOLEAN, NEW entra \in BOOLEAN,
             SaveApp(url, token, entra)
      PROVE  EditKept
  BY <1>6, SaveAppStep
<1>7. ASSUME NEW r \in Resources, Restore(r) PROVE EditKept
  BY <1>7, RestoreStep
<1>8. CASE \E u \in Users : \E attrs \in BOOLEAN :
               \E manager \in {{}, directory[u].refs} \union {{m} : m \in Users} :
                  SaveUser(u, attrs, manager)
  BY <1>2, <1>8
<1>9. CASE \E attrs \in BOOLEAN, members \in SUBSET Users : SaveGroup(attrs, members)
  BY <1>5, <1>9
<1>10. CASE \E url \in BaseURLs \union {NoURL}, token, entra \in BOOLEAN : SaveApp(url, token, entra)
  BY <1>6, <1>10
<1>11. CASE \E us \in SUBSET Users : CreateUsers(us) \/ \E active \in BOOLEAN : SetActive(us, active)
  BY <1>4, <1>11
<1>12. CASE \E gone \in (SUBSET Users) \union {{Group}} : Delete(gone)
  BY <1>3, <1>12
<1> QED BY <1>7, <1>8, <1>9, <1>10, <1>11, <1>12, ClearDirectoryStep, ResetStep DEF Edit

-----------------------------------------------------------------------------
(* Imports, losses, and the theorems.                                      *)

LEMMA PreviewImportStep == ASSUME IInv, PreviewImport PROVE IInv'
<1>1. /\ job = NoJob /\ imports < MaxImports /\ imports' = imports + 1
      /\ preview' = [seen |-> [directory |-> directory, rows |-> rows, scim |-> scim], found |-> Held]
      /\ UNCHANGED <<directory, rows, scim, service, nextId, job, edits, jobs, faults, losses,
                     intended, vanished, known, home, dropped>>
  BY DEF PreviewImport
<1>2. TypeOK /\ imports' \in 0 .. MaxImports /\ imports' > 0
  BY <1>1, SyncBoundsAssumption DEF IInv, TypeOK
<1>3. Held \subseteq service
  BY DEF Held
<1>4. preview' \in Preview
  BY <1>1, <1>2, <1>3 DEF TypeOK, Preview
<1>5. TypeOK'
  BY <1>1, <1>2, <1>4 DEF TypeOK
<1>6. PreviewNamesItsOwn'
  BY <1>1, <1>3 DEF IInv, PreviewNamesItsOwn, Names, IdsAreOwn
<1>7. SettledIsMirrored' /\ KnownByRow' /\ RowsAreHome' /\ PreviewCounts'
  BY <1>2 DEF SettledIsMirrored, KnownByRow, RowsAreHome, PreviewCounts, Undisturbed
<1>8. IdsAreOwn' /\ OnePerService' /\ RowsNameTheirOwn' /\ RowsFollowDirectory' /\ EditsSurvive'
  BY <1>1 DEF IInv, IdsAreOwn, OnePerService, RowsNameTheirOwn, RowsFollowDirectory, EditsSurvive
<1> QED BY <1>1, <1>5, <1>6, <1>7, <1>8, NoJobFacts DEF IInv

LEMMA DropPreviewStep == ASSUME IInv, DropPreview PROVE IInv'
<1>1. /\ preview' = NoPreview
      /\ UNCHANGED <<directory, rows, scim, service, nextId, job, edits, jobs, faults, imports,
                     losses, intended, vanished, known, home, dropped>>
  BY DEF DropPreview
<1>2. TypeOK' /\ PreviewNamesItsOwn' /\ PreviewCounts'
  BY <1>1 DEF IInv, TypeOK, PreviewNamesItsOwn, PreviewCounts
<1>3. /\ IdsAreOwn' /\ OnePerService' /\ RowsNameTheirOwn' /\ JobNamesItsOwn'
      /\ RowsFollowDirectory' /\ JobFollowsDirectory'
  BY <1>1 DEF IInv, IdsAreOwn, OnePerService, RowsNameTheirOwn, JobNamesItsOwn,
              RowsFollowDirectory, JobFollowsDirectory, enabled, WritesBack
<1>4. /\ SettledIsMirrored' /\ WalkedIsMirrored' /\ KnownByRow' /\ KnownByJob' /\ EditsSurvive'
      /\ RowsAreHome' /\ JobIsHome'
  BY <1>1 DEF IInv, SettledIsMirrored, WalkedIsMirrored, KnownByRow, KnownByJob, EditsSurvive,
              Undisturbed, Mirrored, Ours, WritesBack, RowsAreHome, JobIsHome, AtHome
<1> QED BY <1>2, <1>3, <1>4 DEF IInv

LEMMA ApplyImportStep == ASSUME IInv, ApplyImport PROVE IInv'
<1> DEFINE found == preview.found
<1>1. /\ job = NoJob /\ preview # NoPreview
      /\ directory' = ImportedDirectory(found) /\ rows' = ImportedRows(found)
      /\ intended' = directory' /\ known' = known \union RowIds(rows') /\ preview' = NoPreview
      /\ home' = scim.url /\ scim.url # NoURL
      /\ UNCHANGED <<scim, service, nextId, job, edits, jobs, faults, imports, losses, vanished,
                     dropped>>
  BY DEF ApplyImport, enabled, Configured
<1>2. TypeOK /\ preview \in Preview /\ directory \in [Resources -> Resource]
  BY <1>1 DEF IInv, TypeOK
<1>3. found \subseteq RemoteResource
  BY <1>2 DEF Preview
<1>4. \A s \in found : Names(service, nextId, s.id, s.ext)
  BY <1>1 DEF IInv, PreviewNamesItsOwn
<1> HIDE DEF found
<1>5. ASSUME NEW r \in Resources
      PROVE  /\ directory'[r] \in Resource
             /\ \/ rows'[r] = NoRow
                \/ /\ rows'[r] \in Row /\ Names(service, nextId, rows'[r].id, r)
                   /\ ~rows'[r].deleted /\ directory'[r].status = "live"
  <2> DEFINE one == CHOOSE s \in found : s.ext = r
  <2>1. CASE \E s \in found : s.ext = r
    <3>1. one \in found /\ one.ext = r
      BY <2>1
    <3>2. rows'[r] = [id |-> one.id, dirty |-> FALSE, deleted |-> FALSE]
      BY <1>1, <2>1 DEF ImportedRows
    <3>3. directory'[r] = [status |-> "live", attrs |-> one.attrs,
                           refs |-> {u \in Users \ {r} : \E s \in found : s.ext = u /\ s.id \in one.refs}]
      BY <1>1, <2>1 DEF ImportedDirectory, Imported
    <3> HIDE DEF one
    <3>4. one.id \in Ids /\ one.attrs \in BOOLEAN
      BY <1>3, <3>1 DEF RemoteResource
    <3>5. directory'[r] \in Resource /\ directory'[r].status = "live"
      BY <3>3, <3>4 DEF Resource
    <3>6. rows'[r] \in Row /\ ~rows'[r].deleted /\ rows'[r].id = one.id
      BY <3>2, <3>4 DEF Row
    <3> QED BY <1>4, <3>1, <3>5, <3>6
  <2>2. CASE ~\E s \in found : s.ext = r
    <3>1. rows'[r] = NoRow
      BY <1>1, <2>2 DEF ImportedRows
    <3>2. directory'[r] = IF r \in Present(directory)
                          THEN [directory[r] EXCEPT !.status = "purged", !.refs = {}]
                          ELSE directory[r]
      BY <1>1, <2>2 DEF ImportedDirectory
    <3>3. directory'[r] \in Resource
      BY <1>2, <3>2 DEF Resource
    <3> QED BY <3>1, <3>3
  <2> QED BY <2>1, <2>2
<1>6. directory' \in [Resources -> Resource] /\ rows' \in [Resources -> Row \union {NoRow}]
  <2>1. directory' = [r \in Resources |-> directory'[r]] /\ rows' = [r \in Resources |-> rows'[r]]
    BY <1>1 DEF ImportedDirectory, ImportedRows
  <2> QED BY <1>5, <2>1
<1>7. RowsNameTheirOwn' /\ RowsFollowDirectory' /\ EditsSurvive'
  BY <1>1, <1>5 DEF RowsNameTheirOwn, RowsFollowDirectory, EditsSurvive
<1>8. \A i \in RowIds(rows') : i \in Ids /\ i < nextId
  <2> SUFFICES ASSUME NEW i \in RowIds(rows') PROVE i \in Ids /\ i < nextId
    OBVIOUS
  <2>1. i # NoId /\ i \in Ids
    BY <1>6, RowIdsFacts DEF RowIds
  <2>2. PICK q \in Resources : rows'[q] # NoRow /\ rows'[q].id = i
    BY <1>6, RowIdsFacts
  <2> QED BY <1>5, <2>1, <2>2 DEF Names
<1>h. home' \in BaseURLs \union {NoURL}
  BY <1>1, <1>2 DEF TypeOK, Settings
<1>9. TypeOK' /\ IdsAreOwn' /\ OnePerService'
  BY <1>1, <1>2, <1>6, <1>8, <1>h DEF IInv, TypeOK, IdsAreOwn, OnePerService
<1>10. imports' # 0 /\ ~Undisturbed'
  BY <1>1, <1>2, SyncBoundsAssumption DEF IInv, PreviewCounts, Undisturbed, TypeOK
<1>11. SettledIsMirrored' /\ KnownByRow' /\ RowsAreHome' /\ PreviewNamesItsOwn' /\ PreviewCounts'
  BY <1>1, <1>10 DEF SettledIsMirrored, KnownByRow, RowsAreHome, PreviewNamesItsOwn, PreviewCounts
<1> QED BY <1>1, <1>7, <1>9, <1>11, NoJobFacts DEF IInv

LEMMA LoseResourceStep == ASSUME IInv, LoseResource PROVE IInv'
<1>1. /\ losses < MaxLosses /\ losses' = losses + 1 /\ service' \subseteq service
      /\ UNCHANGED <<directory, rows, scim, nextId, job, preview, edits, jobs, faults, imports,
                     intended, known, home, dropped>>
      /\ vanished' \in BOOLEAN
  BY DEF LoseResource, NoteVanished, IInv, TypeOK
<1>2. TypeOK' /\ losses' > 0
  BY <1>1, SyncBoundsAssumption DEF IInv, TypeOK
<1>3. IdsAreOwn' /\ OnePerService'
  BY <1>1 DEF IInv, IdsAreOwn, OnePerService
<1>4. RowsNameTheirOwn' /\ JobNamesItsOwn' /\ PreviewNamesItsOwn'
  BY <1>1 DEF IInv, RowsNameTheirOwn, JobNamesItsOwn, PreviewNamesItsOwn, Names
<1>5. RowsFollowDirectory' /\ JobFollowsDirectory' /\ EditsSurvive' /\ PreviewCounts'
  BY <1>1 DEF IInv, RowsFollowDirectory, JobFollowsDirectory, EditsSurvive, PreviewCounts,
              enabled, WritesBack
<1>6. SettledIsMirrored' /\ WalkedIsMirrored'
  BY <1>2 DEF SettledIsMirrored, WalkedIsMirrored, Undisturbed
<1>7. KnownByRow' /\ KnownByJob' /\ RowsAreHome' /\ JobIsHome'
  BY <1>1 DEF IInv, KnownByRow, KnownByJob, RowsAreHome, JobIsHome, AtHome, Ours
<1> QED BY <1>2, <1>3, <1>4, <1>5, <1>6, <1>7 DEF IInv

\* The inductive invariant holds at the beginning,
LEMMA InvInit == Init => IInv
<1> SUFFICES ASSUME Init PROVE IInv
  OBVIOUS
<1>1. directory \in [Resources -> Resource] /\ \A r \in Resources : directory[r].attrs = TRUE
  <2>1. PICK unborn \in {{}, {NumUsers}} :
           directory = [r \in Resources |->
              [status |-> IF r \in unborn THEN "unborn" ELSE "live", attrs |-> TRUE,
               refs |-> IF r = Group THEN Users \ unborn
                        ELSE IF r = 1 /\ NumUsers > 1 THEN {NumUsers} \ unborn ELSE {}]]
    BY DEF Init
  <2>2. ASSUME NEW r \in Resources PROVE directory[r] \in Resource /\ directory[r].attrs = TRUE
    <3> DEFINE refs == IF r = Group THEN Users \ unborn
                       ELSE IF r = 1 /\ NumUsers > 1 THEN {NumUsers} \ unborn ELSE {}
    <3>1. refs \in SUBSET Users
      BY DEF Users
    <3>2. directory[r] = [status |-> IF r \in unborn THEN "unborn" ELSE "live", attrs |-> TRUE,
                          refs |-> refs]
      BY <2>1
    <3> HIDE DEF refs
    <3> QED BY <3>1, <3>2 DEF Resource
  <2>3. directory = [r \in Resources |-> directory[r]]
    BY <2>1
  <2> QED BY <2>2, <2>3
<1>2. /\ job = NoJob /\ preview = NoPreview /\ intended = directory /\ scim \in Settings
      /\ scim.url \in BaseURLs
      /\ edits = 0 /\ jobs = 0 /\ faults = 0 /\ imports = 0 /\ losses = 0
      /\ known = RowIds(rows) /\ vanished = FALSE /\ home = scim.url /\ dropped = {}
  BY DEF Init, Settings
<1>b. /\ vanished \in BOOLEAN /\ job \in Job \union {NoJob} /\ preview \in Preview \union {NoPreview}
      /\ edits \in 0 .. MaxEdits /\ jobs \in 0 .. MaxJobs /\ faults \in 0 .. MaxFaults
      /\ imports \in 0 .. MaxImports /\ losses \in 0 .. MaxLosses
      /\ intended \in [Resources -> Resource]
      /\ dropped \subseteq Ids /\ home \in BaseURLs \union {NoURL}
  <2>1. vanished \in BOOLEAN
    BY DEF Init
  <2>2. job \in Job \union {NoJob} /\ preview \in Preview \union {NoPreview}
    BY <1>2
  <2>3. /\ edits \in 0 .. MaxEdits /\ jobs \in 0 .. MaxJobs /\ faults \in 0 .. MaxFaults
        /\ imports \in 0 .. MaxImports /\ losses \in 0 .. MaxLosses
    BY <1>2, SyncBoundsAssumption
  <2> QED BY <1>1, <1>2, <2>1, <2>2, <2>3
<1>3. JobNamesItsOwn /\ JobFollowsDirectory /\ WalkedIsMirrored /\ KnownByJob /\ JobIsHome
      /\ PreviewNamesItsOwn /\ PreviewCounts /\ EditsSurvive
  BY <1>2 DEF JobNamesItsOwn, JobFollowsDirectory, WalkedIsMirrored, KnownByJob,
              JobIsHome, AtHome, PreviewNamesItsOwn, PreviewCounts, EditsSurvive
<1>4. CASE rows = [r \in Resources |-> NoRow] /\ service = {} /\ nextId = 1
  <2>1. \A r \in Resources : rows[r] = NoRow
    BY <1>4
  <2>2. known = {}
    BY <1>2, <2>1 DEF RowIds
  <2>3. TypeOK
    <3>1. rows \in [Resources -> Row \union {NoRow}] /\ service \subseteq RemoteResource
      BY <1>4
    <3>2. nextId \in 1 .. MaxIds + 1 /\ known \subseteq Ids
      BY <1>4, <2>2, SyncBoundsAssumption
    <3> QED BY <1>1, <1>2, <1>b, <3>1, <3>2 DEF TypeOK
  <2>4. /\ IdsAreOwn /\ OnePerService /\ RowsNameTheirOwn /\ RowsFollowDirectory
        /\ SettledIsMirrored /\ KnownByRow /\ RowsAreHome
    BY <1>4, <2>1, <2>2 DEF IdsAreOwn, OnePerService, RowsNameTheirOwn, RowsFollowDirectory,
                            SettledIsMirrored, KnownByRow, RowsAreHome
  <2> QED BY <1>3, <2>3, <2>4 DEF IInv
<1>5. CASE /\ \A r \in Resources : directory[r].status = "live"
           /\ MaxIds >= Group
           /\ rows = [r \in Resources |-> [id |-> r, dirty |-> FALSE, deleted |-> FALSE]]
           /\ service = {[url |-> scim.url, id |-> r, ext |-> r, attrs |-> TRUE,
                          refs |-> directory[r].refs] : r \in Resources}
           /\ nextId = Group + 1
  <2>1. Resources \subseteq Ids /\ Resources \subseteq Nat /\ Users \subseteq Ids
        /\ nextId \in 1 .. MaxIds + 1 /\ (\A r \in Resources : r < nextId)
    BY <1>5, SyncBoundsAssumption DEF Resources, Users, Group, Ids
  <2>2. \A r \in Resources : /\ rows[r] \in Row /\ rows[r] # NoRow /\ rows[r].id = r
                             /\ ~rows[r].dirty /\ ~rows[r].deleted
    <3> SUFFICES ASSUME NEW r \in Resources
                 PROVE  /\ rows[r] \in Row /\ rows[r] # NoRow /\ rows[r].id = r
                        /\ ~rows[r].dirty /\ ~rows[r].deleted
      OBVIOUS
    <3>1. rows[r] = [id |-> r, dirty |-> FALSE, deleted |-> FALSE]
      BY <1>5
    <3>2. rows[r] \in Row
      BY <2>1, <3>1 DEF Row
    <3>3. rows[r] # NoRow
      BY <3>2, SyncNullsAssumption
    <3>4. rows[r].id = r /\ ~rows[r].dirty /\ ~rows[r].deleted
      BY <3>1
    <3> QED BY <3>2, <3>3, <3>4
  <2>3. rows \in [Resources -> Row \union {NoRow}]
    BY <1>5, <2>2
  <2>4. known \subseteq Ids /\ known \subseteq Resources
    BY <1>2, <2>1, <2>2 DEF RowIds
  <2>5. \A s \in service : s.id = s.ext /\ s.ext \in Resources /\ s.attrs = TRUE
                           /\ s.url = scim.url /\ s \in RemoteResource
    <3> SUFFICES ASSUME NEW s \in service
                 PROVE  /\ s.id = s.ext /\ s.ext \in Resources /\ s.attrs = TRUE
                        /\ s.url = scim.url /\ s \in RemoteResource
      OBVIOUS
    <3>1. PICK r \in Resources : s = [url |-> scim.url, id |-> r, ext |-> r, attrs |-> TRUE,
                                      refs |-> directory[r].refs]
      BY <1>5
    <3>2. directory[r].refs \in SUBSET Ids
      BY <1>1, <2>1 DEF Resource
    <3> QED BY <1>2, <2>1, <3>1, <3>2 DEF RemoteResource
  <2>6. \A s, t \in service : s.ext = t.ext => s = t
    <3> SUFFICES ASSUME NEW s \in service, NEW t \in service, s.ext = t.ext PROVE s = t
      OBVIOUS
    <3>1. PICK r \in Resources : s = [url |-> scim.url, id |-> r, ext |-> r, attrs |-> TRUE,
                                      refs |-> directory[r].refs]
      BY <1>5
    <3>2. PICK q \in Resources : t = [url |-> scim.url, id |-> q, ext |-> q, attrs |-> TRUE,
                                      refs |-> directory[q].refs]
      BY <1>5
    <3>3. r = q
      BY <3>1, <3>2
    <3> QED BY <3>1, <3>2, <3>3
  <2>7. TypeOK
    <3>1. service \subseteq RemoteResource
      BY <2>5
    <3> QED BY <1>1, <1>2, <1>b, <2>1, <2>3, <2>4, <3>1 DEF TypeOK
  <2>8. IdsAreOwn /\ OnePerService
    BY <2>1, <2>4, <2>5, <2>6 DEF IdsAreOwn, OnePerService
  <2>9. RowsNameTheirOwn /\ RowsFollowDirectory
    BY <1>5, <2>1, <2>2, <2>5 DEF RowsNameTheirOwn, RowsFollowDirectory, Names
  <2>10. SettledIsMirrored
    <3> SUFFICES ASSUME NEW r \in Resources
                 PROVE  \E s \in service : s.url = home /\ s.ext = r /\ s.attrs = directory[r].attrs
      BY DEF SettledIsMirrored, Mirrored, Ours
    <3> DEFINE s == [url |-> scim.url, id |-> r, ext |-> r, attrs |-> TRUE,
                     refs |-> directory[r].refs]
    <3>1. s \in service
      BY <1>5
    <3>2. s.url = home /\ s.ext = r /\ s.attrs = directory[r].attrs
      BY <1>1, <1>2
    <3> QED BY <3>1, <3>2
  <2>11. KnownByRow /\ RowsAreHome
    BY <1>2, <2>2, <2>5 DEF KnownByRow, RowsAreHome, Ours
  <2> QED BY <1>3, <2>7, <2>8, <2>9, <2>10, <2>11 DEF IInv
<1> QED BY <1>4, <1>5 DEF Init

\* is kept by every step,
LEMMA InvStep == IInv /\ [Next]_vars => IInv'
<1> SUFFICES ASSUME IInv, [Next]_vars PROVE IInv'
  OBVIOUS
<1>1. CASE JobStep
  BY <1>1, ForgetStep, RefuseStep, DeleteRemoteStep, WriteStep, SendAwaitedStep, FinishJobStep
     DEF JobStep
<1>2. CASE \E kind \in {"sync", "reconcile", "push"}, target \in Resources : StartJob(kind, target)
  BY <1>2, StartJobStep
<1>3. CASE UNCHANGED vars
  BY <1>3 DEF vars, IInv, TypeOK, IdsAreOwn, OnePerService, RowsNameTheirOwn, JobNamesItsOwn,
              PreviewNamesItsOwn, RowsFollowDirectory, JobFollowsDirectory, SettledIsMirrored,
              WalkedIsMirrored, KnownByRow, KnownByJob, PreviewCounts, EditsSurvive, Undisturbed,
              Mirrored, Ours, RowsAreHome, JobIsHome, AtHome, WritesBack, enabled
<1> QED BY <1>1, <1>2, <1>3, EditStep, CancelStep, LoseJobStep, PreviewImportStep,
           DropPreviewStep, ApplyImportStep, LoseResourceStep DEF Next, EditKept

\* and so holds always.
LEMMA InvAlways == Spec => []IInv
  BY InvInit, InvStep, PTL DEF Spec

-----------------------------------------------------------------------------
(* The theorems.                                                           *)

\* Whatever the handlers, the jobs and the service do, the directory, the rows
\* and the job's copy keep their form, and the counters their bounds.
THEOREM TypeCorrect == Spec => []TypeOK
  BY InvAlways, PTL DEF IInv

\* No service ever holds two resources for one externalId, whatever was lost,
\* refused or answered late (createUser, createGroup).
THEOREM OneResourceEachAlways == Spec => []OneResourceEach
<1>1. IInv => OneResourceEach
  <2> SUFFICES ASSUME IInv, NEW r \in Resources PROVE Cardinality(HeldAs(r)) <= 1
    BY DEF OneResourceEach
  <2>1. \A s, t \in HeldAs(r) : s = t
    BY DEF IInv, OnePerService, HeldAs, Held
  <2>2. CASE HeldAs(r) = {}
    BY <2>2, FS_EmptySet
  <2>3. CASE HeldAs(r) # {}
    <3>1. PICK s \in HeldAs(r) : HeldAs(r) = {s}
      BY <2>1, <2>3
    <3>2. Cardinality({s}) = 1
      BY FS_Singleton, Zenon
    <3> QED BY <3>1, <3>2
  <2> QED BY <2>2, <2>3
<1> QED BY <1>1, InvAlways, PTL

\* No job writes back a directory from before an edit (rejectWhileSyncing).
THEOREM EditsSurviveAlways == Spec => []EditsSurvive
  BY InvAlways, PTL DEF IInv

\* Nothing that a row knows, or knew when its resource was purged, is left at
\* the service the rows are about when the directory forgets it, whatever others
\* delete there; but for what a set-up made the rows drop
\* (PurgeFullySyncedDeletions, scimTracksDirectory).
THEOREM PurgedIsGoneAlways == Spec => []PurgedIsGone
<1>1. IInv => PurgedIsGone
  BY DEF IInv, TypeOK, RemoteResource, KnownByRow, RowsFollowDirectory, PurgedIsGone, Ours
<1> QED BY <1>1, InvAlways, PTL

-----------------------------------------------------------------------------
(* The refinement of ScimMirror.                                           *)

Local == [r \in Resources |->
             IF directory[r].status = "live" THEN Shown(directory[r].attrs) ELSE "absent"]
Remote == [r \in Resources |->
             IF \A s \in Ours : s.ext # r THEN "absent"
             ELSE Shown((CHOOSE s \in Ours : s.ext = r).attrs)]
Settled == [r \in Resources |->
               Undisturbed /\ home # NoURL /\ rows[r] # NoRow /\ ~rows[r].dirty]
Shapes == {"on", "off"} \union {"absent"}

\* What the service holds for a resource, and that there is nothing else.
LEMMA RemoteFacts ==
    ASSUME TypeOK, OnePerService
    PROVE  /\ Local \in [Resources -> Shapes] /\ Remote \in [Resources -> Shapes]
           /\ Settled \in [Resources -> BOOLEAN]
           /\ \A s, t \in Ours : s.ext = t.ext => s = t
           /\ \A s \in Ours : Remote[s.ext] = Shown(s.attrs)
           /\ \A r \in Resources : (\A s \in Ours : s.ext # r) => Remote[r] = "absent"
<1>1. Local \in [Resources -> Shapes] /\ Remote \in [Resources -> Shapes]
  BY DEF Local, Remote, Shapes, Shown
<1>2. Settled \in [Resources -> BOOLEAN]
  BY DEF Settled
<1>3. \A s, t \in Ours : s.ext = t.ext => s = t
  BY DEF OnePerService, Ours
<1>4. ASSUME NEW s \in Ours PROVE Remote[s.ext] = Shown(s.attrs)
  <2>1. s.ext \in Resources
    BY DEF TypeOK, RemoteResource, Ours
  <2>2. (CHOOSE t \in Ours : t.ext = s.ext) = s
    BY <1>3
  <2> QED BY <2>1, <2>2 DEF Remote
<1>5. \A r \in Resources : (\A s \in Ours : s.ext # r) => Remote[r] = "absent"
  BY DEF Remote
<1> QED BY <1>1, <1>2, <1>3, <1>4, <1>5

\* What is settled is mirrored.
LEMMA SettledAgrees ==
    ASSUME IInv, NEW r \in Resources, Settled[r]
    PROVE  Remote[r] = Local[r]
<1>1. Undisturbed /\ home # NoURL /\ rows[r] # NoRow /\ ~rows[r].dirty
  BY DEF Settled
<1>2. PICK s \in Ours : s.ext = r /\ s.attrs = directory[r].attrs
  BY <1>1 DEF IInv, SettledIsMirrored, Mirrored
<1>3. directory[r].status = "live"
  BY <1>1 DEF IInv, TypeOK, Row, RowsFollowDirectory
<1>4. Remote[r] = Shown(s.attrs)
  BY <1>2, RemoteFacts DEF IInv
<1> QED BY <1>2, <1>3, <1>4 DEF Local

\* The engine starts where the mirror does.
LEMMA MirrorInitially == ASSUME Init PROVE Mirror!MirrorInit
<1>1. IInv
  BY InvInit
<1>2. /\ Local \in [Resources -> Shapes] /\ Remote \in [Resources -> Shapes]
      /\ Settled \in [Resources -> BOOLEAN]
  BY <1>1, RemoteFacts DEF IInv
<1>3. \A r \in Resources : Settled[r] => Remote[r] = Local[r]
  BY <1>1, SettledAgrees
<1> QED BY <1>2, <1>3 DEF Mirror!MirrorInit, Local, Remote, Settled, Shapes

\* What a step may look like: it ends the promise, edits, writes one resource
\* as the directory has it, or settles what is mirrored.
LEMMA DisturbStep ==
    ASSUME \A r \in Resources : ~Settled'[r]
    PROVE  Mirror!MirrorNext
<1>1. Local' \in [Resources -> Shapes] /\ Remote' \in [Resources -> Shapes]
  BY DEF Local, Shapes, Shown, Remote
<1>2. Settled' = [r \in Resources |-> FALSE]
  <2>1. \A r \in Resources : Settled'[r] = FALSE
    BY DEF Settled
  <2>2. Settled' = [r \in Resources |-> Settled'[r]]
    BY DEF Settled
  <2> QED BY <2>1, <2>2
<1> QED BY <1>1, <1>2 DEF Mirror!MirrorNext, Mirror!Disturb, Local, Remote, Settled, Shapes

LEMMA MirrorEditStep ==
    ASSUME IInv, EditKept PROVE Mirror!MirrorNext
<1>1. CASE home' # home
  <2>1. \A r \in Resources : ~Settled'[r]
    BY <1>1 DEF EditKept, RowsStayHome, Settled
  <2> QED BY <2>1, DisturbStep
<1>2. CASE home' = home
  <2> DEFINE keys == {r \in Resources : Local'[r] # Local[r] \/ ~Settled'[r]}
  <2>1. Local' \in [Resources -> Shapes]
    BY DEF Local, Shapes, Shown
  <2>2. Remote' = Remote
    BY <1>2 DEF Remote, EditKept, Ours
  <2>3. \A r \in Resources : Settled'[r] => Settled[r] /\ Local'[r] = Local[r]
    BY <1>2 DEF Settled, Local, Undisturbed, EditKept, CleanIsUntouched
  <2>4. Settled' = [r \in Resources |-> Settled[r] /\ r \notin keys]
    <3>1. \A r \in Resources : Settled'[r] = (Settled[r] /\ r \notin keys)
      BY <2>3 DEF Settled
    <3>2. Settled' = [r \in Resources |-> Settled'[r]]
      BY DEF Settled
    <3> QED BY <3>1, <3>2
  <2>5. \A r \in Resources \ keys : Local'[r] = Local[r]
    OBVIOUS
  <2>6. keys \in SUBSET Resources
    OBVIOUS
  <2> HIDE DEF keys
  <2>7. \E ks \in SUBSET Resources : Mirror!Edit(ks)
    BY <2>1, <2>2, <2>4, <2>5, <2>6 DEF Mirror!Edit, Local, Remote, Settled, Shapes
  <2> QED BY <2>7 DEF Mirror!MirrorNext
<1> QED BY <1>1, <1>2

LEMMA MirrorWriteStep ==
    ASSUME SameElsewhere, NEW r \in Resources, Remote' = [Remote EXCEPT ![r] = Local[r]]
    PROVE  Mirror!MirrorNext
<1>1. Local' = Local /\ Settled' = Settled
  BY DEF SameElsewhere, Local, Settled, Undisturbed
<1>2. Mirror!Write(r)
  BY <1>1 DEF Mirror!Write, Local, Remote, Settled
<1> QED BY <1>2 DEF Mirror!MirrorNext

LEMMA MirrorStutter ==
    ASSUME UNCHANGED <<directory, rows, Ours, home, imports, losses>>
    PROVE  UNCHANGED Mirror!mirrorVars
  BY DEF Mirror!mirrorVars, Undisturbed

\* Nothing that the rows are about changes at the services.
LEMMA SameServiceStutter ==
    ASSUME SameElsewhere, UNCHANGED service
    PROVE  UNCHANGED Mirror!mirrorVars
<1>1. Ours' = Ours
  BY DEF Ours, SameElsewhere
<1> QED BY <1>1, MirrorStutter DEF SameElsewhere

\* A resource that is held as before is seen as before.
LEMMA SameRemote ==
    ASSUME IInv, NEW q \in Resources, \A s \in Ours' : s.ext = q => s \in Ours,
           \A s \in Ours : s.ext = q => s \in Ours'
    PROVE  Remote'[q] = Remote[q]
<1>1. CASE \E s \in Ours : s.ext = q
  <2>1. PICK s \in Ours : s.ext = q
    BY <1>1
  <2>2. Remote[q] = Shown(s.attrs) /\ \A t \in Ours' : t.ext = q => t = s
    BY <2>1, RemoteFacts DEF IInv
  <2>3. s \in Ours' /\ (CHOOSE t \in Ours' : t.ext = q) = s
    BY <2>1, <2>2
  <2> QED BY <2>1, <2>2, <2>3 DEF Remote
<1>2. CASE ~\E s \in Ours : s.ext = q
  BY <1>2 DEF Remote
<1> QED BY <1>1, <1>2

\* What is seen differs in one resource.
LEMMA RemoteWritten ==
    ASSUME NEW r \in Resources, Remote'[r] = Local[r],
           \A q \in Resources : q # r => Remote'[q] = Remote[q]
    PROVE  Remote' = [Remote EXCEPT ![r] = Local[r]]
<1>1. Remote' = [q \in Resources |-> Remote'[q]] /\ Remote = [q \in Resources |-> Remote[q]]
  BY DEF Remote
<1> QED BY <1>1

\* A write leaves the service with the live resource as the directory has it.
LEMMA PutMirrors ==
    ASSUME IInv, IInv', SameElsewhere, job # NoJob, NEW r \in Resources, NEW id,
           job.work[r].status = "live", Creating(job, r) \/ Found(job, r) # {},
           service' = Put(r, id)
    PROVE  Mirror!MirrorNext \/ UNCHANGED Mirror!mirrorVars
<1> DEFINE sent == [url |-> scim.url, id |-> id, ext |-> r, attrs |-> job.work[r].attrs,
                    refs |-> SentRefs(job, r)]
<1>1. directory[r].status = "live" /\ sent.attrs = directory[r].attrs /\ sent.ext = r
  BY DEF IInv, JobFollowsDirectory
<1>2. Local[r] = Shown(sent.attrs)
  BY <1>1 DEF Local
<1>3. service' = (service \ Found(job, r)) \union {sent}
  BY DEF Put
<1>u. sent.url = scim.url
  OBVIOUS
<1> HIDE DEF sent
<1>4. \A s \in Found(job, r) : s.ext = r /\ s.url = scim.url
  BY FoundFacts DEF IInv
<1>a. CASE scim.url # home
  <2>1. Ours' = Ours
    BY <1>3, <1>4, <1>u, <1>a DEF Ours, SameElsewhere
  <2> QED BY <2>1, MirrorStutter DEF SameElsewhere
<1>b. CASE scim.url = home
  <2>1. Ours' = (Ours \ Found(job, r)) \union {sent}
    BY <1>3, <1>u, <1>b DEF Ours, SameElsewhere
  <2>2. Remote'[r] = Local[r]
    <3>1. sent \in Ours'
      BY <2>1
    <3>2. \A s \in Ours' : s.ext = r => s = sent
      BY <1>1, <3>1 DEF IInv, OnePerService, Ours
    <3>3. (CHOOSE s \in Ours' : s.ext = r) = sent
      BY <1>1, <3>1, <3>2
    <3> QED BY <1>1, <1>2, <3>1, <3>3 DEF Remote
  <2>3. ASSUME NEW q \in Resources, q # r PROVE Remote'[q] = Remote[q]
    <3>1. \A s \in Ours' : s.ext = q => s \in Ours
      BY <1>1, <2>1, <2>3
    <3>2. \A s \in Ours : s.ext = q => s \in Ours'
      BY <1>4, <2>1, <2>3
    <3> QED BY <3>1, <3>2, SameRemote
  <2> QED BY <2>2, <2>3, RemoteWritten, MirrorWriteStep
<1> QED BY <1>a, <1>b

\* A deletion leaves the service without the resource that the directory has
\* deleted.
LEMMA DeletionMirrors ==
    ASSUME IInv, SameElsewhere, job # NoJob, NEW r \in Resources,
           job.work[r].status = "deleted", job.work[r].id # NoId,
           service' = service \ HeldBy(job.work[r].id)
    PROVE  Mirror!MirrorNext \/ UNCHANGED Mirror!mirrorVars
<1>1. directory[r].status = "deleted"
  BY DEF IInv, JobFollowsDirectory
<1>2. Local[r] = "absent"
  BY <1>1 DEF Local
<1>3. \A s \in HeldBy(job.work[r].id) : s.ext = r
  BY DEF IInv, JobNamesItsOwn, Names, HeldBy, Held
<1>4. CASE HeldBy(job.work[r].id) = {} \/ scim.url # home
  <2>1. Ours' = Ours
    BY <1>4 DEF Ours, HeldBy, Held, SameElsewhere
  <2> QED BY <2>1, MirrorStutter DEF SameElsewhere
<1>5. CASE HeldBy(job.work[r].id) # {} /\ scim.url = home
  <2>1. PICK s \in Ours : s \in HeldBy(job.work[r].id) /\ s.ext = r
    BY <1>3, <1>5 DEF HeldBy, Held, Ours
  <2>2. Ours' = Ours \ HeldBy(job.work[r].id)
    BY DEF Ours, SameElsewhere
  <2>3. \A t \in Ours' : t.ext # r
    BY <2>1, <2>2, RemoteFacts DEF IInv
  <2>4. Remote'[r] = Local[r]
    BY <1>2, <2>3 DEF Remote
  <2>5. ASSUME NEW q \in Resources, q # r PROVE Remote'[q] = Remote[q]
    <3>1. /\ \A t \in Ours' : t.ext = q => t \in Ours
          /\ \A t \in Ours : t.ext = q => t \in Ours'
      BY <1>3, <2>2, <2>5
    <3> QED BY <3>1, SameRemote
  <2> QED BY <2>4, <2>5, RemoteWritten, MirrorWriteStep
<1> QED BY <1>4, <1>5

\* The end of a job.
LEMMA MirrorFinishStep ==
    ASSUME IInv, FinishJob, IInv' PROVE Mirror!MirrorNext
<1>a. CASE \A r \in Resources : ~Settled'[r]
  BY <1>a, DisturbStep
<1> SUFFICES ASSUME Undisturbed', home' # NoURL PROVE Mirror!MirrorNext
  BY <1>a DEF Settled
<1>1. /\ job # NoJob /\ UNCHANGED <<service, imports, losses>> /\ home' = home
      /\ directory' = Purged(job.loaded, PurgedResources(job.loaded, ResultRows(job)))
  BY DEF FinishJob, WalkEnded
<1>2. job.loaded = directory /\ directory \in [Resources -> Resource]
  BY <1>1 DEF IInv, JobFollowsDirectory, TypeOK
<1>3. \A r \in Resources : /\ directory'[r].attrs = directory[r].attrs
                           /\ directory'[r].status = "live" <=> directory[r].status = "live"
  <2> DEFINE gone == PurgedResources(directory, ResultRows(job))
  <2>1. gone \in SUBSET Resources /\ \A r \in gone : directory[r].status = "deleted"
    BY DEF PurgedResources, Present
  <2>2. directory' = Purged(directory, gone)
    BY <1>1, <1>2
  <2> HIDE DEF gone
  <2> QED BY <1>2, <2>1, <2>2, PurgedFacts
<1>4. Ours' = Ours /\ Local' = Local /\ Remote' = Remote
  BY <1>1, <1>3 DEF Local, Remote, Ours
<1> DEFINE keys == {r \in Resources : Undisturbed' /\ rows'[r] # NoRow /\ ~rows'[r].dirty}
<1>5. \A r \in keys : Remote[r] = Local[r]
  <2> SUFFICES ASSUME NEW r \in Resources, rows'[r] # NoRow, ~rows'[r].dirty
               PROVE  Remote[r] = Local[r]
    OBVIOUS
  <2>2. PICK s \in Ours' : s.ext = r /\ s.attrs = directory'[r].attrs
    BY DEF IInv, SettledIsMirrored, Mirrored
  <2>3. directory'[r].status = "live"
    BY DEF IInv, TypeOK, Row, RowsFollowDirectory
  <2>4. Remote[r] = Shown(s.attrs)
    BY <1>4, <2>2, RemoteFacts DEF IInv
  <2> QED BY <1>3, <2>2, <2>3, <2>4 DEF Local
<1>6. Settled' = [r \in Resources |-> r \in keys]
  <2>1. \A r \in Resources : Settled'[r] = (r \in keys)
    BY DEF Settled
  <2>2. Settled' = [r \in Resources |-> Settled'[r]]
    BY DEF Settled
  <2> QED BY <2>1, <2>2
<1>7. keys \in SUBSET Resources
  OBVIOUS
<1> HIDE DEF keys
<1>8. \E ks \in SUBSET Resources : Mirror!Settle(ks)
  BY <1>4, <1>5, <1>6, <1>7 DEF Mirror!Settle, Local, Remote, Settled
<1> QED BY <1>8 DEF Mirror!MirrorNext

\* A job's step writes one resource at the service, or changes nothing there.
LEMMA MirrorJobStep ==
    ASSUME IInv, JobStep, IInv', Undisturbed'
    PROVE  Mirror!MirrorNext \/ UNCHANGED Mirror!mirrorVars
<1>1. ASSUME NEW r \in Resources, Forget(r) \/ Refuse(r) PROVE UNCHANGED Mirror!mirrorVars
  BY <1>1, SameServiceStutter DEF Forget, Refuse
<1>2. ASSUME NEW r \in Resources, NEW outcome, DeleteRemote(r, outcome)
      PROVE  Mirror!MirrorNext \/ UNCHANGED Mirror!mirrorVars
  <2>1. /\ job # NoJob /\ job.work[r].status = "deleted" /\ job.work[r].id # NoId /\ SameElsewhere
        /\ service' = IF Effective(outcome) THEN service \ HeldBy(job.work[r].id) ELSE service
    BY <1>2 DEF DeleteRemote, Walking
  <2>2. CASE Effective(outcome)
    BY <2>1, <2>2, DeletionMirrors
  <2>3. CASE ~Effective(outcome)
    BY <2>1, <2>3, SameServiceStutter
  <2> QED BY <2>2, <2>3
<1>3. ASSUME NEW r \in Resources, NEW outcome, Write(r, outcome)
      PROVE  Mirror!MirrorNext \/ UNCHANGED Mirror!mirrorVars
  <2> DEFINE id == IF Found(job, r) = {} THEN nextId ELSE (CHOOSE s \in Found(job, r) : TRUE).id
  <2>1. /\ job # NoJob /\ job.work[r].status = "live" /\ SameElsewhere /\ Sendable(job, r)
        /\ service' = IF Effective(outcome) THEN Put(r, id) ELSE service
    BY <1>3 DEF Write, Walking
  <2>2. Creating(job, r) \/ Found(job, r) # {}
    BY <2>1 DEF Sendable
  <2> HIDE DEF id
  <2>3. CASE Effective(outcome)
    BY <2>1, <2>2, <2>3, PutMirrors
  <2>4. CASE ~Effective(outcome)
    BY <2>1, <2>4, SameServiceStutter
  <2> QED BY <2>3, <2>4
<1>4. ASSUME NEW u \in Users, NEW outcome, SendAwaited(u, outcome)
      PROVE  Mirror!MirrorNext \/ UNCHANGED Mirror!mirrorVars
  <2> DEFINE id == (CHOOSE s \in Found(job, u) : TRUE).id
  <2>1. /\ job # NoJob /\ SameElsewhere /\ job.awaiting # {} /\ u = Min(job.awaiting)
        /\ \/ UNCHANGED service
           \/ service' = Put(u, id) /\ Found(job, u) # {}
    BY <1>4 DEF SendAwaited
  <2> HIDE DEF id
  <2>2. CASE UNCHANGED service
    BY <2>1, <2>2, SameServiceStutter
  <2>3. CASE service' = Put(u, id) /\ Found(job, u) # {}
    <3>1. job \in Job /\ job.awaiting \in SUBSET Nat
      BY <2>1, ResourceFacts DEF IInv, TypeOK, Job
    <3>2. u \in job.awaiting
      BY <2>1, <3>1, MinFacts
    <3>3. directory[u].status = "live" /\ u \in Resources
      BY <2>1, <3>2, ResourceFacts DEF IInv, JobFollowsDirectory
    <3>4. job.work[u].status = "live"
      BY <2>1, <3>3 DEF IInv, JobFollowsDirectory
    <3> QED BY <2>1, <2>3, <3>3, <3>4, PutMirrors
  <2> QED BY <2>1, <2>2, <2>3
<1>5. CASE FinishJob
  BY <1>5, MirrorFinishStep
<1> QED BY <1>1, <1>2, <1>3, <1>4, <1>5 DEF JobStep

\* Every step is a step of the mirror or leaves it as it is.
LEMMA MirrorStep ==
    ASSUME IInv, [Next]_vars, IInv'
    PROVE  Mirror!MirrorNext \/ UNCHANGED Mirror!mirrorVars
<1>1. CASE ~Undisturbed'
  BY <1>1, DisturbStep DEF Settled
<1>2. CASE Undisturbed' /\ Edit
  BY <1>2, EditStep, MirrorEditStep
<1>3. CASE Undisturbed' /\ JobStep
  BY <1>3, MirrorJobStep
<1>4. CASE \/ \E kind \in {"sync", "reconcile", "push"}, target \in Resources : StartJob(kind, target)
           \/ Cancel \/ LoseJob \/ DropPreview \/ UNCHANGED vars
  <2>1. UNCHANGED <<directory, rows, service, home, imports, losses>>
    BY <1>4 DEF StartJob, Cancel, SameElsewhere, LoseJob, DropPreview, vars
  <2> QED BY <2>1, MirrorStutter DEF Ours
<1>5. CASE PreviewImport \/ LoseResource
  <2>1. imports \in Nat /\ losses \in Nat
    BY SyncBoundsAssumption DEF IInv, TypeOK
  <2>2. ~Undisturbed'
    BY <1>5, <2>1 DEF PreviewImport, LoseResource, Undisturbed
  <2> QED BY <1>1, <2>2
<1>6. CASE ApplyImport
  <2>1. preview # NoPreview /\ imports' = imports /\ imports > 0
    BY <1>6 DEF ApplyImport, IInv, PreviewCounts
  <2>2. ~Undisturbed'
    BY <2>1 DEF Undisturbed
  <2> QED BY <1>1, <2>2
<1> QED BY <1>1, <1>2, <1>3, <1>4, <1>5, <1>6 DEF Next

\* What counts as settled is always mirrored at the service the rows are about,
\* and nothing reaches it but what the directory holds: ScimSync implements
\* ScimMirror (syncDirtyUsers, MarkUserDirty, MergeAppSyncState).
THEOREM MirrorsAlways == Spec => Mirrors
<1>1. Init => Mirror!MirrorInit
  BY MirrorInitially
<1>2. IInv /\ [Next]_vars /\ IInv' => [Mirror!MirrorNext]_(Mirror!mirrorVars)
  BY MirrorStep
<1> QED BY <1>1, <1>2, InvAlways, PTL DEF Spec, Mirrors, Mirror!MirrorSpec

-----------------------------------------------------------------------------
(* What a clean row stands for.                                            *)

\* The IDs that rows and copies remember are their resources' own.
LEMMA IdFacts ==
    ASSUME IInv
    PROVE  /\ \A r \in Resources : /\ RowId[r] = IF rows[r] = NoRow THEN NoId ELSE rows[r].id
                                   /\ RowId[r] \in Ids \union {NoId}
                                   /\ Names(service, nextId, RowId[r], r)
           /\ job # NoJob =>
                 \A r \in Resources : /\ WorkId[r] = job.work[r].id
                                      /\ WorkId[r] \in Ids \union {NoId}
                                      /\ Names(service, nextId, WorkId[r], r)
<1>1. ASSUME NEW r \in Resources
      PROVE  /\ RowId[r] = IF rows[r] = NoRow THEN NoId ELSE rows[r].id
             /\ RowId[r] \in Ids \union {NoId}
             /\ Names(service, nextId, RowId[r], r)
  <2>1. RowId[r] = IF rows[r] = NoRow THEN NoId ELSE rows[r].id
    BY DEF RowId
  <2>2. RowId[r] \in Ids \union {NoId}
    BY <2>1 DEF IInv, TypeOK, Row
  <2> QED BY <2>1, <2>2 DEF IInv, RowsNameTheirOwn, Names
<1>2. ASSUME job # NoJob, NEW r \in Resources
      PROVE  /\ WorkId[r] = job.work[r].id /\ WorkId[r] \in Ids \union {NoId}
             /\ Names(service, nextId, WorkId[r], r)
  BY <1>2 DEF WorkId, IInv, TypeOK, Job, WorkItem, JobNamesItsOwn
<1> QED BY <1>1, <1>2

\* The service that the rows are about holds one resource for each of the
\* directory, and a job that talks to another leaves it alone.
LEMMA OneHolder ==
    ASSUME IInv
    PROVE  /\ \A s, t \in Ours : s.ext = t.ext => s = t
           /\ scim.url = home => Held = Ours
  BY DEF IInv, OnePerService, Ours, Held
LEMMA ElsewhereStays ==
    ASSUME IInv, SafeExchange, UNCHANGED home, scim.url # home
    PROVE  Ours' = Ours
<1>1. service \subseteq RemoteResource /\ service' \subseteq RemoteResource
  BY DEF IInv, TypeOK, SafeExchange
<1>2. \A s \in RemoteResource : s.url = home => (s \in service' <=> s \in service)
  BY DEF SafeExchange
<1> QED BY <1>1, <1>2 DEF Ours

\* Where the invariant holds, so does the property.
LEMMA CleanMeansMirrored ==
    ASSUME IInv, CleanInv
    PROVE  CleanIsMirrored
<1> SUFFICES ASSUME Quiet, scim.url = home, job = NoJob, NEW r \in Live(directory),
                    rows[r] # NoRow, ~rows[r].dirty
             PROVE  \E s \in HeldBy(rows[r].id) :
                       /\ s.attrs = directory[r].attrs
                       /\ IF r = Group
                          THEN \A t \in Held : t.id \in s.refs =>
                                   t.ext \in directory[r].refs \/ Forgotten(t)
                          ELSE s.refs = IdsOf(directory[r].refs \intersect Live(directory))
  BY DEF CleanIsMirrored, Quiet, enabled, Configured
<1>1. r \in Resources /\ Held = Ours /\ RowId[r] = rows[r].id
  BY OneHolder, IdFacts DEF Live
<1>2. Created(RowId, r) /\ HeldAsSaved(Ours, RowId, r)
  BY DEF CleanInv, CleanRowsAgree
<1>3. \A q \in Resources : RowId[q] # NoId => \E s \in Ours : s.id = RowId[q] /\ s.ext = q
  <2>1. \A q \in Resources : RowId[q] # NoId => \E s \in Ours : s.id = RowId[q]
    BY DEF CleanInv, RowsHeld
  <2> QED BY <2>1, IdFacts DEF Names, Ours
<1>4. PICK s \in Ours : s.id = RowId[r]
  BY <1>1, <1>2, <1>3 DEF Created
<1>5. s \in HeldBy(rows[r].id) /\ s.attrs = directory[r].attrs
  BY <1>1, <1>2, <1>4 DEF HeldBy, HeldAsSaved
<1>6. CASE r = Group
  <2>1. ASSUME NEW t \in Ours, directory[t.ext].status = "purged" PROVE Forgotten(t)
    <3>1. t.ext \in Resources
      BY DEF IInv, TypeOK, RemoteResource, Ours
    <3>2. t.id \in known \ dropped => rows[t.ext] # NoRow
      BY DEF Quiet, IInv, KnownByRow
    <3> QED BY <2>1, <3>1, <3>2 DEF Forgotten, IInv, RowsFollowDirectory
  <2> QED BY <1>1, <1>2, <1>4, <1>5, <1>6, <2>1 DEF HeldAsSaved
<1>7. CASE r # Group
  <2>1. s.refs = {RowId[m] : m \in Managers(r)} \ {NoId}
    BY <1>2, <1>4, <1>7 DEF HeldAsSaved
  <2>2. \A m \in Managers(r) : m \in Resources /\ RowId[m] # NoId
    BY <1>2, <1>7 DEF Created, Managers, Live
  <2>3. \A t \in Ours : t.ext \in Managers(r) => t.id = RowId[t.ext]
    BY <1>3, <2>2, OneHolder
  <2>4. \A m \in Managers(r) : \E t \in Ours : t.ext = m /\ t.id = RowId[m]
    BY <1>3, <2>2
  <2>5. IdsOf(Managers(r)) = {RowId[m] : m \in Managers(r)}
    BY <1>1, <2>3, <2>4 DEF IdsOf
  <2>6. s.refs = IdsOf(Managers(r))
    BY <2>1, <2>2, <2>5
  <2> QED BY <1>5, <1>7, <2>6 DEF Managers
<1> QED BY <1>6, <1>7

\* An exchange leaves what is clean as it is.
StaysAgreed ==
    /\ RefsWereDrawn'
    /\ Quiet => \A q \in Live(directory) :
          /\ RowId[q] # NoId /\ (\E s \in Ours : s.id = RowId[q])
                => \E s \in Ours' : s.id = RowId[q]
          /\ Created(RowId, q) /\ HeldAsSaved(Ours, RowId, q) => HeldAsSaved(Ours', RowId, q)
          /\ AtHome /\ Created(WorkId, q) /\ HeldAsSaved(Ours, WorkId, q)
                => HeldAsSaved(Ours', WorkId, q)

\* A resource of the directory that is not written stays as it is, and one
\* that is written is there as the directory has it.
LEMMA PutAgrees ==
    ASSUME IInv, RefsWereDrawn, JobSendsDirectory, AtHome, SafeExchange,
           NEW r \in Resources, NEW id, job.work[r].status = "live",
           Creating(job, r) \/ Found(job, r) # {},
           (Found(job, r) = {} /\ id = nextId) \/ \E s \in Found(job, r) : id = s.id,
           service' = Put(r, id), UNCHANGED <<directory, home>>,
           NEW ids, NEW q \in Resources, Names(service', nextId', ids[q], q), ids[q] # NoId,
           q # r => HeldAsSaved(Ours, ids, q),
           q = r /\ r # Group => \A m \in Managers(r) : ids[m] = WorkId[m]
    PROVE  HeldAsSaved(Ours', ids, q)
<1> DEFINE sent == [url |-> scim.url, id |-> id, ext |-> r, attrs |-> job.work[r].attrs,
                    refs |-> SentRefs(job, r)]
<1>a. /\ job # NoJob /\ scim.url = home /\ Held = Ours
      /\ \A s \in Found(job, r) : s \in Ours /\ s.ext = r
      /\ \A s \in Ours : s.ext = r => s \in Found(job, r)
  <2>1. job # NoJob /\ scim.url = home /\ Held = Ours
    BY OneHolder DEF AtHome
  <2>2. Found(job, r) = HeldAs(r)
    BY <2>1, FoundFacts DEF IInv
  <2> QED BY <2>1, <2>2 DEF HeldAs
<1>1. Ours' = (Ours \ Found(job, r)) \union {sent}
  <2>1. service' = (service \ Found(job, r)) \union {sent} /\ home' = home /\ sent.url = home
    BY <1>a DEF Put
  <2> HIDE DEF sent
  <2> QED BY <2>1 DEF Ours
<1>2. sent.id = id /\ sent.ext = r /\ sent.attrs = job.work[r].attrs /\ sent.refs = SentRefs(job, r)
  OBVIOUS
<1> HIDE DEF sent
<1>3. \A s \in Found(job, r) : s \in Ours /\ s.ext = r
  BY <1>a
<1>4. \A s \in Ours' : s.ext = r => s = sent
  BY <1>1, <1>a
<1>5. ASSUME NEW s \in Ours', s.id = ids[q] PROVE s.ext = q
  BY <1>5 DEF Names, Ours
<1>6. CASE q # r
  <2> SUFFICES ASSUME NEW s \in Ours', s.id = ids[q]
               PROVE  /\ s.attrs = directory[q].attrs
                      /\ q # Group => s.refs = {ids[m] : m \in Managers(q)} \ {NoId}
                      /\ q = Group => \A t \in Ours' : t.id \in s.refs =>
                             t.ext \in directory[q].refs \/ directory[t.ext].status = "purged"
    BY DEF HeldAsSaved
  <2>1. s \in Ours
    BY <1>1, <1>2, <1>5, <1>6
  <2>2. /\ s.attrs = directory[q].attrs
        /\ q # Group => s.refs = {ids[m] : m \in Managers(q)} \ {NoId}
        /\ q = Group => \A t \in Ours : t.id \in s.refs =>
               t.ext \in directory[q].refs \/ directory[t.ext].status = "purged"
    BY <1>6, <2>1 DEF HeldAsSaved
  <2>3. ASSUME NEW t \in Ours', t.id \in s.refs
        PROVE  \E v \in Ours : v.id \in s.refs /\ v.ext = t.ext
    <3>1. CASE t \in Ours
      BY <2>3, <3>1
    <3>2. CASE t = sent
      <4>1. t.id < nextId /\ nextId \in Nat
        BY <2>1, <2>3, SyncBoundsAssumption DEF RefsWereDrawn, IInv, TypeOK, Ours
      <4>2. id # nextId
        BY <1>2, <3>2, <4>1
      <4>3. \E v \in Found(job, r) : v.id = id
        BY <4>2
      <4> QED BY <1>2, <1>3, <2>3, <3>2, <4>3
    <3> QED BY <1>1, <3>1, <3>2
  <2> QED BY <2>2, <2>3
<1>7. CASE q = r
  <2>1. sent.attrs = directory[r].attrs
    BY <1>2, <1>a DEF IInv, JobFollowsDirectory
  <2>2. ASSUME r # Group PROVE sent.refs = {ids[m] : m \in Managers(r)} \ {NoId}
    <3>1. r \in Users /\ job.work[r].refs = directory[r].refs
      BY <1>a, <2>2 DEF Resources, JobSendsDirectory
    <3>2. directory[r].refs \subseteq Resources
      BY ResourceFacts DEF IInv, TypeOK, Resource
    <3>3. \A m \in directory[r].refs :
             job.work[m].status = "live" <=> directory[m].status = "live"
      BY <1>a, <3>2 DEF IInv, JobFollowsDirectory
    <3>4. {n \in job.work[r].refs : job.work[n].status = "live"} = Managers(r)
      BY <3>1, <3>2, <3>3 DEF Managers, Live
    <3>5. \A m \in Managers(r) : ids[m] = job.work[m].id
      BY <1>7, <1>a, <2>2, <3>2, IdFacts DEF Managers
    <3>6. SentRefs(job, r) = {job.work[m].id : m \in Managers(r)} \ {NoId}
      BY <3>4 DEF SentRefs
    <3> QED BY <1>2, <3>5, <3>6
  <2>3. ASSUME r = Group, NEW t \in Ours', t.id \in sent.refs PROVE t.ext \in directory[r].refs
    <3>1. PICK m \in job.work[Group].refs : t.id = job.work[m].id /\ t.id # NoId
      BY <1>2, <2>3 DEF SentRefs
    <3>2. m \in directory[Group].refs /\ m \in Resources
      BY <1>a, <3>1, ResourceFacts DEF JobSendsDirectory, IInv, TypeOK, Resource
    <3>3. Names(service', nextId', job.work[m].id, m)
      BY <1>a, <3>2, IdFacts DEF SafeExchange
    <3> QED BY <2>3, <3>1, <3>2, <3>3 DEF Names, Ours
  <2> QED BY <1>4, <1>5, <1>7, <2>1, <2>2, <2>3 DEF HeldAsSaved
<1> QED BY <1>6, <1>7

\* What is not written stays as it is.
LEMMA PutStays ==
    ASSUME IInv, CleanInv, SameElsewhere, SafeExchange, job # NoJob,
           NEW r \in Resources, NEW id, job.work[r].status = "live",
           Creating(job, r) \/ Found(job, r) # {},
           (Found(job, r) = {} /\ id = nextId) \/ \E s \in Found(job, r) : id = s.id,
           nextId' = nextId \/ nextId' = nextId + 1, service' = Put(r, id)
    PROVE  StaysAgreed
<1> DEFINE sent == [url |-> scim.url, id |-> id, ext |-> r, attrs |-> job.work[r].attrs,
                    refs |-> SentRefs(job, r)]
<1>1. service' = (service \ Found(job, r)) \union {sent}
  BY DEF Put
<1>2. sent.id = id /\ sent.refs = SentRefs(job, r)
  OBVIOUS
<1> HIDE DEF sent
<1>3. /\ nextId \in Nat /\ UNCHANGED <<directory, home>>
      /\ \A q \in Resources : Names(service', nextId', RowId[q], q)
                              /\ Names(service', nextId', WorkId[q], q)
  BY IdFacts, SyncBoundsAssumption DEF SafeExchange, SameElsewhere, IInv, TypeOK
<1>4. RefsWereDrawn'
  <2>1. ASSUME NEW s \in service, NEW i \in s.refs PROVE i < nextId'
    <3>1. i < nextId /\ i \in Nat
      BY ResourceFacts DEF CleanInv, RefsWereDrawn, IInv, TypeOK, RemoteResource
    <3> QED BY <1>3, <3>1
  <2>2. ASSUME NEW i \in sent.refs PROVE i < nextId'
    <3>1. PICK m \in job.work[r].refs : i = job.work[m].id /\ i # NoId
      BY <1>2 DEF SentRefs
    <3>2. m \in Resources
      BY <3>1, ResourceFacts DEF IInv, TypeOK, Job, WorkItem
    <3> QED BY <1>3, <3>1, <3>2, IdFacts DEF Names
  <2> QED BY <1>1, <2>1, <2>2 DEF RefsWereDrawn
<1>5. ASSUME scim.url = home, NEW q \in Resources, NEW s \in Ours, s.id = RowId[q]
      PROVE  \E t \in Ours' : t.id = RowId[q]
  <2>1. CASE s \in Found(job, r)
    <3>1. \A t \in Found(job, r) : t = s
      BY <2>1, FoundFacts DEF IInv
    <3>2. sent.id = s.id /\ sent.url = home
      BY <1>2, <1>5, <2>1, <3>1 DEF sent
    <3> QED BY <1>1, <1>3, <1>5, <3>2 DEF Ours
  <2>2. CASE s \notin Found(job, r)
    BY <1>1, <1>3, <1>5, <2>2 DEF Ours
  <2> QED BY <2>1, <2>2
<1>6. ASSUME AtHome, NEW ids, NEW q \in Live(directory), Names(service', nextId', ids[q], q),
             Created(ids, q), HeldAsSaved(Ours, ids, q),
             \A m \in Managers(r) : ids[m] # NoId => ids[m] = WorkId[m]
      PROVE  HeldAsSaved(Ours', ids, q)
  <2>1. q \in Resources /\ ids[q] # NoId /\ (q # r => HeldAsSaved(Ours, ids, q))
    BY <1>6 DEF Live, Created
  <2>2. q = r /\ r # Group => \A m \in Managers(r) : ids[m] = WorkId[m]
    BY <1>6 DEF Created
  <2>3. RefsWereDrawn /\ JobSendsDirectory /\ UNCHANGED <<directory, home>>
    BY <1>3 DEF CleanInv
  <2> QED BY <1>6, <2>1, <2>2, <2>3, PutAgrees
<1>7. ASSUME Quiet, AtHome, NEW q \in Live(directory), Created(RowId, q),
             HeldAsSaved(Ours, RowId, q)
      PROVE  HeldAsSaved(Ours', RowId, q)
  <2>1. \A m \in Managers(r) : RowId[m] # NoId => RowId[m] = WorkId[m]
    BY <1>7 DEF CleanInv, JobKeepsIds, Managers
  <2>2. Names(service', nextId', RowId[q], q)
    BY <1>3 DEF Live
  <2> QED BY <1>6, <1>7, <2>1, <2>2
<1>8. ASSUME AtHome, NEW q \in Live(directory), Created(WorkId, q), HeldAsSaved(Ours, WorkId, q)
      PROVE  HeldAsSaved(Ours', WorkId, q)
  <2>1. Names(service', nextId', WorkId[q], q)
    BY <1>3 DEF Live
  <2> QED BY <1>6, <1>8, <2>1
<1>9. CASE scim.url = home
  <2>1. AtHome
    BY <1>9 DEF AtHome
  <2> QED BY <1>4, <1>5, <1>7, <1>8, <1>9, <2>1 DEF StaysAgreed, Live
<1>10. CASE scim.url # home
  BY <1>3, <1>4, <1>10, ElsewhereStays DEF StaysAgreed, AtHome
<1> QED BY <1>9, <1>10

\* What is left of the service agrees as it did.
LEMMA FewerAgree ==
    ASSUME NEW held, NEW fewer \in SUBSET held, NEW ids, NEW q, HeldAsSaved(held, ids, q)
    PROVE  HeldAsSaved(fewer, ids, q)
  BY DEF HeldAsSaved

\* A deletion leaves what the directory has live.
LEMMA DeletionStays ==
    ASSUME IInv, CleanInv, SameElsewhere, job # NoJob, NEW r \in Resources,
           job.work[r].status = "deleted", job.work[r].id # NoId,
           service' = service \ HeldBy(job.work[r].id), UNCHANGED nextId
    PROVE  StaysAgreed
<1>1. Ours' \subseteq Ours /\ RefsWereDrawn'
  BY DEF CleanInv, RefsWereDrawn, SameElsewhere, Ours
<1>2. \A s \in HeldBy(job.work[r].id) : s.ext = r
  BY DEF IInv, JobNamesItsOwn, Names, HeldBy, Held
<1>3. directory[r].status # "live"
  BY DEF IInv, JobFollowsDirectory
<1>4. ASSUME NEW q \in Live(directory), NEW s \in Ours, s.id = RowId[q], RowId[q] # NoId
      PROVE  s \in Ours'
  BY <1>2, <1>3, <1>4, IdFacts DEF Names, Live, SameElsewhere, Ours
<1> QED BY <1>1, <1>4, FewerAgree DEF StaysAgreed

\* Where nothing is exchanged, nothing changes at the service.
LEMMA NoExchangeStays ==
    ASSUME CleanInv, SameElsewhere, UNCHANGED <<service, nextId>>
    PROVE  StaysAgreed
<1>1. RefsWereDrawn' /\ Ours' = Ours
  BY DEF CleanInv, RefsWereDrawn, SameElsewhere, Ours
<1> QED BY <1>1 DEF StaysAgreed

-----------------------------------------------------------------------------
(* The steps of a job keep it.                                             *)

\* It is enough to look at the job, where an exchange leaves what is clean.
LEMMA WalkAgrees ==
    ASSUME IInv, CleanInv, job # NoJob, SameElsewhere, StaysAgreed, SameJob(job, job'),
           JobSendsDirectory', JobKeepsIds', CleanWorkAgrees'
    PROVE  CleanInv'
<1>1. RowId' = RowId /\ Quiet' = Quiet /\ UNCHANGED <<directory, rows>>
  BY DEF SameElsewhere, RowId, Quiet
<1>2. RowsHeld'
  <2> SUFFICES ASSUME Quiet, NEW r \in Resources, RowId[r] # NoId, directory[r].status = "live"
               PROVE  \E s \in Ours' : s.id = RowId[r]
    BY <1>1, SyncNullsAssumption DEF RowsHeld, SameJob
  <2>1. r \in Live(directory) /\ \E s \in Ours : s.id = RowId[r]
    BY DEF CleanInv, RowsHeld, Live
  <2> QED BY <2>1 DEF StaysAgreed
<1>3. CleanRowsAgree'
  <2> SUFFICES ASSUME Quiet, NEW r \in Live(directory), rows[r] # NoRow, ~rows[r].dirty
               PROVE  Created(RowId, r)' /\ HeldAsSaved(Ours, RowId, r)'
    BY <1>1 DEF CleanRowsAgree, Live
  <2>1. Created(RowId, r) /\ HeldAsSaved(Ours', RowId, r)
    BY DEF CleanInv, CleanRowsAgree, StaysAgreed
  <2> QED BY <1>1, <2>1 DEF Created, HeldAsSaved, Managers, Live
<1> QED BY <1>2, <1>3 DEF CleanInv, StaysAgreed

\* A step that keeps every ID and makes nothing clean.
LEMMA KeepingAgrees ==
    ASSUME IInv, CleanInv, job # NoJob, SameElsewhere, StaysAgreed, SameJob(job, job'),
           job'.todo \subseteq job.todo, job'.awaiting \subseteq job.awaiting, Keeps(job, job'),
           \A q \in Resources : /\ job'.work[q].id = job.work[q].id
                                /\ job'.work[q].refs \subseteq job.work[q].refs
                                /\ directory[q].status = "live" /\ job.work[q].dirty
                                      => job'.work[q].dirty
    PROVE  CleanInv'
<1>1. /\ RowId' = RowId /\ WorkId' = WorkId /\ Quiet' = Quiet /\ UNCHANGED directory
      /\ job' # NoJob /\ Group \in Resources /\ AtHome' = AtHome
      /\ \A q \in Resources : WritesBack(job', q) = WritesBack(job, q)
  BY ResourceFacts, SyncNullsAssumption DEF SameElsewhere, RowId, WorkId, Quiet, AtHome, SameJob,
                                            WritesBack
<1>2. JobSendsDirectory'
  BY <1>1 DEF CleanInv, JobSendsDirectory, Keeps, Managers, Live
<1>3. JobKeepsIds'
  BY <1>1 DEF CleanInv, JobKeepsIds, Live
<1>4. CleanWorkAgrees'
  <2> SUFFICES ASSUME Quiet, AtHome, NEW r \in Live(directory), WritesBack(job, r), ~job'.work[r].dirty
               PROVE  /\ WorkId[r] # NoId
                      /\ r \in job'.awaiting \/ (Created(WorkId, r)' /\ HeldAsSaved(Ours, WorkId, r)')
    BY <1>1 DEF CleanWorkAgrees, Live
  <2>1. r \in Resources /\ ~job.work[r].dirty /\ (r \in job'.awaiting \/ r \notin job.awaiting)
    BY DEF Live, Keeps
  <2>2. WorkId[r] # NoId /\ (r \in job.awaiting \/ (Created(WorkId, r) /\ HeldAsSaved(Ours, WorkId, r)))
    BY <2>1 DEF CleanInv, CleanWorkAgrees
  <2>3. r \in job'.awaiting \/ (Created(WorkId, r) /\ HeldAsSaved(Ours', WorkId, r))
    BY <2>1, <2>2 DEF StaysAgreed
  <2> QED BY <1>1, <2>2, <2>3 DEF Created, HeldAsSaved, Managers, Live
<1> QED BY <1>2, <1>3, <1>4, WalkAgrees

\* A job that drops a resource from its copy keeps what its items stand for.
LEMMA ForgettingAgrees ==
    ASSUME IInv, CleanInv, NEW r \in Resources, Walking(r), SameElsewhere, StaysAgreed,
           job.work[r].status = "deleted", job' = WithoutResource(job, r)
    PROVE  CleanInv'
<1>1. job # NoJob /\ job \in Job /\ r \notin job.work[Group].refs
  BY WalkingFacts, NotMember
<1>2. /\ SameJob(job, job') /\ job'.awaiting \subseteq job.awaiting /\ job'.todo \subseteq job.todo
      /\ Keeps(job, job') /\ job'.work[r].id = job.work[r].id
      /\ job'.work[r].refs \subseteq job.work[r].refs
      /\ \A q \in Resources \ {r} : SameItem(job.work[q], job'.work[q])
  BY <1>1, WithoutFacts
<1>3. directory[r].status # "live"
  BY <1>1 DEF IInv, JobFollowsDirectory
<1>4. \A q \in Resources :
         /\ job'.work[q].id = job.work[q].id /\ job'.work[q].refs \subseteq job.work[q].refs
         /\ directory[q].status = "live" /\ job.work[q].dirty => job'.work[q].dirty
  BY <1>2, <1>3 DEF SameItem
<1> QED BY <1>1, <1>2, <1>4, KeepingAgrees

\* A step that keeps every item of the copy.
LEMMA SameItemsAgree ==
    ASSUME IInv, CleanInv, job # NoJob, SameElsewhere, StaysAgreed, SameJob(job, job'),
           job'.todo \subseteq job.todo, job'.awaiting \subseteq job.awaiting, Keeps(job, job'),
           \A q \in Resources : SameItem(job.work[q], job'.work[q])
    PROVE  CleanInv'
<1>1. \A q \in Resources :
         /\ job'.work[q].id = job.work[q].id /\ job'.work[q].refs \subseteq job.work[q].refs
         /\ directory[q].status = "live" /\ job.work[q].dirty => job'.work[q].dirty
  BY DEF SameItem
<1> QED BY <1>1, KeepingAgrees

\* So does one whose exchange failed,
LEMMA FailingAgrees ==
    ASSUME IInv, CleanInv, NEW r \in Resources, NEW outcome, job # NoJob, SameElsewhere,
           StaysAgreed, job' = Failed(job, r, outcome)
    PROVE  CleanInv'
<1>1. job \in Job
  BY DEF IInv, TypeOK
<1>2. /\ SameJob(job, job') /\ job'.todo \subseteq job.todo /\ job'.awaiting \subseteq job.awaiting
      /\ Keeps(job, job') /\ \A q \in Resources : SameItem(job.work[q], job'.work[q])
  BY <1>1, FailedFacts
<1> QED BY <1>2, SameItemsAgree

\* that had nothing to delete,
LEMMA ForgetAgrees == ASSUME IInv, CleanInv, NEW r \in Resources, Forget(r) PROVE CleanInv'
<1>1. /\ Walking(r) /\ SameElsewhere /\ job.work[r].status = "deleted"
      /\ job' = WithoutResource(job, r) /\ StaysAgreed
  BY NoExchangeStays DEF Forget
<1> QED BY <1>1, ForgettingAgrees

\* that could not write,
LEMMA RefuseAgrees == ASSUME IInv, CleanInv, NEW r \in Resources, Refuse(r) PROVE CleanInv'
<1>1. job # NoJob /\ SameElsewhere /\ StaysAgreed /\ job' = Failed(job, r, "refused")
  BY NoExchangeStays DEF Refuse, Walking
<1> QED BY <1>1, FailingAgrees

\* or that deleted.
LEMMA DeleteRemoteAgrees ==
    ASSUME IInv, CleanInv, NEW r \in Resources, NEW outcome, DeleteRemote(r, outcome)
    PROVE  CleanInv'
<1>1. /\ UNCHANGED nextId /\ Walking(r) /\ job # NoJob /\ SameElsewhere
      /\ job.work[r].status = "deleted" /\ job.work[r].id # NoId
      /\ service' = IF Effective(outcome) THEN service \ HeldBy(job.work[r].id) ELSE service
      /\ job' = IF outcome = "ok" THEN WithoutResource(job, r) ELSE Failed(job, r, outcome)
  BY DEF DeleteRemote, Walking
<1>2. StaysAgreed
  BY <1>1, DeletionStays, NoExchangeStays
<1> QED BY <1>1, <1>2, ForgettingAgrees, FailingAgrees

\* IDs that stay the same stand for the same.
LEMMA SameIdsAgree ==
    ASSUME NEW held, NEW ids, NEW jds, NEW q, Created(ids, q), HeldAsSaved(held, ids, q),
           jds[q] = ids[q], q # Group => \A m \in Managers(q) : jds[m] = ids[m]
    PROVE  Created(jds, q) /\ HeldAsSaved(held, jds, q)
  BY DEF Created, HeldAsSaved

\* While nothing that a row knows has vanished, only what has no ID is created.
LEMMA CreatingFacts ==
    ASSUME IInv, CleanInv, Quiet, AtHome, NEW r \in Resources, Walking(r),
           job.work[r].status = "live", Creating(job, r)
    PROVE  WorkId[r] = NoId
<1>1. job # NoJob /\ r \in job.todo
  BY WalkingFacts
<1>2. directory[r].status = "live" /\ Held = Ours /\ WorkId[r] = job.work[r].id
  BY <1>1, OneHolder, IdFacts DEF AtHome, IInv, JobFollowsDirectory
<1>3. WorkId[r] = RowId[r]
  BY <1>1 DEF CleanInv, JobSendsDirectory
<1>4. RowId[r] # NoId => \E s \in Ours : s.id = RowId[r]
  BY <1>2 DEF CleanInv, RowsHeld
<1> QED BY <1>2, <1>3, <1>4 DEF Creating, HeldBy

\* A walk that writes a resource, which is clean then.
LEMMA WritingAgrees ==
    ASSUME IInv, IInv', CleanInv, NEW r \in Resources, Walking(r), SameElsewhere,
           SafeExchange, StaysAgreed, job.work[r].status = "live",
           NEW id, Creating(job, r) \/ Found(job, r) # {},
           (Found(job, r) = {} /\ id = nextId) \/ \E s \in Found(job, r) : id = s.id,
           service' = Put(r, id),
           NEW own \in Ids, own = IF Creating(job, r) THEN id ELSE job.work[r].id,
           NEW waiting \in SUBSET Users,
           waiting = IF r \in Users /\ AwaitsManager(job, r) THEN job.awaiting \union {r}
                     ELSE job.awaiting,
           job' = Written(job, r, own, waiting)
    PROVE  CleanInv'
<1>1. job # NoJob /\ job \in Job /\ r \in job.todo /\ WritesBack(job, r)
  BY WalkingFacts
<1>2. /\ SameJob(job, job') /\ job'.awaiting = waiting /\ job'.todo = job.todo \ {r}
      /\ SameItemsBut(job, job', r, own)
  BY <1>1, WrittenFacts
<1>3. /\ RowId' = RowId /\ Quiet' = Quiet /\ UNCHANGED <<directory, home>>
      /\ job' # NoJob /\ Group \in Resources /\ NoId \notin Ids /\ AtHome' = AtHome
      /\ \A q \in Resources : WritesBack(job', q) = WritesBack(job, q)
  <2>1. RowId' = RowId /\ Quiet' = Quiet /\ UNCHANGED <<directory, home, scim>>
    BY DEF SameElsewhere, RowId, Quiet
  <2>2. job' # NoJob /\ \A q \in Resources : WritesBack(job', q) = WritesBack(job, q)
    BY <1>2, SyncNullsAssumption DEF SameJob, WritesBack
  <2>3. AtHome' = AtHome
    BY <1>1, <2>1, <2>2 DEF AtHome
  <2> QED BY <2>1, <2>2, <2>3, ResourceFacts
<1>4. \A q \in Resources : WorkId'[q] = IF q = r THEN own ELSE WorkId[q]
  BY <1>2 DEF WorkId, SameItemsBut
<1>5. ASSUME Quiet, AtHome, NEW q \in Resources, WorkId[q] # NoId PROVE WorkId'[q] = WorkId[q]
  <2>1. q = r => ~Creating(job, r)
    BY <1>5, CreatingFacts
  <2> QED BY <1>1, <1>4, <2>1, IdFacts
<1>6. \A q \in Resources : job.work[q].status = "live" <=> directory[q].status = "live"
  BY <1>1 DEF IInv, JobFollowsDirectory
<1>7. /\ \A u \in Users : job.work[u].refs = directory[u].refs
      /\ job.work[Group].refs \subseteq directory[Group].refs
      /\ \A q \in Resources : q \in job.todo \/ ~WritesBack(job, q) => WorkId[q] = RowId[q]
      /\ \A u \in job.awaiting : Managers(u) # {}
  BY <1>1 DEF CleanInv, JobSendsDirectory
<1>8. \A u \in Users : \A m \in directory[u].refs : m \in Resources
  BY ResourceFacts DEF IInv, TypeOK, Resource
<1>9. r \in Users /\ AwaitsManager(job, r) <=> r # Group /\ \E m \in Managers(r) : WorkId[m] = NoId
  <2>1. r \in Users <=> r # Group
    BY ResourceFacts DEF Resources
  <2>2. ASSUME r \in Users
        PROVE  AwaitsManager(job, r) <=> \E m \in Managers(r) : WorkId[m] = NoId
    <3>1. \A m \in directory[r].refs : /\ m \in Resources /\ WorkId[m] = job.work[m].id
                                       /\ m \in Managers(r) <=> job.work[m].status = "live"
      BY <1>1, <1>6, <1>8, <2>2, IdFacts DEF Managers, Live
    <3> QED BY <1>7, <2>2, <3>1 DEF AwaitsManager, Managers
  <2> QED BY <2>1, <2>2
<1>10. JobSendsDirectory'
  <2>1. \A u \in Users : job'.work[u].refs = directory[u].refs
    <3>1. \A u \in Users : u \in Resources
      BY ResourceFacts
    <3>2. \A q \in Resources : job'.work[q].refs = job.work[q].refs
      BY <1>2 DEF SameItemsBut
    <3> QED BY <1>7, <3>1, <3>2
  <2>2. job'.work[Group].refs \subseteq directory[Group].refs
    BY <1>2, <1>3, <1>7 DEF SameItemsBut
  <2>3. \A q \in Resources : q \in job'.todo \/ ~WritesBack(job, q) => WorkId'[q] = RowId[q]
    BY <1>1, <1>2, <1>4, <1>7
  <2>4. \A u \in job'.awaiting : Managers(u) # {}
    BY <1>2, <1>7, <1>9
  <2> QED BY <1>3, <2>1, <2>2, <2>3, <2>4 DEF JobSendsDirectory, Managers, Live
<1>11. JobKeepsIds'
  <2>1. ASSUME Quiet, AtHome, NEW q \in Live(directory), RowId[q] # NoId PROVE WorkId'[q] = RowId[q]
    <3>1. WorkId[q] = RowId[q] /\ q \in Resources
      BY <1>1, <2>1 DEF CleanInv, JobKeepsIds, Live
    <3> QED BY <1>5, <2>1, <3>1
  <2> QED BY <1>3, <2>1 DEF JobKeepsIds, Live
<1>12. CleanWorkAgrees'
  <2>a. \A q \in Resources :
           /\ Created(WorkId', q) => Created(WorkId, q)'
           /\ HeldAsSaved(Ours', WorkId', q) => HeldAsSaved(Ours, WorkId, q)'
    BY <1>3 DEF Live, Created, HeldAsSaved, Managers
  <2> SUFFICES ASSUME Quiet, AtHome, NEW q \in Live(directory), WritesBack(job, q),
                      ~job'.work[q].dirty
               PROVE  /\ WorkId'[q] # NoId
                      /\ q \in job'.awaiting
                           \/ (Created(WorkId', q) /\ HeldAsSaved(Ours', WorkId', q))
    BY <1>3, <2>a DEF CleanWorkAgrees, Live
  <2>1. q \in Resources
    BY DEF Live
  <2>2. CASE q = r
    <3>1. WorkId'[q] = own /\ own # NoId
      BY <1>3, <1>4, <2>1, <2>2
    <3>2. CASE r \in job'.awaiting
      BY <2>2, <3>1, <3>2
    <3>3. CASE r \notin job'.awaiting
      <4>1. r # Group => \A m \in Managers(r) : WorkId[m] # NoId
        BY <1>2, <1>9, <3>3
      <4>2. r # Group => \A m \in Managers(r) : WorkId'[m] = WorkId[m]
        BY <1>5, <4>1 DEF Managers, Live
      <4>3. Created(WorkId', r)
        BY <2>2, <3>1, <4>1, <4>2 DEF Created
      <4>4. Names(service', nextId', WorkId'[r], r)
        BY <1>3, <3>1, <2>2, <1>2 DEF IInv, JobNamesItsOwn, SameItemsBut
      <4>5. HeldAsSaved(Ours', WorkId', r)
        <5>1. RefsWereDrawn /\ JobSendsDirectory /\ WorkId'[r] # NoId
          BY <2>2, <3>1 DEF CleanInv
        <5> QED BY <1>1, <1>3, <4>2, <4>4, <5>1, PutAgrees
      <4> QED BY <2>2, <3>1, <4>3, <4>5
    <3> QED BY <3>2, <3>3
  <2>3. CASE q # r
    <3>1. ~job.work[q].dirty /\ (q \in job.awaiting => q \in job'.awaiting)
      BY <1>2, <2>1, <2>3 DEF SameItemsBut
    <3>2. WorkId[q] # NoId /\ WorkId'[q] = WorkId[q]
      BY <1>1, <1>5, <2>1, <3>1 DEF CleanInv, CleanWorkAgrees
    <3>3. CASE q \notin job.awaiting
      <4>1. Created(WorkId, q) /\ HeldAsSaved(Ours', WorkId, q)
        BY <1>1, <3>1, <3>3 DEF CleanInv, CleanWorkAgrees, StaysAgreed
      <4>2. q # Group => \A m \in Managers(q) : WorkId'[m] = WorkId[m]
        BY <1>5, <4>1 DEF Created, Managers, Live
      <4> QED BY <3>2, <4>1, <4>2, SameIdsAgree
    <3> QED BY <3>1, <3>2, <3>3
  <2> QED BY <2>2, <2>3
<1> QED BY <1>1, <1>2, <1>10, <1>11, <1>12, WalkAgrees

\* A write, whatever becomes of the exchange.
LEMMA WriteAgrees ==
    ASSUME IInv, IInv', CleanInv, NEW r \in Resources, NEW outcome, Write(r, outcome)
    PROVE  CleanInv'
<1> DEFINE new == Found(job, r) = {}
           id == IF new THEN nextId ELSE (CHOOSE s \in Found(job, r) : TRUE).id
           waiting == IF r \in Users /\ AwaitsManager(job, r) THEN job.awaiting \union {r}
                      ELSE job.awaiting
           own == IF Creating(job, r) THEN id ELSE job.work[r].id
<1>1. /\ Walking(r) /\ job.work[r].status = "live" /\ Sendable(job, r)
      /\ new => nextId <= MaxIds
      /\ outcome \in Outcomes /\ SameElsewhere
      /\ service' = IF Effective(outcome) THEN Put(r, id) ELSE service
      /\ nextId' = IF new /\ Effective(outcome) THEN nextId + 1 ELSE nextId
      /\ outcome = "ok" =>
            job' = [job EXCEPT !.work[r].id = own, !.work[r].dirty = FALSE,
                               !.todo = @ \ {r}, !.awaiting = waiting]
      /\ outcome # "ok" => job' = Failed(job, r, outcome)
  BY DEF Write
<1> HIDE DEF id, waiting, own
<1>2. job # NoJob /\ job \in Job /\ UNCHANGED <<directory, known, home, dropped>>
  BY <1>1, WalkingFacts DEF SameElsewhere
<1>3. Creating(job, r) \/ Found(job, r) # {}
  BY <1>1 DEF Sendable
<1>4. \/ Found(job, r) = {} /\ id = nextId /\ nextId <= MaxIds
      \/ Found(job, r) # {} /\ \E s \in Found(job, r) : id = s.id
  BY <1>1 DEF id
<1>5. CASE Effective(outcome)
  <2>1. service' = Put(r, id) /\ (nextId' = nextId \/ nextId' = nextId + 1)
    BY <1>1, <1>5
  <2>2. SafeExchange
    BY <1>1, <1>2, <1>3, <1>4, <1>5, PutIsSafe DEF IInv
  <2>3. StaysAgreed
    BY <1>1, <1>2, <1>3, <1>4, <2>1, <2>2, PutStays
  <2>4. CASE outcome = "ok"
    <3>1. \E s \in service' : s.id = id
      <4>1. [url |-> scim.url, id |-> id, ext |-> r, attrs |-> job.work[r].attrs,
             refs |-> SentRefs(job, r)] \in service'
        BY <2>1 DEF Put
      <4> QED BY <4>1
    <3>2. own \in Ids /\ waiting \in SUBSET Users
      BY <1>2, <2>2, <3>1 DEF own, waiting, Creating, SafeExchange, RemoteResource, Job, WorkItem
    <3>3. job' = Written(job, r, own, waiting)
      BY <1>1, <2>4 DEF Written
    <3>4. own = IF Creating(job, r) THEN id ELSE job.work[r].id
      BY DEF own
    <3>5. waiting = IF r \in Users /\ AwaitsManager(job, r) THEN job.awaiting \union {r}
                    ELSE job.awaiting
      BY DEF waiting
    <3> QED BY <1>1, <1>3, <1>4, <2>1, <2>2, <2>3, <3>2, <3>3, <3>4, <3>5, WritingAgrees
  <2>5. CASE outcome # "ok"
    BY <1>1, <1>2, <2>3, <2>5, FailingAgrees
  <2> QED BY <2>4, <2>5
<1>6. CASE ~Effective(outcome)
  <2>1. outcome # "ok" /\ StaysAgreed
    BY <1>1, <1>6, NoExchangeStays DEF Effective
  <2> QED BY <1>1, <1>2, <2>1, FailingAgrees
<1> QED BY <1>5, <1>6

\* A user that was sent with its managers is as the directory has it.
LEMMA SentAgrees ==
    ASSUME IInv, CleanInv, NEW u \in Users, job # NoJob, SameElsewhere,
           SafeExchange, StaysAgreed, u \in job.awaiting, ~AwaitsManager(job, u),
           NEW id, \E s \in Found(job, u) : id = s.id, service' = Put(u, id),
           job' = [job EXCEPT !.awaiting = @ \ {u}]
    PROVE  CleanInv'
<1>1. job \in Job /\ u \in Resources /\ u # Group /\ UNCHANGED <<directory, home>>
  BY ResourceFacts DEF IInv, TypeOK, SameElsewhere
<1>2. SameJob(job, job') /\ job'.awaiting = job.awaiting \ {u} /\ job'.todo = job.todo
      /\ job'.work = job.work
  BY <1>1 DEF Job, SameJob
<1>3. /\ RowId' = RowId /\ WorkId' = WorkId /\ Quiet' = Quiet
      /\ AtHome' = AtHome
      /\ job' # NoJob /\ \A q \in Resources : WritesBack(job', q) = WritesBack(job, q)
  BY <1>2, SyncNullsAssumption DEF SameElsewhere, RowId, WorkId, Quiet, AtHome, SameJob,
                                        WritesBack
<1>4. JobSendsDirectory'
  BY <1>1, <1>2, <1>3 DEF CleanInv, JobSendsDirectory, Managers, Live
<1>5. JobKeepsIds'
  BY <1>1, <1>3 DEF CleanInv, JobKeepsIds, Live
<1>6. \A m \in Managers(u) : WorkId[m] # NoId
  <2>1. job.work[u].refs = directory[u].refs /\ directory[u].refs \subseteq Resources
    BY <1>1, ResourceFacts DEF CleanInv, JobSendsDirectory, IInv, TypeOK, Resource
  <2>2. \A m \in Managers(u) : m \in job.work[u].refs /\ job.work[m].status = "live"
                               /\ WorkId[m] = job.work[m].id
    BY <2>1, IdFacts DEF Managers, Live, IInv, JobFollowsDirectory
  <2> QED BY <2>2 DEF AwaitsManager
<1>7. ASSUME AtHome, WorkId[u] # NoId PROVE Created(WorkId, u) /\ HeldAsSaved(Ours', WorkId, u)
  <2>1. job.work[u].status = "live"
    BY <1>1 DEF IInv, JobFollowsDirectory, TypeOK, Resource
  <2>2. Names(service', nextId', WorkId[u], u)
    BY <1>1, IdFacts DEF SafeExchange
  <2>3. RefsWereDrawn /\ JobSendsDirectory /\ Found(job, u) # {}
    BY DEF CleanInv
  <2>4. HeldAsSaved(Ours', WorkId, u)
    BY <1>1, <1>7, <2>1, <2>2, <2>3, PutAgrees
  <2> QED BY <1>6, <1>7, <2>4 DEF Created
<1>8. CleanWorkAgrees'
  <2>a. \A q \in Resources :
           /\ Created(WorkId, q) => Created(WorkId, q)'
           /\ HeldAsSaved(Ours', WorkId, q) => HeldAsSaved(Ours, WorkId, q)'
    BY <1>1, <1>3 DEF Live, Created, HeldAsSaved, Managers
  <2> SUFFICES ASSUME Quiet, AtHome, NEW q \in Live(directory), WritesBack(job, q),
                      ~job.work[q].dirty
               PROVE  /\ WorkId[q] # NoId
                      /\ q \in job'.awaiting
                           \/ (Created(WorkId, q) /\ HeldAsSaved(Ours', WorkId, q))
    BY <1>1, <1>2, <1>3, <2>a DEF CleanWorkAgrees, Live
  <2>1. WorkId[q] # NoId
        /\ (q \in job.awaiting \/ (Created(WorkId, q) /\ HeldAsSaved(Ours, WorkId, q)))
    BY DEF CleanInv, CleanWorkAgrees
  <2> QED BY <1>2, <1>7, <2>1 DEF StaysAgreed
<1> QED BY <1>2, <1>4, <1>5, <1>8, WalkAgrees

\* sendAwaitedManagers, whatever becomes of the exchange.
LEMMA SendAwaitedAgrees ==
    ASSUME IInv, CleanInv, NEW u \in Users, NEW outcome, SendAwaited(u, outcome)
    PROVE  CleanInv'
<1> DEFINE live == \E m \in job.work[u].refs : job.work[m].status = "live"
           sendable == AwaitsManager(job, u) = FALSE
           sends == live /\ sendable /\ Found(job, u) # {}
           done == [job EXCEPT !.awaiting = @ \ {u}]
           dirty == job.work[u].dirty \/ live
           failed == job.failed \/ (live /\ sendable)
           own == (CHOOSE s \in Found(job, u) : TRUE).id
<1>1. /\ job # NoJob /\ job.awaiting # {} /\ u = Min(job.awaiting) /\ UNCHANGED nextId
      /\ SameElsewhere
      /\ sends => /\ outcome \in Outcomes
                  /\ service' = IF Effective(outcome) THEN Put(u, own) ELSE service
                  /\ job' = CASE outcome = "ok" -> done
                              [] outcome \in {"stop", "stopLate"} -> Halted(job)
                              [] OTHER -> [done EXCEPT !.work[u].dirty = TRUE, !.failed = TRUE]
      /\ ~sends => /\ UNCHANGED service
                   /\ job' = [done EXCEPT !.work[u].dirty = @ \/ live,
                                          !.failed = @ \/ (live /\ sendable)]
  BY DEF SendAwaited
<1>2. job \in Job /\ UNCHANGED <<directory, known, home, dropped>> /\ u \in Resources
  BY <1>1, ResourceFacts DEF IInv, TypeOK, SameElsewhere
<1>3. u \in job.awaiting
  <2>1. job.awaiting \in SUBSET Nat
    BY <1>2, ResourceFacts DEF Job
  <2> QED BY <1>1, <2>1, MinFacts
<1>4. directory[u].status = "live" /\ job.work[u].status = "live"
  BY <1>1, <1>2, <1>3 DEF IInv, JobFollowsDirectory, TypeOK, Resource
<1>5. live
  <2>1. PICK m \in Managers(u) : TRUE
    BY <1>1, <1>3 DEF CleanInv, JobSendsDirectory
  <2>2. m \in job.work[u].refs /\ m \in Resources /\ directory[m].status = "live"
    BY <1>1, <2>1 DEF CleanInv, JobSendsDirectory, Managers, Live
  <2>3. job.work[m].status = "live"
    BY <1>1, <2>2 DEF IInv, JobFollowsDirectory
  <2> QED BY <2>2, <2>3
<1>6. job.work[u].dirty \in BOOLEAN /\ failed \in BOOLEAN
  BY <1>2 DEF Job, WorkItem
<1> HIDE DEF own
<1>7. ASSUME NEW f \in BOOLEAN, job' = Dropped(job, u, TRUE, f), StaysAgreed PROVE CleanInv'
  <2>1. /\ SameJob(job, job') /\ job'.awaiting \subseteq job.awaiting /\ job'.todo \subseteq job.todo
        /\ Keeps(job, job') /\ \A q \in Resources : SameItem(job.work[q], job'.work[q])
    BY <1>2, <1>7, DroppedFacts
  <2> QED BY <1>1, <1>7, <2>1, SameItemsAgree
<1>8. CASE sends
  <2>1. \E s \in Found(job, u) : own = s.id
    BY <1>8 DEF own
  <2>2. SafeExchange /\ StaysAgreed
    <3>1. CASE Effective(outcome)
      <4>1. SafeExchange
        BY <1>1, <1>2, <1>8, <2>1, <3>1, PutIsSafe DEF IInv
      <4> QED BY <1>1, <1>2, <1>4, <1>8, <2>1, <3>1, <4>1, PutStays
    <3>2. CASE ~Effective(outcome)
      BY <1>1, <1>2, <1>8, <3>2, NoExchangeIsSafe, NoExchangeStays DEF IInv
    <3> QED BY <3>1, <3>2
  <2>3. CASE outcome = "ok"
    <3>1. job' = [job EXCEPT !.awaiting = @ \ {u}] /\ service' = Put(u, own)
      BY <1>1, <1>8, <2>3 DEF Effective
    <3> QED BY <1>1, <1>3, <1>8, <2>1, <2>2, <3>1, SentAgrees
  <2>4. CASE outcome \in {"stop", "stopLate"}
    <3>1. job' = Halted(job)
      BY <1>1, <1>8, <2>4
    <3>2. /\ SameJob(job, job') /\ job'.awaiting \subseteq job.awaiting /\ job'.todo \subseteq job.todo
          /\ Keeps(job, job') /\ \A q \in Resources : SameItem(job.work[q], job'.work[q])
      BY <1>2, <3>1, HaltedFacts
    <3> QED BY <1>1, <2>2, <3>2, SameItemsAgree
  <2>5. CASE outcome \notin {"ok", "stop", "stopLate"}
    <3>1. job' = Dropped(job, u, TRUE, TRUE)
      BY <1>1, <1>2, <1>8, <2>5 DEF Dropped, Job
    <3> QED BY <1>7, <2>2, <3>1
  <2> QED BY <2>3, <2>4, <2>5
<1>9. CASE ~sends
  <2>1. StaysAgreed
    BY <1>1, <1>9, NoExchangeStays
  <2>2. job' = Dropped(job, u, dirty, failed)
    BY <1>1, <1>2, <1>9 DEF Dropped, Job
  <2>3. dirty = TRUE
    BY <1>5, <1>6
  <2> HIDE DEF dirty, failed
  <2> QED BY <1>6, <1>7, <2>1, <2>2, <2>3
<1> QED BY <1>8, <1>9

\* A cancelled job keeps its copy.
LEMMA CancelAgrees == ASSUME IInv, CleanInv, Cancel PROVE CleanInv'
<1>1. /\ job # NoJob /\ job \in Job /\ SameElsewhere /\ StaysAgreed
      /\ job' = [job EXCEPT !.cancelled = TRUE]
  BY NoExchangeStays DEF Cancel, IInv, TypeOK
<1>2. SameJob(job, job') /\ job'.awaiting = job.awaiting /\ job'.todo = job.todo
      /\ job'.work = job.work
  BY <1>1 DEF Job, SameJob
<1>3. Keeps(job, job') /\ \A q \in Resources : SameItem(job.work[q], job'.work[q])
  BY <1>2 DEF Keeps, SameItem
<1> QED BY <1>1, <1>2, <1>3, SameItemsAgree

-----------------------------------------------------------------------------
(* So do the other steps.                                                  *)

\* A job starts from what the rows remember.
LEMMA StartJobAgrees ==
    ASSUME IInv, CleanInv, NEW kind \in {"sync", "reconcile", "push"}, NEW target \in Resources,
           StartJob(kind, target)
    PROVE  CleanInv'
<1> DEFINE projected == Projected(directory, rows)
           work == IF kind = "push" THEN Restricted(projected, target) ELSE projected
<1>1. /\ job = NoJob /\ enabled
      /\ job' # NoJob => /\ job'.kind = kind /\ job'.target = target /\ job'.work = work
                         /\ job'.awaiting = {}
      /\ UNCHANGED <<directory, rows, service, nextId, imports, vanished, home>>
  BY DEF StartJob
<1>2. /\ directory \in [Resources -> Resource] /\ rows \in [Resources -> Row \union {NoRow}]
      /\ \A r \in Resources : rows[r] # NoRow /\ rows[r].deleted => directory[r].status = "deleted"
  BY DEF IInv, TypeOK, RowsFollowDirectory
<1>3. \A r \in Resources :
         /\ projected[r] \in WorkItem
         /\ projected[r].refs \subseteq directory[r].refs
         /\ r # Group => projected[r].refs = directory[r].refs
         /\ projected[r].id = RowId[r]
         /\ projected[r].dirty = (rows[r] = NoRow \/ rows[r].dirty)
  BY <1>2, ProjectedFacts DEF RowId
<1> HIDE DEF projected
<1>4. \A r \in Resources :
         /\ work[r].refs \subseteq directory[r].refs
         /\ r # Group => work[r].refs = directory[r].refs
         /\ work[r].id = RowId[r]
         /\ (kind # "push" \/ r = target) /\ ~work[r].dirty => rows[r] # NoRow /\ ~rows[r].dirty
  <2>1. CASE kind # "push"
    BY <1>3, <2>1
  <2>2. CASE kind = "push"
    <3> SUFFICES ASSUME NEW r \in Resources
                 PROVE  /\ work[r].refs = projected[r].refs /\ work[r].id = projected[r].id
                        /\ work[r].dirty = (r = target)
      BY <1>3, <2>2
    <3>1. work[r] = [projected[r] EXCEPT !.dirty = (r = target)] /\ projected[r] \in WorkItem
      BY <1>3, <2>2 DEF Restricted
    <3> HIDE DEF work
    <3> QED BY <3>1 DEF WorkItem
  <2> QED BY <2>1, <2>2
<1> HIDE DEF work
<1>5. /\ RowId' = RowId /\ Quiet' = Quiet /\ Ours' = Ours
      /\ job' # NoJob => \A r \in Resources : WorkId'[r] = RowId[r]
  BY <1>1, <1>4 DEF RowId, Quiet, WorkId, Ours
<1>6. RefsWereDrawn' /\ RowsHeld'
  BY <1>1, <1>5 DEF CleanInv, RefsWereDrawn, RowsHeld
<1>7. JobSendsDirectory'
  BY <1>1, <1>4, <1>5, ResourceFacts DEF JobSendsDirectory
<1>8. JobKeepsIds'
  BY <1>1, <1>5 DEF AtHome, JobKeepsIds, Live
<1>9. CleanRowsAgree'
  BY <1>1, <1>5 DEF CleanInv, CleanRowsAgree, Created, HeldAsSaved, Managers, Live
<1>10. CleanWorkAgrees'
  <2>a. job' # NoJob => \A q \in Resources :
           /\ Created(WorkId', q) => Created(WorkId, q)'
           /\ HeldAsSaved(Ours', WorkId', q) => HeldAsSaved(Ours, WorkId, q)'
    BY <1>1, <1>5 DEF Live, Created, HeldAsSaved, Managers
  <2> SUFFICES ASSUME Quiet, job' # NoJob, NEW r \in Live(directory), WritesBack(job', r),
                      ~work[r].dirty
               PROVE  Created(WorkId', r) /\ HeldAsSaved(Ours', WorkId', r)
    BY <1>1, <1>5, <2>a DEF AtHome, CleanWorkAgrees, Live, Created
  <2>1. r \in Resources /\ rows[r] # NoRow /\ ~rows[r].dirty
    BY <1>1, <1>4 DEF Live, WritesBack
  <2>2. Created(RowId, r) /\ HeldAsSaved(Ours', RowId, r)
    BY <1>1, <1>5, <2>1 DEF CleanInv, CleanRowsAgree
  <2>3. WorkId'[r] = RowId[r] /\ \A m \in Managers(r) : WorkId'[m] = RowId[m]
    BY <1>5, <2>1 DEF Managers, Live
  <2> QED BY <2>2, <2>3, SameIdsAgree
<1> QED BY <1>6, <1>7, <1>8, <1>9, <1>10 DEF CleanInv

\* Without a running job, what is about jobs holds.
LEMMA NoJobAgrees ==
    ASSUME job' = NoJob PROVE JobSendsDirectory' /\ JobKeepsIds' /\ CleanWorkAgrees'
  BY DEF JobSendsDirectory, JobKeepsIds, AtHome, CleanWorkAgrees

\* What a history variable has not seen vanish is there.
LEMMA NotVanished ==
    ASSUME NoteVanished(rows', service'), IInv', Quiet'
    PROVE  /\ ~vanished
           /\ \A r \in Resources : RowId'[r] # NoId => \E s \in Ours' : s.id = RowId'[r]
<1>1. ~vanished /\ \A id \in RowIds(rows') : \E s \in service' : s.id = id
  BY DEF NoteVanished, Quiet
<1>2. ASSUME NEW r \in Resources, RowId'[r] # NoId PROVE \E s \in Ours' : s.id = RowId'[r]
  <2>1. rows'[r] # NoRow /\ rows'[r].id = RowId'[r]
    BY <1>2 DEF RowId
  <2>2. PICK s \in service' : s.id = rows'[r].id
    BY <1>1, <1>2, <2>1 DEF RowIds
  <2>3. s.ext = r
    BY <1>2, <2>1, <2>2 DEF IInv, RowsNameTheirOwn, Names
  <2>4. s.url = home'
    BY <2>1, <2>2, <2>3 DEF IInv, RowsAreHome, Quiet
  <2> QED BY <2>1, <2>2, <2>4 DEF Ours
<1> QED BY <1>1, <1>2

\* A job that is lost takes its copy along, and leaves the rows.
LEMMA LoseJobAgrees == ASSUME IInv, IInv', CleanInv, LoseJob PROVE CleanInv'
<1>1. /\ job' = NoJob /\ NoteVanished(rows', service')
      /\ UNCHANGED <<directory, rows, service, nextId, imports, home>> /\ Ours' = Ours
  BY DEF LoseJob, NoteVanished, Ours
<1>2. Quiet' => Quiet
  BY <1>1 DEF Quiet, NoteVanished
<1>3. RefsWereDrawn'
  BY <1>1 DEF CleanInv, RefsWereDrawn
<1>4. RowsHeld'
  BY <1>1, NotVanished DEF RowsHeld
<1>5. CleanRowsAgree'
  <2>1. RowId' = RowId
    BY <1>1 DEF RowId
  <2> QED BY <1>1, <1>2, <2>1 DEF CleanInv, CleanRowsAgree, Created, HeldAsSaved, Managers, Live
<1> QED BY <1>1, <1>3, <1>4, <1>5, NoJobAgrees DEF CleanInv

\* What the job leaves in the rows is what its items stood for.
LEMMA FinishJobAgrees == ASSUME IInv, IInv', CleanInv, FinishJob PROVE CleanInv'
<1> DEFINE result == ResultRows(job)
           gone == PurgedResources(directory, result)
<1>1. /\ job # NoJob /\ job \in Job /\ job.awaiting = {} /\ job' = NoJob
      /\ job.loaded = directory /\ job.loadedRows = rows
      /\ directory' = Purged(directory, gone)
      /\ rows' = [r \in Resources |-> IF r \in gone THEN NoRow ELSE result[r]]
      /\ NoteVanished(rows', service') /\ UNCHANGED <<service, nextId, imports>>
      /\ home' = IF scim.url = home THEN home ELSE NoURL
  BY DEF FinishJob, WalkEnded, NoteVanished, IInv, TypeOK, JobFollowsDirectory
<1>2. /\ directory \in [Resources -> Resource] /\ job.work \in [Resources -> WorkItem]
      /\ rows' \in [Resources -> Row \union {NoRow}]
  BY <1>1 DEF IInv, TypeOK, Job
<1>3. ASSUME NEW r \in Resources
      PROVE  \/ WritesBack(job, r) /\ r \in Present(directory) /\ result[r] = RowOf(job.work[r])
             \/ WritesBack(job, r) /\ r \notin Present(directory) /\ result[r] = NoRow
             \/ ~WritesBack(job, r) /\ result[r] = rows[r]
  BY <1>1, ResultFacts DEF IInv, JobFollowsDirectory
<1> HIDE DEF result
<1>4. gone \in SUBSET Resources /\ \A r \in gone : directory[r].status = "deleted"
  BY DEF PurgedResources, Present
<1> HIDE DEF gone
<1>5. \A r \in Resources :
         /\ directory'[r].status = IF r \in gone THEN "purged" ELSE directory[r].status
         /\ directory'[r].attrs = directory[r].attrs
  BY <1>1, <1>2, <1>4, PurgedFacts
<1>6. \A r \in Resources :
         directory'[r].refs = IF r = Group THEN directory[r].refs \ gone ELSE directory[r].refs
  <2>1. \A r \in Resources :
           Purged(directory, gone)[r].refs
              = IF r = Group THEN directory[r].refs \ gone ELSE directory[r].refs
    BY <1>2 DEF Purged, Resource
  <2> QED BY <1>1, <2>1
<1>7. Live(directory') = Live(directory)
  BY <1>4, <1>5 DEF Live
<1>8. \A r \in Resources : r # Group => Managers(r)' = Managers(r)
  BY <1>6, <1>7 DEF Managers
<1>9. Quiet' => Quiet /\ AtHome /\ Ours' = Ours
  BY <1>1 DEF Quiet, NoteVanished, AtHome, Ours
<1>10. RefsWereDrawn'
  BY <1>1 DEF CleanInv, RefsWereDrawn
<1>11. RowsHeld'
  BY <1>1, NotVanished DEF RowsHeld
<1>12. ASSUME NEW r \in Live(directory)
       PROVE  /\ WritesBack(job, r) => RowId'[r] = WorkId[r]
              /\ ~WritesBack(job, r) => RowId'[r] = RowId[r]
              /\ rows'[r] # NoRow /\ ~rows'[r].dirty =>
                    IF WritesBack(job, r) THEN ~job.work[r].dirty
                    ELSE rows[r] # NoRow /\ ~rows[r].dirty
  <2>1. r \in Resources /\ r \in Present(directory) /\ r \notin gone
    BY <1>4 DEF Live, Present
  <2>2. rows'[r] = result[r] /\ RowId'[r] = IF rows'[r] = NoRow THEN NoId ELSE rows'[r].id
    BY <1>1, <2>1 DEF RowId
  <2>3. CASE WritesBack(job, r)
    <3>1. result[r] = RowOf(job.work[r]) /\ job.work[r] \in WorkItem
      BY <1>2, <1>3, <2>1, <2>3
    <3>2. job.work[r].status # "gone"
      BY <1>1, <2>1 DEF IInv, JobFollowsDirectory, TypeOK, Resource, Live
    <3>3. result[r].id = job.work[r].id /\ result[r].dirty = job.work[r].dirty /\ result[r] # NoRow
      BY <3>1, <3>2, RowOfFacts, SyncNullsAssumption
    <3> QED BY <1>1, <2>1, <2>2, <2>3, <3>3, IdFacts
  <2>4. CASE ~WritesBack(job, r)
    BY <1>3, <2>1, <2>2, <2>4, IdFacts
  <2> QED BY <2>3, <2>4
<1>13. ASSUME Quiet, AtHome, NEW r \in Live(directory), rows'[r] # NoRow, ~rows'[r].dirty
       PROVE  Created(RowId', r) /\ HeldAsSaved(Ours, RowId', r)
  <2>1. \A m \in Live(directory) : ~WritesBack(job, m) => WorkId[m] = RowId[m]
    BY <1>1 DEF CleanInv, JobSendsDirectory, Live
  <2>2. \A m \in Live(directory) : RowId[m] # NoId => WorkId[m] = RowId[m]
    BY <1>1, <1>13 DEF CleanInv, JobKeepsIds
  <2>3. Managers(r) \subseteq Live(directory)
    BY DEF Managers
  <2>4. \A m \in Live(directory) : RowId'[m] = WorkId[m]
    BY <1>12, <2>1
  <2>5. CASE WritesBack(job, r)
    <3>1. Created(WorkId, r) /\ HeldAsSaved(Ours, WorkId, r)
      BY <1>1, <1>12, <1>13, <2>5 DEF CleanInv, CleanWorkAgrees
    <3>2. RowId'[r] = WorkId[r] /\ \A m \in Managers(r) : RowId'[m] = WorkId[m]
      BY <2>3, <2>4
    <3> QED BY <3>1, <3>2, SameIdsAgree
  <2>6. CASE ~WritesBack(job, r)
    <3>1. Created(RowId, r) /\ HeldAsSaved(Ours, RowId, r)
      BY <1>12, <1>13, <2>6 DEF CleanInv, CleanRowsAgree
    <3>2. RowId'[r] = RowId[r] /\ (r # Group => \A m \in Managers(r) : RowId'[m] = RowId[m])
      BY <1>12, <2>2, <2>3, <2>4, <2>6, <3>1 DEF Created
    <3> QED BY <3>1, <3>2, SameIdsAgree
  <2> QED BY <2>5, <2>6
<1>14. ASSUME Ours' = Ours, NEW r \in Live(directory), Created(RowId', r),
              HeldAsSaved(Ours, RowId', r)
       PROVE  Created(RowId, r)' /\ HeldAsSaved(Ours, RowId, r)'
  <2>1. r \in Resources
    BY DEF Live
  <2>2. Created(RowId, r)'
    BY <1>8, <1>14, <2>1 DEF Created
  <2>3. ASSUME NEW s \in Ours, s.id = RowId'[r]
        PROVE  /\ s.attrs = directory'[r].attrs
               /\ r # Group => s.refs = {RowId'[m] : m \in Managers(r)'} \ {NoId}
               /\ r = Group => \A t \in Ours : t.id \in s.refs =>
                      t.ext \in directory'[r].refs \/ directory'[t.ext].status = "purged"
    <3>1. /\ s.attrs = directory'[r].attrs
          /\ r # Group => s.refs = {RowId'[m] : m \in Managers(r)'} \ {NoId}
      BY <1>5, <1>8, <1>14, <2>1, <2>3 DEF HeldAsSaved
    <3>2. ASSUME r = Group, NEW t \in Ours, t.id \in s.refs
          PROVE  t.ext \in directory'[r].refs \/ directory'[t.ext].status = "purged"
      <4>1. t.ext \in directory[r].refs \/ directory[t.ext].status = "purged"
        BY <1>14, <2>3, <3>2 DEF HeldAsSaved
      <4>2. t.ext \in Resources
        BY DEF IInv, TypeOK, RemoteResource, Ours
      <4> QED BY <1>5, <1>6, <2>1, <3>2, <4>1, <4>2
    <3> QED BY <3>1, <3>2
  <2> QED BY <1>14, <2>2, <2>3 DEF HeldAsSaved
<1>15. CleanRowsAgree'
  BY <1>7, <1>9, <1>13, <1>14 DEF CleanRowsAgree
<1> QED BY <1>1, <1>10, <1>11, <1>15, NoJobAgrees DEF CleanInv

\* A change of the directory leaves what it does not mark.
LEMMA EditAgrees == ASSUME IInv, CleanInv, EditKept PROVE CleanInv'
<1>1. /\ job = NoJob /\ job' = NoJob
      /\ UNCHANGED <<service, nextId, vanished, imports>>
  BY DEF EditKept
<1>2. RefsWereDrawn'
  BY <1>1 DEF CleanInv, RefsWereDrawn
<1>3. ASSUME home' = home PROVE RowsHeld' /\ CleanRowsAgree'
  <2>a. Quiet' = Quiet /\ Ours' = Ours
    BY <1>1, <1>3 DEF Quiet, Ours
  <2>b. RowsHeld'
    BY <1>1, <2>a DEF CleanInv, RowsHeld, EditKept, NothingComesBack
  <2> SUFFICES ASSUME Quiet, NEW r \in Live(directory'), rows'[r] # NoRow, ~rows'[r].dirty
               PROVE  Created(RowId, r)' /\ HeldAsSaved(Ours, RowId, r)'
    BY <2>a, <2>b DEF CleanRowsAgree
  <2>1. /\ r \in Resources /\ rows'[r] = rows[r] /\ directory'[r].status = directory[r].status
        /\ directory'[r].attrs = directory[r].attrs /\ directory'[r].refs = directory[r].refs
        /\ r # Group => \A m \in directory[r].refs :
                          directory'[m] = directory[m] /\ RowId'[m] = RowId[m]
    BY DEF EditKept, CleanIsUntouched, Live
  <2>2. Created(RowId, r) /\ HeldAsSaved(Ours, RowId, r) /\ RowId'[r] = RowId[r]
    BY <2>1 DEF CleanInv, CleanRowsAgree, Live, RowId
  <2>3. r # Group => Managers(r)' = Managers(r)
    BY <2>1 DEF Managers, Live
  <2>4. r # Group => \A m \in Managers(r) : RowId'[m] = RowId[m]
    BY <2>1 DEF Managers
  <2>5. Created(RowId', r) /\ HeldAsSaved(Ours, RowId', r)
    BY <2>2, <2>4, SameIdsAgree
  <2>6. Created(RowId, r)'
    BY <2>3, <2>5 DEF Created
  <2>7. \A t \in Ours : directory[t.ext].status = "purged" => directory'[t.ext].status = "purged"
    BY DEF EditKept, NothingComesBack, IInv, TypeOK, RemoteResource, Ours
  <2>8. HeldAsSaved(Ours, RowId, r)'
    BY <2>a, <2>1, <2>3, <2>5, <2>7 DEF HeldAsSaved
  <2> QED BY <2>6, <2>8
<1>4. ASSUME home' # home PROVE RowsHeld' /\ CleanRowsAgree'
  <2>1. \A r \in Resources : rows'[r] # NoRow => rows'[r].dirty /\ rows'[r].id = NoId
    BY <1>4 DEF EditKept, RowsStayHome
  <2>2. \A r \in Resources : RowId'[r] = NoId
    BY <2>1 DEF RowId
  <2> QED BY <2>1, <2>2 DEF RowsHeld, CleanRowsAgree, Live
<1> QED BY <1>1, <1>2, <1>3, <1>4, NoJobAgrees DEF CleanInv

\* Once an import was previewed, nothing is said of clean rows any more.
LEMMA ImportAgrees ==
    ASSUME IInv, CleanInv, job' = NoJob, imports' # 0, UNCHANGED <<service, nextId>>
    PROVE  CleanInv'
<1>1. RefsWereDrawn' /\ ~Quiet'
  BY DEF CleanInv, RefsWereDrawn, Quiet
<1> QED BY <1>1, NoJobAgrees DEF CleanInv, RowsHeld, CleanRowsAgree

\* A loss leaves everything else, and is noted where a row knew of it.
LEMMA LoseResourceAgrees == ASSUME IInv, IInv', CleanInv, LoseResource PROVE CleanInv'
<1>1. /\ service' \subseteq service /\ Ours' \subseteq Ours /\ NoteVanished(rows', service')
      /\ UNCHANGED <<directory, rows, scim, nextId, job, imports, home>>
      /\ rows' \in [Resources -> Row \union {NoRow}]
  BY DEF LoseResource, NoteVanished, IInv, TypeOK, Ours
<1>2. RowId' = RowId /\ WorkId' = WorkId /\ AtHome' = AtHome /\ (Quiet' => Quiet)
  BY <1>1 DEF RowId, WorkId, AtHome, Quiet, NoteVanished
<1>3. RefsWereDrawn'
  BY <1>1 DEF CleanInv, RefsWereDrawn
<1>4. RowsHeld'
  BY <1>1, NotVanished DEF RowsHeld
<1>5. JobSendsDirectory' /\ JobKeepsIds'
  BY <1>1, <1>2 DEF CleanInv, JobSendsDirectory, JobKeepsIds, WritesBack, Managers, Live
<1>6. \A ids, q : HeldAsSaved(Ours, ids, q) => HeldAsSaved(Ours', ids, q)
  BY <1>1, FewerAgree
<1>7. \A q : /\ Created(RowId, q) => Created(RowId, q)'
             /\ Created(WorkId, q) => Created(WorkId, q)'
             /\ HeldAsSaved(Ours', RowId, q) => HeldAsSaved(Ours, RowId, q)'
             /\ HeldAsSaved(Ours', WorkId, q) => HeldAsSaved(Ours, WorkId, q)'
  BY <1>1, <1>2 DEF Created, HeldAsSaved, Managers, Live
<1>8. CleanRowsAgree'
  BY <1>1, <1>2, <1>6, <1>7 DEF CleanInv, CleanRowsAgree, Live
<1>9. CleanWorkAgrees'
  BY <1>1, <1>2, <1>6, <1>7 DEF CleanInv, CleanWorkAgrees, Live, WritesBack
<1> QED BY <1>3, <1>4, <1>5, <1>8, <1>9 DEF CleanInv

-----------------------------------------------------------------------------
\* The invariant of clean rows holds at the beginning,
LEMMA CleanInit == ASSUME Init, IInv PROVE CleanInv
<1>1. job = NoJob /\ home = scim.url /\ vanished = FALSE /\ imports = 0
  BY DEF Init
<1>2. JobSendsDirectory /\ JobKeepsIds /\ CleanWorkAgrees
  BY <1>1 DEF JobSendsDirectory, JobKeepsIds, AtHome, CleanWorkAgrees
<1>3. CASE rows = [r \in Resources |-> NoRow] /\ service = {}
  <2>1. \A r \in Resources : rows[r] = NoRow /\ RowId[r] = NoId
    BY <1>3, IdFacts
  <2>2. RefsWereDrawn /\ RowsHeld /\ CleanRowsAgree
    BY <1>3, <2>1 DEF RefsWereDrawn, RowsHeld, CleanRowsAgree, Live
  <2> QED BY <1>2, <2>2 DEF CleanInv
<1>4. CASE /\ \A r \in Resources : directory[r].status = "live"
           /\ rows = [r \in Resources |-> [id |-> r, dirty |-> FALSE, deleted |-> FALSE]]
           /\ service = {[url |-> scim.url, id |-> r, ext |-> r, attrs |-> TRUE,
                          refs |-> directory[r].refs] : r \in Resources}
           /\ nextId = Group + 1
  <2>1. \A r \in Resources : rows[r].id = r /\ r \in Nat /\ r < nextId
    BY <1>4, ResourceFacts DEF Resources, Users, Group
  <2>2. \A r \in Resources : RowId[r] = r /\ r # NoId
    <3>1. \A r \in Resources : rows[r] # NoRow
      <4> SUFFICES ASSUME NEW r \in Resources PROVE rows[r] # NoRow
        OBVIOUS
      <4>1. rows[r] = [id |-> r, dirty |-> FALSE, deleted |-> FALSE]
        BY <1>4
      <4>2. r \in Ids
        BY <2>1, ResourceFacts, SyncBoundsAssumption DEF IInv, TypeOK, Ids, Resources, Users, Group
      <4>3. [id |-> r, dirty |-> FALSE, deleted |-> FALSE] \in Row
        BY <4>2 DEF Row
      <4> QED BY <4>1, <4>3, SyncNullsAssumption
    <3>2. \A r \in Resources : RowId[r] = r
      BY <2>1, <3>1, IdFacts
    <3> QED BY <2>1, <3>2, SyncValuesAssumption
  <2>a. Ours = service
    BY <1>1, <1>4 DEF Ours
  <2>3. \A s \in service : s.id = s.ext /\ s.ext \in Resources /\ s.attrs = TRUE
                           /\ s.refs = directory[s.ext].refs
    BY <1>4
  <2>4. \A r \in Resources : directory[r].refs \subseteq Users /\ directory[r].attrs = TRUE
    <3>1. directory \in [Resources -> Resource]
      BY DEF IInv, TypeOK
    <3>2. \A r \in Resources : directory[r].attrs = TRUE
      BY DEF Init
    <3> QED BY <3>1, <3>2 DEF Resource
  <2>5. RefsWereDrawn
    BY <2>1, <2>3, <2>4, ResourceFacts DEF RefsWereDrawn
  <2>6. RowsHeld
    <3>1. ASSUME NEW r \in Resources PROVE \E s \in Ours : s.id = RowId[r]
      <4> DEFINE s == [url |-> scim.url, id |-> r, ext |-> r, attrs |-> TRUE,
                       refs |-> directory[r].refs]
      <4>1. s \in Ours /\ s.id = RowId[r]
        BY <1>4, <2>2, <2>a
      <4> QED BY <4>1
    <3> QED BY <3>1 DEF RowsHeld
  <2>7. CleanRowsAgree
    <3> SUFFICES ASSUME NEW r \in Resources
                 PROVE  Created(RowId, r) /\ HeldAsSaved(Ours, RowId, r)
      BY DEF CleanRowsAgree, Live
    <3>1. Managers(r) = directory[r].refs
      BY <1>4, <2>4, ResourceFacts DEF Managers, Live
    <3>2. \A m \in directory[r].refs : RowId[m] = m /\ m # NoId
      BY <2>2, <2>4, ResourceFacts
    <3>3. {RowId[m] : m \in Managers(r)} \ {NoId} = directory[r].refs
      BY <3>1, <3>2
    <3>4. Created(RowId, r)
      BY <2>2, <3>1, <3>2 DEF Created
    <3>5. HeldAsSaved(Ours, RowId, r)
      <4> SUFFICES ASSUME NEW s \in Ours, s.id = RowId[r]
                   PROVE  /\ s.attrs = directory[r].attrs /\ s.refs = directory[r].refs
                          /\ \A t \in Ours : t.id \in s.refs => t.ext \in directory[r].refs
        BY <3>3 DEF HeldAsSaved
      <4>1. s.ext = r
        BY <2>2, <2>3, <2>a
      <4> QED BY <2>3, <2>4, <2>a, <4>1
    <3> QED BY <3>4, <3>5
  <2> QED BY <1>2, <2>5, <2>6, <2>7 DEF CleanInv
<1> QED BY <1>3, <1>4 DEF Init

\* is kept by every step,
LEMMA CleanStep ==
    ASSUME IInv, IInv', CleanInv, [Next]_vars
    PROVE  CleanInv'
<1>1. CASE JobStep
  BY <1>1, ForgetAgrees, RefuseAgrees, DeleteRemoteAgrees, WriteAgrees, SendAwaitedAgrees,
     FinishJobAgrees DEF JobStep
<1>2. CASE \E kind \in {"sync", "reconcile", "push"}, target \in Resources : StartJob(kind, target)
  BY <1>2, StartJobAgrees
<1>3. CASE PreviewImport
  <2>1. imports \in Nat
    BY SyncBoundsAssumption DEF IInv, TypeOK
  <2>2. job' = NoJob /\ imports' # 0 /\ UNCHANGED <<service, nextId>>
    BY <1>3, <2>1 DEF PreviewImport
  <2> QED BY <2>2, ImportAgrees
<1>4. CASE ApplyImport
  <2>1. imports > 0 /\ imports \in Nat
    BY <1>4, SyncBoundsAssumption DEF ApplyImport, IInv, TypeOK, PreviewCounts
  <2>2. job' = NoJob /\ imports' # 0 /\ UNCHANGED <<service, nextId>>
    BY <1>4, <2>1 DEF ApplyImport
  <2> QED BY <2>2, ImportAgrees
<1>5. CASE DropPreview \/ UNCHANGED vars
  <2>1. UNCHANGED <<directory, rows, scim, service, nextId, job, imports, vanished, home>>
    BY <1>5 DEF DropPreview, vars
  <2>2. /\ Quiet' = Quiet /\ AtHome' = AtHome /\ Ours' = Ours
        /\ RowId' = RowId /\ WorkId' = WorkId
    BY <2>1 DEF Quiet, AtHome, Ours, RowId, WorkId
  <2>3. \A q : Managers(q)' = Managers(q)
    BY <2>1 DEF Managers, Live
  <2>4. RefsWereDrawn' /\ RowsHeld' /\ JobSendsDirectory' /\ JobKeepsIds'
    BY <2>1, <2>2, <2>3 DEF CleanInv, RefsWereDrawn, RowsHeld, JobSendsDirectory, JobKeepsIds,
                            Live, WritesBack
  <2>5. \A q : /\ Created(RowId, q) => Created(RowId, q)'
               /\ Created(WorkId, q) => Created(WorkId, q)'
               /\ HeldAsSaved(Ours, RowId, q) => HeldAsSaved(Ours, RowId, q)'
               /\ HeldAsSaved(Ours, WorkId, q) => HeldAsSaved(Ours, WorkId, q)'
    BY <2>1, <2>2, <2>3 DEF Created, HeldAsSaved
  <2>6. CleanRowsAgree'
    BY <2>1, <2>2, <2>5 DEF CleanInv, CleanRowsAgree, Live
  <2>7. CleanWorkAgrees'
    BY <2>1, <2>2, <2>5 DEF CleanInv, CleanWorkAgrees, Live, WritesBack
  <2> QED BY <2>4, <2>6, <2>7 DEF CleanInv
<1> QED BY <1>1, <1>2, <1>3, <1>4, <1>5, EditStep, EditAgrees, CancelAgrees, LoseJobAgrees,
           LoseResourceAgrees DEF Next

\* A resource whose row is clean is there as the directory has it, with its
\* manager and without members that the group does not have,
\* whatever the order of edits, partial jobs, lost jobs, refusals, late
\* answers and retries (syncDirtyUsers, reconcileUsers, sendAwaitedManagers,
\* MarkUserDirty, MarkGroupDirty, StateForApp).
THEOREM CleanIsMirroredAlways == Spec => []CleanIsMirrored
<1>1. Init => CleanInv
  BY InvInit, CleanInit
<1>2. IInv /\ IInv' /\ CleanInv /\ [Next]_vars => CleanInv'
  BY CleanStep
<1>3. IInv /\ CleanInv => CleanIsMirrored
  BY CleanMeansMirrored
<1> QED BY <1>1, <1>2, <1>3, InvAlways, PTL DEF Spec
=============================================================================
