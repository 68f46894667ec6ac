------------------------------- MODULE Updates -------------------------------
(***************************************************************************)
(* The macOS updater (internal/update): processes that run from one        *)
(* application bundle check a signed feed, download and stage a newer      *)
(* build in a folder of their own beside the bundle, and swap it in when   *)
(* the user restarts or quits. A receipt locked with flock says which      *)
(* process holds a folder; a lock on the bundle's directory orders the     *)
(* processes that swap. A process may end at any point, which releases its *)
(* locks and nothing else.                                                 *)
(***************************************************************************)
EXTENDS Integers, FiniteSets

CONSTANTS Procs,     \* processes that run scimtest from the bundle
          Folders,   \* staging folders, each made at most once
          NoProc, NoFolder,
          Original,  \* the bundle that was installed by hand
          MaxBuild   \* bound: the newest build that is published

Builds == 1 .. MaxBuild
Inodes == Folders \union {Original}

VARIABLES
    feed,       \* the newest published build
    installed,  \* the bundle at the installed path
    folder,     \* the staging folders
    proc,       \* what each process knows and does
    undone      \* history: a swap has been undone

vars == <<feed, installed, folder, proc, undone>>

\* A bundle: the directory's inode, named after the folder it was unpacked in,
\* its build, and whether it is a complete bundle with scimtest's signature.
Bundle == [inode : Inodes, build : Builds, good : BOOLEAN]
Folder == [state : {"unused", "full", "removed"},
           receipt : Builds,  \* the release it was made for
           holder : Procs \union {NoProc}, bundle : Bundle]

Proc == [up : BOOLEAN, build : Builds,
         sweeping : SUBSET Folders,     \* RemoveLeftovers has yet to look at
         check : {"idle", "fetching", "downloading", "downloaded", "staging"},
         release : Builds, into : Folders \union {NoFolder},
         staged : Folders \union {NoFolder}, offer : Builds,
         status : {"idle", "available", "ready", "restarting", "failed"},
         restarting : BOOLEAN,
         install : {"idle", "opened", "locked", "checked", "swapped"},
         relaunch : BOOLEAN,            \* Restart, not InstallOnQuit
         lock : Inodes]                 \* the bundle that Apply opened

Down == [up |-> FALSE, build |-> 1, sweeping |-> {}, check |-> "idle", release |-> 1,
         into |-> NoFolder, staged |-> NoFolder, offer |-> 1, status |-> "idle",
         restarting |-> FALSE, install |-> "idle", relaunch |-> FALSE, lock |-> Original]

TypeOK ==
    /\ feed \in Builds
    /\ installed \in Bundle
    /\ folder \in [Folders -> Folder]
    /\ proc \in [Procs -> Proc]
    /\ undone \in BOOLEAN

Init ==
    /\ feed = 1
    /\ installed = [inode |-> Original, build |-> 1, good |-> TRUE]
    /\ folder = [f \in Folders |-> [state |-> "unused", receipt |-> 1, holder |-> NoProc,
                                    bundle |-> [inode |-> f, build |-> 1, good |-> FALSE]]]
    /\ proc = [p \in Procs |-> Down]
    /\ undone = FALSE

-----------------------------------------------------------------------------
(* Locks. *)

\* installMu of a process: stage holds it from Stage to the offer, Restart and
\* InstallOnQuit hold it throughout.
InstallMuFree(p) == proc[p].check # "staging" /\ proc[p].install = "idle"

\* Apply holds the lock on the bundle it opened.
HoldsBundle(q) == proc[q].install \in {"locked", "checked", "swapped"}
BundleLocked(p) == \E q \in Procs \ {p} : HoldsBundle(q) /\ proc[q].lock = proc[p].lock

\* ownedAndFree: the folder has a written receipt that no process has locked.
Free(f) == folder[f].state = "full" /\ folder[f].holder = NoProc
\* Seeded defect: a receipt that a process holds counts as left over.
FreeOrHeld(f) == folder[f].state = "full"
Leftover(f) == Free(f)

Removed(f) == [folder EXCEPT ![f].state = "removed", ![f].holder = NoProc]
\* checkOwned: the receipt on disk is the one this process has locked.
CheckOwned(p, f) == folder[f].state = "full" /\ folder[f].holder = p
\* Discard removes only a folder that this process holds.
Discarded(p, f) == IF CheckOwned(p, f) THEN Removed(f) ELSE folder
\* verifyBundle: the build that the release named, unbroken, with the signature.
Verified(f) == folder[f].bundle.good /\ folder[f].bundle.build = folder[f].receipt

-----------------------------------------------------------------------------
(* The life of a process. *)

Publish == feed < MaxBuild /\ feed' = feed + 1 /\ UNCHANGED <<installed, folder, proc, undone>>

\* New and run: what is in the folder of the bundle is swept before any check.
Launch(p) ==
    /\ ~proc[p].up
    /\ proc' = [proc EXCEPT ![p] = [Down EXCEPT
           !.up = TRUE, !.build = installed.build,
           !.sweeping = {f \in Folders : folder[f].state = "full"}]]
    /\ UNCHANGED <<feed, installed, folder, undone>>

\* RemoveLeftovers, one folder: locked, read, removed.
RemoveLeftovers(p) == \E f \in proc[p].sweeping :
    /\ folder' = IF Leftover(f) THEN Removed(f) ELSE folder
    /\ proc' = [proc EXCEPT ![p].sweeping = @ \ {f}]
    /\ UNCHANGED <<feed, installed, undone>>

\* The process ends: its locks go, its folders and the bundle stay.
Exit(p) ==
    /\ proc[p].up
    /\ proc' = [proc EXCEPT ![p] = Down]
    /\ folder' = [f \in Folders |-> IF folder[f].holder = p
                                    THEN [folder[f] EXCEPT !.holder = NoProc] ELSE folder[f]]
    /\ UNCHANGED <<feed, installed, undone>>

-----------------------------------------------------------------------------
(* A check: run is one goroutine, so a process has one at a time. *)

\* check reads restarting, then fetches the feed.
StartCheck(p) ==
    /\ proc[p].up /\ proc[p].sweeping = {} /\ proc[p].check = "idle" /\ ~proc[p].restarting
    /\ proc' = [proc EXCEPT ![p].check = "fetching"]
    /\ UNCHANGED <<feed, installed, folder, undone>>

\* The fetched release is shown with a status, or the check ends without a word.
Shown(p, status) == [proc[p] EXCEPT !.check = "idle", !.release = 1, !.offer = feed,
                                    !.status = status]
UpToDate(p) ==
    IF proc[p].restarting \/ proc[p].staged # NoFolder
    THEN [proc[p] EXCEPT !.check = "idle"]
    ELSE [proc[p] EXCEPT !.check = "idle", !.offer = 1, !.status = "idle"]

\* The feed cannot be reached or does not verify: nothing that is shown changes.
FailToFetch(p) ==
    /\ proc[p].check = "fetching"
    /\ proc' = [proc EXCEPT ![p].check = "idle"]
    /\ UNCHANGED <<feed, installed, folder, undone>>

\* check with the release: not newer or not for this computer (no archive for the
\* platform, a newer macOS), not replaceable, already staged, or a download.
Check(p) ==
    /\ proc[p].check = "fetching"
    /\ \E fits, replaceable \in BOOLEAN :
         proc' = [proc EXCEPT ![p] =
             IF feed <= @.build \/ ~fits THEN UpToDate(p)
             ELSE IF ~replaceable THEN Shown(p, "available")
             ELSE IF @.staged # NoFolder /\ folder[@.staged].bundle.build >= feed
                  THEN [@ EXCEPT !.check = "idle"]
             ELSE [@ EXCEPT !.check = "downloading", !.release = feed]]
    /\ UNCHANGED <<feed, installed, folder, undone>>

\* failRelease, unless an older update is staged.
Failed(p) ==
    LET idle == [proc[p] EXCEPT !.check = "idle", !.release = 1, !.into = NoFolder]
    IN IF proc[p].staged # NoFolder THEN idle
       ELSE [idle EXCEPT !.offer = proc[p].release, !.status = "failed"]

\* download: size and SHA-256 match, or the release fails. Processes share the
\* file, so what is unpacked later need not be what was hashed.
Download(p) ==
    /\ proc[p].check = "downloading"
    /\ \/ proc' = [proc EXCEPT ![p].check = "downloaded"]
       \/ proc' = [proc EXCEPT ![p] = Failed(p)]
    /\ UNCHANGED <<feed, installed, folder, undone>>

\* stage takes installMu and claimFolder makes a folder with a locked receipt. A
\* process that sweeps may try the lock before it is taken, which fails the claim.
Claim(p) ==
    /\ proc[p].check = "downloaded" /\ InstallMuFree(p)
    /\ \/ \E f \in {g \in Folders : folder[g].state = "unused"} :
            /\ folder' = [folder EXCEPT ![f].state = "full", ![f].holder = p,
                                        ![f].receipt = proc[p].release,
                                        ![f].bundle.build = proc[p].release]
            /\ proc' = [proc EXCEPT ![p].check = "staging", ![p].into = f]
       \/ /\ \E q \in Procs \ {p} : proc[q].sweeping # {}
          /\ proc' = [proc EXCEPT ![p] = Failed(p)]
          /\ UNCHANGED folder
    /\ UNCHANGED <<feed, installed, undone>>

\* The rest of Stage and of stage, under installMu: the unpacked bundle is
\* verified and replaces the update that was staged before.
Offered(p) ==
    [proc[p] EXCEPT !.check = "idle", !.release = 1, !.into = NoFolder,
                    !.staged = proc[p].into, !.offer = proc[p].release,
                    !.status = "ready"]
Stage(p) ==
    LET f == proc[p].into
        previous == proc[p].staged
    IN /\ proc[p].check = "staging"
       /\ \E good \in BOOLEAN :
            IF ~good
            THEN folder' = Discarded(p, f) /\ proc' = [proc EXCEPT ![p] = Failed(p)]
            ELSE IF proc[p].restarting
            THEN /\ folder' = Discarded(p, f)
                 /\ proc' = [proc EXCEPT ![p].check = "idle", ![p].release = 1,
                                         ![p].into = NoFolder]
            ELSE /\ folder' = [g \in Folders |->
                       IF g = f THEN [folder[f] EXCEPT !.bundle.good = TRUE]
                       ELSE IF previous # NoFolder /\ g = previous
                       THEN Discarded(p, g)[g] ELSE folder[g]]
                 /\ proc' = [proc EXCEPT ![p] = Offered(p)]
       /\ UNCHANGED <<feed, installed, undone>>

-----------------------------------------------------------------------------
(* Restart and InstallOnQuit. *)

\* Restart, past its guard, and InstallOnQuit: both open the installed bundle.
Restart(p) ==
    /\ proc[p].up /\ InstallMuFree(p) /\ proc[p].staged # NoFolder
    /\ proc' = [proc EXCEPT ![p].install = "opened", ![p].relaunch = TRUE,
                            ![p].lock = installed.inode]
    /\ UNCHANGED <<feed, installed, folder, undone>>
InstallOnQuit(p) ==
    /\ proc[p].up /\ InstallMuFree(p)
    /\ proc' = [proc EXCEPT ![p].relaunch = FALSE, ![p].restarting = TRUE,
                            ![p].lock = installed.inode,
                            ![p].install = IF proc[p].staged = NoFolder THEN "idle" ELSE "opened"]
    /\ UNCHANGED <<feed, installed, folder, undone>>

\* A refusal of Apply: Restart drops and discards the update and says that it
\* failed; the app that quits leaves it for the next launch to remove.
Refused(p) ==
    [proc[p] EXCEPT !.install = "idle", !.staged = NoFolder,
                    !.status = IF proc[p].relaunch THEN "failed" ELSE @]
Refuse(p) ==
    /\ proc' = [proc EXCEPT ![p] = Refused(p)]
    /\ folder' = IF proc[p].relaunch THEN Discarded(p, proc[p].staged) ELSE folder
    /\ UNCHANGED <<feed, installed, undone>>

\* lockInstalled, tryLock: it waits a moment for a lock and then gives up.
LockInstalled(p) ==
    /\ proc[p].install = "opened"
    /\ \/ /\ ~BundleLocked(p)
          /\ proc' = [proc EXCEPT ![p].install = "locked"]
          /\ UNCHANGED <<feed, installed, folder, undone>>
       \/ BundleLocked(p) /\ Refuse(p)

\* lockInstalled, the checks: the bundle is still the one that is locked, and
\* still the build that runs.
\* Seeded defect: the lock is taken for a proof that nothing was replaced.
Unlooked(p) == TRUE
StillRunning(p) == installed.inode = proc[p].lock /\ installed.build = proc[p].build
CheckInstalled(p) ==
    /\ proc[p].install = "locked"
    /\ IF StillRunning(p)
       THEN /\ proc' = [proc EXCEPT ![p].install = "checked"]
            /\ UNCHANGED <<feed, installed, folder, undone>>
       ELSE Refuse(p)

\* RENAME_SWAP of the staged bundle and the installed one.
Exchanged(f) ==
    /\ installed' = folder[f].bundle
    /\ folder' = [folder EXCEPT ![f].bundle = installed]

\* Apply, from checkOwned to the swap.
Swap(p) ==
    LET f == proc[p].staged
    IN /\ proc[p].install = "checked"
       /\ IF CheckOwned(p, f) /\ Verified(f)
          THEN /\ Exchanged(f)
               /\ proc' = [proc EXCEPT ![p].install = "swapped"]
               /\ UNCHANGED <<feed, undone>>
          ELSE Refuse(p)

\* Apply and Restart after the swap: the relauncher waits for this process to
\* end, or it cannot start and the swap is undone, or that fails too.
Relaunch(p) ==
    LET f == proc[p].staged
        done == [proc[p] EXCEPT !.install = "idle", !.staged = NoFolder, !.restarting = TRUE]
    IN /\ proc[p].install = "swapped"
       /\ \/ /\ proc' = [proc EXCEPT ![p] = IF @.relaunch THEN [done EXCEPT !.status = "restarting"]
                                            ELSE done]
             /\ UNCHANGED <<feed, installed, folder, undone>>
          \/ /\ proc[p].relaunch
             /\ installed' = folder[f].bundle
             /\ folder' = [folder EXCEPT ![f].bundle = installed, ![f].state = "removed",
                                         ![f].holder = NoProc]
             /\ proc' = [proc EXCEPT ![p] = Refused(p)]
             /\ undone' = TRUE
             /\ UNCHANGED feed
          \/ /\ proc[p].relaunch
             /\ proc' = [proc EXCEPT ![p] = [done EXCEPT !.status = "failed"]]
             /\ UNCHANGED <<feed, installed, folder, undone>>

-----------------------------------------------------------------------------
Next ==
    \/ Publish
    \/ \E p \in Procs :
         \/ Launch(p) \/ RemoveLeftovers(p) \/ Exit(p)
         \/ StartCheck(p) \/ FailToFetch(p) \/ Check(p) \/ Download(p) \/ Claim(p) \/ Stage(p)
         \/ Restart(p) \/ InstallOnQuit(p)
         \/ LockInstalled(p) \/ CheckInstalled(p) \/ Swap(p) \/ Relaunch(p)

Spec == Init /\ [][Next]_vars

-----------------------------------------------------------------------------
(* Properties. *)

\* Whatever order processes stage, quit, crash and restart in, an update is only
\* ever swapped in over an older build (lockInstalled: "if something already
\* replaced it, installing would go backwards"). A swap that was undone because
\* the relauncher could not start voids this: a process that was launched in
\* between holds a lock on a bundle that is no longer installed.
SwapsForward ==
    \A p \in Procs : Swap(p) /\ installed' # installed /\ ~undone
          => installed'.build > installed.build
NeverBackwards == [][SwapsForward]_vars

\* A staged update is a verified bundle in a folder that its process holds, so
\* that Apply finds it, and while an update is being offered nothing has been
\* installed; no other process's RemoveLeftovers takes it away.
StagedIsThere ==
    \A p \in Procs :
        /\ proc[p].status = "ready" =>
             proc[p].staged # NoFolder \/ proc[p].restarting
        /\ proc[p].staged # NoFolder =>
             /\ CheckOwned(p, proc[p].staged)
             /\ proc[p].install # "swapped" => Verified(proc[p].staged)
             /\ proc[p].restarting => proc[p].install # "idle"
=============================================================================
