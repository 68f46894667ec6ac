---------------------------- MODULE MCComponents ----------------------------
(***************************************************************************)
(* The components that share no state with each other, for TLC, side by    *)
(* side: `running` says in the initial state which of them runs, and the   *)
(* variables x1 .. x15 are then its variables. TLC so explores the sum of  *)
(* their state spaces, not the product. The fault scenarios have their own *)
(* variables. Sets that are interchangeable within a component are given   *)
(* one of three sets of model values, which keeps the symmetry group small.*)
(***************************************************************************)
EXTENDS FaultScenarios, TLC

CONSTANTS
    Actors,     \* browser tabs, processes, handlers
    Things,     \* codes, sessions, staging folders, apps
    Places,     \* installations
    Latecomers, \* processes beside the Actors ...
    Others,     \* ... and those with a state file of their own
    Accounts, Environments, Users, Default, NewUser, ByHand, Ports, None

\* Limits of the program and bounds of the models, by the names they have there.
CONSTANTS
    LogSize, MaxRequests, Limit, IPLimit, MaxBuild, MaxSignOuts, MaxDeaths, MaxCopies,
    MaxStarts, MaxKeys, MaxGrace, MaxNow, MaxStarted

\* None stands in for what is not there; the limits and bounds are numbers; an
\* app and an environment of an older version have different IDs.
ASSUME ComponentsAssumption ==
    /\ None \notin Actors \cup Latecomers \cup Others \cup Accounts \cup Ports \cup Things
    /\ None \notin Nat /\ None \notin [id : Nat, running : BOOLEAN, success : BOOLEAN]
    /\ {LogSize, MaxRequests, Limit, MaxSignOuts, MaxDeaths, MaxKeys, MaxGrace, MaxNow,
        MaxStarted, MaxCopies, MaxStarts} \subseteq Nat
    /\ MaxBuild \in Nat \ {0}
    /\ Things \cap (Environments \cup {Default}) = {}
    /\ \A e \in Environments \cup {Default} :
           <<"migrated_scim_", e>> \notin Things \cup Environments \cup {Default}

VARIABLES running, x1, x2, x3, x4, x5, x6, x7, x8, x9, x10, x11, x12, x13, x14, x15

Logouts == INSTANCE SAMLLogouts WITH
    Sessions <- Things, Tabs <- Actors, NoSession <- None, NoRequest <- None,
    live <- x1, log <- x2, steps <- x3, tab <- x4, carried <- x5, sent <- x6, first <- x7

Enrolling == INSTANCE Enrollment WITH
    Installations <- Places, Codes <- Things, Tabs <- Actors,
    NoInstallation <- None, NoAccount <- None, NoCode <- None,
    pending <- x1, byUserCode <- x2, byHandoff <- x3, byBinding <- x4, recent <- x5,
    intents <- x6, replacing <- x7, tab <- x8, client <- x9, instances <- x10, idle <- x11,
    drawn <- x12, spent <- x13, logins <- x14

Updating == INSTANCE Updates WITH
    Procs <- Actors, Folders <- Things, NoProc <- None, NoFolder <- None, Original <- ByHand,
    feed <- x1, installed <- x2, folder <- x3, proc <- x4, undone <- x5

\* The two whose proofs the theorems about this module cite.
Tunnelling == INSTANCE TunnelSupervisorProofs WITH
    stored <- x1, account <- x2, attempt <- x3, ghost <- x4, tunnel <- x5, watch <- x6,
    error <- x7, url <- x8, logout <- x9, toStart <- x10, save <- x11, closing <- x12,
    unrotated <- x13, deaths <- x14

Starting == INSTANCE SingleInstanceProofs WITH
    Procs <- Actors \cup Latecomers \cup Others, Desktop <- Actors,
    NoProc <- None, NoPort <- None,
    at <- x1, lock <- x2, meta <- x3, seen <- x4, port <- x5, to <- x6

Storing == INSTANCE StateStore WITH
    Apps <- Things,
    db <- x1, json <- x2, copies <- x3, pc <- x4, starts <- x5, original <- x6,
    touched <- x7, gone <- x8, torn <- x9

Signing == INSTANCE SigningKeys WITH
    Handlers <- Actors,
    ring <- x1, next <- x2, rotating <- x3, backup <- x4, now <- x5, promise <- x6

Lifecycle == INSTANCE LifecycleRuns WITH
    NoJob <- None, NoIssue <- None,
    settings <- x1, runs <- x2, pushing <- x3, job <- x4, tokenSent <- x5, member <- x6,
    issuing <- x7, started <- x8, succeeded <- x9

faults == <<now, run, armed, arming, request, injected>>
state == <<x1, x2, x3, x4, x5, x6, x7, x8, x9, x10, x11, x12, x13, x14, x15>>
allVars == <<running, faults, state>>

\* Variables that a component does not have.
NoneFrom15 == x15 = None
NoneFrom10 == x10 = None /\ x11 = None /\ x12 = None /\ x13 = None /\ x14 = None /\ NoneFrom15
NoneFrom8 == x8 = None /\ x9 = None /\ NoneFrom10
NoneFrom7 == x7 = None /\ NoneFrom8
NoneFrom6 == x6 = None /\ NoneFrom7
NoneFrom1 == x1 = None /\ x2 = None /\ x3 = None /\ x4 = None /\ x5 = None /\ NoneFrom6

AllInit ==
    /\ Init
    /\ \/ running = "faults" /\ NoneFrom1
       \/ running = "logouts" /\ Logouts!Init /\ NoneFrom8
       \/ running = "enrolling" /\ Enrolling!Init /\ NoneFrom15
       \/ running = "updating" /\ Updating!Init /\ NoneFrom6
       \/ running = "tunnelling" /\ Tunnelling!Init /\ NoneFrom15
       \/ running = "storing" /\ Storing!Init /\ NoneFrom10
       \/ running = "signing" /\ Signing!Init /\ NoneFrom7
       \/ running = "starting" /\ Starting!Init /\ NoneFrom7
       \/ running = "lifecycle" /\ Lifecycle!Init /\ NoneFrom10

AllNext ==
    /\ running' = running
    /\ \/ running = "faults" /\ Next /\ UNCHANGED state
       \/ running = "logouts" /\ Logouts!Next /\ UNCHANGED faults
           /\ UNCHANGED <<x8, x9, x10, x11, x12, x13, x14, x15>>
       \/ running = "enrolling" /\ Enrolling!Next /\ UNCHANGED faults /\ UNCHANGED x15
       \/ running = "updating" /\ Updating!Next /\ UNCHANGED faults
           /\ UNCHANGED <<x6, x7, x8, x9, x10, x11, x12, x13, x14, x15>>
       \/ running = "tunnelling" /\ Tunnelling!Next /\ UNCHANGED faults /\ UNCHANGED x15
       \/ running = "storing" /\ Storing!Next /\ UNCHANGED faults
           /\ UNCHANGED <<x10, x11, x12, x13, x14, x15>>
       \/ running = "signing" /\ Signing!Next /\ UNCHANGED faults
           /\ UNCHANGED <<x7, x8, x9, x10, x11, x12, x13, x14, x15>>
       \/ running = "starting" /\ Starting!Next /\ UNCHANGED faults
           /\ UNCHANGED <<x7, x8, x9, x10, x11, x12, x13, x14, x15>>
       \/ running = "lifecycle" /\ Lifecycle!Next /\ UNCHANGED faults
           /\ UNCHANGED <<x10, x11, x12, x13, x14, x15>>

AllSpec == AllInit /\ [][AllNext]_allVars

Symmetry == Permutations(Actors) \cup Permutations(Things) \cup Permutations(Places)

-----------------------------------------------------------------------------
(* The properties are those of the modules, of the component that runs; the   *)
(* exceptions of each are stated there.                                       *)

\* Every component's state stays well-formed: every module's type invariant.
AllTypeOK ==
    CASE running = "faults" -> TypeOK
      [] running = "logouts" -> Logouts!TypeOK
      [] running = "enrolling" -> Enrolling!TypeOK
      [] running = "updating" -> Updating!TypeOK
      [] running = "tunnelling" -> Tunnelling!TypeOK
      [] running = "storing" -> Storing!TypeOK
      [] running = "signing" -> Signing!TypeOK
      [] running = "starting" -> Starting!TypeOK
      [] running = "lifecycle" -> Lifecycle!TypeOK

\* A SAML logout step of a checklist shows the answer to its own LogoutRequest
\* (saml_logout.go).
StepsShowTheirAnswer == running = "logouts" => Logouts!StepsShowTheirAnswer

\* The maps an enrollment is found by agree with each other (enrollment.go).
IndexesAgree == running = "enrolling" => Enrolling!IndexesAgree
\* A grant enrols one installation, once, for the account that confirmed it
\* (enrollment.go). The instance has one account, so a grant for another one does
\* not arise in it: that is the theorem's.
GrantsAreSpent == running = "enrolling" => Enrolling!GrantsAreSpent
\* No step takes an account above its limit of enrolled and approved
\* installations, but for an administrator's un-revoking (dashboard.go).
WithinLimit == [][running = "enrolling" => Enrolling!AdmitsWithinLimit]_allVars

\* An update that is offered for restart is on disk, owned by its process
\* (internal/update).
StagedIsThere == running = "updating" => Updating!StagedIsThere
\* A swap puts a newer build in the place of an older one, as long as no swap has
\* been undone (internal/update).
NeverBackwards == [][running = "updating" => Updating!SwapsForward]_allVars

\* Once a sign-out is over, neither the database nor an attempt nor the open
\* tunnel has a half of the old identity (desktop_auth.go).
SignedOutIsGone == running = "tunnelling" => Tunnelling!SignedOutIsGone
\* The user always has a tunnel, an attempt or a Retry button, unless the program
\* is closing or a sign-out could not rotate the identity (web.go).
NeverStuck == running = "tunnelling" => Tunnelling!NeverStuck

\* An upgrade of the state file keeps the directory of every app that nobody has
\* edited yet, unless a start died inside the import of the JSON file (state.go).
UpgradeKeepsDirectory == running = "storing" => Storing!UpgradeKeepsDirectory

\* A retired signing key is published exactly as long as its rotation said, with a
\* restored ring as long as its backup says (signing_keys.go).
PublishedAsPromised == running = "signing" => Signing!PublishedAsPromised

\* A hand-off shows the process that runs on one's own state file (instance.go).
HandoffIsRight == running = "starting" => Starting!HandoffIsRight

\* A lifecycle push says ok only if its own job succeeded (lifecycle.go).
PushesTellTheTruth == running = "lifecycle" => Lifecycle!PushesTellTheTruth
=============================================================================
