--------------------------- MODULE SingleInstance ---------------------------
(***************************************************************************)
(* One process per state file (internal/web/instance.go, startup.go and    *)
(* Run in web.go): the lock beside the state file, the metadata published  *)
(* in it, the hand-off of a second process to the running one, which its   *)
(* readiness endpoint confirms with a token, and taking over from a        *)
(* process that ended. Processes of other state files share the ports.     *)
(***************************************************************************)
EXTENDS Integers, FiniteSets

CONSTANTS
    Procs,          \* processes; each is started at most once
    Others,         \* those of them that have a state file of their own
    Desktop,        \* those of them that require a GitHub account
    Ports,
    NoProc, NoPort

SameFile(p, q) == p = q \/ {p, q} \cap Others = {}

VARIABLES
    at,         \* how far Run has come in each process
    lock,       \* who holds the lock of the shared state file
    meta,       \* what the lock file of the shared state file contains
    seen,       \* the metadata a waiting process has read
    port,       \* who listens on each port
    to          \* the process a waiting process was handed to

vars == <<at, lock, meta, seen, port, to>>

NoMeta == [url |-> NoPort, token |-> NoProc, desktop |-> FALSE]
Metas == [url : Ports, token : Procs, desktop : BOOLEAN] \cup {NoMeta}
Running == {"locked", "cleared", "bound", "serving", "closing"}

TypeOK ==
    /\ at \in [Procs -> Running \cup {"off", "waiting", "read", "handed", "ended"}]
    /\ lock \in Procs \cup {NoProc}
    /\ meta \in Metas
    /\ seen \in [Procs -> Metas]
    /\ port \in [Ports -> Procs \cup {NoProc}]
    /\ to \in [Procs -> Procs \cup {NoProc}]

Init ==
    /\ at = [p \in Procs |-> "off"]
    /\ lock = NoProc /\ meta = NoMeta
    /\ seen = [p \in Procs |-> NoMeta]
    /\ port = [r \in Ports |-> NoProc]
    /\ to = [p \in Procs |-> NoProc]

-----------------------------------------------------------------------------
(* The lease. The lock of a file of one's own is always free. *)

\* acquireInstanceLease, and TryAcquire in waitForRunningInstance.
TryAcquire(p) ==
    /\ at[p] \in {"off", "waiting"}
    /\ IF p \in Others THEN UNCHANGED lock ELSE lock = NoProc /\ lock' = p
    /\ at' = [at EXCEPT ![p] = "locked"]
    /\ UNCHANGED <<meta, seen, port, to>>
MustWait(p) ==
    /\ at[p] = "off" /\ p \notin Others /\ lock # NoProc
    /\ at' = [at EXCEPT ![p] = "waiting"]
    /\ UNCHANGED <<lock, meta, seen, port, to>>

\* TryAcquire: the metadata of whoever held the lock before is cleared.
Truncate(p) ==
    /\ at[p] = "locked"
    /\ at' = [at EXCEPT ![p] = "cleared"]
    /\ meta' = IF p \in Others THEN meta ELSE NoMeta
    /\ UNCHANGED <<lock, seen, port, to>>

\* listenForAdmin: the port asked for, or the next free one.
Listen(p, r) ==
    /\ at[p] = "cleared" /\ port[r] = NoProc
    /\ port' = [port EXCEPT ![r] = p]
    /\ at' = [at EXCEPT ![p] = "bound"]
    /\ UNCHANGED <<lock, meta, seen, to>>

\* Publish; the server answers from then on.
Publish(p) ==
    /\ at[p] = "bound"
    /\ at' = [at EXCEPT ![p] = "serving"]
    /\ \E r \in Ports :
           /\ port[r] = p
           /\ meta' = IF p \in Others THEN meta
                      ELSE [url |-> r, token |-> p, desktop |-> p \in Desktop]
    /\ UNCHANGED <<lock, seen, port, to>>

\* The servers stop; the lease is closed when Run returns.
Shutdown(p) ==
    /\ at[p] = "serving"
    /\ at' = [at EXCEPT ![p] = "closing"]
    /\ port' = [r \in Ports |-> IF port[r] = p THEN NoProc ELSE port[r]]
    /\ UNCHANGED <<lock, meta, seen, to>>
\* Run returns, at any point with an error, or the process dies: the system
\* closes its files and sockets. The metadata stays in the file.
End(p) ==
    /\ at[p] \in Running \cup {"waiting", "read"}
    /\ at' = [at EXCEPT ![p] = "ended"]
    /\ lock' = IF lock = p THEN NoProc ELSE lock
    /\ port' = [r \in Ports |-> IF port[r] = p THEN NoProc ELSE port[r]]
    /\ UNCHANGED <<meta, seen, to>>

-----------------------------------------------------------------------------
(* The hand-off. *)

\* waitForRunningInstance: the lock is held, readInstanceMetadata succeeds.
ReadMetadata(p) ==
    /\ at[p] = "waiting" /\ lock # NoProc /\ meta # NoMeta
    /\ at' = [at EXCEPT ![p] = "read"]
    /\ seen' = [seen EXCEPT ![p] = meta]
    /\ UNCHANGED <<lock, meta, port, to>>

\* handleInstanceReady answers 204 only to its own token.
\* Seeded defect: it answers everybody.
AnswersAll(q, token) == q # NoProc /\ at[q] = "serving"
Answers(q, token) == q # NoProc /\ at[q] = "serving" /\ q = token

\* checkRunningInstance, and what Run makes of it.
CheckRunning(p) ==
    /\ at[p] = "read"
    /\ LET q == port[seen[p].url]
       IN  IF ~Answers(q, seen[p].token)
           THEN at' = [at EXCEPT ![p] = "waiting"] /\ UNCHANGED to
           ELSE IF p \in Desktop /\ ~seen[p].desktop
           THEN at' = [at EXCEPT ![p] = "ended"] /\ UNCHANGED to
           ELSE at' = [at EXCEPT ![p] = "handed"] /\ to' = [to EXCEPT ![p] = q]
    /\ UNCHANGED <<lock, meta, seen, port>>

-----------------------------------------------------------------------------
Next == \E p \in Procs :
    \/ TryAcquire(p) \/ MustWait(p) \/ Truncate(p) \/ Publish(p) \/ Shutdown(p) \/ End(p)
    \/ ReadMetadata(p) \/ CheckRunning(p)
    \/ \E r \in Ports : Listen(p, r)

Spec == Init /\ [][Next]_vars

-----------------------------------------------------------------------------
(* Properties. *)

\* Whoever is told that scimtest is already running is shown the process that
\* runs on its own state file, in a mode it can use, although the metadata in the
\* lock file outlives its process and another scimtest may take its port; and no
\* two processes ever run on one state file.
HandoffIsRight ==
    /\ \A p \in Procs : at[p] = "handed" =>
           SameFile(p, to[p]) /\ (p \in Desktop => to[p] \in Desktop)
    /\ \A p, q \in Procs : {at[p], at[q]} \subseteq Running /\ SameFile(p, q) => p = q
=============================================================================
