-------------------------- MODULE TunnelSupervisor --------------------------
(***************************************************************************)
(* The automatic tunnel of the web application (internal/web/web.go,       *)
(* desktop_auth.go): the one attempt to start it, the tunnel that is open  *)
(* with its watcher, retries, signing out of GitHub, which rotates the     *)
(* installation's identity (internal/core/state.go), saving the global     *)
(* configuration, which holds half of that identity, and shutting down.    *)
(* tunnelMu guards the fields, a.mu the saves, and neither is held while a *)
(* tunnel starts, closes or is awaited.                                    *)
(***************************************************************************)
EXTENDS Integers

CONSTANTS MaxSignOuts,  \* bound: rotations of the identity
          MaxDeaths     \* bound: tunnels that end by themselves

Generations == 0 .. MaxSignOuts + 1     \* 0: nothing is stored

VARIABLES
    stored,     \* tunnel_instance_id and tunnel_instance_key in the database,
                \* each by the account it was made for
    account,    \* the current account: it changes when an identity is rotated
    attempt,    \* tunnelStarting, and how far it has come
    ghost,      \* a starter that timed out may still call back
    tunnel,     \* a.tunnel
    watch,      \* a watcher has cleared a.tunnel and has not set the error
    error,      \* tunnelLastError is set
    url,        \* tunnelEnrollmentURL is set
    logout,     \* how far a sign-out has come; it sets tunnelResetting
    toStart,    \* goroutines about to call startAutomaticTunnel
    save,       \* handleConfigSave: what it has read, under a.mu
    closing,    \* tunnelClosing
    unrotated,  \* history: a sign-out could not rotate the identity
    deaths

vars == <<stored, account, attempt, ghost, tunnel, watch, error, url, logout, toStart,
          save, closing, unrotated, deaths>>

NoTunnel == [open |-> FALSE, id |-> 0, key |-> 0]
NoAttempt == [at |-> "none", id |-> 0, key |-> 0, cancelled |-> FALSE]
NoSave == [at |-> "idle", id |-> 0]

TypeOK ==
    /\ stored \in [id : Generations, key : Generations]
    /\ account \in Generations
    /\ attempt \in [at : {"none", "id", "key", "starting", "started", "failed", "done"},
                    id : Generations, key : Generations, cancelled : BOOLEAN]
    /\ tunnel \in [open : BOOLEAN, id : Generations, key : Generations]
    /\ logout \in {"idle", "waiting", "rotating", "rotated"}
    /\ save \in [at : {"idle", "read"}, id : Generations]
    /\ {ghost, watch, error, url, closing, unrotated} \subseteq BOOLEAN
    /\ toStart \in 0 .. 2
    /\ deaths \in 0 .. MaxDeaths

Init ==
    /\ stored \in {[id |-> 0, key |-> 0], [id |-> 1, key |-> 1]}
    /\ account = 1
    /\ attempt = NoAttempt /\ tunnel = NoTunnel /\ save = NoSave
    /\ logout = "idle" /\ toStart = 1
    /\ ghost = FALSE /\ watch = FALSE /\ error = FALSE /\ url = FALSE
    /\ closing = FALSE /\ unrotated = FALSE
    /\ deaths = 0

Resetting == logout # "idle"
Mu == save.at = "idle"      \* a.mu is free

-----------------------------------------------------------------------------
(* Starting. *)

\* startAutomaticTunnel, its first critical section.
StartAutomaticTunnel ==
    /\ toStart > 0
    /\ toStart' = toStart - 1
    /\ IF closing \/ Resetting \/ attempt.at # "none" \/ tunnel.open
       THEN UNCHANGED <<attempt, error, url>>
       ELSE /\ attempt' = [NoAttempt EXCEPT !.at = "id"]
            /\ error' = FALSE /\ url' = FALSE
    /\ UNCHANGED <<stored, account, ghost, tunnel, watch, logout, save, closing, unrotated,
                   deaths>>

\* EnsureTunnelInstanceID and EnsureTunnelInstanceKey: each reads or makes its
\* half in statements of its own.
EnsureInstanceID ==
    /\ attempt.at = "id"
    /\ stored' = [stored EXCEPT !.id = IF @ = 0 THEN account ELSE @]
    /\ attempt' = [attempt EXCEPT !.at = "key", !.id = stored'.id]
    /\ UNCHANGED <<account, ghost, tunnel, watch, error, url, logout, toStart, save, closing,
                   unrotated, deaths>>
EnsureInstanceKey ==
    /\ attempt.at = "key"
    /\ stored' = [stored EXCEPT !.key = IF @ = 0 THEN account ELSE @]
    /\ attempt' = [attempt EXCEPT !.at = "starting", !.key = stored'.key]
    /\ UNCHANGED <<account, ghost, tunnel, watch, error, url, logout, toStart, save, closing,
                   unrotated, deaths>>

\* Either of the two fails: setTunnelError, and the attempt is over.
EnsureFailed ==
    /\ attempt.at \in {"id", "key"}
    /\ attempt' = [attempt EXCEPT !.at = "done"]
    /\ error' = TRUE
    /\ UNCHANGED <<stored, account, ghost, tunnel, watch, url, logout, toStart, save, closing,
                   unrotated, deaths>>

\* handleTunnelEnrollmentRequired, also called by a starter that was given up.
EnrollmentRequired ==
    /\ attempt.at = "starting" \/ ghost
    /\ url' = TRUE
    /\ ghost' \in IF ghost THEN {ghost, FALSE} ELSE {FALSE}
    /\ UNCHANGED <<stored, account, attempt, tunnel, watch, error, logout, toStart, save,
                   closing, unrotated, deaths>>

\* startTunnelWithTimeout returns: a tunnel, an error, the timeout, or the
\* cancellation, after which nothing is shown but the URL is cleared.
StartReturns ==
    /\ attempt.at = "starting"
    /\ \/ /\ attempt' = [attempt EXCEPT !.at = "started"]
          /\ UNCHANGED <<url, ghost>>
       \/ /\ url' = FALSE
          /\ ghost' \in {ghost, TRUE}
          /\ attempt' = [attempt EXCEPT !.at = IF attempt.cancelled THEN "done" ELSE "failed"]
    /\ UNCHANGED <<stored, account, tunnel, watch, error, logout, toStart, save, closing,
                   unrotated, deaths>>
\* setTunnelError.
StartFailed ==
    /\ attempt.at = "failed"
    /\ attempt' = [attempt EXCEPT !.at = "done"]
    /\ error' = TRUE
    /\ UNCHANGED <<stored, account, ghost, tunnel, watch, url, logout, toStart, save, closing,
                   unrotated, deaths>>
\* The tunnel is stored, unless the attempt was cancelled: then it is closed.
Started ==
    /\ attempt.at = "started"
    /\ attempt' = [attempt EXCEPT !.at = "done"]
    /\ IF attempt.cancelled THEN UNCHANGED <<tunnel, error, url>>
       ELSE /\ tunnel' = [open |-> TRUE, id |-> attempt.id, key |-> attempt.key]
            /\ error' = FALSE /\ url' = FALSE
    /\ UNCHANGED <<stored, account, ghost, watch, logout, toStart, save, closing, unrotated,
                   deaths>>
\* The deferred function.
AttemptDone ==
    /\ attempt.at = "done"
    /\ attempt' = NoAttempt
    /\ UNCHANGED <<stored, account, ghost, tunnel, watch, error, url, logout, toStart, save,
                   closing, unrotated, deaths>>

-----------------------------------------------------------------------------
(* The open tunnel. *)

\* updateAutomaticTunnelRegistration, after a reconnection.
Registered ==
    /\ tunnel.open
    /\ error' = FALSE /\ url' = FALSE
    /\ UNCHANGED <<stored, account, attempt, ghost, tunnel, watch, logout, toStart, save,
                   closing, unrotated, deaths>>

\* watchAutomaticTunnel: the run loop has ended, for good.
Watch ==
    /\ tunnel.open /\ deaths < MaxDeaths
    /\ tunnel' = NoTunnel /\ watch' = TRUE /\ deaths' = deaths + 1
    /\ UNCHANGED <<stored, account, attempt, ghost, error, url, logout, toStart, save, closing,
                   unrotated>>
\* Seeded defect: the watcher says nothing.
NotReported ==
    /\ watch /\ watch' = FALSE
    /\ UNCHANGED <<stored, account, attempt, ghost, tunnel, error, url, logout, toStart, save,
                   closing, unrotated, deaths>>
Reported ==
    /\ watch /\ watch' = FALSE
    /\ error' = TRUE
    /\ UNCHANGED <<stored, account, attempt, ghost, tunnel, url, logout, toStart, save,
                   closing, unrotated, deaths>>

\* tunnelRetryAvailable and retryAutomaticTunnel.
RetryAvailable == ~tunnel.open /\ attempt.at = "none" /\ error
Retry ==
    /\ RetryAvailable /\ toStart < 2
    /\ toStart' = toStart + 1
    /\ UNCHANGED <<stored, account, attempt, ghost, tunnel, watch, error, url, logout, save,
                   closing, unrotated, deaths>>

-----------------------------------------------------------------------------
(* Signing out. *)

\* logoutGitHubAccount, the first section: the attempt under way is cancelled.
LogoutGitHubAccount ==
    /\ ~closing /\ ~Resetting /\ account <= MaxSignOuts
    /\ logout' = "waiting"
    /\ attempt' = IF attempt.at = "none" THEN attempt ELSE [attempt EXCEPT !.cancelled = TRUE]
    /\ UNCHANGED <<stored, account, ghost, tunnel, watch, error, url, toStart, save, closing,
                   unrotated, deaths>>
\* Seeded defect: the cancelled attempt is not awaited.
DoNotAwait ==
    /\ logout = "waiting"
    /\ logout' = "rotating"
    /\ UNCHANGED <<stored, account, attempt, ghost, tunnel, watch, error, url, toStart, save,
                   closing, unrotated, deaths>>
AwaitAttempt ==
    /\ logout = "waiting" /\ attempt.at = "none"
    /\ logout' = "rotating"
    /\ UNCHANGED <<stored, account, attempt, ghost, tunnel, watch, error, url, toStart, save,
                   closing, unrotated, deaths>>
\* RotateTunnelInstanceIdentity, in one transaction under a.mu, or an error.
Rotate ==
    /\ logout = "rotating" /\ Mu
    /\ \/ /\ stored' = [id |-> account + 1, key |-> account + 1]
          /\ account' = account + 1
          /\ logout' = "rotated"
          /\ UNCHANGED unrotated
       \/ /\ logout' = "idle" /\ unrotated' = TRUE
          /\ UNCHANGED <<stored, account>>
    /\ UNCHANGED <<attempt, ghost, tunnel, watch, error, url, toStart, save, closing, deaths>>
\* The last section: the old tunnel is dropped and closed, a start follows.
SignedOut ==
    /\ logout = "rotated" /\ toStart < 2
    /\ logout' = "idle"
    /\ tunnel' = NoTunnel /\ error' = FALSE /\ url' = FALSE
    /\ toStart' = IF closing THEN toStart ELSE toStart + 1
    /\ UNCHANGED <<stored, account, attempt, ghost, watch, save, closing, unrotated, deaths>>

\* handleConfigSave: the whole configuration is read and written back under
\* a.mu, the instance ID included.
ReadConfig ==
    /\ Mu
    /\ save' = [at |-> "read", id |-> stored.id]
    /\ UNCHANGED <<stored, account, attempt, ghost, tunnel, watch, error, url, logout, toStart,
                   closing, unrotated, deaths>>
SaveGlobalConfig ==
    /\ save.at = "read"
    /\ save' = NoSave
    /\ stored' = [stored EXCEPT !.id = save.id]
    /\ UNCHANGED <<account, attempt, ghost, tunnel, watch, error, url, logout, toStart, closing,
                   unrotated, deaths>>

\* closeAutomaticTunnel; the attempt's context is also the tunnel's.
CloseAutomaticTunnel ==
    /\ ~closing
    /\ closing' = TRUE
    /\ tunnel' = NoTunnel
    /\ attempt' = IF attempt.at = "none" THEN attempt ELSE [attempt EXCEPT !.cancelled = TRUE]
    /\ UNCHANGED <<stored, account, ghost, watch, error, url, logout, toStart, save, unrotated,
                   deaths>>

-----------------------------------------------------------------------------
Next ==
    \/ StartAutomaticTunnel \/ EnsureInstanceID \/ EnsureInstanceKey \/ EnsureFailed
    \/ EnrollmentRequired
    \/ StartReturns \/ StartFailed \/ Started \/ AttemptDone
    \/ Registered \/ Watch \/ Reported \/ Retry
    \/ LogoutGitHubAccount \/ AwaitAttempt \/ Rotate \/ SignedOut
    \/ ReadConfig \/ SaveGlobalConfig \/ CloseAutomaticTunnel

Spec == Init /\ [][Next]_vars

-----------------------------------------------------------------------------
(* Properties. *)

\* "signing out can never leave half of the old identity behind" (state.go): the
\* database holds no half of an identity that was signed out, and no tunnel or
\* attempt goes on with one, whatever attempts, saves and retries were under way.
SignedOutIsGone ==
    /\ {stored.id, stored.key} \subseteq {0, account}
    /\ ~Resetting /\ tunnel.open => tunnel.id = account /\ tunnel.key = account
    /\ ~Resetting => {attempt.id, attempt.key} \subseteq {0, account}

\* The user is never left without a tunnel, without an attempt and without a
\* Retry button (tunnelRetryAvailable asks for an error to be shown). A sign-out
\* that cannot rotate the identity after it cancelled the attempt leaves exactly
\* that.
NeverStuck ==
    \/ tunnel.open \/ attempt.at # "none" \/ toStart > 0 \/ watch
    \/ Resetting \/ closing \/ unrotated
    \/ RetryAvailable
=============================================================================
