# scimtest: a TLA+ model of its concurrent core

scimtest is a test identity provider: a local web application that signs users
in over OpenID Connect and SAML, provisions them over SCIM, injects faults into
all three, and is reached from the Internet through a tunnel server. This
directory models the parts of it in which several requests, connections,
processes or background steps share state, checks them with TLC on small
instances and proves the most important facts for every instance with TLAPS.

| Module | Models | Checked in | Proofs |
| --- | --- | --- | --- |
| `OIDCTokens` | codes, refresh, access and client tokens (`internal/web/oidc.go`, `oidc_client.go`) | `MCOIDCTokens`, `MCProgress` | `OIDCTokensProofs` |
| `IdPSessions` | IdP sessions, sign-ins, logouts (`idp_session.go` and callers) | `MCIdPSessions`, `…Deactivated` | `IdPSessionsProofs` |
| `SAMLLogouts` | LogoutRequests, the log of the newest, the checklist step that waits for an answer (`saml_logout.go`) | `MCComponents` | `ComponentsProofs` |
| `LifecycleRuns` | joiner, mover and leaver runs and what settles their steps (`lifecycle.go`) | `MCComponents`, `MCProgress` | `ComponentsProofs` |
| `ScimSync`, `ScimMirror` | the directory, the sync rows, the jobs and the SCIM service (`internal/core/scim*.go`, `handlers_sync.go`); what a sync promises | `MCScimSync`, `…Paused` | `ScimSyncProofs` |
| `FaultScenarios` | fault scenarios and quick faults (`resilience.go`, `fault.go`) | `MCComponents` | `FaultScenariosProofs`, `ComponentsProofs` |
| `SigningKeys` | the key ring, its backup (`signing_keys.go`) | `MCComponents` | `ComponentsProofs` |
| `StateStore` | opening, upgrading and saving the SQLite file (`internal/core/state.go`) | `MCComponents` | `ComponentsProofs` |
| `SingleInstance` | one process per state file, the hand-off (`instance.go`, `startup.go`) | `MCComponents` | `SingleInstanceProofs`, `ComponentsProofs` |
| `TunnelSupervisor` | the automatic tunnel, signing out (`web.go`, `desktop_auth.go`) | `MCComponents` | `TunnelSupervisorProofs`, `ComponentsProofs` |
| `Updates` | the macOS updater (`internal/update`) | `MCComponents` | `ComponentsProofs` |
| `TunnelRegistry` | the server's tunnels and remembered installations, the client that reconnects (`internal/server`, `internal/client`) | `MCTunnelRegistry`, `…Names`, `…Pruned`, `…Reconnect` | `TunnelRegistryProofs` |
| `Forwarding` | public requests on their way through one tunnel (`server.go`, `client.go`) | `MCProgress`, `MCForwardingStops` | |
| `Enrollment` | device codes, logins, approval, replacement, the grant (`enrollment*.go`) | `MCComponents` | `ComponentsProofs` |

`tlc -config X.cfg MCModule` runs one instance, `tlapm OIDCTokensProofs.tla`
checks the proofs. The `MC` modules of one component add the symmetry sets and
constant definitions that TLC needs. Two harnesses check several components:
`MCComponents` (nine that have safety properties only) and `MCProgress` (three
that have liveness properties). In both, the variable `running` picks a component
in the initial state and never changes, so that TLC explores the sum of the
components' state spaces, not their product; every property in them begins with
`running = …` and is that component's own. Definitions whose comment begins with
*Seeded defect* are not part of any specification: each is a plausible bug in one
definition, kept to show that the property it violates can be violated.

## 1. Inventory

### The local web application (`internal/web`, `internal/core`, `internal/update`)

One process serves the dashboard, a JSON API, the identity provider endpoints
and an optional tunnel. Every HTTP request is a goroutine. Six mutexes matter:
`a.mu` (the saved directory), `oidcMu` (credentials), `sessionMu` (IdP sessions),
`resilienceMu` and `faultMu` (fault injection), `tunnelMu` (the automatic
tunnel). A handler usually loads the directory first, lets go of `a.mu`, and
takes one of the others later, so what it does rests on a directory that may have
changed. A sync job holds none of them while it talks to the SCIM service.

| Component | State | Operations | What makes it correct |
| --- | --- | --- | --- |
| OIDC credentials | `authCodes`, `refreshTokens`, `accessTokens` in memory | authorize, exchange, refresh with rotation, client credentials, userinfo, introspect, revoke (client, inspector, API, leaver), prune | a code is used once; one refresh token per grant; a revocation is final; scopes never grow; nothing expired is exchanged |
| IdP sessions and single logout | `idpSessions` in memory, the browser's cookie, the SAML logout log | sign in through the chooser, reuse a session, replace another user's, note tokens and assertions, log out (RP, SP, inspector), deactivate, expire; a background delivery per ended session; send a LogoutRequest through the tester's browser, take its answer | exactly one logout token per ended session that issued ID tokens; an ended session stays ended; a deactivated user has none; a step shows the answer to its own request |
| Fault injection | the scenario of each environment with its counters; quick faults | arm, disarm, expire; reserve, deliver, cancel; take | counters tell what is delivered and under way; an ended scenario stays ended |
| Sync jobs and SCIM engine | the job table, per-resource remote identifiers and sync states | plan, run (create, update, disable, delete, adopt, forget), reconcile, push one, cancel, import preview and apply, reset | no resource created twice or forgotten; what is marked clean is at the service; one job per target; no edit lost |
| Lifecycle runs | the run log | joiner, mover, leaver: save, sync and wait, end sessions, revoke tokens | a leaver ends with nothing that works; a run settles and tells the truth |
| State store and directory | SQLite through `internal/core/state.go` | open, copy, migrate, import, save, delete, back up, restore, personas | an upgrade keeps every directory wherever it died |
| Signing keys | the ring of each environment | rotate with a grace period, publish, back up and restore | a retired key is published as long as its rotation said |
| Automatic tunnel | the attempt, the open tunnel with its watcher, the identity in the database | start, retry, watch, sign out (rotate), save the configuration, close | no half of an old identity; the user is never left with nothing to click |
| Single instance, desktop | a lock file with metadata | acquire, hand over, take over | one process per state file; one is shown one's own |
| Updates | an offer, staging folders with locked receipts, the bundle | check, download, stage, swap, relaunch, sweep | what is offered is on disk; builds never go backwards |
| Shell, inspectors, playground | bounded logs | pages and forms | nothing depends on them, except the SAML logout log |

### The tunnel server and its client (`internal/server`, `internal/client`)

| Component | State | Operations | What makes it correct |
| --- | --- | --- | --- |
| Tunnel registry | `tunnels` by path under `s.mu`; the profiles and their remembered instances in a JSON file under `store.mu`; `profileMu` around registrations and updates; per tunnel the waiting requests and a send queue | connect, authenticate, choose a name, register, remember, serve, forward, unregister; revoke, release, update, delete, prune | one tunnel per installation, one per path; no revoked installation serves; open tunnels follow the stored profile; every request ends |
| Client | the connection, a send queue, a backoff | dial, answer the challenge, read, handle, write, reconnect, stop on a terminal refusal | it stops only for what a retry cannot heal; it dials again |
| Enrollment and replacement | device codes with three indexes, logins and grants in memory, installations in the file | start, poll, log in, confirm, approve, consume, replace an installation, revoke | limits hold; a grant enrols one key once |
| Dashboard authentication, protocol, files | cookies, messages, atomic renames | | |

How they meet: sign-ins join IdP sessions and store codes; token handlers note
in the session that an ID token was issued; saves end sessions of inactive users
and leavers revoke tokens; lifecycle runs start sync jobs and poll for them;
scenarios make token handlers let go of `oidcMu` in the middle; everything public
arrives through the tunnel, which the supervisor starts with an identity that the
enrollment made known to the server.

The full list of components with their status, and of the hazards with the line
where each bites, is in `PROJECT.json`.

## 2. Plan

Done, in this order: what every sign-in depends on (`OIDCTokens`, `IdPSessions`),
what all users of a tunnel server share (`TunnelRegistry`, `Enrollment`,
`Forwarding`), what adds delays and failures (`FaultScenarios`), provisioning
(`ScimSync` with its abstract specification, `LifecycleRuns`, `SAMLLogouts`), the
process around it (`StateStore`, `SigningKeys`, `TunnelSupervisor`,
`SingleInstance`, `Updates`).

Proved since: every safety property that the passing runs check, the type
invariants, and the refinement of `ScimMirror` (section 6).

Left, in this order:

1. The safety part of `Forwarding`: slots and queues within their capacity, one
   answer for each request.
2. An authorization code that is exchanged after its session ended
   (`idp_session.go:156`): `OIDCTokens` and `IdPSessions` would have to run together.
## 3. The modules

### OIDCTokens

The three maps are sets of records; `oidcMu` is the request that holds the mutex
across a directory read, or `NoOne`. A handler that keeps `oidcMu` from its first
to its last step is one action. It is two when it reads the directory in
between (`RedeemCode`, then `Issue` or `FailToIssue`), and three when a scenario
delays it: `StartDelay` marks the credential and lets go of the mutex,
`EndCodeDelay`, `EndRefreshDelay` and `EndClientDelay` look it up again.
`Rotated` is the replacement of the presented refresh token; `Revoke` serves the
client's revocation, the inspector's and API's, and the leaver's. A leaver run is
two actions, `LeaverDeactivates` and `LeaverRevokes`, around which every token
request can move; an app that has OIDC switched off when it comes to the second is
skipped (`LeaverSkips`), and the run then promises nothing. `grantLog`, `revokedGrants` and `left` are histories: what was
exchanged, revoked, and who left.

Not modelled: comparisons of strings (PKCE, redirect URI, client secret, app of
the code). They refuse a request before it changes anything; what remains of
such a request is the pruning at its start, `Prune`. A restart empties all maps.

### IdPSessions

A sign-in is `SignInFresh` or `SignInAgain` (the handler's check of the user
against the directory it loaded), `FindSession`, `ReplaceSession`,
`JoinIdPSession` (the three critical sections of `joinIdPSession`) and
`AnswerOIDC` or `AnswerSAML`. A logout is a choice of live sessions
(`LogoutRP`, `LogoutSP`, `LogoutInspector`) and, later, `FinishLogout`. `End` is
`endIdPSessions`: one critical section that deletes and decides who gets a
logout token. The one attempt to deliver it runs in the background and touches
no session, so the model counts the attempts that were started. `SaveState` and
`EndInactiveUserSessions` are the two halves of `saveRequestStateEndingSessions`,
between which sign-ins go on. Every lookup ends what has expired first (`Live`,
`Expired`). The cookie is the one the browser sends when the request starts, and
is replaced when it is answered.

`late` marks the sessions a sign-in joined after its user had been deactivated.
`DeactivationEndsSessions` says these are the only sessions an inactive user can
have.

### SAMLLogouts

The inspector checks that a session is live (`CheckLive`), then ends it and sends a
LogoutRequest (`LogOutSAMLSession`). A leaver's run ends all sessions and offers one
request each in its checklist (`EndSessions`); a tab that takes the offer
(`CheckOffered`) sends the request (`SendLogout`) and then notes its identifier in
the step (`NoteSent`): three critical sections, between which the other tab does the
same for the same step. `AnswerLogout` is the SP's answer, which may come twice,
late, or for a request that newer ones pushed out of the log of `LogSize`; `View` is
the page that copies an answer into the step. `first` remembers which answer was
accepted.

### LifecycleRuns

A run is created whole with its steps (`StartJoiner`, `StartMover`,
`StartLeaver`), after which one goroutine per run works off its pushes: it asks
for a sync job, is refused while another runs, polls until its own has ended,
and finds, between two polls, that another job has taken the place of its own
(`PushStep`). `StartOtherJob` is everybody else's use of the job table. Logout
tokens are answered in the background (`SendLogoutToken`) and shown when the page
is looked at (`View`). A mover's step waits for the next token or assertion,
whose groups are read before it is noted (`StartIssue`, `NoteIssuedGroups`).
Only the newest `MaxRuns` runs are kept; the goroutine of one that has left the
list still runs. The tokens a leaver revokes are `OIDCTokens`, its LogoutRequest is
`SAMLLogouts`.

### ScimSync and ScimMirror

The resources are users, who may have managers, and one group. `directory`, `rows`
(per resource: the remote identifier, dirty, deleted) and `scim` (the service it is
pointed at) are what `a.mu` protects; `service` is what the SCIM service holds;
`job` is the copy that a running job walks. `StartJob` loads and projects,
`Write`, `Forget`, `DeleteRemote`, `Refuse` and `SendAwaited` are one exchange with
the service each, and `FinishJob` writes back: all rows after a sync or a
reconciliation, the one row of a push. Between any two, the user may cancel
(`Cancel`), the service may refuse, answer too late or not at all (`Outcomes`), and
the process may end (`LoseJob`). The handlers that edit the directory ask
`rejectWhileSyncing` (`MayEdit`); an import is previewed, while nobody holds
anything, and applied later if the directory's digest is unchanged. `LoseResource`
is somebody else's deletion at the service. `SaveApp` is the environment's form,
which may empty the token (SCIM pauses), change the base URL, or clear both.
Histories: `intended` is what was last saved by hand; `vanished`, whether a row's
identifier vanished; `home`, the service that the rows are about, or none once a job
ran on rows that were set up for another; `known`, the identifiers that rows have
held since they were last started over for a service; `dropped`, those of `known` that
the form made the rows forget by setting up the same service again.

`ScimMirror` is what that amounts to: a directory, a service, and the resources
that count as settled. An edit unsettles what it changes, a request writes a
resource as the directory holds it at that time, and only what service and
directory agree on is ever settled. `ScimSync!Mirror` takes the service that the rows
are about (`home`) for the mirror's, and maps the rows that exist and are clean to
*settled*, and `Mirrors` says that every step of the engine is a step
of the mirror or changes nothing it shows. A deletion at the service by others, an
import, which replaces the directory by a view of the service, a form that sets up
another service, and a job on rows that are about another one end that promise
(`Disturb`).

### FaultScenarios

`run` is the environment's scenario with its counters, `armed` the quick faults
by what takes them, `arming` the handlers that armed a scenario and have not
disarmed the quick faults yet (two calls, two mutexes). A request takes a quick
fault, or goes on to the scenario in a second step (`TakeArmedFaults`,
`TakeFlowFaults`); a token or JWKS request reserves an injection and completes
or cancels it later. Token requests exclude each other by `oidcMu` except while
they are delayed (`Settle`, `OidcMuHeld`). Presets are the four combinations of
phase and delay the code has, and only those without a fixed count take one.
The log of decisions is left out.

### SigningKeys

The ring is a sequence of keys with the time until which each is published. A
rotation reads the clock in its handler (`Request`) and changes the ring when it
gets `a.mu` (`Rotate`), so that one may overtake another. `Restore` takes the ring
of a backup as it is, and with it what that ring promised.

### StateStore

`pc` follows `LoadState`: `Open`, `WriteCopy` (the copy before an upgrade, and the
pruning of older copies), `CreateSchema`, the three migrations and `Stamp`, each a
transaction, then `LoadState`, `Import` and `DistributeImport` of the JSON file of
the earliest versions, and `SaveSigningKey`. `Crash` may come between any two. The
initial state is any database of an older version over the constants, or a JSON
file. Users' requests then save and delete environments. A directory is the set
of its user IDs; the other tables are copied and deleted by the same statements.

### TunnelSupervisor

An attempt reads the two halves of the installation's identity in two steps, each
of which makes the half that is missing (`EnsureInstanceID`, `EnsureInstanceKey`) or
ends the attempt with an error (`EnsureFailed`), starts the tunnel and stores it. A starter that timed out may still call back
(`ghost`). The watcher clears `a.tunnel` (`Watch`) and later shows the error
(`Reported`). A sign-out cancels the attempt, waits for it, rotates, and starts
again (`LogoutGitHubAccount`, `AwaitAttempt`, `Rotate`, `SignedOut`).
`handleConfigSave` reads the configuration with the installation's ID and writes
it back (`ReadConfig`, `SaveGlobalConfig`). An identity is the number of the account
it was made for.

### SingleInstance

Each process is started once and goes through `TryAcquire`, `Truncate`, `Listen`,
`Publish`, `Shutdown`, `End`, or waits: it reads the metadata (`ReadMetadata`),
asks the readiness endpoint at that address, where by then somebody else may
listen (`CheckRunning`), and is handed over, fails, or tries again. One process
has a state file of its own, one may not need a GitHub account.

### Updates

A process checks the feed, downloads, makes a folder (`Claim`, which locks its
receipt), unpacks and verifies (`Stage`), and when the user restarts or quits
waits for the lock on the bundle (`LockInstalled`), looks at what is there
(`CheckInstalled`), exchanges the two bundles (`Swap`) and starts the relauncher,
undoing the swap if it cannot (`Relaunch`). `RemoveLeftovers` looks at one folder
at a time. `Exit` may come anywhere and releases the locks.

### TunnelRegistry

One profile is followed. A connection is a chain of actions, one per critical
section: `Connect` (the profile is read), `Authenticate` (the signature, or an
enrolment), `LookUp` (under `profileMu`: the profile again, an active tunnel, the
remembered name), `ChooseName`, `Register` (`s.mu`), `Remember` (`store.mu`; a
failure takes the tunnel away again), then `FailRead` and `Unregister`, which
deletes by path. The lookups of a drawn name in the tunnels and in the store
are merged into `ChooseName`. `profileMu` is held from `LookUp` to `Remember`
and excludes `SaveProfile … CloseTunnels`. The dashboard's `Revoke` and
`DisconnectInstance` are separate steps under other locks. `open` tells which
connections the server has not closed; a closed one stays in `tunnels` until its
handler is done. `Restart` keeps the store alone.

A client is down, connecting, connected or stopped for a reason. `Drop` is a
failure it retries, `Refuse` one that `isTerminal` takes for fatal. A client that
lost its connection goes on while the server still holds it.

Names are the values `randomID` may draw. Legacy installations are in the data
file from the start with a name. The key of a profile is abstracted to whether
it was rotated. A tick stands for weeks: no handshake or half-open connection
lasts for one. One revocation of an instance runs at a time. Registration slots
and rate limits are left out, and what goes through a tunnel is `Forwarding`.

### Forwarding

One tunnel, from its registration to the moment both ends have let go of it. A
public request takes a slot and enters the table (`Admit`), is queued (`Send`),
and ends with a response, a refusal or the news that the tunnel is gone (`Answer`),
or its own timeout (`GiveUp`). The server's connection handler (`ServerStep`:
confirm, read, fail what is pending, unregister, close `done`), its writer
(`ServerWrite`), the client's read loop (`ClientStep`), handlers (`AnswerLocally`,
`SendResponse`) and writer (`ClientWrite`) are separate, with bounded channels
between them; a goroutine whose channel is full waits. The first ping comes a whole
interval after the writer started, hence only after the confirmation has left the
server's queue (`Confirmed`). `BreakConnection` may come
at any time, after which each end finds out when it next reads or writes.

### Enrollment

A pending authorization with its three indexes, the GitHub logins that confirm it
(`BeginGitHubOAuth`, `Callback`, `FailCallback`), the approval at the account's
limit (`ApproveEnrollment`), the offer to give up another installation (`Offer`,
`Choose`, `Replace`), the grant and its redemption when the client connects
(`Redeem`: the save may fail, and then the grant stays and the client stops), the
dashboard's revocations, expiry of each kind of entry, and a restart, which
forgets everything but the installations. Each browser tab has one request under
way, and its steps interleave with those of the other and with the clients.
`AdmitsWithinLimit` is about steps: an account above its limit may stay there, since a
replacement exchanges one installation for another, but only un-revoking one takes
it there.

## 4. The runs

Invariants, action properties and the refinement (a safety property too) use symmetry
over identities that nothing but equality tells apart. The run with liveness uses none.

| Run | Bounds | What it shows |
| --- | --- | --- |
| `MCOIDCTokens` | 1 user, 1 app, 2 requests, 7 secrets, clock 0..2, refresh tokens outlive codes | Two requests race for a code, for its refresh token and for the rotated one; a delay, a revocation or an expiry may fall between any two steps. Seven secrets are two codes or a code, its grant, and two generations of tokens. |
| `MCIdPSessions` | 2 users, 1 browser, 2 requests, 2 sessions, lifetime 1, clock 0..1 | Any two sign-ins and logouts overlap, of one user or of two, while sessions expire and the directory changes. |
| `MCTunnelRegistry` | a legacy installation, one with a key, 2 connections, 2 names, 2 tunnels, one update or deletion, idle after 0 of 1 ticks | Both register and reconnect (two connections of one installation as well), while they are revoked, released, pruned and updated and the server restarts. |
| `MCScimSync` | 2 users, 1 group, 2 services, 5 remote resources, 2 edits (a saved form is one), 2 jobs, 1 failure, import or loss | A user managed by another and a group are edited, deleted, restored, imported, and pushed by jobs that fail, stop or are lost between any two exchanges, while the form switches the service, pauses SCIM and resumes it. Two jobs are one that goes wrong and one that must heal it; five remote resources are more than either needs. |
| `MCComponents` | see below | Fifteen properties of nine components. |
| `MCProgress` | see below | Four liveness properties, and a leaver's tokens. |
| `MCIdPSessionsDeactivated` | as `MCIdPSessions` | Finding 1. |
| `MCTunnelRegistryNames`, `…Pruned`, `…Reconnect` | two installations with keys (one for the last) | Findings 2 to 4. |
| `MCForwardingStops` | 2 requests, queues of 1 | Finding 5: one request, queued between the tunnel's entry in the table and its confirmation, is enough. |
| `MCScimSyncPaused` | 1 user, 1 group, 2 services, 2 edits, 1 job, no failures | Finding 6: two saved forms are enough. |

`MCComponents`, by component:

| Component | Bounds | What it shows |
| --- | --- | --- |
| `FaultScenarios` | 3 requests, 2 scenarios, counts to 2, clock 0..1 | More requests than injections; a reservation survives its scenario by another (`CountersAgree`, `EndedRunStaysEnded`). |
| `SAMLLogouts` | 2 sessions, 2 tabs, 3 LogoutRequests, a log of 2 | The third request pushes the first out of the log (`StepsShowTheirAnswer`). The code keeps ten: only the eviction matters. |
| `Enrollment` | 2 installations, 1 account, 2 codes, 2 tabs, limit 1, 2 per network | Two authorizations compete for one place; a code is replaced by the other under a browser's hands (`IndexesAgree`, `GrantsAreSpent`, `WithinLimit`). With one account, no grant can be for another: that part of `GrantsAreSpent` is shown by its theorem only. |
| `Updates` | 2 processes, 2 folders, 3 builds | A process stages the second build, another the third, in either order (`StagedIsThere`, `NeverBackwards`). |
| `TunnelSupervisor` | 2 sign-outs, 2 tunnels that die | An attempt, a retry and a save under way at a sign-out, and again at the next (`SignedOutIsGone`, `NeverStuck`). |
| `StateStore` | 1 environment beside the default one, 2 apps, 1 user, 2 copies, 3 starts | Two starts that die in the middle of an upgrade and one that has to live with it (`UpgradeKeepsDirectory`). |
| `SigningKeys` | 3 rotations, grace 0..2, clock 0..2, 2 handlers | Rotations that overtake each other with different grace periods (`PublishedAsPromised`). |
| `SingleInstance` | 4 processes, one with its own file, 2 of the desktop; 2 ports | A process waits while its predecessor ends and another takes the port (`HandoffIsRight`). |
| `LifecycleRuns` | 2 runs, of 2 kept, 1 user and the joiner's | Two runs and other jobs push each other out of the job table (`PushesTellTheTruth`). |

`AllTypeOK` is the type invariant of whichever runs. `MCProgress` has `OIDCTokens`
with 1 user, 1 app, 2 requests, 4 secrets and clients that ask for offline access
(`LeaverHoldsNothing`, `MarkIsTemporary`); `LifecycleRuns` with 1 run and other
jobs beside it (`RunsSettle`); `Forwarding` with 2 requests, 2 slots at the server
and 1 at the client, so that the second is refused as busy, and queues of 1, so
that any two messages fill one (`RequestsEnd`, `LostIsRedialled`).

Why these bounds are enough to be of use: every property relates at most two
actors and one resource of each kind to one step of something else, and each
instance has that many and one step to spare. Every property is known to fail
under a seeded defect in the very same run.

`CHECK_DEADLOCK FALSE` is said where the system may come to rest for good: the
bounds on edits, jobs, starts, secrets or sign-outs are used up, or the tunnel has
ended at both sides.

Fairness is assumed in `MCProgress` only, and states what Go's scheduler and the
code's timeouts give. `OIDCTokens`: a request that holds `oidcMu` after its
directory read returns (weak fairness of `Issue` or `FailToIssue`), since it runs no
loop and waits for nobody; a delay ends, and its request gets the mutex again
(strong fairness of the three `End…Delay` actions, since others may take the mutex
in between), because `sync.Mutex` hands a waiter that starves for a millisecond
the lock. `LifecycleRuns`: a goroutine runs on, a job ends because each of its
exchanges has a timeout, a logout token has its answer after
`backchannelLogoutTimeout`, and an open page refreshes itself while something is
running. `Forwarding`: each goroutine runs on, the local application answers or
times out; a sender that waits for room in a channel is served although others
come (strong fairness of `Send` and `SendResponse`), since Go's channels queue
their waiters. Nothing makes a request arrive, a connection break, a ping be sent
or a request give up: the properties hold without.

## 5. Findings

Each is a run that TLC ends with a counterexample, next to the sentence of the
repository that it contradicts (quoted in `PROJECT.json`).

1. **A sign-in can outlive a deactivation** (`InactiveUserHasNoSession`).
   `joinIdPSession` does not look at the directory again.
2. **Two installations can own one name** (`NamesReservedOnce`). The reservation
   is asked before it is made and nothing spans both; the first tunnel must be
   gone by the time the second one registers.
3. **A connected installation is pruned as idle** (`ConnectedIsRemembered`).
   `LastUsedAt` is written when a tunnel registers; the two prunings inside the
   store, unlike the one on approval, do not ask whether it is connected. They
   drop legacy records as well (`store.go:319`).
4. **A quick reconnect stops the client** (`ReconnectIsRetried`). While the
   server holds the half-open tunnel it answers *policy violation*, which the
   client takes for terminal.
5. **A request can stop the tunnel it goes to** (`NeverStopsForGood`).
   `handleConnect` makes the tunnel findable before it queues the confirmation; a
   client whose first message is a request gives up for good.
6. **A base URL that changes while SCIM is paused leaves clean rows behind**
   (`CleanIsAtService`). The rows are rebuilt only if the same save changes the URL
   and leaves SCIM enabled: a save with another URL and an empty token, and one with
   the token, keep the identifiers and the clean rows of the first service.

### Noted while modelling

These have no run of their own. Where a checked property would fail because of
one, the property names the exception and the history variable or condition that
marks it; the rest concern what the models abstract from, or what nobody promised.

- *Provisioning.* A remote identifier is forgotten when a create request's answer
  is lost and the user is deleted before the next sync (`PurgedIsGone` speaks of
  identifiers that a row has held, `known`), and a group that the lost job sent keeps
  the forgotten user as its member (`Forgotten` in `CleanIsMirrored`). A group keeps a stale member if the member was
  deleted and restored around a push (`StateForApp` strips it without marking the
  group), a report keeps a manager that was deleted at the service and created
  again (`vanished`), and reconciliation does not notice a stale manager
  (`scim.go:334`). After finding 6, a job works on rows about one service at another, and
  its rows may hold identifiers of both: `CleanIsMirrored`, `PurgedIsGone` and `Mirrors`
  are about the service that the rows are about (`home`), and say nothing while there is
  none. Switching SCIM off in the form clears its base URL (`app_form.go:267`), so that
  switching it on counts as another URL and rebuilds the rows without their
  identifiers, although "Re-enabling after a pause resumes remembered remote IDs instead
  of recreating" (`app_form.go:220`): a user deleted before the next sync is forgotten while the
  service holds it (`dropped` in `PurgedIsGone`). An import that was previewed
  before a job whose save was lost marks rows clean while the service is newer
  (`imports = 0` in `CleanIsMirrored`).
- *Fault scenarios.* A quick fault may be armed while a scenario waits for the next
  flow (`fault.go:344`); only the other order is prevented (`resilience.go:526`). The quick
  fault is taken first and the scenario fails a later flow; its counters stay right.
- *Lifecycle runs.* A job that is replaced in the job table within the 25 ms
  between two polls is shown as failed although it succeeded; the pushes of two runs
  refuse each other; a LogoutRequest that left the log leaves its step waiting, and
  a step that was ok may wait again when a second tab had passed `CanSendLogout`.
- *Forwarding.* The client's read loop itself waits for room in the send channel
  (`client.go:384`, `:663`); once the writer has died nothing empties it, and the
  client never dials again: the exception in `LostIsRedialled`. A tunnel whose name
  the store refused is dropped without closing `done` (`server.go:498`), so requests
  that found it wait for their two minutes: an exception in `RequestsEnd`.
- *Enrollment.* A server restart forgets device codes; the client takes the 404
  of its next poll for terminal. Un-revoking an installation can exceed the account's
  limit (`dashboard.go:364`; `Unrevokes` in `AdmitsWithinLimit`), and the account then stays
  above it: a replacement gives up one installation for another (`enrollment_replacement.go:421`),
  whoever was un-revoked in between.
- *Automatic tunnel.* `handleConfigSave` writes the instance ID back as it read
  it, under `a.mu`, which `EnsureTunnelInstanceID` does not take; the ID it writes is
  at worst an empty one. A sign-out that cancelled the attempt and then cannot
  rotate the identity leaves neither a tunnel nor a Retry button (`unrotated` in
  `NeverStuck`). A starter that timed out may still show its enrollment URL.
- *State file.* A crash between the save and the distribution of an imported JSON
  file leaves apps without an environment of their own for good (`torn` in
  `UpgradeKeepsDirectory`). More than ten failed upgrades prune the copy of the
  original. Users of an environment without an app do not survive an upgrade if other
  apps exist; the copy keeps them.
- *Updates.* A check that ends while a restart is under way may replace what is
  shown; an undone swap lets a process launched in between install an older build
  (`undone` in `NeverBackwards`).
- *Signing keys.* Restoring an older backup drops keys still within their grace.
- *Sessions.* Two overlapping sign-ins of one browser start a session each
  (`idp_session.go:119`).

## 6. The proofs

Each proof module proves an inductive invariant with two lemmas (`InvInit`: the
initial states satisfy it; `InvStep`: every step keeps it, one proof step or lemma
per action), and the properties from it. Nothing is assumed but the named
assumptions on the constants in the modules themselves, which TLC evaluates on
every run, and in two proof modules hypotheses of their theorems: `Distinct` and
`Bounds` (of `SingleInstanceProofs` and `TunnelSupervisorProofs`) say of the
constants what every instance meets, and `ComponentsProofs` proves both from the
assumption of `MCComponents`.

`OIDCTokensProofs` proves the type invariant, `CodeUsedOnce`,
`OneRefreshTokenPerGrant`, `RevokedGrantStaysDead`, `LeaverHoldsNothing` and
`ScopeFollowsGrant`. None of these is inductive, since a handler between its
read and its issue remembers a grant that the tokens no longer show. `IInv` says
what such a handler may rely on: a handler that issues holds `oidcMu`
(`LockHeld`), secrets are in the maps only once drawn (`SecretsDrawn`), the
grants of refresh tokens, access tokens, pending issues and pending delays are
not revoked and those who left are inactive until they are reactivated
(`LeftAreInactive`). `MarkedByOneDelay` and `ExpiredIsNeverRedeemed` rest on a
second invariant, `MarkInv`: every mark has exactly one delayed request that holds
it (one property, since which request unmarks which credential is decided by their
values), and what a delayed request holds was drawn (`HeldWereDrawn`), so that a
credential issued meanwhile is not taken for it. `ExpiredIsNeverRedeemed` is an
action property: a delay ends in a state in which the credential may be gone, and
the step must look again.

`IdPSessionsProofs` proves the type invariant, `LogoutOnce`,
`DeactivationEndsSessions`, and the action properties `EndedStaysEnded` and
`AssertionsStayMatchable`. Four parts of `IInv` make up a `Ledger` of sessions:
identifiers are drawn once (`IdsWereDrawn`), an identifier has one live session
(`OneSessionEach`), a stored session says of itself whether it issued ID tokens
(`NotedIsStored`), and exactly the ended ones that did have a delivery (`LogoutOnce`). Expiry, the three logouts and a deactivation all end sessions
through one operator, so one lemma says that a session and its delivery change
hands together, and the steps cite it. `DeactivationEndsSessions` is inductive
with the type invariant.

`FaultScenariosProofs` proves the type invariant (no counter below zero),
`CountersAgree`, `InjectedAsShown`, `EndedRunStaysEnded` and
`OnlyActiveRunInjects`, for a finite set of requests, with the library's facts on
cardinalities. (`InjectedAsShown` and `OnlyActiveRunInjects` are proved only; no run
repeats them.) `CountersAgree` speaks of the active scenario only; a cancellation
does not ask whether its scenario is active, which is safe because an ended one
owes nothing: `EndedOwesNothing` is in `IInv` for that, `ReservedBefore` so that
a new scenario's number is held by nobody, `NotArmedYet` so that nothing is
counted for it before it is armed, and `FlowIsOneInjection` because the scenario
for the next flow counts its one injection without reserving it.

`TunnelRegistryProofs` proves the type invariant, `OneTunnelEach`,
`RouteHasItsHandler` and `RevokedIsDisconnected`, for any numbers of connections,
names and installations. The three need each other: that a tunnel removed by its
path is the handler's own follows from `RouteHasItsHandler` and `OneTunnelEach`
(lemma `OwnTunnel`). `NamedHaveNames` and `OneRecordEach` are added: the first
for the types, the second because a registration asks one record of the store
whether the instance is revoked and the property speaks of all. Most steps are
instances of three lemmas: a connection without a tunnel moves (`QuietStep`), the
store or the connections change (`StoreStep`), a tunnel goes (`UnregisterStep`). `ServesCurrentProfile` and
`ServesUnderItsName` follow from a second invariant, `ServingInv`, that relies on
the first. A connection reads the profile's version when it authenticates and
registers much later; `RegistersCurrentProfile` says why that is safe: from the
check under the read lock until the tunnel serves, no update is under way, so the
version it holds is the stored one. `ServesUnderItsName` needs that the name a
handler was given is still the record's when it registers, whatever is pruned.

`SingleInstanceProofs` proves the type invariant and `HandoffIsRight`, for any
processes and ports (`Distinct`: the values that stand for *nobody* and *no port*
are none of them). What a waiting process is shown it read from a file and asked
over HTTP, while the process that wrote it may have ended and another taken its
port; so `IInv` speaks of what was read rather than of who runs.
`MetadataIsTruthful`: metadata, in the file or as read, names a process of the
shared state file and its own mode, running or not. `ReadersHaveRead` and
`WaitersShare` give the asking process an address and exclude those with a file of
their own, `RunnerHoldsLock` makes the runner unique, and `ShownRightly` is the
property without the present owner of the lock.

`TunnelSupervisorProofs` proves the type invariant, `SignedOutIsGone` and
`NeverStuck`, for any bounds on sign-outs and on tunnels that end (`Bounds`: they
are naturals). A sign-out replaces the identity while an attempt, an open tunnel or
a save may hold the old one. `AttemptIsCurrent`: an attempt reads the identity
after it began and there is none while the identity is rotated, because the
sign-out waits for it. `TunnelIsCurrent`: an old tunnel is open only between the
rotation and the end of the sign-out. `NothingOldStored`: a save writes back what
it read under the same mutex the rotation needs. `AttemptIsAccountedFor` is what
`NeverStuck` rests on: an attempt that is over has left a tunnel, a watch, an error
or a sign-out that waits for it. `RoomToRotate` keeps the number of identities in
its type.

`ScimSyncProofs` proves the type invariant, `OneResourceEach`, `EditsSurvive`,
`PurgedIsGone`, `CleanIsMirrored` and that `ScimSync` implements `ScimMirror`. A job works on a
copy of the directory and of the rows that it loaded, so most parts of `IInv` come in
threes, for the stored rows, for the job and for an import that was previewed: an
identifier is of the resource whose row, copy or preview has it
(`RowsNameTheirOwn`, `JobNamesItsOwn`, `PreviewNamesItsOwn`, over `IdsAreOwn` and
`OnePerService` of the services); the rows are marked as the directory says, and
the copy is the loaded directory but for what the walk did (`RowsFollowDirectory`,
`JobFollowsDirectory`: this is why a job that ends overwrites no edit); what counts
as settled is at a service (`SettledIsMirrored`, `WalkedIsMirrored`); and an
identifier that a row knew, of a resource that is still there, is known to the row
and to the job (`KnownByRow`, `KnownByJob`). The refinement maps the service and the
directory to the mirror's; its proof shows step by step that a step of a job writes one
resource or none (`MirrorJobStep`) and that everything else leaves the mirror alone or
edits it.

`CleanIsMirrored` has an invariant of its own on top of `IInv`, `CleanInv`, since what it says
of managers and members depends on the identifiers that the rows had when the references were
sent. What a row, or a job's copy, has as clean is at the service with the references
that *its* identifiers stand for (`CleanRowsAgree`, `CleanWorkAgrees`), except for a
user that still awaits its manager. That agreement must survive the rest of the job, so a
job sends what the directory has and draws no second identifier for what a row
knows (`JobSendsDirectory`, `JobKeepsIds`), what a row remembers is still there
(`RowsHeld`), and no resource refers to an identifier that is yet to be drawn (`RefsWereDrawn`):
otherwise the next create would make a member of a group by accident. TLC checked
`CleanInv` before it was proved. The property used to have no exception for a
forgotten member. The proof of the step that forgets a deleted user did not go
through, and with three edits and three jobs TLC found why: a reconciliation
creates a user and sends the group, and is lost; the user is deleted before the next sync, and
the directory, which never had the identifier, forgets it; the group is clean and the
service still holds the member. The run's own bounds are too small for that; the
property now names it (`Forgotten`), and section 5 describes it. `PurgedIsGone`, in turn,
became stronger: it used to be stated only as long as nobody deletes anything at the
service, which its invariant turned out not to need.

None of this assumes one service. The form may point the environment anywhere at any
time, so the invariants speak of the service whose identifiers the rows hold, `home`,
which the form sets when it rebuilds the rows and which a job whose rows are about
another service ends. While SCIM is paused, or was resumed with another URL and no job
has run yet, the rows are still about the first service, and what they say of it stays
true: `PurgedIsGone` and the refinement hold there as well. `CleanIsMirrored` is about
the service that a job would use, hence its condition `scim.url = home`; without it the
property is `CleanIsAtService`, which finding 6 refutes. `dropped` is what `PurgedIsGone`
cannot promise, for the reason that section 5 gives under *Provisioning*; a pause
that only empties the token drops nothing.

`ComponentsProofs` speaks of the specification that `MCComponents` runs, so its
theorems name the very invariants of that run, for every value of its constants that
satisfies `ComponentsAssumption`. `MCComponents` gives its variables `x1`, `x2`, ... to
whichever component runs; each section names them as the component does, proves the
component's inductive invariant, and the last section concludes that it holds
while that component runs.

- `LogoutsInv` (`StepsShowTheirAnswer`): the log has one entry of each request that
  was sent, and the entry tells the first answer; a request that was pushed out of
  the log has none, so a step that shows an answer got it before.
- `SigningInv` (`PublishedAsPromised`): retired keys come after the active one and end in
  the order of their retirement (`RingsAreWellFormed`), also in a ring a handler has
  read but not yet stored (`RequestsArePast`). That a loop over the ring finds the
  entry whose time has come needs induction over its length. The prover cannot
  instantiate the library's induction theorems, which take an operator; the lemma
  `Induction` of this module says the same of a set of naturals, and serves for
  recursive functions such as `Unexpired`.
- `EnrollingInv` (`IndexesAgree`, `GrantsAreSpent`, `WithinLimit`): a code is of one
  authorization and an installation has one record (`OneEach`), codes in use were
  drawn, and a tab that lists an account's installations is for a login that
  confirmed its code. `WithinLimit` is an action property over it. It used to be a
  state invariant, *no account that never had an installation un-revoked is above
  its limit*; the proof did not go through, and with three installations TLC found
  why: an account that is above its limit stays there by replacements, whoever was
  un-revoked.
- `LifecycleInv` (`PushesTellTheTruth`): a goroutine that waits for a job has the
  push that the job is for at the head of its queue (`PushesInOrder`), and a finished
  job that succeeded is recorded for whoever still waits for it (`JobsAreTold`).
- `UpdatingInv` (`StagedIsThere`, `NeverBackwards`): what a process knows of its
  folders and of the bundle depends on its own locks alone (`InOrder`, one
  process at a time), two processes hold different bundles (`OneHolder`), and a
  bundle that a process has checked under its lock stays installed until it swaps
  (`CheckedIsInstalled`, void after a swap that was undone).
- `StoringInv` (`UpgradeKeepsDirectory`): by how far the database has come, whichever
  start brought it there: before the first migration it is the original (`Unmoved`), between the
  two every homeless environment has its app (`Moved`), after the second it is as
  the property says, or waits for the JSON file (`Owned`); `InTurn` ties the process to it.
- The start-up, the tunnel supervisor and the fault scenarios: from the invariants of
  their own modules. `AllTypeOK` follows from all of these.

Only model-checked: the invariants of the runs of section 5, which are false; and the
liveness properties `MarkIsTemporary`, `RunsSettle`, `RequestsEnd` and `LostIsRedialled`,
which under fairness are out of its reach. `Forwarding` has only liveness properties and
no proofs.

## 7. What is not modelled

The components with status `not_modelled` in `PROJECT.json` and, within the
modelled ones, what section 3 says.

- Pure computation on documents: SAML and XML signatures and encryption, JWT
  building, SCIM payloads and PATCH documents, the feed's encoding. Their result is
  one outcome among those the code tells apart.
- Pages and forms, the inspectors' bounded logs, the flow log, traffic and the
  playground: nothing else reads them, but for the SAML logout log.
- SQL text and the tables that the same statements treat alike; validation of
  forms, which refuses a request before it changes anything.
- Dashboard authentication: one HTTP exchange with GitHub, whose outcome is an
  input of `Enrollment`.
- The desktop window, the Windows lock, the builds that only offer a download, and
  the release tool.
- Third-party services other than by the outcomes the code tells apart.
- An ID token of a session that has ended (`idp_session.go:156`): see the plan.
