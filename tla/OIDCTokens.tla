----------------------------- MODULE OIDCTokens -----------------------------
(***************************************************************************)
(* The OpenID Connect credentials of internal/web: authorization codes,    *)
(* access tokens and refresh tokens, and the handlers that mint, redeem,   *)
(* rotate, revoke and prune them under webApp.oidcMu.                      *)
(*                                                                         *)
(* A handler that keeps oidcMu from its first to its last step is one      *)
(* action, unless it reads the directory (which a.mu guards, not oidcMu):  *)
(* then it is one action that ends with the read and one that starts after *)
(* it, and the directory may change in between.  An armed resilience       *)
(* scenario makes a token request release oidcMu while it waits, so a      *)
(* delayed request is two actions as well.                                 *)
(***************************************************************************)
EXTENDS Integers

CONSTANTS Users, Apps, Requests, Scopes,
          Offline,      \* the scope offline_access
          Asked,        \* the sets of scopes clients ask for
          NoUser,       \* the user of a client_credentials token
          NoOne,        \* the holder of an unlocked oidcMu
          NoSecret,     \* an empty value or GrantID
          CodeLife, AccessLife, RefreshLife,  \* lifetimes of the credentials
          MaxTime,      \* bound: the clock stops here
          MaxSecret     \* bound: randomSecret returns this many values

ASSUME ScopesAssumption == Offline \in Scopes /\ Asked \subseteq SUBSET Scopes
ASSUME NullsAssumption == NoUser \notin Users /\ NoOne \notin Requests /\ NoSecret \notin Nat
ASSUME LifetimesAssumption == CodeLife \in Nat /\ AccessLife \in Nat /\ RefreshLife \in Nat
ASSUME BoundsAssumption == MaxTime \in Nat /\ MaxSecret \in Nat

VARIABLES
    now,            \* time.Now, in ticks
    nextSecret,     \* the secrets below it are the ones randomSecret returned
    authCodes, accessTokens, refreshTokens,   \* the maps, as sets of records
    oidcMu,         \* the request that holds the mutex across a directory read
    active,         \* which users of the directory may sign in
    request,        \* what each request in progress remembers
    leaver,         \* the leaver run between its save and its token revocation
    grantLog,       \* history: every grant a code was exchanged for
    revokedGrants,  \* history: the grants that were revoked as a whole
    left            \* history: users a leaver run finished with, per app

vars == <<now, nextSecret, authCodes, accessTokens, refreshTokens, oidcMu,
          active, request, leaver, grantLog, revokedGrants, left>>
creds == <<authCodes, accessTokens, refreshTokens>>
history == <<grantLog, revokedGrants, left>>

AuthCode == [value : Nat, app : Apps, user : Users, scope : SUBSET Scopes,
             expires : Nat, redeeming : BOOLEAN]
AccessToken == [value : Nat, app : Apps, user : Users \union {NoUser},
                grant : Nat \union {NoSecret}, scope : SUBSET Scopes, expires : Nat]
RefreshToken == [value : Nat, app : Apps, user : Users, grant : Nat,
                 scope : SUBSET Scopes, expires : Nat, redeeming : BOOLEAN]
Grant == [grant : Nat, code : Nat, app : Apps, user : Users, scope : SUBSET Scopes]

Idle == [phase |-> "idle"]
SigningIn == [phase : {"signing in"}, app : Apps, user : Users, scope : SUBSET Scopes]
Delayed == [phase : {"delayed"}, kind : {"code", "refresh", "client"}, app : Apps,
            value : Nat \union {NoSecret}, asked : SUBSET Scopes]
IssuingForUser == [phase : {"issuing"}, kind : {"code", "refresh"}, app : Apps,
                   user : Users, grant : Nat, value : Nat \union {NoSecret},
                   scope : SUBSET Scopes, asked : SUBSET Scopes]
IssuingForClient == [phase : {"issuing"}, kind : {"client"}, app : Apps,
                     user : {NoUser}, grant : {NoSecret}, value : {NoSecret},
                     scope : SUBSET Scopes, asked : SUBSET Scopes]
NoLeaver == [phase |-> "idle"]
Leaving == [phase : {"saved"}, user : Users, app : Apps]

TypeOK ==
    /\ now \in Nat /\ nextSecret \in Nat
    /\ authCodes \subseteq AuthCode
    /\ accessTokens \subseteq AccessToken
    /\ refreshTokens \subseteq RefreshToken
    /\ oidcMu \in Requests \union {NoOne}
    /\ active \in [Users -> BOOLEAN]
    /\ request \in [Requests -> {Idle} \union SigningIn \union Delayed \union
                                IssuingForUser \union IssuingForClient]
    /\ leaver \in {NoLeaver} \union Leaving
    /\ grantLog \subseteq Grant
    /\ revokedGrants \subseteq Nat
    /\ left \subseteq Users \X Apps

Init ==
    /\ now = 0 /\ nextSecret = 0
    /\ authCodes = {} /\ accessTokens = {} /\ refreshTokens = {}
    /\ oidcMu = NoOne
    /\ active = [u \in Users |-> TRUE]
    /\ request = [r \in Requests |-> Idle]
    /\ leaver = NoLeaver
    /\ grantLog = {} /\ revokedGrants = {} /\ left = {}

-----------------------------------------------------------------------------
(* The maps. *)

Unlocked == oidcMu = NoOne

\* pruneExpiredOIDCCredentials keeps the credentials that expire after now.
Live(tokens) == {c \in tokens : c.expires > now}

Without(tokens, value) == {c \in tokens : c.value # value}

\* Seeded defect: a delayed token stays marked.
SetRedeemingForever(tokens, value, redeeming) ==
    {[c EXCEPT !.redeeming = @ \/ c.value = value] : c \in tokens}

\* setRedeeming: changes nothing when the value is gone.
SetRedeeming(tokens, value, redeeming) ==
    {[c EXCEPT !.redeeming = IF c.value = value THEN redeeming ELSE @] : c \in tokens}

\* Seeded defect: a request may present a credential a delay holds.
PresentableIgnoringDelay(tokens) == Live(tokens)

Presentable(tokens) == {c \in Live(tokens) : ~c.redeeming}

\* Seeded defect: the second lookup forgets the expiry.
FoundUnlessPruned(tokens, value) == {c \in tokens : c.value = value}

\* The second lookup, after injectTokenFault.
Found(tokens, value) == {c \in tokens : c.value = value /\ c.expires > now}

-----------------------------------------------------------------------------
(* Authorization: serveOIDCAuthorize reads the directory, then             *)
(* issueOIDCCode locks oidcMu and stores a code for what it read.          *)

Authorize(r, u, a, scope) ==
    /\ request[r] = Idle
    /\ active[u]
    /\ request' = [request EXCEPT ![r] =
            [phase |-> "signing in", app |-> a, user |-> u, scope |-> scope]]
    /\ UNCHANGED <<now, nextSecret, creds, oidcMu, active, leaver, history>>

IssueCode(r) ==
    /\ request[r].phase = "signing in"
    /\ Unlocked
    /\ nextSecret < MaxSecret
    /\ authCodes' = Live(authCodes) \union
            {[value |-> nextSecret, app |-> request[r].app, user |-> request[r].user,
              scope |-> request[r].scope, expires |-> now + CodeLife, redeeming |-> FALSE]}
    /\ accessTokens' = Live(accessTokens)
    /\ refreshTokens' = Live(refreshTokens)
    /\ nextSecret' = nextSecret + 1
    /\ request' = [request EXCEPT ![r] = Idle]
    /\ UNCHANGED <<now, oidcMu, active, leaver, history>>

-----------------------------------------------------------------------------
(* The token endpoint.  A presented credential that passes the checks      *)
(* meets injectTokenFault: no fault and an error response are immediate, a *)
(* delay marks the credential and releases oidcMu.                         *)

\* Seeded defect: an exchange that goes on leaves the code in the map.
ExchangeCodeKeepingIt(r, c, codes) ==
    /\ authCodes' = codes
    /\ active[c.user]
    /\ nextSecret + 3 <= MaxSecret
    /\ oidcMu' = r
    /\ request' = [request EXCEPT ![r] =
            [phase |-> "issuing", kind |-> "code", app |-> c.app, user |-> c.user,
             grant |-> nextSecret, value |-> NoSecret, scope |-> c.scope, asked |-> c.scope]]
    /\ nextSecret' = nextSecret + 1
    /\ grantLog' = grantLog \union
            {[grant |-> nextSecret, code |-> c.value, app |-> c.app,
              user |-> c.user, scope |-> c.scope]}

\* The rest of handleOIDCToken once the code was found again: the code is
\* deleted, and the exchange goes on if the directory still has the user.
\* An injected token error and a failing read end it with the code spent.
ExchangeCode(r, c, codes) ==
    /\ authCodes' = Without(codes, c.value)
    /\ \/ /\ active[c.user]
          /\ nextSecret + 3 <= MaxSecret
          /\ oidcMu' = r
          /\ request' = [request EXCEPT ![r] =
                [phase |-> "issuing", kind |-> "code", app |-> c.app, user |-> c.user,
                 grant |-> nextSecret, value |-> NoSecret,
                 scope |-> c.scope, asked |-> c.scope]]
          /\ nextSecret' = nextSecret + 1
          /\ grantLog' = grantLog \union
                {[grant |-> nextSecret, code |-> c.value, app |-> c.app,
                  user |-> c.user, scope |-> c.scope]}
       \/ /\ request' = [request EXCEPT ![r] = Idle]
          /\ UNCHANGED <<oidcMu, nextSecret, grantLog>>

\* The rest of refreshOIDCTokens: an inactive user costs the client the
\* presented token, a failing directory read does not.
ExchangeRefreshToken(r, t, tokens, asked) ==
    /\ \/ /\ active[t.user]
          /\ nextSecret + 2 <= MaxSecret
          /\ refreshTokens' = tokens
          /\ oidcMu' = r
          /\ request' = [request EXCEPT ![r] =
                [phase |-> "issuing", kind |-> "refresh", app |-> t.app, user |-> t.user,
                 grant |-> t.grant, value |-> t.value, scope |-> t.scope, asked |-> asked]]
       \/ /\ \/ refreshTokens' = tokens
             \/ ~active[t.user] /\ refreshTokens' = Without(tokens, t.value)
          /\ request' = [request EXCEPT ![r] = Idle]
          /\ UNCHANGED oidcMu
    /\ UNCHANGED <<nextSecret, grantLog>>

StartDelay(r, kind, a, value, asked) ==
    /\ request' = [request EXCEPT ![r] =
            [phase |-> "delayed", kind |-> kind, app |-> a, value |-> value, asked |-> asked]]
    /\ UNCHANGED <<nextSecret, oidcMu, grantLog>>

\* handleOIDCToken, grant_type=authorization_code.
RedeemCode(r) ==
    /\ request[r] = Idle /\ Unlocked
    /\ accessTokens' = Live(accessTokens)
    /\ refreshTokens' = Live(refreshTokens)
    /\ \E c \in Presentable(authCodes) :
          \/ ExchangeCode(r, c, Live(authCodes))
          \/ /\ authCodes' = SetRedeeming(Live(authCodes), c.value, TRUE)
             /\ StartDelay(r, "code", c.app, c.value, c.scope)
    /\ UNCHANGED <<now, active, leaver, revokedGrants, left>>

\* refreshOIDCTokens; the client may ask for part of the granted scope.
RedeemRefreshToken(r) ==
    /\ request[r] = Idle /\ Unlocked
    /\ authCodes' = Live(authCodes)
    /\ accessTokens' = Live(accessTokens)
    /\ \E t \in Presentable(refreshTokens) : \E asked \in SUBSET t.scope :
          \/ ExchangeRefreshToken(r, t, Live(refreshTokens), asked)
          \/ /\ refreshTokens' = SetRedeeming(Live(refreshTokens), t.value, TRUE)
             /\ StartDelay(r, "refresh", t.app, t.value, asked)
    /\ UNCHANGED <<now, active, leaver, revokedGrants, left>>

IssueClientToken(r, a, asked) ==
    /\ nextSecret + 1 <= MaxSecret
    /\ oidcMu' = r
    /\ request' = [request EXCEPT ![r] =
            [phase |-> "issuing", kind |-> "client", app |-> a, user |-> NoUser,
             grant |-> NoSecret, value |-> NoSecret, scope |-> asked, asked |-> asked]]
    /\ UNCHANGED <<nextSecret, grantLog>>

\* issueClientCredentialsToken up to its directory read.
RequestClientToken(r, a, asked) ==
    /\ request[r] = Idle /\ Unlocked
    /\ authCodes' = Live(authCodes)
    /\ accessTokens' = Live(accessTokens)
    /\ refreshTokens' = Live(refreshTokens)
    /\ \/ IssueClientToken(r, a, asked)
       \/ StartDelay(r, "client", a, NoSecret, asked)
    /\ UNCHANGED <<now, active, leaver, revokedGrants, left>>

\* The delay of a code exchange is over: the request is answered (it was
\* cancelled, or the scenario ends it with an error) and the code stays, or the
\* code is looked up again.
EndCodeDelay(r) ==
    LET d == request[r]
        codes == SetRedeeming(authCodes, d.value, FALSE)
    IN /\ d.phase = "delayed" /\ d.kind = "code" /\ Unlocked
       /\ \/ /\ authCodes' = codes
             /\ request' = [request EXCEPT ![r] = Idle]
             /\ UNCHANGED <<oidcMu, nextSecret, grantLog>>
          \/ /\ Found(codes, d.value) = {}
             /\ authCodes' = Without(codes, d.value)
             /\ request' = [request EXCEPT ![r] = Idle]
             /\ UNCHANGED <<oidcMu, nextSecret, grantLog>>
          \/ \E c \in Found(codes, d.value) : ExchangeCode(r, c, codes)
       /\ UNCHANGED <<now, accessTokens, refreshTokens, active, leaver, revokedGrants, left>>

EndRefreshDelay(r) ==
    LET d == request[r]
        tokens == SetRedeeming(refreshTokens, d.value, FALSE)
    IN /\ d.phase = "delayed" /\ d.kind = "refresh" /\ Unlocked
       /\ \/ /\ refreshTokens' = tokens
             /\ request' = [request EXCEPT ![r] = Idle]
             /\ UNCHANGED <<oidcMu, nextSecret, grantLog>>
          \/ /\ Found(tokens, d.value) = {}
             /\ refreshTokens' = Without(tokens, d.value)
             /\ request' = [request EXCEPT ![r] = Idle]
             /\ UNCHANGED <<oidcMu, nextSecret, grantLog>>
          \/ \E t \in Found(tokens, d.value) : ExchangeRefreshToken(r, t, tokens, d.asked)
       /\ UNCHANGED <<now, authCodes, accessTokens, active, leaver, revokedGrants, left>>

EndClientDelay(r) ==
    /\ request[r].phase = "delayed" /\ request[r].kind = "client" /\ Unlocked
    /\ \/ IssueClientToken(r, request[r].app, request[r].asked)
       \/ /\ request' = [request EXCEPT ![r] = Idle]
          /\ UNCHANGED <<oidcMu, nextSecret, grantLog>>
    /\ UNCHANGED <<now, creds, active, leaver, revokedGrants, left>>

-----------------------------------------------------------------------------
(* issueOIDCTokens, mintAccessToken and issueRefreshToken, then the return *)
(* that unlocks oidcMu.                                                    *)

MintedAccess(i) ==
    [value |-> nextSecret, app |-> i.app, user |-> i.user, grant |-> i.grant,
     scope |-> i.asked, expires |-> now + AccessLife]

\* Seeded defect: the replacement keeps the narrowed scope.
MintedRefreshNarrowed(i) ==
    [value |-> nextSecret + 1, app |-> i.app, user |-> i.user, grant |-> i.grant,
     scope |-> i.asked, expires |-> now + RefreshLife, redeeming |-> FALSE]

MintedRefresh(i) ==
    [value |-> nextSecret + 1, app |-> i.app, user |-> i.user, grant |-> i.grant,
     scope |-> i.scope, expires |-> now + RefreshLife, redeeming |-> FALSE]

\* Seeded defect: a refresh leaves the presented token in the map.
RotatedKeepingPresented(i) ==
    IF i.kind = "refresh" \/ (i.kind = "code" /\ Offline \in i.scope)
    THEN refreshTokens \union {MintedRefresh(i)}
    ELSE refreshTokens

\* An exchange of an offline_access code stores a refresh token, a refresh
\* stores a replacement and deletes the presented value.
Rotated(i) ==
    IF i.kind = "refresh" \/ (i.kind = "code" /\ Offline \in i.scope)
    THEN Without(refreshTokens, i.value) \union {MintedRefresh(i)}
    ELSE refreshTokens

Issue(r) ==
    LET i == request[r]
    IN /\ i.phase = "issuing"
       /\ accessTokens' = accessTokens \union {MintedAccess(i)}
       /\ refreshTokens' = Rotated(i)
       /\ nextSecret' = nextSecret + 2
       /\ oidcMu' = NoOne
       /\ request' = [request EXCEPT ![r] = Idle]
       /\ UNCHANGED <<now, authCodes, active, leaver, history>>

\* Signing failed: no token was stored, and a refresh token stays valid.
FailToIssue(r) ==
    /\ request[r].phase = "issuing"
    /\ oidcMu' = NoOne
    /\ request' = [request EXCEPT ![r] = Idle]
    /\ UNCHANGED <<now, nextSecret, creds, active, leaver, history>>

-----------------------------------------------------------------------------
(* Revocation and expiry. *)

\* revokeClientToken: an access token alone, a refresh token with its grant.
ClientRevoke ==
    /\ Unlocked
    /\ authCodes' = Live(authCodes)
    /\ \/ \E t \in Live(accessTokens) :
             /\ accessTokens' = Live(accessTokens) \ {t}
             /\ refreshTokens' = Live(refreshTokens)
             /\ UNCHANGED revokedGrants
       \/ \E t \in Live(refreshTokens) :
             LET ofGrant(tokens) == {x \in tokens : x.app = t.app /\ x.grant = t.grant}
             IN /\ accessTokens' = Live(accessTokens) \ ofGrant(accessTokens)
                /\ refreshTokens' = Live(refreshTokens) \ ofGrant(refreshTokens)
                /\ revokedGrants' = revokedGrants \union {t.grant}
    /\ UNCHANGED <<now, nextSecret, oidcMu, active, request, leaver, grantLog, left>>

\* revokeOIDCTokens deletes the access and refresh tokens of an app's users.
Revoke(a, users) ==
    LET hit(tokens) == {t \in tokens : t.app = a /\ t.user \in users}
    IN /\ accessTokens' = accessTokens \ hit(accessTokens)
       /\ refreshTokens' = refreshTokens \ hit(refreshTokens)
       /\ revokedGrants' = revokedGrants \union {g.grant : g \in hit(grantLog)}
       /\ UNCHANGED authCodes

\* Seeded defect: the inspector's revocation does not take oidcMu.
RevokeTokensUnlocked(a) ==
    /\ \E users \in {{u} : u \in Users} \union {Users \union {NoUser}} : Revoke(a, users)
    /\ UNCHANGED <<now, nextSecret, oidcMu, active, request, leaver, grantLog, left>>

\* The inspector's and the API's revocation: one user, or everyone and the client.
RevokeTokens(a) ==
    /\ Unlocked
    /\ \E users \in {{u} : u \in Users} \union {Users \union {NoUser}} : Revoke(a, users)
    /\ UNCHANGED <<now, nextSecret, oidcMu, active, request, leaver, grantLog, left>>

\* Every other request that locks oidcMu (a rejection, an error response of a
\* scenario, userinfo, introspection, the list of token holders) only prunes.
Prune ==
    /\ Unlocked
    /\ authCodes' = Live(authCodes)
    /\ accessTokens' = Live(accessTokens)
    /\ refreshTokens' = Live(refreshTokens)
    /\ UNCHANGED <<now, nextSecret, oidcMu, active, request, leaver, history>>

Tick ==
    /\ now < MaxTime
    /\ now' = now + 1
    /\ UNCHANGED <<nextSecret, creds, oidcMu, active, request, leaver, history>>

-----------------------------------------------------------------------------
(* The directory, under a.mu. *)

\* An administrator, an import or SCIM discovery changes who may sign in.
SetActive(u, may) ==
    /\ active' = [active EXCEPT ![u] = may]
    /\ left' = IF may THEN left \ ({u} \X Apps) ELSE left
    /\ UNCHANGED <<now, nextSecret, creds, oidcMu, request, leaver, grantLog, revokedGrants>>

\* startLeaver saves the deactivation and unlocks a.mu ...
LeaverDeactivates(u, a) ==
    /\ leaver = NoLeaver
    /\ active' = [active EXCEPT ![u] = FALSE]
    /\ leaver' = [phase |-> "saved", user |-> u, app |-> a]
    /\ UNCHANGED <<now, nextSecret, creds, oidcMu, request, history>>

\* Seeded defect: revokeTokensStep does not take oidcMu.
LeaverRevokesUnlocked ==
    /\ leaver # NoLeaver
    /\ Revoke(leaver.app, {leaver.user})
    /\ leaver' = NoLeaver
    /\ left' = IF active[leaver.user] THEN left ELSE left \union {<<leaver.user, leaver.app>>}
    /\ UNCHANGED <<now, nextSecret, oidcMu, active, request, grantLog>>

\* ... and revokeTokensStep revokes the user's tokens.
LeaverRevokes ==
    /\ leaver # NoLeaver
    /\ Unlocked
    /\ Revoke(leaver.app, {leaver.user})
    /\ leaver' = NoLeaver
    /\ left' = IF active[leaver.user] THEN left ELSE left \union {<<leaver.user, leaver.app>>}
    /\ UNCHANGED <<now, nextSecret, oidcMu, active, request, grantLog>>

\* ... but skips an app that has OIDC switched off at that moment.
LeaverSkips ==
    /\ leaver # NoLeaver
    /\ leaver' = NoLeaver
    /\ UNCHANGED <<now, nextSecret, creds, oidcMu, active, request, history>>

-----------------------------------------------------------------------------

Next ==
    \/ \E r \in Requests :
          \/ \E u \in Users, a \in Apps, scope \in Asked : Authorize(r, u, a, scope)
          \/ IssueCode(r)
          \/ RedeemCode(r)
          \/ RedeemRefreshToken(r)
          \/ \E a \in Apps, scope \in Asked : RequestClientToken(r, a, scope)
          \/ EndCodeDelay(r)
          \/ EndRefreshDelay(r)
          \/ EndClientDelay(r)
          \/ Issue(r)
          \/ FailToIssue(r)
    \/ ClientRevoke
    \/ \E a \in Apps : RevokeTokens(a)
    \/ Prune
    \/ Tick
    \/ \E u \in Users, may \in BOOLEAN : SetActive(u, may)
    \/ \E u \in Users, a \in Apps : LeaverDeactivates(u, a)
    \/ LeaverRevokes \/ LeaverSkips

Spec == Init /\ [][Next]_vars

\* A handler that holds oidcMu returns, a delay of a scenario ends and its
\* request gets the mutex: sync.Mutex hands a starved waiter the lock.
Fairness ==
    \A r \in Requests :
        /\ WF_vars(Issue(r) \/ FailToIssue(r))
        /\ SF_vars(EndCodeDelay(r) \/ EndRefreshDelay(r) \/ EndClientDelay(r))

FairSpec == Spec /\ Fairness

-----------------------------------------------------------------------------
(* Properties. *)

\* A code is exchanged at most once, whatever delays, retries and concurrent
\* requests present it: handleOIDCToken marks a delayed code, looks it up
\* again and deletes it before it does anything that can fail.
CodeUsedOnce ==
    \A g, h \in grantLog : g.code = h.code => g = h

\* Rotation never forks a grant: refreshOIDCTokens deletes the presented token
\* in the step that stores its replacement, so a grant has one live refresh
\* token even when several requests present it while one of them is delayed.
OneRefreshTokenPerGrant ==
    \A s, t \in refreshTokens : s.grant = t.grant => s = t

\* A grant that was revoked as a whole (the client revoked its refresh token,
\* or the inspector, the API or a leaver run revoked the user's tokens) never
\* gets another token, not even from a refresh that was delayed meanwhile.
RevokedGrantStaysDead ==
    \A t \in accessTokens \union refreshTokens : t.grant \notin revokedGrants

\* A user who went through a leaver run, its revocation step included, and was
\* not reactivated holds no access or refresh token of its app: startLeaver revokes after it saved, and a token
\* request reads the directory with oidcMu held until its tokens are stored.
LeaverHoldsNothing ==
    \A t \in accessTokens \union refreshTokens : <<t.user, t.app>> \notin left

\* A refresh may narrow the scope of the tokens it issues, never of the grant:
\* every token of a grant stays within the authorized scope and the refresh
\* token keeps all of it.
ScopeFollowsGrant ==
    \A g \in grantLog :
        /\ \A t \in accessTokens : t.grant = g.grant => t.scope \subseteq g.scope
        /\ \A t \in refreshTokens : t.grant = g.grant => t.scope = g.scope

DelayHolds(r, kind, value) ==
    request[r].phase = "delayed" /\ request[r].kind = kind /\ request[r].value = value

\* A credential is marked exactly while one delayed request holds it, so a
\* mark is neither cleared under a waiting request nor left behind.
MarkedByOneDelay ==
    /\ \A c \in authCodes : c.redeeming <=> \E r \in Requests : DelayHolds(r, "code", c.value)
    /\ \A t \in refreshTokens :
          t.redeeming <=> \E r \in Requests : DelayHolds(r, "refresh", t.value)
    /\ \A q, r \in Requests :
          /\ request[q].phase = "delayed" /\ request[q].kind # "client"
          /\ DelayHolds(r, request[q].kind, request[q].value)
          => q = r

\* No exchange starts from a credential that has expired, even one that
\* expired while a delay held it.
ExpiredIsNeverRedeemed ==
    [][\A r \in Requests :
          request'[r].phase = "issuing" /\ request[r].phase = "delayed" =>
              /\ request[r].kind = "code" =>
                    \E c \in authCodes : c.value = request[r].value /\ c.expires > now
              /\ request[r].kind = "refresh" =>
                    \E t \in refreshTokens : t.value = request[r].value /\ t.expires > now]_vars

\* A credential a delay marked is unmarked, spent or pruned in the end.
MarkIsTemporary ==
    \A v \in 0 .. MaxSecret :
        (\E c \in authCodes \union refreshTokens : c.value = v /\ c.redeeming)
            ~> ~(\E c \in authCodes \union refreshTokens : c.value = v /\ c.redeeming)
=============================================================================
