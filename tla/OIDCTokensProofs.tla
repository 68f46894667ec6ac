-------------------------- MODULE OIDCTokensProofs --------------------------
(***************************************************************************)
(* Proofs about OIDCTokens for every value of its constants.               *)
(***************************************************************************)
EXTENDS OIDCTokens, TLAPS

\* What a step that only marks, prunes or deletes leaves of the maps.
CodesFrom(codes, old) == \A c \in codes : \E d \in old : c.value = d.value

TokensFrom(tokens, old) ==
    \A t \in tokens : \E s \in old :
        /\ t.value = s.value /\ t.grant = s.grant
        /\ t.user = s.user /\ t.app = s.app /\ t.scope = s.scope

Distinct(tokens) == \A s, t \in tokens : s.value = t.value => s = t

\* A handler that has read the directory still holds oidcMu.
LockHeld == \A r \in Requests : request[r].phase = "issuing" => oidcMu = r

\* Values and GrantIDs are secrets that were drawn, and a code that was
\* exchanged is not stored any more.
SecretsDrawn ==
    /\ \A c \in authCodes : c.value < nextSecret
    /\ \A g \in grantLog : g.grant < nextSecret /\ g.code < nextSecret
    /\ \A t \in refreshTokens : t.value < nextSecret
    /\ \A x \in revokedGrants : x < nextSecret
    /\ \A c \in authCodes, g \in grantLog : c.value # g.code

\* What is recorded of a grant: the exchange that started it, which no
\* revocation and no leaver run has ended.
LiveGrant(grant, user, app, scope) ==
    /\ \E g \in grantLog : g.grant = grant
    /\ \A g \in grantLog :
          g.grant = grant => g.user = user /\ g.app = app /\ g.scope = scope
    /\ grant \notin revokedGrants
    /\ <<user, app>> \notin left

RefreshTokensOfGrants ==
    /\ \A t \in refreshTokens : LiveGrant(t.grant, t.user, t.app, t.scope)
    /\ Distinct(refreshTokens)
    /\ \A s, t \in refreshTokens : s.grant = t.grant => s.value = t.value

AccessTokensOfGrants ==
    \A t \in accessTokens :
        \/ t.grant = NoSecret /\ t.user = NoUser
        \/ \E scope \in SUBSET Scopes :
              t.scope \subseteq scope /\ LiveGrant(t.grant, t.user, t.app, scope)

\* What a handler that is about to store tokens knows of their grant.
IssueOfGrant(i) ==
    \/ i.kind = "client"
    \/ /\ i.kind = "code" /\ i.asked = i.scope
       /\ LiveGrant(i.grant, i.user, i.app, i.scope)
       /\ \A t \in refreshTokens : t.grant # i.grant
    \/ /\ i.kind = "refresh" /\ i.asked \subseteq i.scope
       /\ LiveGrant(i.grant, i.user, i.app, i.scope)
       /\ \A t \in refreshTokens : t.grant = i.grant => t.value = i.value

IssuesOfGrants ==
    \A r \in Requests : request[r].phase = "issuing" => IssueOfGrant(request[r])

DelayOfToken(d) ==
    d.kind = "refresh" =>
        /\ d.value \in Nat /\ d.value < nextSecret
        /\ \A t \in refreshTokens : t.value = d.value => d.asked \subseteq t.scope

DelaysOfTokens ==
    \A r \in Requests : request[r].phase = "delayed" => DelayOfToken(request[r])

LeftAreInactive == \A p \in left : ~active[p[1]]

IInv ==
    /\ TypeOK
    /\ LockHeld
    /\ SecretsDrawn
    /\ CodeUsedOnce
    /\ RefreshTokensOfGrants
    /\ AccessTokensOfGrants
    /\ IssuesOfGrants
    /\ DelaysOfTokens
    /\ LeftAreInactive

-----------------------------------------------------------------------------
(* The operators on the maps. *)

\* Pruning keeps the types of the stored credentials.
LEMMA LiveType ==
    /\ authCodes \subseteq AuthCode => Live(authCodes) \subseteq AuthCode
    /\ accessTokens \subseteq AccessToken => Live(accessTokens) \subseteq AccessToken
    /\ refreshTokens \subseteq RefreshToken => Live(refreshTokens) \subseteq RefreshToken
BY DEF Live

\* Marking keeps the fields that identify a credential.
LEMMA SetRedeemingCodes ==
    ASSUME NEW codes \in SUBSET AuthCode, NEW value, NEW redeeming \in BOOLEAN
    PROVE  /\ SetRedeeming(codes, value, redeeming) \in SUBSET AuthCode
           /\ CodesFrom(SetRedeeming(codes, value, redeeming), codes)
BY DEF SetRedeeming, AuthCode, CodesFrom

LEMMA SetRedeemingTokens ==
    ASSUME NEW tokens \in SUBSET RefreshToken, NEW value, NEW redeeming \in BOOLEAN
    PROVE  /\ SetRedeeming(tokens, value, redeeming) \in SUBSET RefreshToken
           /\ TokensFrom(SetRedeeming(tokens, value, redeeming), tokens)
           /\ Distinct(tokens) => Distinct(SetRedeeming(tokens, value, redeeming))
BY DEF SetRedeeming, RefreshToken, TokensFrom, Distinct

-----------------------------------------------------------------------------
(* Type correctness. *)

RequestState ==
    {Idle} \union SigningIn \union Delayed \union IssuingForUser \union IssuingForClient

\* The phase tells which record a request holds.
LEMMA Phases ==
    ASSUME NEW s \in RequestState
    PROVE  /\ s.phase = "signing in" => s \in SigningIn
           /\ s.phase = "delayed" => s \in Delayed
           /\ s.phase = "issuing" => s \in IssuingForUser \union IssuingForClient
<1>2. \A x \in SigningIn : x.phase = "signing in"
  BY DEF SigningIn
<1>3. \A x \in Delayed : x.phase = "delayed"
  BY DEF Delayed
<1>4. \A x \in IssuingForUser \union IssuingForClient : x.phase = "issuing"
  BY DEF IssuingForUser, IssuingForClient
<1>5. Idle.phase = "idle"
  BY DEF Idle
<1> QED BY <1>2, <1>3, <1>4, <1>5 DEF RequestState

\* An update of one request leaves a state of every request.
LEMMA RequestUpdate ==
    ASSUME request \in [Requests -> RequestState], NEW r, NEW s \in RequestState,
           request' = [request EXCEPT ![r] = s]
    PROVE  request' \in [Requests -> RequestState]
OBVIOUS

LEMMA IdleIsState == Idle \in RequestState
BY DEF RequestState

LEMMA ExchangeCodeType ==
    ASSUME TypeOK, NEW r \in Requests, NEW codes \in SUBSET AuthCode, NEW c \in codes,
           ExchangeCode(r, c, codes)
    PROVE  /\ authCodes' \subseteq AuthCode
           /\ nextSecret' \in Nat
           /\ oidcMu' \in Requests \union {NoOne}
           /\ request' \in [Requests -> RequestState]
           /\ grantLog' \subseteq Grant
<1>1. authCodes' \subseteq AuthCode
  BY DEF ExchangeCode, Without
<1>2. CASE request' = [request EXCEPT ![r] = Idle] /\ UNCHANGED <<oidcMu, nextSecret, grantLog>>
  BY <1>1, <1>2, RequestUpdate, IdleIsState DEF TypeOK, RequestState
<1>3. CASE ~(request' = [request EXCEPT ![r] = Idle] /\ UNCHANGED <<oidcMu, nextSecret, grantLog>>)
  <2> DEFINE i == [phase |-> "issuing", kind |-> "code", app |-> c.app, user |-> c.user,
                   grant |-> nextSecret, value |-> NoSecret, scope |-> c.scope, asked |-> c.scope]
             g == [grant |-> nextSecret, code |-> c.value, app |-> c.app,
                   user |-> c.user, scope |-> c.scope]
  <2>1. /\ request' = [request EXCEPT ![r] = i]
        /\ grantLog' = grantLog \union {g}
        /\ nextSecret' = nextSecret + 1
        /\ oidcMu' = r
    BY <1>3 DEF ExchangeCode
  <2>2. i \in IssuingForUser /\ g \in Grant
    BY DEF TypeOK, AuthCode, IssuingForUser, Grant
  <2>3. i \in RequestState
    BY <2>2 DEF RequestState
  <2>4. request' \in [Requests -> RequestState]
    BY <2>1, <2>3, RequestUpdate DEF TypeOK, RequestState
  <2> QED BY <1>1, <2>1, <2>2, <2>4 DEF TypeOK
<1> QED BY <1>2, <1>3

LEMMA ExchangeRefreshTokenType ==
    ASSUME TypeOK, NEW r \in Requests, NEW tokens \in SUBSET RefreshToken, NEW t \in tokens,
           NEW asked \in SUBSET Scopes, ExchangeRefreshToken(r, t, tokens, asked)
    PROVE  /\ refreshTokens' \subseteq RefreshToken
           /\ oidcMu' \in Requests \union {NoOne}
           /\ request' \in [Requests -> RequestState]
           /\ UNCHANGED <<nextSecret, grantLog>>
<1> DEFINE i == [phase |-> "issuing", kind |-> "refresh", app |-> t.app, user |-> t.user,
                 grant |-> t.grant, value |-> t.value, scope |-> t.scope, asked |-> asked]
<1>1. refreshTokens' \subseteq RefreshToken
  BY DEF ExchangeRefreshToken, Without
<1>2. i \in RequestState
  BY DEF RefreshToken, IssuingForUser, RequestState
<1>3. \/ request' = [request EXCEPT ![r] = i] /\ oidcMu' = r
      \/ request' = [request EXCEPT ![r] = Idle] /\ UNCHANGED oidcMu
  BY DEF ExchangeRefreshToken
<1>4. request' \in [Requests -> RequestState]
  BY <1>2, <1>3, IdleIsState, RequestUpdate DEF TypeOK, RequestState
<1> QED BY <1>1, <1>3, <1>4 DEF TypeOK, ExchangeRefreshToken

LEMMA DelayType ==
    ASSUME TypeOK, NEW r \in Requests, NEW kind \in {"code", "refresh", "client"},
           NEW a \in Apps, NEW value \in Nat \union {NoSecret}, NEW asked \in SUBSET Scopes,
           StartDelay(r, kind, a, value, asked)
    PROVE  request' \in [Requests -> RequestState]
<1> DEFINE d == [phase |-> "delayed", kind |-> kind, app |-> a, value |-> value, asked |-> asked]
<1>1. d \in RequestState
  BY DEF Delayed, RequestState
<1> QED BY <1>1, RequestUpdate DEF TypeOK, RequestState, StartDelay

LEMMA ClientType ==
    ASSUME TypeOK, NEW r \in Requests, NEW a \in Apps, NEW asked \in SUBSET Scopes,
           IssueClientToken(r, a, asked)
    PROVE  request' \in [Requests -> RequestState] /\ oidcMu' \in Requests
<1> DEFINE i == [phase |-> "issuing", kind |-> "client", app |-> a, user |-> NoUser,
                 grant |-> NoSecret, value |-> NoSecret, scope |-> asked, asked |-> asked]
<1>1. i \in RequestState
  BY DEF IssuingForClient, RequestState
<1> QED BY <1>1, RequestUpdate DEF TypeOK, RequestState, IssueClientToken

LEMMA MintedType ==
    ASSUME TypeOK, NEW i \in IssuingForUser \union IssuingForClient
    PROVE  /\ MintedAccess(i) \in AccessToken
           /\ i.kind # "client" => MintedRefresh(i) \in RefreshToken
BY LifetimesAssumption
   DEF MintedAccess, MintedRefresh, TypeOK, IssuingForUser, IssuingForClient,
       AccessToken, RefreshToken

LEMMA TypeInit == Init => TypeOK
BY DEF Init, TypeOK

\* One step for each action; the lemmas above do the work.
LEMMA TypeStep == TypeOK /\ [Next]_vars => TypeOK'
<1> SUFFICES ASSUME TypeOK, [Next]_vars PROVE TypeOK'
  OBVIOUS
<1>0. /\ Live(authCodes) \subseteq AuthCode
      /\ Live(accessTokens) \subseteq AccessToken
      /\ Live(refreshTokens) \subseteq RefreshToken
      /\ request \in [Requests -> RequestState]
  BY LiveType DEF TypeOK, RequestState
<1>1. ASSUME NEW r \in Requests, NEW u \in Users, NEW a \in Apps, NEW scope \in Asked,
             Authorize(r, u, a, scope)
      PROVE  TypeOK'
  <2> DEFINE s == [phase |-> "signing in", app |-> a, user |-> u, scope |-> scope]
  <2>1. s \in RequestState
    BY ScopesAssumption DEF SigningIn, RequestState
  <2>2. request' \in [Requests -> RequestState]
    BY <1>0, <1>1, <2>1, RequestUpdate DEF Authorize
  <2> QED BY <1>1, <2>2 DEF Authorize, TypeOK, RequestState, creds, history
<1>2. ASSUME NEW r \in Requests, IssueCode(r) PROVE TypeOK'
  <2> DEFINE c == [value |-> nextSecret, app |-> request[r].app, user |-> request[r].user,
                   scope |-> request[r].scope, expires |-> now + CodeLife, redeeming |-> FALSE]
  <2>1. request[r] \in SigningIn
    BY <1>0, <1>2, Phases DEF IssueCode
  <2>2. c \in AuthCode
    <3>1. /\ request[r].app \in Apps /\ request[r].user \in Users
          /\ request[r].scope \in SUBSET Scopes
      BY <2>1 DEF SigningIn
    <3>2. nextSecret \in Nat /\ now + CodeLife \in Nat
      BY LifetimesAssumption DEF TypeOK
    <3> QED BY <3>1, <3>2 DEF AuthCode
  <2>3. request' \in [Requests -> RequestState]
    BY <1>0, <1>2, RequestUpdate, IdleIsState DEF IssueCode
  <2>4. authCodes' = Live(authCodes) \union {c}
    BY <1>2 DEF IssueCode
  <2> HIDE DEF c
  <2>5. authCodes' \subseteq AuthCode
    BY <1>0, <2>2, <2>4
  <2>6. /\ accessTokens' = Live(accessTokens) /\ refreshTokens' = Live(refreshTokens)
        /\ nextSecret' = nextSecret + 1
        /\ UNCHANGED <<now, oidcMu, active, leaver, history>>
    BY <1>2 DEF IssueCode
  <2> QED BY <1>0, <2>3, <2>5, <2>6 DEF TypeOK, RequestState, history
<1>3. ASSUME NEW r \in Requests, RedeemCode(r) PROVE TypeOK'
  <2>1. PICK c \in Presentable(authCodes) :
           \/ ExchangeCode(r, c, Live(authCodes))
           \/ /\ authCodes' = SetRedeeming(Live(authCodes), c.value, TRUE)
              /\ StartDelay(r, "code", c.app, c.value, c.scope)
    BY <1>3 DEF RedeemCode
  <2>2. c \in Live(authCodes) /\ c \in AuthCode
    BY <1>0 DEF Presentable
  <2>3. CASE ExchangeCode(r, c, Live(authCodes))
    BY <1>0, <1>3, <2>2, <2>3, ExchangeCodeType DEF RedeemCode, TypeOK, RequestState
  <2>4. CASE /\ authCodes' = SetRedeeming(Live(authCodes), c.value, TRUE)
             /\ StartDelay(r, "code", c.app, c.value, c.scope)
    <3>1. authCodes' \subseteq AuthCode
      BY <1>0, <2>4, SetRedeemingCodes
    <3>2. request' \in [Requests -> RequestState]
      BY <2>2, <2>4, DelayType DEF AuthCode
    <3> QED BY <1>0, <1>3, <2>4, <3>1, <3>2 DEF RedeemCode, StartDelay, TypeOK, RequestState
  <2> QED BY <2>1, <2>3, <2>4
<1>4. ASSUME NEW r \in Requests, RedeemRefreshToken(r) PROVE TypeOK'
  <2>0. PICK t \in Presentable(refreshTokens) : \E asked \in SUBSET t.scope :
           \/ ExchangeRefreshToken(r, t, Live(refreshTokens), asked)
           \/ /\ refreshTokens' = SetRedeeming(Live(refreshTokens), t.value, TRUE)
              /\ StartDelay(r, "refresh", t.app, t.value, asked)
    BY <1>4 DEF RedeemRefreshToken
  <2>1. PICK asked \in SUBSET t.scope :
           \/ ExchangeRefreshToken(r, t, Live(refreshTokens), asked)
           \/ /\ refreshTokens' = SetRedeeming(Live(refreshTokens), t.value, TRUE)
              /\ StartDelay(r, "refresh", t.app, t.value, asked)
    BY <2>0
  <2>2. t \in Live(refreshTokens) /\ t \in RefreshToken /\ asked \in SUBSET Scopes
    BY <1>0 DEF Presentable, RefreshToken
  <2>3. CASE ExchangeRefreshToken(r, t, Live(refreshTokens), asked)
    BY <1>0, <1>4, <2>2, <2>3, ExchangeRefreshTokenType
       DEF RedeemRefreshToken, TypeOK, RequestState
  <2>4. CASE /\ refreshTokens' = SetRedeeming(Live(refreshTokens), t.value, TRUE)
             /\ StartDelay(r, "refresh", t.app, t.value, asked)
    <3>1. refreshTokens' \subseteq RefreshToken
      BY <1>0, <2>4, SetRedeemingTokens
    <3>2. request' \in [Requests -> RequestState]
      BY <2>2, <2>4, DelayType DEF RefreshToken
    <3> QED BY <1>0, <1>4, <2>4, <3>1, <3>2
            DEF RedeemRefreshToken, StartDelay, TypeOK, RequestState
  <2> QED BY <2>1, <2>3, <2>4
<1>5. ASSUME NEW r \in Requests, NEW a \in Apps, NEW scope \in Asked,
             RequestClientToken(r, a, scope)
      PROVE  TypeOK'
  <2>1. request' \in [Requests -> RequestState] /\ oidcMu' \in Requests \union {NoOne}
    <3>1. scope \in SUBSET Scopes
      BY ScopesAssumption
    <3>2. CASE IssueClientToken(r, a, scope)
      BY <3>1, <3>2, ClientType
    <3>3. CASE StartDelay(r, "client", a, NoSecret, scope)
      BY <3>1, <3>3, DelayType DEF StartDelay, TypeOK
    <3> QED BY <1>5, <3>2, <3>3 DEF RequestClientToken
  <2> QED BY <1>0, <1>5, <2>1
          DEF RequestClientToken, IssueClientToken, StartDelay, TypeOK, RequestState
<1>6. ASSUME NEW r \in Requests, EndCodeDelay(r) PROVE TypeOK'
  <2> DEFINE codes == SetRedeeming(authCodes, request[r].value, FALSE)
  <2>1. codes \subseteq AuthCode
    BY SetRedeemingCodes DEF TypeOK
  <2>2. CASE \E c \in Found(codes, request[r].value) : ExchangeCode(r, c, codes)
    <3>1. PICK c \in Found(codes, request[r].value) : ExchangeCode(r, c, codes)
      BY <2>2
    <3>2. c \in codes
      BY DEF Found
    <3> HIDE DEF codes
    <3> QED BY <1>0, <1>6, <2>1, <3>1, <3>2, ExchangeCodeType
            DEF EndCodeDelay, TypeOK, RequestState
  <2>3. CASE /\ authCodes' \in {codes, Without(codes, request[r].value)}
             /\ request' = [request EXCEPT ![r] = Idle]
             /\ UNCHANGED <<oidcMu, nextSecret, grantLog>>
    <3>1. authCodes' \subseteq AuthCode
      BY <2>1, <2>3 DEF Without
    <3>2. request' \in [Requests -> RequestState]
      BY <1>0, <2>3, RequestUpdate, IdleIsState
    <3> QED BY <1>6, <2>3, <3>1, <3>2 DEF EndCodeDelay, TypeOK, RequestState
  <2> QED BY <1>6, <2>2, <2>3 DEF EndCodeDelay
<1>7. ASSUME NEW r \in Requests, EndRefreshDelay(r) PROVE TypeOK'
  <2> DEFINE tokens == SetRedeeming(refreshTokens, request[r].value, FALSE)
  <2>1. tokens \subseteq RefreshToken
    BY SetRedeemingTokens DEF TypeOK
  <2>2. CASE \E t \in Found(tokens, request[r].value) :
                ExchangeRefreshToken(r, t, tokens, request[r].asked)
    <3>1. PICK t \in Found(tokens, request[r].value) :
             ExchangeRefreshToken(r, t, tokens, request[r].asked)
      BY <2>2
    <3>2. t \in tokens
      BY DEF Found
    <3>0. request[r] \in Delayed
      BY <1>0, <1>7, Phases DEF EndRefreshDelay
    <3>3. request[r].asked \in SUBSET Scopes
      BY <3>0 DEF Delayed
    <3> HIDE DEF tokens
    <3>4. /\ refreshTokens' \subseteq RefreshToken
          /\ oidcMu' \in Requests \union {NoOne}
          /\ request' \in [Requests -> RequestState]
          /\ UNCHANGED <<nextSecret, grantLog>>
      BY <2>1, <3>1, <3>2, <3>3, ExchangeRefreshTokenType
    <3> QED BY <1>7, <3>4 DEF EndRefreshDelay, TypeOK, RequestState
  <2>3. CASE /\ refreshTokens' \in {tokens, Without(tokens, request[r].value)}
             /\ request' = [request EXCEPT ![r] = Idle]
             /\ UNCHANGED <<oidcMu, nextSecret, grantLog>>
    <3>1. refreshTokens' \subseteq RefreshToken
      BY <2>1, <2>3 DEF Without
    <3>2. request' \in [Requests -> RequestState]
      BY <1>0, <2>3, RequestUpdate, IdleIsState
    <3> QED BY <1>7, <2>3, <3>1, <3>2 DEF EndRefreshDelay, TypeOK, RequestState
  <2> QED BY <1>7, <2>2, <2>3 DEF EndRefreshDelay
<1>8. ASSUME NEW r \in Requests, EndClientDelay(r) PROVE TypeOK'
  <2>1. request' \in [Requests -> RequestState] /\ oidcMu' \in Requests \union {NoOne}
    <3>0. request[r] \in Delayed
      BY <1>0, <1>8, Phases DEF EndClientDelay
    <3>1. request[r].app \in Apps /\ request[r].asked \in SUBSET Scopes
      BY <3>0 DEF Delayed
    <3>2. CASE IssueClientToken(r, request[r].app, request[r].asked)
      BY <3>1, <3>2, ClientType
    <3>3. CASE request' = [request EXCEPT ![r] = Idle] /\ UNCHANGED oidcMu
      BY <1>0, <3>3, RequestUpdate, IdleIsState DEF TypeOK
    <3> QED BY <1>8, <3>2, <3>3 DEF EndClientDelay
  <2> QED BY <1>8, <2>1 DEF EndClientDelay, IssueClientToken, TypeOK, RequestState, creds
<1>9. ASSUME NEW r \in Requests, Issue(r) PROVE TypeOK'
  <2>1. request[r] \in IssuingForUser \union IssuingForClient
    BY <1>0, <1>9, Phases DEF Issue
  <2>2. MintedAccess(request[r]) \in AccessToken
    BY <2>1, MintedType
  <2>3. Rotated(request[r]) \subseteq RefreshToken
    BY <2>1, MintedType DEF Rotated, Without, TypeOK
  <2>4. request' \in [Requests -> RequestState]
    BY <1>0, <1>9, RequestUpdate, IdleIsState DEF Issue
  <2> QED BY <1>9, <2>2, <2>3, <2>4 DEF Issue, TypeOK, RequestState, history
<1>10. ASSUME NEW r \in Requests, FailToIssue(r) PROVE TypeOK'
  <2>1. request' \in [Requests -> RequestState]
    BY <1>0, <1>10, RequestUpdate, IdleIsState DEF FailToIssue
  <2> QED BY <1>10, <2>1 DEF FailToIssue, TypeOK, RequestState, creds, history
<1>11. CASE ClientRevoke
  BY <1>0, <1>11 DEF ClientRevoke, TypeOK, RefreshToken
<1>12. ASSUME NEW a \in Apps, RevokeTokens(a) PROVE TypeOK'
  BY <1>12 DEF RevokeTokens, Revoke, TypeOK, Grant
<1>13. CASE Prune
  BY <1>0, <1>13 DEF Prune, TypeOK, history
<1>14. CASE Tick
  BY <1>14 DEF Tick, TypeOK, creds, history
<1>15. ASSUME NEW u \in Users, NEW may \in BOOLEAN, SetActive(u, may) PROVE TypeOK'
  BY <1>15 DEF SetActive, TypeOK, creds
<1>16. ASSUME NEW u \in Users, NEW a \in Apps, LeaverDeactivates(u, a) PROVE TypeOK'
  BY <1>16 DEF LeaverDeactivates, TypeOK, Leaving, creds, history
<1>17. CASE LeaverRevokes
  <2>1. leaver \in Leaving
    BY <1>17 DEF LeaverRevokes, TypeOK
  <2>2. leaver.user \in Users /\ leaver.app \in Apps
    BY <2>1 DEF Leaving
  <2>3. revokedGrants' \subseteq Nat
    BY <1>17 DEF LeaverRevokes, Revoke, TypeOK, Grant
  <2>4. left' \subseteq Users \X Apps
    BY <1>17, <2>2 DEF LeaverRevokes, TypeOK
  <2>5. accessTokens' \subseteq accessTokens /\ refreshTokens' \subseteq refreshTokens
    BY <1>17 DEF LeaverRevokes, Revoke
  <2> QED BY <1>17, <2>3, <2>4, <2>5 DEF LeaverRevokes, Revoke, TypeOK
<1>18. CASE UNCHANGED vars
  BY <1>18 DEF vars, creds, history, TypeOK
<1>19. CASE LeaverSkips
  BY <1>19 DEF LeaverSkips, creds, history, TypeOK
<1> QED BY <1>1, <1>2, <1>3, <1>4, <1>5, <1>6, <1>7, <1>8, <1>9, <1>10, <1>11, <1>12, <1>13,
           <1>14, <1>15, <1>16, <1>17, <1>18, <1>19 DEF Next

\* The maps, the requests and the directory keep their types.
THEOREM TypeCorrect == Spec => []TypeOK
BY TypeInit, TypeStep, PTL DEF Spec

-----------------------------------------------------------------------------
(* The inductive invariant. *)

LEMMA InvInit == Init => IInv
<1> SUFFICES ASSUME Init PROVE IInv
  OBVIOUS
<1>1. TypeOK
  BY TypeInit
<1>2. \A r \in Requests : request[r].phase = "idle"
  BY DEF Init, Idle
<1>3. LockHeld /\ IssuesOfGrants /\ DelaysOfTokens
  BY <1>2 DEF LockHeld, IssuesOfGrants, DelaysOfTokens
<1>4. SecretsDrawn /\ CodeUsedOnce /\ RefreshTokensOfGrants /\ AccessTokensOfGrants /\ LeftAreInactive
  BY DEF Init, SecretsDrawn, CodeUsedOnce, RefreshTokensOfGrants, AccessTokensOfGrants,
         LeftAreInactive, Distinct
<1> QED BY <1>1, <1>3, <1>4 DEF IInv

\* What most steps do: they store no token, start or revoke no grant and add
\* nobody to left.
Tame ==
    /\ nextSecret <= nextSecret'
    /\ CodesFrom({c \in authCodes' : ~(nextSecret <= c.value /\ c.value < nextSecret')}, authCodes)
    /\ accessTokens' \subseteq accessTokens
    /\ TokensFrom(refreshTokens', refreshTokens)
    /\ Distinct(refreshTokens')
    /\ grantLog' = grantLog
    /\ revokedGrants' = revokedGrants
    /\ left' \subseteq left

LEMMA TameStep ==
    ASSUME IInv, TypeOK', Tame, LockHeld', LeftAreInactive',
           \A r \in Requests : request'[r].phase = "issuing" => IssueOfGrant(request'[r]),
           \A r \in Requests : request'[r].phase = "delayed" => DelayOfToken(request'[r])
    PROVE  IInv'
<1>1. \A g, u, a, s : LiveGrant(g, u, a, s) => LiveGrant(g, u, a, s)'
  BY DEF LiveGrant, Tame
<1>2. SecretsDrawn'
  <2>1. /\ nextSecret \in Nat /\ nextSecret' \in Nat
        /\ \A c \in authCodes : c.value \in Nat
        /\ \A c \in authCodes' : c.value \in Nat
        /\ \A g \in grantLog : g.grant \in Nat /\ g.code \in Nat
        /\ \A t \in refreshTokens : t.value \in Nat
        /\ \A x \in revokedGrants : x \in Nat
    BY DEF IInv, TypeOK, AuthCode, Grant, RefreshToken
  <2> QED BY <2>1 DEF IInv, SecretsDrawn, Tame, CodesFrom, TokensFrom
<1>3. CodeUsedOnce'
  BY DEF IInv, CodeUsedOnce, Tame
<1>4. RefreshTokensOfGrants'
  <2>1. \A t \in refreshTokens' : LiveGrant(t.grant, t.user, t.app, t.scope)
    BY DEF IInv, RefreshTokensOfGrants, Tame, TokensFrom
  <2>2. \A t \in refreshTokens' : LiveGrant(t.grant, t.user, t.app, t.scope)'
    BY <2>1 DEF LiveGrant, Tame, TokensFrom
  <2>3. \A s, t \in refreshTokens' : s.grant = t.grant => s.value = t.value
    BY DEF IInv, RefreshTokensOfGrants, Tame, TokensFrom
  <2> QED BY <2>2, <2>3 DEF RefreshTokensOfGrants, Tame
<1>5. AccessTokensOfGrants'
  BY DEF IInv, AccessTokensOfGrants, LiveGrant, Tame
<1>6. IssuesOfGrants'
  <2> SUFFICES ASSUME NEW r \in Requests, request'[r].phase = "issuing"
               PROVE  IssueOfGrant(request[r])'
    BY DEF IssuesOfGrants
  <2>1. IssueOfGrant(request'[r])
    OBVIOUS
  <2> QED BY <2>1 DEF IssueOfGrant, LiveGrant, Tame, TokensFrom
<1>7. DelaysOfTokens'
  <2> SUFFICES ASSUME NEW r \in Requests, request'[r].phase = "delayed"
               PROVE  DelayOfToken(request[r])'
    BY DEF DelaysOfTokens
  <2>1. DelayOfToken(request'[r])
    OBVIOUS
  <2>2. nextSecret \in Nat /\ nextSecret' \in Nat
    BY DEF IInv, TypeOK
  <2> QED BY <2>1, <2>2 DEF DelayOfToken, Tame, TokensFrom
<1> QED BY <1>2, <1>3, <1>4, <1>5, <1>6, <1>7 DEF IInv

\* With oidcMu free no handler is about to store tokens.
LEMMA NoIssue == LockHeld /\ Unlocked => \A r \in Requests : request[r].phase # "issuing"
BY NullsAssumption DEF LockHeld, Unlocked

\* Steps that touch neither grants nor requests.
LEMMA QuietStep ==
    ASSUME IInv, TypeOK', Tame, LeftAreInactive', UNCHANGED <<oidcMu, request>>
    PROVE  IInv'
<1>1. LockHeld'
  BY DEF IInv, LockHeld
<1>2. \A r \in Requests : request'[r].phase = "issuing" => IssueOfGrant(request'[r])
  BY DEF IInv, IssuesOfGrants
<1>3. \A r \in Requests : request'[r].phase = "delayed" => DelayOfToken(request'[r])
  BY DEF IInv, DelaysOfTokens
<1> QED BY <1>1, <1>2, <1>3, TameStep

\* Steps after which request r neither issues nor is delayed.
LEMMA ReturnStep ==
    ASSUME IInv, TypeOK', Tame, UNCHANGED <<active, left>>, NEW r \in Requests,
           NEW s \in {Idle} \union SigningIn, request' = [request EXCEPT ![r] = s],
           oidcMu' = oidcMu \/ (oidcMu = r /\ oidcMu' = NoOne)
    PROVE  IInv'
<1>1. s.phase \in {"idle", "signing in"}
  <2>1. Idle.phase = "idle"
    BY DEF Idle
  <2>2. \A x \in SigningIn : x.phase = "signing in"
    BY DEF SigningIn
  <2> QED BY <2>1, <2>2
<1>2. request'[r] = s /\ \A q \in Requests \ {r} : request'[q] = request[q]
  BY DEF IInv, TypeOK
<1>3. LockHeld'
  BY <1>1, <1>2 DEF IInv, LockHeld
<1>4. \A q \in Requests : request'[q].phase = "issuing" => IssueOfGrant(request'[q])
  BY <1>1, <1>2 DEF IInv, IssuesOfGrants
<1>5. \A q \in Requests : request'[q].phase = "delayed" => DelayOfToken(request'[q])
  BY <1>1, <1>2 DEF IInv, DelaysOfTokens
<1>6. LeftAreInactive'
  BY DEF IInv, LeftAreInactive
<1> QED BY <1>3, <1>4, <1>5, <1>6, TameStep

\* Steps after which request r waits out a delay.
LEMMA WaitStep ==
    ASSUME IInv, TypeOK', Tame, UNCHANGED <<active, left, oidcMu>>, NEW r \in Requests,
           NEW d \in Delayed, request' = [request EXCEPT ![r] = d], DelayOfToken(d)
    PROVE  IInv'
<1>1. d.phase = "delayed"
  BY DEF Delayed
<1>2. request'[r] = d /\ \A q \in Requests \ {r} : request'[q] = request[q]
  BY DEF IInv, TypeOK
<1>3. LockHeld'
  BY <1>1, <1>2 DEF IInv, LockHeld
<1>4. \A q \in Requests : request'[q].phase = "issuing" => IssueOfGrant(request'[q])
  BY <1>1, <1>2 DEF IInv, IssuesOfGrants
<1>5. \A q \in Requests : request'[q].phase = "delayed" => DelayOfToken(request'[q])
  BY <1>2 DEF IInv, DelaysOfTokens
<1>6. LeftAreInactive'
  BY DEF IInv, LeftAreInactive
<1> QED BY <1>3, <1>4, <1>5, <1>6, TameStep

\* Steps after which request r holds oidcMu for a grant that exists.
LEMMA HoldStep ==
    ASSUME IInv, TypeOK', Tame, Unlocked, UNCHANGED <<active, left>>, NEW r \in Requests,
           NEW i, request' = [request EXCEPT ![r] = i], oidcMu' = r,
           i.phase = "issuing", IssueOfGrant(i)
    PROVE  IInv'
<1>1. request'[r] = i /\ \A q \in Requests \ {r} : request'[q] = request[q]
  BY DEF IInv, TypeOK
<1>2. \A q \in Requests : request[q].phase # "issuing"
  BY NoIssue DEF IInv
<1>3. LockHeld'
  BY <1>1, <1>2 DEF LockHeld
<1>4. \A q \in Requests : request'[q].phase = "issuing" => IssueOfGrant(request'[q])
  BY <1>1, <1>2
<1>5. \A q \in Requests : request'[q].phase = "delayed" => DelayOfToken(request'[q])
  BY <1>1 DEF IInv, DelaysOfTokens
<1>6. LeftAreInactive'
  BY DEF IInv, LeftAreInactive
<1> QED BY <1>3, <1>4, <1>5, <1>6, TameStep

\* A client_credentials request touches no grant.
LEMMA ClientStep ==
    ASSUME IInv, TypeOK', Tame, Unlocked, UNCHANGED <<active, left>>, NEW r \in Requests,
           NEW a \in Apps, NEW asked,
           IssueClientToken(r, a, asked) \/ StartDelay(r, "client", a, NoSecret, asked)
    PROVE  IInv'
<1>1. CASE IssueClientToken(r, a, asked)
  <2> DEFINE i == [phase |-> "issuing", kind |-> "client", app |-> a, user |-> NoUser,
                   grant |-> NoSecret, value |-> NoSecret, scope |-> asked, asked |-> asked]
  <2>1. i.phase = "issuing" /\ i.kind = "client"
    OBVIOUS
  <2>2. request' = [request EXCEPT ![r] = i] /\ oidcMu' = r
    BY <1>1 DEF IssueClientToken
  <2> HIDE DEF i
  <2>3. IssueOfGrant(i)
    BY <2>1 DEF IssueOfGrant
  <2> QED BY <2>1, <2>2, <2>3, HoldStep
<1>2. CASE StartDelay(r, "client", a, NoSecret, asked)
  <2> DEFINE d == [phase |-> "delayed", kind |-> "client", app |-> a,
                   value |-> NoSecret, asked |-> asked]
  <2>1. request' = [request EXCEPT ![r] = d] /\ UNCHANGED oidcMu
    BY <1>2 DEF StartDelay
  <2>2. request'[r] = d /\ d.phase = "delayed" /\ d.kind = "client"
    BY <2>1 DEF IInv, TypeOK
  <2>3. d \in RequestState
    BY <2>2 DEF TypeOK, RequestState
  <2> HIDE DEF d
  <2>4. d \in Delayed
    BY <2>2, <2>3, Phases
  <2>5. DelayOfToken(d)
    BY <2>2 DEF DelayOfToken
  <2> QED BY <2>1, <2>4, <2>5, WaitStep
<1> QED BY <1>1, <1>2

\* The exchange of a code, from whichever action: the new grant is fresh.
LEMMA ExchangeCodeStep ==
    ASSUME IInv, TypeOK', Unlocked, NEW r \in Requests,
           NEW codes \in SUBSET AuthCode, NEW c \in codes, ExchangeCode(r, c, codes),
           CodesFrom(codes, authCodes),
           accessTokens' \subseteq accessTokens, refreshTokens' \subseteq refreshTokens,
           UNCHANGED <<active, revokedGrants, left>>
    PROVE  IInv'
<1>n. PICK n : n = nextSecret
  OBVIOUS
<1> DEFINE i == [phase |-> "issuing", kind |-> "code", app |-> c.app, user |-> c.user,
                 grant |-> n, value |-> NoSecret, scope |-> c.scope, asked |-> c.scope]
           g == [grant |-> n, code |-> c.value, app |-> c.app,
                 user |-> c.user, scope |-> c.scope]
<1>0. authCodes' = Without(codes, c.value)
  BY DEF ExchangeCode
<1>1. CASE request' = [request EXCEPT ![r] = Idle] /\ UNCHANGED <<oidcMu, nextSecret, grantLog>>
  <2>1. Tame
    BY <1>0, <1>1 DEF Tame, CodesFrom, TokensFrom, Distinct, Without, IInv, TypeOK, RefreshTokensOfGrants
  <2> QED BY <1>1, <2>1, ReturnStep
<1>2. CASE /\ active[c.user]
           /\ oidcMu' = r
           /\ request' = [request EXCEPT ![r] = i]
           /\ nextSecret' = nextSecret + 1
           /\ grantLog' = grantLog \union {g}
  <2> HIDE DEF g, i
  <2>0. /\ i.phase = "issuing" /\ i.kind = "code" /\ i.asked = i.scope /\ i.grant = n
        /\ i.user = c.user /\ i.app = c.app /\ i.scope = c.scope
    BY DEF i
  <2>1. /\ g.grant = n /\ g.code = c.value /\ g.app = c.app
        /\ g.user = c.user /\ g.scope = c.scope
    BY DEF g
  <2>2. /\ n \in Nat /\ n = nextSecret /\ c.value \in Nat /\ c.user \in Users /\ c.app \in Apps
        /\ \A x \in grantLog : x.grant \in Nat /\ x.code \in Nat
        /\ \A x \in authCodes : x.value \in Nat
        /\ \A x \in refreshTokens : x.value \in Nat /\ x.grant \in Nat
        /\ \A x \in revokedGrants : x \in Nat
    BY <1>n DEF IInv, TypeOK, AuthCode, Grant, RefreshToken
  <2>3. PICK d \in authCodes : c.value = d.value
    BY DEF CodesFrom
  <2>4. c.value < nextSecret /\ \A x \in grantLog : x.code # c.value
    BY <2>3 DEF IInv, SecretsDrawn
  <2>5. \A x \in grantLog : x.grant # n
    BY <2>2 DEF IInv, SecretsDrawn
  <2>6. \A x, u, a, s : LiveGrant(x, u, a, s) => LiveGrant(x, u, a, s)'
    BY <1>2, <2>1, <2>5 DEF LiveGrant
  <2>7. LiveGrant(n, c.user, c.app, c.scope)'
    <3>1. n \notin revokedGrants
      BY <2>2 DEF IInv, SecretsDrawn
    <3>2. <<c.user, c.app>> \notin left
      BY <1>2 DEF IInv, LeftAreInactive
    <3>3. \A x \in grantLog' : x.grant = n => x = g
      BY <1>2, <2>5
    <3>4. g \in grantLog'
      BY <1>2
    <3>5. \E x \in grantLog' : x.grant = n
      BY <2>1, <3>4
    <3>6. \A x \in grantLog' : x.grant = n =>
             x.user = c.user /\ x.app = c.app /\ x.scope = c.scope
      BY <2>1, <3>3
    <3> QED BY <3>1, <3>2, <3>5, <3>6 DEF LiveGrant
  <2>8. request'[r] = i /\ \A q \in Requests \ {r} : request'[q] = request[q]
    BY <1>2 DEF IInv, TypeOK
  <2>9. \A q \in Requests : request[q].phase # "issuing"
    BY NoIssue DEF IInv
  <2>10. LockHeld'
    BY <1>2, <2>8, <2>9 DEF LockHeld
  <2>11. SecretsDrawn'
    <3>1. \A x \in authCodes' : x.value # c.value /\ \E y \in authCodes : x.value = y.value
      BY <1>0 DEF Without, CodesFrom
    <3>2. \A x \in authCodes' : x.value < nextSecret /\ \A y \in grantLog' : x.value # y.code
      BY <1>2, <2>1, <3>1 DEF IInv, SecretsDrawn
    <3>3. \A x \in grantLog' : x.grant < nextSecret + 1 /\ x.code < nextSecret + 1
      BY <1>2, <2>1, <2>2, <2>4 DEF IInv, SecretsDrawn
    <3>4. \A x \in authCodes' : x.value < nextSecret + 1
      BY <2>2, <3>1, <3>2
    <3>5. /\ \A t \in refreshTokens' : t.value < nextSecret + 1
          /\ \A x \in revokedGrants' : x < nextSecret + 1
      BY <2>2 DEF IInv, SecretsDrawn
    <3> QED BY <1>2, <3>2, <3>3, <3>4, <3>5 DEF SecretsDrawn
  <2>12. CodeUsedOnce'
    BY <1>2, <2>1, <2>4 DEF IInv, CodeUsedOnce
  <2>13. RefreshTokensOfGrants'
    BY <2>6 DEF IInv, RefreshTokensOfGrants, Distinct
  <2>14. AccessTokensOfGrants'
    BY <2>6 DEF IInv, AccessTokensOfGrants
  <2>15. IssuesOfGrants'
    <3>1. \A t \in refreshTokens : \E x \in grantLog : x.grant = t.grant
      BY DEF IInv, RefreshTokensOfGrants, LiveGrant
    <3>2. \A t \in refreshTokens' : t.grant # n
      BY <2>5, <3>1
    <3>4. LiveGrant(i.grant, i.user, i.app, i.scope)'
      BY <2>0, <2>7
    <3>5. IssueOfGrant(request[r])'
      BY <2>0, <2>8, <3>2, <3>4 DEF IssueOfGrant, LiveGrant
    <3> QED BY <2>8, <2>9, <3>5 DEF IssuesOfGrants
  <2>16. DelaysOfTokens'
    <3> SUFFICES ASSUME NEW q \in Requests, request'[q].phase = "delayed"
                 PROVE  DelayOfToken(request[q])'
      BY DEF DelaysOfTokens
    <3>1. request'[q] = request[q]
      BY <2>0, <2>8
    <3>2. DelayOfToken(request[q])
      BY <3>1 DEF IInv, DelaysOfTokens
    <3> QED BY <1>2, <2>2, <3>1, <3>2 DEF DelayOfToken
  <2>17. LeftAreInactive'
    BY DEF IInv, LeftAreInactive
  <2> QED BY <2>10, <2>11, <2>12, <2>13, <2>14, <2>15, <2>16, <2>17 DEF IInv
<1> QED BY <1>n, <1>1, <1>2 DEF ExchangeCode

\* The exchange of a refresh token: nothing changes hands before Issue.
LEMMA ExchangeRefreshTokenStep ==
    ASSUME IInv, TypeOK', Unlocked, NEW r \in Requests,
           NEW tokens \in SUBSET RefreshToken, NEW t \in tokens,
           NEW asked \in SUBSET t.scope, ExchangeRefreshToken(r, t, tokens, asked),
           TokensFrom(tokens, refreshTokens), Distinct(tokens),
           authCodes' \subseteq authCodes, accessTokens' \subseteq accessTokens,
           UNCHANGED <<active, revokedGrants, left>>
    PROVE  IInv'
<1> DEFINE i == [phase |-> "issuing", kind |-> "refresh", app |-> t.app, user |-> t.user,
                 grant |-> t.grant, value |-> t.value, scope |-> t.scope, asked |-> asked]
<1>1. refreshTokens' \subseteq tokens /\ UNCHANGED <<nextSecret, grantLog>>
  BY DEF ExchangeRefreshToken, Without
<1>2. Tame
  BY <1>1 DEF Tame, CodesFrom, TokensFrom, Distinct, IInv, TypeOK
<1>3. CASE request' = [request EXCEPT ![r] = Idle] /\ UNCHANGED oidcMu
  BY <1>2, <1>3, ReturnStep
<1>4. CASE request' = [request EXCEPT ![r] = i] /\ oidcMu' = r
  <2>1. PICK s \in refreshTokens :
           /\ t.value = s.value /\ t.grant = s.grant
           /\ t.user = s.user /\ t.app = s.app /\ t.scope = s.scope
    BY DEF TokensFrom
  <2>2. LiveGrant(t.grant, t.user, t.app, t.scope)
    BY <2>1 DEF IInv, RefreshTokensOfGrants
  <2>3. \A x \in refreshTokens : x.grant = t.grant => x.value = t.value
    BY <2>1 DEF IInv, RefreshTokensOfGrants
  <2>4. i.phase = "issuing" /\ IssueOfGrant(i)
    BY <2>2, <2>3 DEF IssueOfGrant
  <2> HIDE DEF i
  <2> QED BY <1>2, <1>4, <2>4, HoldStep
<1> QED BY <1>3, <1>4 DEF ExchangeRefreshToken

\* Issue stores tokens of the grant the handler holds; a refresh replaces the
\* only refresh token of its grant.
LEMMA IssueStep ==
    ASSUME IInv, TypeOK', NEW r \in Requests, Issue(r)
    PROVE  IInv'
<1>0. PICK i : i = request[r]
  OBVIOUS
<1>n. PICK n : n = nextSecret
  OBVIOUS
<1>1. i.phase = "issuing" /\ IssueOfGrant(i) /\ oidcMu = r
  BY <1>0 DEF Issue, IInv, IssuesOfGrants, LockHeld
<1>2. i \in IssuingForUser \union IssuingForClient
  <2>1. i \in RequestState
    BY <1>0 DEF IInv, TypeOK, RequestState
  <2> QED BY <1>1, <2>1, Phases
<1>3. /\ i.kind = "client" => i.user = NoUser /\ i.grant = NoSecret
      /\ i.kind # "client" => i.grant \in Nat
      /\ i.scope \in SUBSET Scopes /\ i.asked \in SUBSET Scopes
      /\ i.kind \in {"code", "refresh", "client"}
  BY <1>2 DEF IssuingForUser, IssuingForClient
<1>4. /\ accessTokens' = accessTokens \union {MintedAccess(i)}
      /\ refreshTokens' = Rotated(i)
      /\ nextSecret' = nextSecret + 2
      /\ oidcMu' = NoOne
      /\ request' = [request EXCEPT ![r] = Idle]
      /\ UNCHANGED <<authCodes, active, grantLog, revokedGrants, left>>
  BY <1>0 DEF Issue, history
<1>5. /\ n \in Nat
      /\ \A t \in refreshTokens : t.value \in Nat /\ t.value < n
      /\ \A c \in authCodes : c.value \in Nat
      /\ \A g \in grantLog : g.grant \in Nat /\ g.code \in Nat
      /\ \A x \in revokedGrants : x \in Nat
  BY <1>n DEF IInv, SecretsDrawn, TypeOK, AuthCode, Grant, RefreshToken
<1>6. PICK m : m = MintedRefresh(i)
  OBVIOUS
<1>7. m.value = n + 1 /\ m.grant = i.grant /\ m.user = i.user /\ m.app = i.app /\ m.scope = i.scope
  BY <1>6, <1>n DEF MintedRefresh
<1>8. \A t \in refreshTokens' :
         \/ t = m /\ i.kind # "client"
         \/ t \in refreshTokens /\ (i.kind # "client" => t.grant # i.grant)
  BY <1>1, <1>3, <1>4, <1>6 DEF Rotated, Without, IssueOfGrant
<1>9. \A g, u, a, s : LiveGrant(g, u, a, s) => LiveGrant(g, u, a, s)'
  BY <1>4 DEF LiveGrant
<1>10. i.kind # "client" => LiveGrant(i.grant, i.user, i.app, i.scope) /\ i.asked \subseteq i.scope
  BY <1>1, <1>3 DEF IssueOfGrant
<1>11. request'[r] = Idle /\ \A q \in Requests \ {r} : request'[q] = request[q]
  BY <1>4 DEF IInv, TypeOK
<1>12. Idle.phase = "idle"
  BY DEF Idle
<1>13. \A q \in Requests : request'[q].phase # "issuing"
  BY <1>1, <1>11, <1>12 DEF IInv, LockHeld
<1>14. LockHeld' /\ IssuesOfGrants'
  BY <1>13 DEF LockHeld, IssuesOfGrants
<1>15. SecretsDrawn'
  <2>1. nextSecret' = n + 2
    BY <1>4, <1>n
  <2>2. \A t \in refreshTokens' : t.value < n + 2
    BY <1>5, <1>7, <1>8
  <2>3. /\ \A c \in authCodes' : c.value < n + 2
        /\ \A g \in grantLog' : g.grant < n + 2 /\ g.code < n + 2
        /\ \A x \in revokedGrants' : x < n + 2
        /\ \A c \in authCodes', g \in grantLog' : c.value # g.code
    BY <1>4, <1>5, <1>n DEF IInv, SecretsDrawn
  <2> QED BY <2>1, <2>2, <2>3 DEF SecretsDrawn
<1>16. CodeUsedOnce'
  BY <1>4 DEF IInv, CodeUsedOnce
<1>17. RefreshTokensOfGrants'
  <2>1. \A t \in refreshTokens' : LiveGrant(t.grant, t.user, t.app, t.scope)
    BY <1>7, <1>8, <1>10 DEF IInv, RefreshTokensOfGrants
  <2>2. \A t \in refreshTokens' : LiveGrant(t.grant, t.user, t.app, t.scope)'
    BY <1>9, <2>1
  <2>3. \A s, t \in refreshTokens' : s.value = t.value => s = t
    BY <1>5, <1>7, <1>8 DEF IInv, RefreshTokensOfGrants, Distinct
  <2>4. \A s, t \in refreshTokens' : s.grant = t.grant => s.value = t.value
    BY <1>7, <1>8 DEF IInv, RefreshTokensOfGrants
  <2> QED BY <2>2, <2>3, <2>4 DEF RefreshTokensOfGrants, Distinct
<1>18. AccessTokensOfGrants'
  <2>1. PICK x : x = MintedAccess(i)
    OBVIOUS
  <2>2. x.grant = i.grant /\ x.user = i.user /\ x.app = i.app /\ x.scope = i.asked
    BY <2>1 DEF MintedAccess
  <2>3. CASE i.kind = "client"
    BY <1>3, <1>4, <1>9, <2>1, <2>2, <2>3 DEF IInv, AccessTokensOfGrants
  <2>4. CASE i.kind # "client"
    <3>1. LiveGrant(x.grant, x.user, x.app, i.scope)' /\ x.scope \subseteq i.scope
      BY <1>9, <1>10, <2>2, <2>4
    <3>2. \A t \in accessTokens' : t \in accessTokens \/ t = x
      BY <1>4, <2>1
    <3> QED BY <1>3, <1>9, <3>1, <3>2 DEF IInv, AccessTokensOfGrants
  <2> QED BY <2>3, <2>4
<1>19. DelaysOfTokens'
  <2> SUFFICES ASSUME NEW q \in Requests, request'[q].phase = "delayed"
               PROVE  DelayOfToken(request[q])'
    BY DEF DelaysOfTokens
  <2>1. request'[q] = request[q]
    BY <1>11, <1>12
  <2>2. PICK d : d = request[q] /\ DelayOfToken(d)
    BY <2>1 DEF IInv, DelaysOfTokens
  <2>3. d.kind = "refresh" => d.value < nextSecret'
    BY <1>4, <1>5, <1>n, <2>2 DEF DelayOfToken
  <2>4. d.kind = "refresh" => d.value # m.value
    BY <1>5, <1>7, <1>n, <2>2 DEF DelayOfToken
  <2> QED BY <1>8, <2>1, <2>2, <2>3, <2>4 DEF DelayOfToken
<1>20. LeftAreInactive'
  BY <1>4 DEF IInv, LeftAreInactive
<1> QED BY <1>14, <1>15, <1>16, <1>17, <1>18, <1>19, <1>20 DEF IInv

\* Revoking every token of some grants with oidcMu free: gone is what the step
\* adds to left, and no surviving token belongs to what it revokes.
LEMMA RevokeStep ==
    ASSUME IInv, TypeOK', Unlocked, UNCHANGED <<nextSecret, oidcMu, request, grantLog>>,
           authCodes' \subseteq authCodes, accessTokens' \subseteq accessTokens,
           refreshTokens' \subseteq refreshTokens,
           revokedGrants' \subseteq revokedGrants \union {g.grant : g \in grantLog},
           \A t \in accessTokens' \union refreshTokens' :
              t.grant # NoSecret /\ t.grant \notin revokedGrants => t.grant \notin revokedGrants',
           \A t \in accessTokens' \union refreshTokens' :
              t.grant # NoSecret /\ <<t.user, t.app>> \notin left => <<t.user, t.app>> \notin left',
           LeftAreInactive'
    PROVE  IInv'
<1>1. \A q \in Requests : request[q].phase # "issuing"
  BY NoIssue DEF IInv
<1>2. LockHeld' /\ IssuesOfGrants'
  BY <1>1 DEF LockHeld, IssuesOfGrants
<1>3. SecretsDrawn' /\ CodeUsedOnce'
  BY DEF IInv, SecretsDrawn, CodeUsedOnce
<1>4. \A t \in refreshTokens : t.grant # NoSecret
  BY NullsAssumption DEF IInv, TypeOK, RefreshToken
<1>5. RefreshTokensOfGrants'
  BY <1>4 DEF IInv, RefreshTokensOfGrants, LiveGrant, Distinct
<1>6. AccessTokensOfGrants'
  <2> SUFFICES ASSUME NEW t \in accessTokens', ~(t.grant = NoSecret /\ t.user = NoUser)
               PROVE  \E scope \in SUBSET Scopes :
                         t.scope \subseteq scope /\ LiveGrant(t.grant, t.user, t.app, scope)'
    BY DEF AccessTokensOfGrants
  <2>1. PICK scope \in SUBSET Scopes :
           t.scope \subseteq scope /\ LiveGrant(t.grant, t.user, t.app, scope)
    BY DEF IInv, AccessTokensOfGrants
  <2>2. t.grant # NoSecret
    BY <2>1, NullsAssumption DEF LiveGrant, IInv, TypeOK, Grant
  <2>3. LiveGrant(t.grant, t.user, t.app, scope)'
    BY <2>1, <2>2 DEF LiveGrant
  <2> QED BY <2>1, <2>3
<1>7. DelaysOfTokens'
  BY DEF IInv, DelaysOfTokens, DelayOfToken
<1> QED BY <1>2, <1>3, <1>5, <1>6, <1>7 DEF IInv

\* revokeOIDCTokens deletes every token of the grants it revokes and of the
\* users it is called for.
LEMMA RevokeFacts ==
    ASSUME IInv, NEW a \in Apps, NEW users, Revoke(a, users)
    PROVE  /\ authCodes' = authCodes
           /\ accessTokens' \subseteq accessTokens /\ refreshTokens' \subseteq refreshTokens
           /\ revokedGrants' \subseteq revokedGrants \union {g.grant : g \in grantLog}
           /\ \A t \in accessTokens' \union refreshTokens' :
                 /\ t.grant # NoSecret /\ t.grant \notin revokedGrants =>
                       t.grant \notin revokedGrants'
                 /\ ~(t.app = a /\ t.user \in users)
<1>1. /\ accessTokens' = accessTokens \ {t \in accessTokens : t.app = a /\ t.user \in users}
      /\ refreshTokens' = refreshTokens \ {t \in refreshTokens : t.app = a /\ t.user \in users}
      /\ revokedGrants' = revokedGrants \union
            {g.grant : g \in {x \in grantLog : x.app = a /\ x.user \in users}}
      /\ authCodes' = authCodes
  BY DEF Revoke
<1>2. \A t \in accessTokens' \union refreshTokens' : ~(t.app = a /\ t.user \in users)
  BY <1>1
<1>3. \A t \in accessTokens' \union refreshTokens' : \A g \in grantLog :
         t.grant # NoSecret /\ g.grant = t.grant => g.user = t.user /\ g.app = t.app
  BY <1>1 DEF IInv, RefreshTokensOfGrants, AccessTokensOfGrants, LiveGrant
<1>4. \A t \in accessTokens' \union refreshTokens' :
         t.grant # NoSecret /\ t.grant \notin revokedGrants => t.grant \notin revokedGrants'
  BY <1>1, <1>2, <1>3
<1> QED BY <1>1, <1>2, <1>4

\* Every step keeps it: the steps of a request, a revocation, a leaver, time.
LEMMA InvStep == IInv /\ [Next]_vars => IInv'
<1> SUFFICES ASSUME IInv, [Next]_vars PROVE IInv'
  OBVIOUS
<1>0. TypeOK /\ TypeOK'
  BY TypeStep DEF IInv
<1>t. /\ nextSecret \in Nat /\ request \in [Requests -> RequestState]
      /\ authCodes \subseteq AuthCode /\ refreshTokens \subseteq RefreshToken
      /\ Live(authCodes) \subseteq authCodes /\ Live(accessTokens) \subseteq accessTokens
      /\ Live(refreshTokens) \subseteq refreshTokens
      /\ Live(authCodes) \in SUBSET AuthCode /\ Live(refreshTokens) \in SUBSET RefreshToken
      /\ Distinct(refreshTokens) /\ Distinct(Live(refreshTokens))
      /\ CodesFrom(Live(authCodes), authCodes) /\ TokensFrom(Live(refreshTokens), refreshTokens)
  BY <1>0 DEF TypeOK, RequestState, Live, IInv, RefreshTokensOfGrants, Distinct, CodesFrom, TokensFrom
<1>1. ASSUME NEW r \in Requests, NEW u \in Users, NEW a \in Apps, NEW scope \in Asked,
             Authorize(r, u, a, scope)
      PROVE  IInv'
  <2>0. UNCHANGED <<nextSecret, authCodes, accessTokens, refreshTokens, grantLog,
                    revokedGrants, left>>
    BY <1>1 DEF Authorize, creds, history
  <2>1. Tame
    BY <1>t, <2>0 DEF Tame, CodesFrom, TokensFrom, Distinct
  <2>2. [phase |-> "signing in", app |-> a, user |-> u, scope |-> scope] \in SigningIn
    BY ScopesAssumption DEF SigningIn
  <2> QED BY <1>0, <1>1, <2>1, <2>2, ReturnStep DEF Authorize, creds, history
<1>2. ASSUME NEW r \in Requests, IssueCode(r) PROVE IInv'
  <2> DEFINE c == [value |-> nextSecret, app |-> request[r].app, user |-> request[r].user,
                   scope |-> request[r].scope, expires |-> now + CodeLife, redeeming |-> FALSE]
  <2>0. c.value = nextSecret /\ authCodes' = Live(authCodes) \union {c}
    BY <1>2 DEF IssueCode
  <2> HIDE DEF c
  <2>1. /\ \A x \in authCodes' : x \in authCodes \/ x.value = nextSecret
        /\ nextSecret' = nextSecret + 1
        /\ accessTokens' \subseteq accessTokens /\ refreshTokens' \subseteq refreshTokens
        /\ UNCHANGED <<grantLog, revokedGrants, left, active, oidcMu>>
        /\ request' = [request EXCEPT ![r] = Idle]
    <3>1. /\ nextSecret' = nextSecret + 1
          /\ accessTokens' = Live(accessTokens) /\ refreshTokens' = Live(refreshTokens)
          /\ UNCHANGED <<grantLog, revokedGrants, left, active, oidcMu>>
          /\ request' = [request EXCEPT ![r] = Idle]
      BY <1>2 DEF IssueCode, history
    <3> QED BY <1>t, <2>0, <3>1
  <2>2. Tame
    BY <1>t, <2>1 DEF Tame, CodesFrom, TokensFrom, Distinct
  <2> QED BY <1>0, <2>1, <2>2, ReturnStep
<1>3. ASSUME NEW r \in Requests, RedeemCode(r) PROVE IInv'
  <2>1. PICK c \in Presentable(authCodes) :
           \/ ExchangeCode(r, c, Live(authCodes))
           \/ /\ authCodes' = SetRedeeming(Live(authCodes), c.value, TRUE)
              /\ StartDelay(r, "code", c.app, c.value, c.scope)
    BY <1>3 DEF RedeemCode
  <2>2. c \in Live(authCodes) /\ c \in AuthCode
    BY <1>t DEF Presentable
  <2>3. CASE ExchangeCode(r, c, Live(authCodes))
    BY <1>0, <1>3, <1>t, <2>2, <2>3, ExchangeCodeStep DEF RedeemCode
  <2>4. CASE /\ authCodes' = SetRedeeming(Live(authCodes), c.value, TRUE)
             /\ StartDelay(r, "code", c.app, c.value, c.scope)
    <3> DEFINE d == [phase |-> "delayed", kind |-> "code", app |-> c.app,
                     value |-> c.value, asked |-> c.scope]
    <3>1. CodesFrom(authCodes', Live(authCodes))
      BY <1>t, <2>4, SetRedeemingCodes
    <3>2. Tame
      <4>1. /\ accessTokens' = Live(accessTokens) /\ refreshTokens' = Live(refreshTokens)
            /\ UNCHANGED <<nextSecret, grantLog, revokedGrants, left>>
        BY <1>3, <2>4 DEF RedeemCode, StartDelay
      <4> QED BY <1>t, <3>1, <4>1 DEF Tame, CodesFrom, TokensFrom, Distinct
    <3>3. d \in Delayed /\ DelayOfToken(d)
      BY <2>2 DEF Delayed, AuthCode, DelayOfToken
    <3> QED BY <1>0, <1>3, <2>4, <3>2, <3>3, WaitStep DEF RedeemCode, StartDelay
  <2> QED BY <2>1, <2>3, <2>4
<1>4. ASSUME NEW r \in Requests, RedeemRefreshToken(r) PROVE IInv'
  <2>0. PICK t \in Presentable(refreshTokens) : \E asked \in SUBSET t.scope :
           \/ ExchangeRefreshToken(r, t, Live(refreshTokens), asked)
           \/ /\ refreshTokens' = SetRedeeming(Live(refreshTokens), t.value, TRUE)
              /\ StartDelay(r, "refresh", t.app, t.value, asked)
    BY <1>4 DEF RedeemRefreshToken
  <2>1. PICK asked \in SUBSET t.scope :
           \/ ExchangeRefreshToken(r, t, Live(refreshTokens), asked)
           \/ /\ refreshTokens' = SetRedeeming(Live(refreshTokens), t.value, TRUE)
              /\ StartDelay(r, "refresh", t.app, t.value, asked)
    BY <2>0
  <2>2. t \in Live(refreshTokens) /\ t \in refreshTokens /\ t \in RefreshToken
    BY <1>t DEF Presentable
  <2>3. CASE ExchangeRefreshToken(r, t, Live(refreshTokens), asked)
    <3>1. /\ Unlocked /\ authCodes' \subseteq authCodes /\ accessTokens' \subseteq accessTokens
          /\ UNCHANGED <<active, revokedGrants, left>>
      BY <1>4, <1>t DEF RedeemRefreshToken
    <3> QED BY <1>0, <1>t, <2>2, <2>3, <3>1, ExchangeRefreshTokenStep
  <2>4. CASE /\ refreshTokens' = SetRedeeming(Live(refreshTokens), t.value, TRUE)
             /\ StartDelay(r, "refresh", t.app, t.value, asked)
    <3> DEFINE d == [phase |-> "delayed", kind |-> "refresh", app |-> t.app,
                     value |-> t.value, asked |-> asked]
    <3>1. /\ TokensFrom(refreshTokens', Live(refreshTokens))
          /\ Distinct(refreshTokens')
      BY <1>t, <2>4, SetRedeemingTokens
    <3>2. /\ authCodes' \subseteq authCodes /\ accessTokens' \subseteq accessTokens
          /\ request' = [request EXCEPT ![r] = d]
          /\ UNCHANGED <<active, revokedGrants, left, oidcMu, nextSecret, grantLog>>
      BY <1>4, <1>t, <2>4 DEF RedeemRefreshToken, StartDelay
    <3>3. Tame
      BY <1>t, <3>1, <3>2 DEF Tame, CodesFrom, TokensFrom, Distinct
    <3>4. d \in Delayed
      BY <2>2 DEF Delayed, RefreshToken
    <3>5. DelayOfToken(d)
      <4>1. t.value \in Nat /\ t.value < nextSecret
        BY <2>2 DEF IInv, SecretsDrawn, RefreshToken
      <4> QED BY <1>t, <2>2, <4>1 DEF DelayOfToken, Distinct
    <3> QED BY <1>0, <3>2, <3>3, <3>4, <3>5, WaitStep
  <2> QED BY <2>1, <2>3, <2>4
<1>5. ASSUME NEW r \in Requests, NEW a \in Apps, NEW scope \in Asked,
             RequestClientToken(r, a, scope)
      PROVE  IInv'
  <2>1. /\ authCodes' = Live(authCodes) /\ accessTokens' = Live(accessTokens)
        /\ refreshTokens' = Live(refreshTokens) /\ Unlocked
        /\ UNCHANGED <<nextSecret, grantLog, active, revokedGrants, left>>
    BY <1>5 DEF RequestClientToken, IssueClientToken, StartDelay
  <2>2. Tame
    BY <1>t, <2>1 DEF Tame, CodesFrom
  <2> QED BY <1>0, <1>5, <2>1, <2>2, ClientStep DEF RequestClientToken
<1>6. ASSUME NEW r \in Requests, EndCodeDelay(r) PROVE IInv'
  <2> DEFINE codes == SetRedeeming(authCodes, request[r].value, FALSE)
  <2>0. /\ codes \in SUBSET AuthCode /\ CodesFrom(codes, authCodes)
    BY <1>t, SetRedeemingCodes
  <2>1. /\ Unlocked
        /\ UNCHANGED <<accessTokens, refreshTokens, active, revokedGrants, left>>
    BY <1>6 DEF EndCodeDelay
  <2>2. CASE \E c \in Found(codes, request[r].value) : ExchangeCode(r, c, codes)
    <3>1. PICK c \in Found(codes, request[r].value) : ExchangeCode(r, c, codes)
      BY <2>2
    <3>2. c \in codes
      BY DEF Found
    <3> HIDE DEF codes
    <3> QED BY <1>0, <2>0, <2>1, <3>1, <3>2, ExchangeCodeStep
  <2>3. CASE /\ authCodes' \in {codes, Without(codes, request[r].value)}
             /\ request' = [request EXCEPT ![r] = Idle]
             /\ UNCHANGED <<oidcMu, nextSecret, grantLog>>
    <3> HIDE DEF codes
    <3>1. CodesFrom(authCodes', authCodes)
      BY <2>0, <2>3 DEF CodesFrom, Without
    <3>2. Tame
      BY <1>t, <2>1, <2>3, <3>1 DEF Tame, CodesFrom, TokensFrom
    <3> QED BY <1>0, <2>1, <2>3, <3>2, ReturnStep
  <2> QED BY <1>6, <2>2, <2>3 DEF EndCodeDelay
<1>7. ASSUME NEW r \in Requests, EndRefreshDelay(r) PROVE IInv'
  <2> DEFINE tokens == SetRedeeming(refreshTokens, request[r].value, FALSE)
  <2>0. /\ tokens \in SUBSET RefreshToken /\ TokensFrom(tokens, refreshTokens)
        /\ Distinct(tokens)
    BY <1>t, SetRedeemingTokens
  <2>1. /\ Unlocked
        /\ UNCHANGED <<authCodes, accessTokens, active, revokedGrants, left>>
    BY <1>7 DEF EndRefreshDelay
  <2>2. CASE \E t \in Found(tokens, request[r].value) :
                ExchangeRefreshToken(r, t, tokens, request[r].asked)
    <3> HIDE DEF tokens
    <3>1. PICK t \in Found(tokens, request[r].value) :
             ExchangeRefreshToken(r, t, tokens, request[r].asked)
      BY <2>2
    <3>2. t \in tokens /\ t.value = request[r].value
      BY DEF Found
    <3>3. PICK s \in refreshTokens : t.value = s.value /\ t.scope = s.scope
      BY <2>0, <3>2 DEF TokensFrom
    <3>4. DelayOfToken(request[r]) /\ request[r].kind = "refresh"
      BY <1>7 DEF EndRefreshDelay, IInv, DelaysOfTokens
    <3>5. request[r].asked \in SUBSET t.scope
      BY <3>2, <3>3, <3>4 DEF DelayOfToken
    <3>6. PICK asked \in SUBSET t.scope : ExchangeRefreshToken(r, t, tokens, asked)
      BY <3>1, <3>5
    <3> QED BY <1>0, <2>0, <2>1, <3>2, <3>6, ExchangeRefreshTokenStep
  <2>3. CASE /\ refreshTokens' \in {tokens, Without(tokens, request[r].value)}
             /\ request' = [request EXCEPT ![r] = Idle]
             /\ UNCHANGED <<oidcMu, nextSecret, grantLog>>
    <3> HIDE DEF tokens
    <3>1. TokensFrom(refreshTokens', refreshTokens) /\ Distinct(refreshTokens')
      BY <2>0, <2>3 DEF TokensFrom, Distinct, Without
    <3>2. Tame
      BY <1>t, <2>1, <2>3, <3>1 DEF Tame, CodesFrom
    <3> QED BY <1>0, <2>1, <2>3, <3>2, ReturnStep
  <2> QED BY <1>7, <2>2, <2>3 DEF EndRefreshDelay
<1>8. ASSUME NEW r \in Requests, EndClientDelay(r) PROVE IInv'
  <2>1. UNCHANGED <<authCodes, accessTokens, refreshTokens, nextSecret, grantLog, active,
                    revokedGrants, left>> /\ Unlocked
    BY <1>8 DEF EndClientDelay, IssueClientToken, creds
  <2>2. Tame
    BY <1>t, <2>1 DEF Tame, CodesFrom, TokensFrom
  <2>3. CASE IssueClientToken(r, request[r].app, request[r].asked)
    <3>1. request[r].phase = "delayed" /\ request[r] \in RequestState
      BY <1>8, <1>t DEF EndClientDelay
    <3>2. request[r] \in Delayed
      BY <3>1, Phases
    <3>3. PICK a \in Apps : a = request[r].app
      BY <3>2 DEF Delayed
    <3>4. PICK asked : asked = request[r].asked
      OBVIOUS
    <3>5. IssueClientToken(r, a, asked)
      BY <2>3, <3>3, <3>4
    <3> QED BY <1>0, <2>1, <2>2, <3>5, ClientStep
  <2>4. CASE request' = [request EXCEPT ![r] = Idle] /\ UNCHANGED oidcMu
    BY <1>0, <2>1, <2>2, <2>4, ReturnStep
  <2> QED BY <1>8, <2>3, <2>4 DEF EndClientDelay
<1>9. ASSUME NEW r \in Requests, Issue(r) PROVE IInv'
  BY <1>0, <1>9, IssueStep
<1>10. ASSUME NEW r \in Requests, FailToIssue(r) PROVE IInv'
  <2>1. /\ UNCHANGED <<authCodes, accessTokens, refreshTokens, nextSecret, grantLog, active,
                       revokedGrants, left>>
        /\ request' = [request EXCEPT ![r] = Idle] /\ oidcMu' = NoOne
        /\ request[r].phase = "issuing"
    BY <1>10 DEF FailToIssue, creds, history
  <2>2. oidcMu = r
    BY <2>1 DEF IInv, LockHeld
  <2>3. Tame
    BY <1>t, <2>1 DEF Tame, CodesFrom, TokensFrom
  <2> QED BY <1>0, <2>1, <2>2, <2>3, ReturnStep
<1>11. CASE ClientRevoke
  <2>1. /\ Unlocked /\ authCodes' = Live(authCodes)
        /\ UNCHANGED <<nextSecret, oidcMu, active, request, grantLog, left>>
    BY <1>11 DEF ClientRevoke
  <2>2. LeftAreInactive'
    BY <2>1 DEF IInv, LeftAreInactive
  <2>3. CASE /\ accessTokens' \subseteq Live(accessTokens)
             /\ refreshTokens' = Live(refreshTokens)
             /\ UNCHANGED revokedGrants
    <3>1. Tame
      BY <1>t, <2>1, <2>3 DEF Tame, CodesFrom
    <3> QED BY <1>0, <2>1, <2>2, <3>1, QuietStep
  <2>4. ASSUME NEW t \in Live(refreshTokens),
               accessTokens' = Live(accessTokens) \
                   {x \in accessTokens : x.app = t.app /\ x.grant = t.grant},
               refreshTokens' = Live(refreshTokens) \
                   {x \in refreshTokens : x.app = t.app /\ x.grant = t.grant},
               revokedGrants' = revokedGrants \union {t.grant}
        PROVE  IInv'
    <3>1. LiveGrant(t.grant, t.user, t.app, t.scope)
      BY <1>t DEF IInv, RefreshTokensOfGrants
    <3>2. /\ accessTokens' \subseteq accessTokens /\ refreshTokens' \subseteq refreshTokens
          /\ authCodes' \subseteq authCodes
      BY <1>t, <2>1, <2>4
    <3>3. \A x \in refreshTokens : x.grant = t.grant => x.app = t.app
      BY <3>1 DEF IInv, RefreshTokensOfGrants, LiveGrant
    <3>4. \A x \in accessTokens : x.grant = t.grant => x.app = t.app
      <4>1. PICK g \in grantLog : g.grant = t.grant /\ g.app = t.app
        BY <3>1 DEF LiveGrant
      <4>2. t.grant # NoSecret
        BY <1>0, <4>1, NullsAssumption DEF TypeOK, Grant
      <4> SUFFICES ASSUME NEW x \in accessTokens, x.grant = t.grant PROVE x.app = t.app
        OBVIOUS
      <4>3. PICK scope \in SUBSET Scopes : LiveGrant(x.grant, x.user, x.app, scope)
        BY <4>2 DEF IInv, AccessTokensOfGrants
      <4> QED BY <4>1, <4>3 DEF LiveGrant
    <3>5. \A x \in accessTokens' \union refreshTokens' : x.grant # t.grant
      BY <2>4, <3>2, <3>3, <3>4
    <3>6. revokedGrants' \subseteq revokedGrants \union {g.grant : g \in grantLog}
      BY <2>4, <3>1 DEF LiveGrant
    <3>7. \A x \in accessTokens' \union refreshTokens' :
             x.grant \notin revokedGrants => x.grant \notin revokedGrants'
      BY <2>4, <3>5
    <3> QED BY <1>0, <2>1, <2>2, <3>2, <3>6, <3>7, RevokeStep
  <2> QED BY <1>11, <2>3, <2>4 DEF ClientRevoke
<1>12. ASSUME NEW a \in Apps, RevokeTokens(a) PROVE IInv'
  <2>1. PICK users : Revoke(a, users)
    BY <1>12 DEF RevokeTokens
  <2>2. Unlocked /\ UNCHANGED <<nextSecret, oidcMu, active, request, grantLog, left>>
    BY <1>12 DEF RevokeTokens
  <2>3. LeftAreInactive'
    BY <2>2 DEF IInv, LeftAreInactive
  <2> QED BY <1>0, <2>1, <2>2, <2>3, RevokeFacts, RevokeStep
<1>13. CASE Prune
  <2>1. /\ authCodes' = Live(authCodes) /\ accessTokens' = Live(accessTokens)
        /\ refreshTokens' = Live(refreshTokens)
        /\ UNCHANGED <<nextSecret, oidcMu, active, request, grantLog, revokedGrants, left>>
    BY <1>13 DEF Prune, history
  <2>2. Tame
    BY <1>t, <2>1 DEF Tame, CodesFrom
  <2>3. LeftAreInactive'
    BY <2>1 DEF IInv, LeftAreInactive
  <2> QED BY <1>0, <2>1, <2>2, <2>3, QuietStep
<1>14. ASSUME UNCHANGED <<nextSecret, authCodes, accessTokens, refreshTokens, oidcMu, request,
                          grantLog, revokedGrants>>,
              left' \subseteq left, LeftAreInactive'
       PROVE  IInv'
  <2>1. Tame
    BY <1>t, <1>14 DEF Tame, CodesFrom, TokensFrom
  <2> QED BY <1>0, <1>14, <2>1, QuietStep
<1>15. CASE Tick \/ UNCHANGED vars
  <2>1. UNCHANGED <<nextSecret, authCodes, accessTokens, refreshTokens, oidcMu, request,
                    grantLog, revokedGrants, active, left>>
    BY <1>15 DEF Tick, vars, creds, history
  <2>2. LeftAreInactive'
    BY <2>1 DEF IInv, LeftAreInactive
  <2> QED BY <1>14, <2>1, <2>2
<1>16. ASSUME NEW u \in Users, NEW may \in BOOLEAN, SetActive(u, may) PROVE IInv'
  <2>1. active' = [active EXCEPT ![u] = may]
        /\ left' = IF may THEN left \ ({u} \X Apps) ELSE left
    BY <1>16 DEF SetActive
  <2>2. LeftAreInactive'
    BY <1>0, <2>1 DEF IInv, LeftAreInactive, TypeOK
  <2> QED BY <1>14, <1>16, <2>1, <2>2 DEF SetActive, creds
<1>17. ASSUME NEW u \in Users, NEW a \in Apps, LeaverDeactivates(u, a) PROVE IInv'
  <2>1. LeftAreInactive'
    BY <1>0, <1>17 DEF LeaverDeactivates, IInv, LeftAreInactive, TypeOK, history
  <2> QED BY <1>14, <1>17, <2>1 DEF LeaverDeactivates, creds, history
<1>18. CASE LeaverRevokes
  <2>1. PICK u \in Users, a \in Apps : leaver.user = u /\ leaver.app = a
    BY <1>0, <1>18 DEF LeaverRevokes, TypeOK, Leaving
  <2>2. /\ Unlocked /\ Revoke(a, {u})
        /\ left' = IF active[u] THEN left ELSE left \union {<<u, a>>}
        /\ UNCHANGED <<nextSecret, oidcMu, active, request, grantLog>>
    BY <1>18, <2>1 DEF LeaverRevokes
  <2>3. LeftAreInactive'
    BY <2>2 DEF IInv, LeftAreInactive
  <2> QED BY <1>0, <2>2, <2>3, RevokeFacts, RevokeStep
<1>19. CASE LeaverSkips
  <2>1. LeftAreInactive'
    BY <1>19 DEF LeaverSkips, IInv, LeftAreInactive, history
  <2> QED BY <1>14, <1>19, <2>1 DEF LeaverSkips, creds, history
<1> QED BY <1>1, <1>2, <1>3, <1>4, <1>5, <1>6, <1>7, <1>8, <1>9, <1>10, <1>11, <1>12, <1>13,
           <1>15, <1>16, <1>17, <1>18, <1>19 DEF Next

\* The inductive invariant holds always, for any requests, credentials, users and
\* apps; the theorems below read their property off it (oidc.go).
THEOREM Invariant == Spec => []IInv
BY InvInit, InvStep, PTL DEF Spec

-----------------------------------------------------------------------------
(* What the invariant gives. *)

\* No interleaving of token requests, delays, revocations and directory
\* changes exchanges one code for two grants.
THEOREM CodesAreUsedOnce == Spec => []CodeUsedOnce
BY Invariant, PTL DEF IInv

\* No interleaving leaves a grant with two live refresh tokens.
THEOREM RotationNeverForks == Spec => []OneRefreshTokenPerGrant
<1>1. IInv => OneRefreshTokenPerGrant
  BY DEF IInv, RefreshTokensOfGrants, OneRefreshTokenPerGrant, Distinct
<1> QED BY <1>1, Invariant, PTL

\* No token of a grant that was revoked as a whole is stored again.
THEOREM RevocationIsFinal == Spec => []RevokedGrantStaysDead
<1>1. IInv => RevokedGrantStaysDead
  <2> SUFFICES ASSUME IInv, NEW t \in accessTokens \union refreshTokens
               PROVE  t.grant \notin revokedGrants
    BY DEF RevokedGrantStaysDead
  <2>1. CASE t \in refreshTokens
    BY <2>1 DEF IInv, RefreshTokensOfGrants, LiveGrant
  <2>2. CASE t \in accessTokens
    BY <2>2, NullsAssumption DEF IInv, AccessTokensOfGrants, LiveGrant, TypeOK
  <2> QED BY <2>1, <2>2
<1> QED BY <1>1, Invariant, PTL

\* A leaver holds no token of the app, whatever requests were in flight when
\* the deactivation was saved.
THEOREM LeaversHoldNothing == Spec => []LeaverHoldsNothing
<1>1. IInv => LeaverHoldsNothing
  <2> SUFFICES ASSUME IInv, NEW t \in accessTokens \union refreshTokens
               PROVE  <<t.user, t.app>> \notin left
    BY DEF LeaverHoldsNothing
  <2>1. CASE t \in refreshTokens
    BY <2>1 DEF IInv, RefreshTokensOfGrants, LiveGrant
  <2>2. CASE t \in accessTokens /\ t.user = NoUser
    BY <2>2, NullsAssumption DEF IInv, TypeOK
  <2>3. CASE t \in accessTokens /\ t.user # NoUser
    BY <2>3 DEF IInv, AccessTokensOfGrants, LiveGrant
  <2> QED BY <2>1, <2>2, <2>3
<1> QED BY <1>1, Invariant, PTL

\* No refresh gives a token more than its grant was authorized for, or the
\* refresh token less.
THEOREM ScopesFollowGrants == Spec => []ScopeFollowsGrant
<1>1. IInv => ScopeFollowsGrant
  <2> SUFFICES ASSUME IInv, NEW g \in grantLog
               PROVE  /\ \A t \in accessTokens : t.grant = g.grant => t.scope \subseteq g.scope
                      /\ \A t \in refreshTokens : t.grant = g.grant => t.scope = g.scope
    BY DEF ScopeFollowsGrant
  <2>1. \A t \in refreshTokens : t.grant = g.grant => t.scope = g.scope
    BY DEF IInv, RefreshTokensOfGrants, LiveGrant
  <2>2. g.grant # NoSecret
    BY NullsAssumption DEF IInv, TypeOK, Grant
  <2>3. ASSUME NEW t \in accessTokens, t.grant = g.grant PROVE t.scope \subseteq g.scope
    <3>1. PICK scope \in SUBSET Scopes :
             t.scope \subseteq scope /\ LiveGrant(t.grant, t.user, t.app, scope)
      BY <2>2, <2>3 DEF IInv, AccessTokensOfGrants
    <3> QED BY <2>3, <3>1 DEF LiveGrant
  <2> QED BY <2>1, <2>3
<1> QED BY <1>1, Invariant, PTL
-----------------------------------------------------------------------------
(* The marks of delayed requests.                                          *)

\* d is a request that a delay keeps from the credential it presented.
Holds(d) == d.phase = "delayed" /\ d.kind # "client"

Held(req, kind, value) ==
    \E r \in Requests :
        req[r].phase = "delayed" /\ req[r].kind = kind /\ req[r].value = value

MarkedAsHeld(req, tokens, kind) == \A c \in tokens : c.redeeming <=> Held(req, kind, c.value)

OneHolder(req) ==
    \A q, r \in Requests :
        Holds(req[q]) /\ Holds(req[r]) /\ req[q].kind = req[r].kind
            /\ req[q].value = req[r].value => q = r

\* A delayed request presented a secret that had been drawn.
HeldWereDrawn ==
    \A r \in Requests :
        Holds(request[r]) => request[r].value \in Nat /\ request[r].value < nextSecret

MarkInv == MarkedByOneDelay /\ HeldWereDrawn

LEMMA MarksByKind ==
    MarkedByOneDelay <=> /\ MarkedAsHeld(request, authCodes, "code")
                         /\ MarkedAsHeld(request, refreshTokens, "refresh")
                         /\ OneHolder(request)
BY DEF MarkedByOneDelay, MarkedAsHeld, OneHolder, Held, Holds, DelayHolds

\* setRedeeming, at the start and at the end of a delay.
Marked(tokens, value) == SetRedeeming(tokens, value, TRUE)
Unmarked(tokens, value) == SetRedeeming(tokens, value, FALSE)

\* A map that only loses credentials, or gains unmarked ones nobody holds.
LEMMA KeepMarks ==
    ASSUME NEW req, NEW reqAfter, NEW tokens, NEW after, NEW kind,
           MarkedAsHeld(req, tokens, kind),
           \A c \in after : c \in tokens \/ (~c.redeeming /\ ~Held(req, kind, c.value)),
           \A value : Held(reqAfter, kind, value) <=> Held(req, kind, value)
    PROVE  MarkedAsHeld(reqAfter, after, kind)
BY DEF MarkedAsHeld

\* A request starts to hold a credential and marks it.
LEMMA SetMark ==
    ASSUME NEW req, NEW reqAfter, NEW tokens, NEW old \in SUBSET tokens, NEW kind, NEW value,
           NEW after, after = Marked(old, value),
           tokens \in SUBSET AuthCode \/ tokens \in SUBSET RefreshToken,
           MarkedAsHeld(req, tokens, kind),
           \A v : Held(reqAfter, kind, v) <=> v = value \/ Held(req, kind, v)
    PROVE  MarkedAsHeld(reqAfter, after, kind)
<1> SUFFICES ASSUME NEW c \in after
             PROVE  c.redeeming <=> Held(reqAfter, kind, c.value)
    BY DEF MarkedAsHeld
<1>0. old \in SUBSET AuthCode \/ old \in SUBSET RefreshToken
    OBVIOUS
<1>1. PICK d \in old :
         /\ c.value = d.value
         /\ c.value = value => c.redeeming = TRUE
         /\ c.value # value => c.redeeming = d.redeeming
    BY <1>0 DEF Marked, Unmarked, SetRedeeming, AuthCode, RefreshToken
<1>2. d.redeeming <=> Held(req, kind, c.value)
    BY <1>1 DEF MarkedAsHeld
<1>3. CASE c.value = value
    BY <1>1, <1>3
<1>4. CASE c.value # value
    BY <1>1, <1>2, <1>4
<1> QED BY <1>3, <1>4

\* The request lets go of the credential and clears the mark.
LEMMA ClearMark ==
    ASSUME NEW req, NEW reqAfter, NEW tokens, NEW kind, NEW value,
           NEW after, after \subseteq Unmarked(tokens, value),
           tokens \in SUBSET AuthCode \/ tokens \in SUBSET RefreshToken,
           MarkedAsHeld(req, tokens, kind),
           \A v : Held(reqAfter, kind, v) <=> v # value /\ Held(req, kind, v)
    PROVE  MarkedAsHeld(reqAfter, after, kind)
<1> SUFFICES ASSUME NEW c \in after
             PROVE  c.redeeming <=> Held(reqAfter, kind, c.value)
    BY DEF MarkedAsHeld
<1>1. PICK d \in tokens :
         /\ c.value = d.value
         /\ c.value = value => c.redeeming = FALSE
         /\ c.value # value => c.redeeming = d.redeeming
    BY DEF Marked, Unmarked, SetRedeeming, AuthCode, RefreshToken
<1>2. d.redeeming <=> Held(req, kind, c.value)
    BY <1>1 DEF MarkedAsHeld
<1>3. CASE c.value = value
    BY <1>1, <1>3
<1>4. CASE c.value # value
    BY <1>1, <1>2, <1>4
<1> QED BY <1>3, <1>4

\* Steps after which the same requests hold the same credentials.
LEMMA UnheldStep ==
    ASSUME IInv, MarkInv, nextSecret <= nextSecret', nextSecret' \in Nat,
           \A q \in Requests :
               request'[q] = request[q] \/ (~Holds(request[q]) /\ ~Holds(request'[q])),
           \A c \in authCodes' :
               c \in authCodes \/ (~c.redeeming /\ ~(c.value < nextSecret)),
           \A t \in refreshTokens' :
               t \in refreshTokens \/ (~t.redeeming /\ ~(t.value < nextSecret))
    PROVE  MarkInv'
<1>1. ASSUME NEW kind \in {"code", "refresh"}, NEW value
      PROVE  Held(request', kind, value) <=> Held(request, kind, value)
    BY DEF Held, Holds
<1>2. ASSUME NEW kind \in {"code", "refresh"}, NEW value, Held(request, kind, value)
      PROVE  value < nextSecret
    BY <1>2 DEF MarkInv, HeldWereDrawn, Held, Holds
<1>3. MarkedAsHeld(request', authCodes', "code")
  <2>1. MarkedAsHeld(request, authCodes, "code")
      BY MarksByKind DEF MarkInv
  <2>2. \A c \in authCodes' : c \in authCodes \/ (~c.redeeming /\ ~Held(request, "code", c.value))
      BY <1>2
  <2> QED BY <1>1, <2>1, <2>2, KeepMarks
<1>4. MarkedAsHeld(request', refreshTokens', "refresh")
  <2>1. MarkedAsHeld(request, refreshTokens, "refresh")
      BY MarksByKind DEF MarkInv
  <2>2. \A t \in refreshTokens' :
           t \in refreshTokens \/ (~t.redeeming /\ ~Held(request, "refresh", t.value))
      BY <1>2
  <2> QED BY <1>1, <2>1, <2>2, KeepMarks
<1>5. OneHolder(request')
  <2>1. OneHolder(request)
      BY MarksByKind DEF MarkInv
  <2> QED BY <2>1 DEF OneHolder
<1>6. HeldWereDrawn'
  <2>1. nextSecret \in Nat
      BY DEF IInv, TypeOK
  <2> QED BY <2>1 DEF MarkInv, HeldWereDrawn
<1>7. MarkedByOneDelay'
    BY <1>3, <1>4, <1>5 DEF MarkedByOneDelay, MarkedAsHeld, OneHolder, Held, Holds, DelayHolds
<1> QED BY <1>6, <1>7 DEF MarkInv

\* A delay of request r begins: the credential it presents is marked.
LEMMA MarkStep ==
    ASSUME IInv, MarkInv, NEW r \in Requests, NEW kind \in {"code", "refresh"},
           NEW value \in Nat, ~Holds(request[r]), ~Held(request, kind, value),
           value < nextSecret, UNCHANGED nextSecret,
           request'[r].phase = "delayed", request'[r].kind = kind, request'[r].value = value,
           \A q \in Requests \ {r} : request'[q] = request[q],
           IF kind = "code"
           THEN /\ authCodes' = Marked(Live(authCodes), value)
                /\ refreshTokens' \subseteq refreshTokens
           ELSE /\ refreshTokens' = Marked(Live(refreshTokens), value)
                /\ authCodes' \subseteq authCodes
    PROVE  MarkInv'
<1>0. authCodes \in SUBSET AuthCode /\ refreshTokens \in SUBSET RefreshToken
    BY DEF IInv, TypeOK
<1>1. \A v : Held(request', kind, v) <=> v = value \/ Held(request, kind, v)
    BY DEF Held, Holds
<1>2. \A k \in {"code", "refresh"} : k # kind =>
          \A v : Held(request', k, v) <=> Held(request, k, v)
    BY DEF Held, Holds
<1>3. /\ MarkedAsHeld(request, authCodes, "code")
      /\ MarkedAsHeld(request, refreshTokens, "refresh")
      /\ OneHolder(request)
    BY MarksByKind DEF MarkInv
<1>4. MarkedAsHeld(request', authCodes', "code") /\ MarkedAsHeld(request', refreshTokens', "refresh")
  <2>1. Live(authCodes) \subseteq authCodes /\ Live(refreshTokens) \subseteq refreshTokens
      BY DEF Live
  <2>2. CASE kind = "code"
    <3>1. MarkedAsHeld(request', authCodes', "code")
        BY <1>0, <1>1, <1>3, <2>1, <2>2, SetMark
    <3>2. MarkedAsHeld(request', refreshTokens', "refresh")
        BY <1>2, <1>3, <2>2, KeepMarks
    <3> QED BY <3>1, <3>2
  <2>3. CASE kind = "refresh"
    <3>1. MarkedAsHeld(request', refreshTokens', "refresh")
        BY <1>0, <1>1, <1>3, <2>1, <2>3, SetMark
    <3>2. MarkedAsHeld(request', authCodes', "code")
        BY <1>2, <1>3, <2>3, KeepMarks
    <3> QED BY <3>1, <3>2
  <2> QED BY <2>2, <2>3
<1>5. OneHolder(request')
    BY <1>3 DEF OneHolder, Held, Holds
<1>6. HeldWereDrawn'
    BY DEF MarkInv, HeldWereDrawn, Holds
<1>7. MarkedByOneDelay'
    BY <1>4, <1>5 DEF MarkedByOneDelay, MarkedAsHeld, OneHolder, Held, Holds, DelayHolds
<1> QED BY <1>6, <1>7 DEF MarkInv

\* The delay of request r is over: its mark is cleared, whatever else happens
\* to the credential.
LEMMA UnmarkStep ==
    ASSUME IInv, MarkInv, NEW r \in Requests, NEW kind \in {"code", "refresh"}, NEW value,
           request[r].phase = "delayed", request[r].kind = kind, request[r].value = value,
           ~Holds(request'[r]), nextSecret <= nextSecret', nextSecret' \in Nat,
           \A q \in Requests \ {r} : request'[q] = request[q],
           IF kind = "code"
           THEN /\ authCodes' \subseteq Unmarked(authCodes, value)
                /\ refreshTokens' \subseteq refreshTokens
           ELSE /\ refreshTokens' \subseteq Unmarked(refreshTokens, value)
                /\ authCodes' \subseteq authCodes
    PROVE  MarkInv'
<1>0. authCodes \in SUBSET AuthCode /\ refreshTokens \in SUBSET RefreshToken
    BY DEF IInv, TypeOK
<1>3. /\ MarkedAsHeld(request, authCodes, "code")
      /\ MarkedAsHeld(request, refreshTokens, "refresh")
      /\ OneHolder(request)
    BY MarksByKind DEF MarkInv
<1>1. \A v : Held(request', kind, v) <=> v # value /\ Held(request, kind, v)
    BY <1>3 DEF Held, Holds, OneHolder
<1>2. \A k \in {"code", "refresh"} : k # kind =>
          \A v : Held(request', k, v) <=> Held(request, k, v)
    BY DEF Held, Holds
<1>4. MarkedAsHeld(request', authCodes', "code") /\ MarkedAsHeld(request', refreshTokens', "refresh")
  <2>2. CASE kind = "code"
    <3>1. MarkedAsHeld(request', authCodes', "code")
        BY <1>0, <1>1, <1>3, <2>2, ClearMark
    <3>2. MarkedAsHeld(request', refreshTokens', "refresh")
        BY <1>2, <1>3, <2>2, KeepMarks
    <3> QED BY <3>1, <3>2
  <2>3. CASE kind = "refresh"
    <3>1. MarkedAsHeld(request', refreshTokens', "refresh")
        BY <1>0, <1>1, <1>3, <2>3, ClearMark
    <3>2. MarkedAsHeld(request', authCodes', "code")
        BY <1>2, <1>3, <2>3, KeepMarks
    <3> QED BY <3>1, <3>2
  <2> QED BY <2>2, <2>3
<1>5. OneHolder(request')
    BY <1>3 DEF OneHolder
<1>6. HeldWereDrawn'
  <2>1. nextSecret \in Nat
      BY DEF IInv, TypeOK
  <2> QED BY <2>1 DEF MarkInv, HeldWereDrawn
<1>7. MarkedByOneDelay'
    BY <1>4, <1>5 DEF MarkedByOneDelay, MarkedAsHeld, OneHolder, Held, Holds, DelayHolds
<1> QED BY <1>6, <1>7 DEF MarkInv
LEMMA MarkInit == Init => MarkInv
BY DEF Init, Idle, MarkInv, MarkedByOneDelay, HeldWereDrawn, Holds, DelayHolds

\* What the two exchanges leave: maps that gained nothing, and a request that
\* waits no longer.
LEMMA CodeExchanged ==
    ASSUME IInv, NEW r \in Requests, NEW c, NEW codes, ExchangeCode(r, c, codes)
    PROVE  /\ authCodes' \subseteq codes /\ ~Holds(request'[r])
           /\ nextSecret <= nextSecret' /\ nextSecret' \in Nat
           /\ \A q \in Requests \ {r} : request'[q] = request[q]
<1>1. nextSecret \in Nat /\ request \in [Requests -> RequestState]
    BY DEF IInv, TypeOK, RequestState
<1>2. authCodes' \subseteq codes
    BY DEF ExchangeCode, Without
<1>3. nextSecret' = nextSecret \/ nextSecret' = nextSecret + 1
    BY DEF ExchangeCode
<1>4. \E s : s.phase # "delayed" /\ request' = [request EXCEPT ![r] = s]
  <2>1. Idle.phase # "delayed"
      BY DEF Idle
  <2> QED BY <2>1 DEF ExchangeCode
<1> QED BY <1>1, <1>2, <1>3, <1>4 DEF Holds

LEMMA RefreshExchanged ==
    ASSUME IInv, NEW r \in Requests, NEW t, NEW tokens, NEW asked,
           ExchangeRefreshToken(r, t, tokens, asked)
    PROVE  /\ refreshTokens' \subseteq tokens /\ ~Holds(request'[r])
           /\ nextSecret <= nextSecret' /\ nextSecret' \in Nat
           /\ \A q \in Requests \ {r} : request'[q] = request[q]
<1>1. nextSecret \in Nat /\ request \in [Requests -> RequestState]
    BY DEF IInv, TypeOK, RequestState
<1>2. refreshTokens' \subseteq tokens /\ nextSecret' = nextSecret
    BY DEF ExchangeRefreshToken, Without
<1>4. \E s : s.phase # "delayed" /\ request' = [request EXCEPT ![r] = s]
  <2>1. Idle.phase # "delayed"
      BY DEF Idle
  <2> QED BY <2>1 DEF ExchangeRefreshToken
<1> QED BY <1>1, <1>2, <1>4 DEF Holds

\* Every step keeps the marks of credentials that are being redeemed.
LEMMA MarksStep == IInv /\ MarkInv /\ [Next]_vars => MarkInv'
<1> SUFFICES ASSUME IInv, MarkInv, [Next]_vars PROVE MarkInv'
    OBVIOUS
<1>t. /\ nextSecret \in Nat /\ nextSecret <= nextSecret
      /\ request \in [Requests -> RequestState]
      /\ authCodes \subseteq AuthCode /\ refreshTokens \subseteq RefreshToken
      /\ Live(authCodes) \subseteq authCodes /\ Live(refreshTokens) \subseteq refreshTokens
      /\ ~Holds(Idle)
    BY DEF IInv, TypeOK, RequestState, Live, Holds, Idle
\* Steps of one request that is not delayed, before or after, and of none.
<1>a. ASSUME NEW r \in Requests, NEW s, request' = [request EXCEPT ![r] = s], ~Holds(s),
             ~Holds(request[r]), UNCHANGED nextSecret,
             authCodes' \subseteq authCodes, refreshTokens' \subseteq refreshTokens
      PROVE  MarkInv'
  <2>1. \A q \in Requests :
           request'[q] = request[q] \/ (~Holds(request[q]) /\ ~Holds(request'[q]))
      BY <1>t, <1>a
  <2> QED BY <1>t, <1>a, <2>1, UnheldStep
<1>b. ASSUME UNCHANGED <<request, nextSecret>>,
             authCodes' \subseteq authCodes, refreshTokens' \subseteq refreshTokens
      PROVE  MarkInv'
    BY <1>t, <1>b, UnheldStep
<1>1. ASSUME NEW r \in Requests, NEW u \in Users, NEW a \in Apps, NEW scope \in Asked,
             Authorize(r, u, a, scope)
      PROVE  MarkInv'
  <2>1. ~Holds([phase |-> "signing in", app |-> a, user |-> u, scope |-> scope])
      BY DEF Holds
  <2> QED BY <1>t, <1>a, <1>1, <2>1 DEF Authorize, creds
<1>2. ASSUME NEW r \in Requests, IssueCode(r) PROVE MarkInv'
  <2> DEFINE c == [value |-> nextSecret, app |-> request[r].app, user |-> request[r].user,
                   scope |-> request[r].scope, expires |-> now + CodeLife, redeeming |-> FALSE]
  <2>1. c.value = nextSecret /\ ~c.redeeming /\ authCodes' = Live(authCodes) \union {c}
      BY <1>2 DEF IssueCode
  <2> HIDE DEF c
  <2>2. /\ request[r].phase = "signing in" /\ request' = [request EXCEPT ![r] = Idle]
        /\ nextSecret' = nextSecret + 1 /\ refreshTokens' = Live(refreshTokens)
      BY <1>2 DEF IssueCode
  <2>3. \A q \in Requests :
           request'[q] = request[q] \/ (~Holds(request[q]) /\ ~Holds(request'[q]))
      BY <1>t, <2>2 DEF Holds
  <2>4. \A x \in authCodes' : x \in authCodes \/ (~x.redeeming /\ ~(x.value < nextSecret))
      BY <1>t, <2>1
  <2>5. nextSecret <= nextSecret' /\ nextSecret' \in Nat
    <3>1. nextSecret \in Nat /\ nextSecret' = nextSecret + 1
        BY <1>t, <2>2
    <3> QED BY <3>1
  <2>6. refreshTokens' \subseteq refreshTokens
      BY <1>t, <2>2
  <2> QED BY <2>3, <2>4, <2>5, <2>6, UnheldStep
<1>3. ASSUME NEW r \in Requests, RedeemCode(r) PROVE MarkInv'
  <2>1. PICK c \in Presentable(authCodes) :
           \/ ExchangeCode(r, c, Live(authCodes))
           \/ /\ authCodes' = SetRedeeming(Live(authCodes), c.value, TRUE)
              /\ StartDelay(r, "code", c.app, c.value, c.scope)
      BY <1>3 DEF RedeemCode
  <2>2. /\ c \in authCodes /\ c.value \in Nat /\ ~c.redeeming /\ c.value < nextSecret
        /\ request[r] = Idle /\ refreshTokens' \subseteq refreshTokens
      BY <1>3, <1>t DEF RedeemCode, Presentable, AuthCode, IInv, SecretsDrawn
  <2>3. CASE ExchangeCode(r, c, Live(authCodes))
    <3>1. /\ authCodes' \subseteq Live(authCodes) /\ ~Holds(request'[r])
          /\ nextSecret <= nextSecret' /\ nextSecret' \in Nat
          /\ \A q \in Requests \ {r} : request'[q] = request[q]
        BY <2>3, CodeExchanged
    <3> QED BY <1>t, <2>2, <3>1, UnheldStep
  <2>4. CASE /\ authCodes' = SetRedeeming(Live(authCodes), c.value, TRUE)
             /\ StartDelay(r, "code", c.app, c.value, c.scope)
    <3>1. /\ request'[r].phase = "delayed" /\ request'[r].kind = "code"
          /\ request'[r].value = c.value
          /\ \A q \in Requests \ {r} : request'[q] = request[q]
          /\ UNCHANGED nextSecret
        BY <1>t, <2>4 DEF StartDelay
    <3>2. ~Held(request, "code", c.value)
        BY <2>2, MarksByKind DEF MarkInv, MarkedAsHeld
    <3>3. authCodes' = Marked(Live(authCodes), c.value)
        BY <2>4 DEF Marked
    <3>4. c.value \in Nat /\ ~Holds(request[r])
        BY <1>t, <2>2
    <3> QED BY <2>2, <3>1, <3>2, <3>3, <3>4, MarkStep
  <2> QED BY <2>1, <2>3, <2>4
<1>4. ASSUME NEW r \in Requests, RedeemRefreshToken(r) PROVE MarkInv'
  <2>1. PICK t \in Presentable(refreshTokens) : \E asked \in SUBSET t.scope :
           \/ ExchangeRefreshToken(r, t, Live(refreshTokens), asked)
           \/ /\ refreshTokens' = SetRedeeming(Live(refreshTokens), t.value, TRUE)
              /\ StartDelay(r, "refresh", t.app, t.value, asked)
      BY <1>4 DEF RedeemRefreshToken
  <2>2. /\ t \in refreshTokens /\ t.value \in Nat /\ ~t.redeeming /\ t.value < nextSecret
        /\ request[r] = Idle /\ authCodes' \subseteq authCodes
      BY <1>4, <1>t DEF RedeemRefreshToken, Presentable, RefreshToken, IInv, SecretsDrawn
  <2>3. ASSUME NEW asked, ExchangeRefreshToken(r, t, Live(refreshTokens), asked) PROVE MarkInv'
    <3>1. /\ refreshTokens' \subseteq Live(refreshTokens) /\ ~Holds(request'[r])
          /\ nextSecret <= nextSecret' /\ nextSecret' \in Nat
          /\ \A q \in Requests \ {r} : request'[q] = request[q]
        BY <2>3, RefreshExchanged
    <3> QED BY <1>t, <2>2, <3>1, UnheldStep
  <2>4. ASSUME NEW asked, refreshTokens' = SetRedeeming(Live(refreshTokens), t.value, TRUE),
               StartDelay(r, "refresh", t.app, t.value, asked)
        PROVE  MarkInv'
    <3>1. /\ request'[r].phase = "delayed" /\ request'[r].kind = "refresh"
          /\ request'[r].value = t.value
          /\ \A q \in Requests \ {r} : request'[q] = request[q]
          /\ UNCHANGED nextSecret
        BY <1>t, <2>4 DEF StartDelay
    <3>2. ~Held(request, "refresh", t.value)
        BY <2>2, MarksByKind DEF MarkInv, MarkedAsHeld
    <3>3. refreshTokens' = Marked(Live(refreshTokens), t.value)
        BY <2>4 DEF Marked
    <3>4. t.value \in Nat /\ ~Holds(request[r])
        BY <1>t, <2>2
    <3> QED BY <2>2, <3>1, <3>2, <3>3, <3>4, MarkStep
  <2> QED BY <2>1, <2>3, <2>4
<1>5. ASSUME NEW r \in Requests, NEW a, NEW asked, ~Holds(request[r]),
             IssueClientToken(r, a, asked) \/ StartDelay(r, "client", a, NoSecret, asked),
             authCodes' \subseteq authCodes, refreshTokens' \subseteq refreshTokens
      PROVE  MarkInv'
  <2>1. \E s : ~Holds(s) /\ request' = [request EXCEPT ![r] = s]
      BY <1>5 DEF IssueClientToken, StartDelay, Holds
  <2> QED BY <1>a, <1>5, <2>1 DEF IssueClientToken, StartDelay
<1>6. ASSUME NEW r \in Requests, NEW a \in Apps, NEW scope \in Asked,
             RequestClientToken(r, a, scope)
      PROVE  MarkInv'
    BY <1>t, <1>5, <1>6 DEF RequestClientToken
<1>7. ASSUME NEW r \in Requests, EndCodeDelay(r) PROVE MarkInv'
  <2> DEFINE codes == SetRedeeming(authCodes, request[r].value, FALSE)
  <2>1. /\ request[r].phase = "delayed" /\ request[r].kind = "code"
        /\ refreshTokens' \subseteq refreshTokens
      BY <1>7 DEF EndCodeDelay
  <2>2. codes = Unmarked(authCodes, request[r].value)
      BY DEF Unmarked
  <2>3. \/ /\ authCodes' \subseteq codes
           /\ request' = [request EXCEPT ![r] = Idle] /\ UNCHANGED nextSecret
        \/ \E c : ExchangeCode(r, c, codes)
      BY <1>7 DEF EndCodeDelay, Without
  <2> HIDE DEF codes
  <2>4. /\ authCodes' \subseteq codes /\ ~Holds(request'[r])
        /\ nextSecret <= nextSecret' /\ nextSecret' \in Nat
        /\ \A q \in Requests \ {r} : request'[q] = request[q]
      BY <1>t, <2>3, CodeExchanged
  <2> QED BY <2>1, <2>2, <2>4, UnmarkStep
<1>8. ASSUME NEW r \in Requests, EndRefreshDelay(r) PROVE MarkInv'
  <2> DEFINE tokens == SetRedeeming(refreshTokens, request[r].value, FALSE)
  <2>1. /\ request[r].phase = "delayed" /\ request[r].kind = "refresh"
        /\ authCodes' \subseteq authCodes
      BY <1>8 DEF EndRefreshDelay
  <2>2. tokens = Unmarked(refreshTokens, request[r].value)
      BY DEF Unmarked
  <2>3. \/ /\ refreshTokens' \subseteq tokens
           /\ request' = [request EXCEPT ![r] = Idle] /\ UNCHANGED nextSecret
        \/ \E t, asked : ExchangeRefreshToken(r, t, tokens, asked)
      BY <1>8 DEF EndRefreshDelay, Without
  <2> HIDE DEF tokens
  <2>4. /\ refreshTokens' \subseteq tokens /\ ~Holds(request'[r])
        /\ nextSecret <= nextSecret' /\ nextSecret' \in Nat
        /\ \A q \in Requests \ {r} : request'[q] = request[q]
      BY <1>t, <2>3, RefreshExchanged
  <2> QED BY <2>1, <2>2, <2>4, UnmarkStep
<1>9. ASSUME NEW r \in Requests, EndClientDelay(r) PROVE MarkInv'
  <2>1. /\ ~Holds(request[r]) /\ authCodes' = authCodes /\ refreshTokens' = refreshTokens
        /\ \/ \E a, asked : IssueClientToken(r, a, asked)
           \/ (request' = [request EXCEPT ![r] = Idle] /\ UNCHANGED nextSecret)
      BY <1>9 DEF EndClientDelay, creds, Holds
  <2> QED BY <1>t, <1>a, <1>5, <2>1
<1>10. ASSUME NEW r \in Requests, Issue(r) PROVE MarkInv'
  <2>1. PICK m : m = MintedRefresh(request[r])
      OBVIOUS
  <2>2. m.value = nextSecret + 1 /\ ~m.redeeming
      BY <2>1 DEF MintedRefresh
  <2>3. /\ authCodes' = authCodes /\ refreshTokens' \subseteq refreshTokens \union {m}
        /\ nextSecret' = nextSecret + 2 /\ request' = [request EXCEPT ![r] = Idle]
        /\ ~Holds(request[r])
      BY <1>10, <2>1 DEF Issue, Rotated, Without, Holds
  <2>4. \A q \in Requests :
           request'[q] = request[q] \/ (~Holds(request[q]) /\ ~Holds(request'[q]))
      BY <1>t, <2>3
  <2>5. \A t \in refreshTokens' :
           t \in refreshTokens \/ (~t.redeeming /\ ~(t.value < nextSecret))
      BY <1>t, <2>2, <2>3
  <2> QED BY <1>t, <2>3, <2>4, <2>5, UnheldStep
<1>11. ASSUME NEW r \in Requests, FailToIssue(r) PROVE MarkInv'
  <2>1. ~Holds(request[r])
      BY <1>11 DEF FailToIssue, Holds
  <2> QED BY <1>t, <1>a, <1>11, <2>1 DEF FailToIssue, creds
<1>12. CASE \/ ClientRevoke \/ \E a \in Apps : RevokeTokens(a)
            \/ Prune \/ Tick \/ LeaverRevokes \/ LeaverSkips \/ UNCHANGED vars
            \/ \E u \in Users, may \in BOOLEAN : SetActive(u, may)
            \/ \E u \in Users, a \in Apps : LeaverDeactivates(u, a)
  <2>1. /\ UNCHANGED <<request, nextSecret>>
        /\ authCodes' \subseteq authCodes /\ refreshTokens' \subseteq refreshTokens
      BY <1>12, <1>t DEF ClientRevoke, RevokeTokens, Revoke, Prune, Tick, LeaverRevokes, LeaverSkips,
         SetActive, LeaverDeactivates, vars, creds
  <2> QED BY <1>b, <2>1
<1> QED BY <1>1, <1>2, <1>3, <1>4, <1>6, <1>7, <1>8, <1>9, <1>10, <1>11, <1>12 DEF Next

\* A delay marks the credential it holds and nothing else does: no prune, error
\* response or second delay clears a mark under a waiting request or leaves one.
THEOREM MarksAreHeld == Spec => []MarkedByOneDelay
<1>1. MarkInv => MarkedByOneDelay
    BY DEF MarkInv
<1> QED BY Invariant, MarkInit, MarksStep, <1>1, PTL DEF Spec

-----------------------------------------------------------------------------

\* What SetRedeeming stores are the same credentials.
LEMMA FoundWasStored ==
    ASSUME NEW tokens, tokens \in SUBSET AuthCode \/ tokens \in SUBSET RefreshToken,
           NEW value, NEW c \in Found(Unmarked(tokens, value), value)
    PROVE  \E d \in tokens : d.value = value /\ d.expires > now
BY DEF Found, Unmarked, SetRedeeming, AuthCode, RefreshToken

\* handleOIDCToken and refreshOIDCTokens look the credential up again after a
\* delay, and go on only if it is still there and has not expired meanwhile.
THEOREM NothingExpiredIsRedeemed == Spec => ExpiredIsNeverRedeemed
<1> DEFINE Fresh(r) ==
        request'[r].phase = "issuing" /\ request[r].phase = "delayed" =>
            /\ request[r].kind = "code" =>
                  \E c \in authCodes : c.value = request[r].value /\ c.expires > now
            /\ request[r].kind = "refresh" =>
                  \E t \in refreshTokens : t.value = request[r].value /\ t.expires > now
<1>1. ASSUME IInv, [Next]_vars, NEW r \in Requests PROVE Fresh(r)
  <2> SUFFICES ASSUME request'[r].phase = "issuing", request[r].phase = "delayed"
               PROVE  Fresh(r)
      OBVIOUS
  <2>t. /\ authCodes \in SUBSET AuthCode /\ refreshTokens \in SUBSET RefreshToken
        /\ request \in [Requests -> RequestState] /\ Idle.phase = "idle"
      BY <1>1 DEF IInv, TypeOK, RequestState, Idle
  <2>1. EndCodeDelay(r) \/ EndRefreshDelay(r) \/ EndClientDelay(r)
    <3>1. ASSUME NEW q \in Requests, NEW s, request' = [request EXCEPT ![q] = s]
          PROVE  q = r
        BY <2>t, <3>1
    <3>2. ~UNCHANGED request
        OBVIOUS
    <3>3. Next
        BY <1>1, <3>2 DEF vars
    <3>4. PICK q \in Requests :
             \/ \E u \in Users, a \in Apps, scope \in Asked : Authorize(q, u, a, scope)
             \/ IssueCode(q) \/ RedeemCode(q) \/ RedeemRefreshToken(q)
             \/ \E a \in Apps, scope \in Asked : RequestClientToken(q, a, scope)
             \/ EndCodeDelay(q) \/ EndRefreshDelay(q) \/ EndClientDelay(q)
             \/ Issue(q) \/ FailToIssue(q)
        BY <3>2, <3>3 DEF Next, ClientRevoke, RevokeTokens, Prune, Tick, SetActive,
           LeaverDeactivates, LeaverRevokes, LeaverSkips
    <3>5. \E s : request' = [request EXCEPT ![q] = s]
        BY <3>4 DEF Authorize, IssueCode, RedeemCode, RedeemRefreshToken, RequestClientToken,
           EndCodeDelay, EndRefreshDelay, EndClientDelay, Issue, FailToIssue, ExchangeCode,
           ExchangeRefreshToken, StartDelay, IssueClientToken
    <3>6. q = r
        BY <3>1, <3>5
    <3> QED BY <2>t, <3>4, <3>6 DEF Authorize, IssueCode, RedeemCode, RedeemRefreshToken,
            RequestClientToken, Issue, FailToIssue
  <2>2. CASE EndCodeDelay(r)
    <3>1. request[r].kind = "code" /\ Idle.phase = "idle"
        BY <2>2, <2>t DEF EndCodeDelay
    <3>2. \E c : c \in Found(SetRedeeming(authCodes, request[r].value, FALSE), request[r].value)
        BY <2>2, <2>t DEF EndCodeDelay
    <3>3. \E c : c \in Found(Unmarked(authCodes, request[r].value), request[r].value)
        BY <3>2 DEF Unmarked
    <3> QED BY <2>t, <3>1, <3>3, FoundWasStored
  <2>3. CASE EndRefreshDelay(r)
    <3>1. request[r].kind = "refresh"
        BY <2>3 DEF EndRefreshDelay
    <3>2. \E c : c \in Found(SetRedeeming(refreshTokens, request[r].value, FALSE), request[r].value)
        BY <2>3, <2>t DEF EndRefreshDelay
    <3>3. \E c : c \in Found(Unmarked(refreshTokens, request[r].value), request[r].value)
        BY <3>2 DEF Unmarked
    <3> QED BY <2>t, <3>1, <3>3, FoundWasStored
  <2>4. CASE EndClientDelay(r)
      BY <2>4 DEF EndClientDelay
  <2> QED BY <2>1, <2>2, <2>3, <2>4
<1>2. IInv /\ [Next]_vars => [\A r \in Requests : Fresh(r)]_vars
    BY <1>1
<1> QED BY Invariant, <1>2, PTL DEF Spec, ExpiredIsNeverRedeemed
=============================================================================
