\* Two requests race for one code and for the refresh tokens it yields, with
\* credentials that expire while delays hold them.
CONSTANTS
    Users = {u1}
    Apps = {a1}
    Requests = {r1, r2}
    Scopes = {groups, offline}
    Offline = offline
    Asked <- GroupsOffline
    NoUser = NoUser
    NoOne = NoOne
    NoSecret = NoSecret
    CodeLife = 1
    AccessLife = 1
    RefreshLife = 2
    MaxTime = 2
    MaxSecret = 7
SPECIFICATION Spec
SYMMETRY Symmetry
INVARIANTS CodeUsedOnce OneRefreshTokenPerGrant RevokedGrantStaysDead ScopeFollowsGrant MarkedByOneDelay
PROPERTY ExpiredIsNeverRedeemed
