\* Delays, leavers, lifecycle runs, forwarded requests and lost connections end.
SPECIFICATION AllSpec
CONSTANTS
    Users = {u1}
    Apps = {a1}
    Requests = {r1, r2}
    Scopes = {offline}
    Offline = offline
    Asked <- OfflineOnly
    NoUser = NoUser
    NoOne = NoOne
    NoSecret = NoSecret
    CodeLife = 1
    AccessLife = 1
    RefreshLife = 1
    MaxTime = 0
    MaxSecret = 4
    Streams = {r1, r2}
    NewUser = NewUser
    None = None
CHECK_DEADLOCK FALSE
INVARIANTS LeaverHoldsNothing
PROPERTIES MarkIsTemporary RunsSettle RequestsEnd LostIsRedialled
