\* Fault scenarios, SAML logouts, enrollment, updates, the tunnel supervisor, the
\* state file, signing keys, start-up and lifecycle runs, one beside the other.
SPECIFICATION AllSpec
CONSTANTS
    Requests = {r1, r2, r3}
    Lifetime = 1
    MaxCount = 2
    MaxTime = 1
    MaxRuns = 2
    Actors = {p1, p2}
    Things = {t1, t2}
    Places = {i1, i2}
    Latecomers = {Late}
    Others = {Other}
    Accounts = {Account}
    Environments = {Environment}
    Users = {User}
    Default = Default
    NewUser = NewUser
    ByHand = ByHand
    Ports = {1, 2}
    None = None
    LogSize = 2
    MaxRequests = 3
    Limit = 1
    IPLimit = 2
    MaxBuild = 3
    MaxSignOuts = 2
    MaxDeaths = 2
    MaxCopies = 2
    MaxStarts = 3
    MaxKeys = 3
    MaxGrace = 2
    MaxNow = 2
    MaxStarted = 2
CHECK_DEADLOCK FALSE
SYMMETRY Symmetry
INVARIANTS
    AllTypeOK
    CountersAgree
    StepsShowTheirAnswer
    IndexesAgree GrantsAreSpent
    StagedIsThere
    SignedOutIsGone NeverStuck
    UpgradeKeepsDirectory
    PublishedAsPromised
    HandoffIsRight
    PushesTellTheTruth
PROPERTIES
    EndedRunStaysEnded
    WithinLimit
    NeverBackwards
