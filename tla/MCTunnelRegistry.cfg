\* A legacy installation and one with a key register, serve, are revoked and fall
\* idle while the profile changes.
SPECIFICATION Spec
CONSTANTS
    Instances = {i1, l1}
    Legacy = {l1}
    Conns = {c1, c2}
    Names = {n1, n2}
    NoName = NoName
    NoConn = NoConn
    MaxTunnels = 2
    MaxInstances = 2
    MaxIdle = 0
    MaxTime = 1
    MaxVersion = 1
SYMMETRY Symmetry
INVARIANTS OneTunnelEach RouteHasItsHandler RevokedIsDisconnected ServesCurrentProfile ServesUnderItsName
