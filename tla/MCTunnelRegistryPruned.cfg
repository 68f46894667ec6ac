\* One installation stays connected for longer than an idle record is kept.
SPECIFICATION Spec
CONSTANTS
    Instances = {i1, i2}
    Legacy = {}
    Conns = {c1, c2}
    Names = {n1, n2}
    NoName = NoName
    NoConn = NoConn
    MaxTunnels = 2
    MaxInstances = 3
    MaxIdle = 1
    MaxTime = 2
    MaxVersion = 0
SYMMETRY Symmetry
INVARIANT ConnectedIsRemembered
