\* A client reconnects while the server still holds its old connection.
SPECIFICATION Spec
CONSTANTS
    Instances = {i1}
    Legacy = {}
    Conns = {c1, c2}
    Names = {n1}
    NoName = NoName
    NoConn = NoConn
    MaxTunnels = 1
    MaxInstances = 3
    MaxIdle = 1
    MaxTime = 0
    MaxVersion = 0
SYMMETRY Symmetry
INVARIANT ReconnectIsRetried
