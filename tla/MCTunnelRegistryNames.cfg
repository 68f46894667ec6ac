\* Two installations draw the same name.
SPECIFICATION Spec
CONSTANTS
    Instances = {i1, i2}
    Legacy = {}
    Conns = {c1, c2}
    Names = {n1, n2}
    NoName = NoName
    NoConn = NoConn
    MaxTunnels = 2
    MaxInstances = 3
    MaxIdle = 1
    MaxTime = 0
    MaxVersion = 0
SYMMETRY Symmetry
INVARIANT NamesReservedOnce
