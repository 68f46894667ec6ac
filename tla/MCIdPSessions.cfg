SPECIFICATION Spec
CONSTANTS
    Users = {u1, u2}
    Browsers = {b1}
    Requests = {r1, r2}
    NoSession = NoSession
    Life = 1
    MaxTime = 1
    MaxSession = 2
SYMMETRY Symmetry
INVARIANTS LogoutOnce DeactivationEndsSessions
PROPERTIES AssertionsStayMatchable EndedStaysEnded
