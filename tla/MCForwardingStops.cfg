\* A public request is queued before the confirmation of its tunnel.
SPECIFICATION Spec
CONSTANTS
    Requests = {r1, r2}
    NoMessage = NoMessage
    ServerSlots = 2
    ClientSlots = 1
    SendSize = 1
CHECK_DEADLOCK FALSE
SYMMETRY Symmetry
INVARIANT NeverStopsForGood
