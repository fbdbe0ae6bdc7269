SPECIFICATION WindowsFairSpec

CONSTANTS
    Handlers = {r1, r2}
    Configs = {a, b}
    Nil = Nil
    MaxRequests = 5
    MaxInstalls = 2
    MaxStops = 2
    MaxFaults = 1

\* All requests may be answered and the tunnel down.
CHECK_DEADLOCK FALSE

INVARIANTS
    WindowsInv
    DisconnectHolds

PROPERTIES
    Handled
