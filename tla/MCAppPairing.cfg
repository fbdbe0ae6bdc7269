SPECIFICATION Spec

CONSTANTS
    Devices = {d1, d2, d3}
    Connects = {c1, c2}
    None = None
    MaxAsks = 4
    MaxRestarts = 2
    MaxFaults = 2

SYMMETRY Symmetry

INVARIANTS
    Inv
    RecordsHeld
