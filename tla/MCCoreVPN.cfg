SPECIFICATION FairSpec

CONSTANTS
    Devices = {d1, d2}
    Calls = {c1, c2}
    None = None
    MaxRestarts = 2
    MaxFaults = 1

INVARIANTS
    Inv
    RevocationConfirmed

PROPERTIES
    CoreGoesOn
