SPECIFICATION LimiterFairSpec

CONSTANTS
    Addresses = {a1, a2, a3}
    Handlers = {h1, h2}
    Limit = 2
    GlobalLimit = 3
    TableLimit = 2
    Window = 2
    MaxWait = 1
    Nobody = Nobody

INVARIANTS
    LimiterInv

PROPERTIES
    LockoutEnds
