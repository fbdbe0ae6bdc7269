SPECIFICATION FairSpec

CONSTANTS
    Identities = {i1, i2}
    Profiles = {p1, p2}
    None = None
    MaxFaults = 2

INVARIANTS
    Inv
    NoOrphan
    NothingLeft

PROPERTIES
    RevokedGoesDown
    FollowsCore
