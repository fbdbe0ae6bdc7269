SPECIFICATION FairSpec

CONSTANTS
    Tokens = {t1, t2}
    Connects = {c1, c2}
    None = None
    MaxAsks = 3
    MaxEnds = 1
    MaxFaults = 1

\* The app may be left without a session.
CHECK_DEADLOCK FALSE

INVARIANTS
    Inv
    TokensReturned

PROPERTIES
    OnlyEndedDropped
    RevocationNoticed
