SPECIFICATION Spec

CONSTANTS
    Exits = {vps, home}
    First = vps
    None = None
    Slots = {d1}
    MaxAsks = 2
    MaxSignIns = 1
    MaxEvents = 1

\* The app may be left alone, and the bounds end what its user asks.
CHECK_DEADLOCK FALSE

INVARIANTS
    Inv
    DisconnectRestores
    PeerGivenBack

PROPERTIES
    SelectionKept
    OutagePreserves
