SPECIFICATION Spec

CONSTANTS
    Devices = {d1, d2}
    MaxDevices = 2
    Requests = {r1, r2, r3}
    Generations = {g1, g2, g3, g4}
    Terminal = Terminal
    None = None
    MaxStarts = 2
    MaxPasswords = 2
    MaxSlots = 2
    MaxHandles = 2
    CodeLifetime = 2
    ExchangeLifetime = 1
    CodeInterval = 1

SYMMETRY Symmetry

INVARIANTS
    Inv
    PendingUnderCode
    AttemptsReserved
    HandlesMatchExchanges
    CodeCreatorAuthorized

PROPERTIES
    ImplementsEnrollment
