SPECIFICATION Spec

CONSTANTS
    Devices = {d1, d2}
    Keys = {k1, k2, k3}
    LastHost = 3
    MaxPeers = 2
    None = None
    MaxFaults = 1

SYMMETRY Symmetry

INVARIANTS
    Inv
    HomeNeverFallsBack
    KernelKnown

PROPERTIES
    FailureKeepsRegistration
