SPECIFICATION FairSpec

CONSTANTS
    Devices = {d1}
    Keys = {k1, k2}
    LastHost = 2
    MaxPeers = 1
    None = None
    MaxFaults = 1


PROPERTIES
    RevocationTakesEffect
