SPECIFICATION FairSpec

CONSTANTS
    Devices = {d1}
    Keys = {k1}
    LastHost = 2
    MaxPeers = 1
    None = None
    MaxFaults = 1


PROPERTIES
    InterfaceReclaimed
