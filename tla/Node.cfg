SPECIFICATION Spec
CONSTANTS
    Null = Null
    Nodes = {"A", "B", "C"}
    Documents <- MCDocuments
    MaxXml = 6
    MaxJson = 8
    MaxFds = 2
    FpuChannels = {1, 2}
    WellFormed = {"m1", "m2", "m3", "m4"}
    Partial = Partial
    MaxCalls = 3
    MaxArrivals = 2
VIEW View
INVARIANTS
    TypeOK
    SplitAgrees
    PeersAgree
    StartedHasDevice
    DescriptorsAccounted
    AddressesOfLink
    DealtFromOwnDevice
CHECK_DEADLOCK FALSE
