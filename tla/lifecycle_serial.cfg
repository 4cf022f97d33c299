CONSTANTS
    b1 = b1
    b2 = b2
    b3 = b3
    b4 = b4
    n1 = n1
    n2 = n2
    v1 = v1
    v2 = v2
    v3 = v3
    NoBundle = NoBundle
    Bundles = {b1, b2, b3, b4}
    Networks = {n1, n2}
    NetOf <- TwoNets
    VersionOf <- Distinct
    Requests = {r1}
    Serialized = TRUE
    WholeSeconds = TRUE
    MaxRequests = 4
    MaxFaults = 1
SPECIFICATION FairSpec
INVARIANTS
    TypeOK
    AtMostOneActive
    ActiveStatusHasFlag
    PointerInSync
    ServedBundleOnDisk
    RollbackUndoesLastSwitch
PROPERTIES
    PointerWritesActive
    Refines
    SwitchReachesPointer
CHECK_DEADLOCK FALSE
