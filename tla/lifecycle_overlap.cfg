CONSTANTS
    b1 = b1
    b2 = b2
    b3 = b3
    b4 = b4
    n1 = n1
    n2 = n2
    v1 = v1
    v2 = v2
    v3 = v3
    NoBundle = NoBundle
    Bundles = {b1, b2, b3}
    Networks = {n1}
    NetOf <- OneNet
    VersionOf <- Clashing
    Requests = {r1, r2}
    Serialized = FALSE
    WholeSeconds = TRUE
    MaxRequests = 4
    MaxFaults = 1
SYMMETRY RequestSymmetry
SPECIFICATION Spec
INVARIANTS
    PointerWasActivated
    ServedBundleOnDisk
CHECK_DEADLOCK FALSE
