CONSTANTS
    b1 = b1
    b2 = b2
    b3 = b3
    b4 = b4
    n1 = n1
    n2 = n2
    v1 = v1
    v2 = v2
    v3 = v3
    NoBundle = NoBundle
    Bundles = {b1, b2}
    Networks = {n1}
    NetOf <- PairNet
    VersionOf <- PairVersions
    Requests = {r1, r2}
    Serialized = FALSE
    WholeSeconds = TRUE
    MaxRequests = 5
    MaxFaults = 0
SPECIFICATION Spec
INVARIANT AtMostOneActive
CHECK_DEADLOCK FALSE
