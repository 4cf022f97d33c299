\* Two handlers at once, deliveries repeated without end, one fault.
CONSTANTS
    e1 = e1
    e2 = e2
    e3 = e3
    x1 = x1
    v1 = v1
    v2 = v2
    p1 = p1
    p2 = p2
    n1 = n1
    n2 = n2
    None = None
    Callers = {c1, c2}
    Ids = {e1, e2, e3}
    Crosses = {x1}
    Versions = {v1, v2}
    Payloads = {p1, p2}
    NetworkIds = {n1, n2}
    DefaultNetwork = n1
    Settings <- BothDatabases
    MaxFaults = 1
SYMMETRY Symmetric
SPECIFICATION Spec
CHECK_DEADLOCK FALSE
INVARIANTS
    TypeOK
    AppliedOnce
    OneActiveArtifact
    UndisturbedSyncRepairs
