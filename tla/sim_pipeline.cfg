CONSTANTS
    s1 = s1
    s2 = s2
    n1 = n1
    p1 = p1
    p2 = p2
    listen = listen
    poll = poll
    listen2 = listen2
    api = api
    c1 = c1
    c2 = c2
    None = None
    Networks = {n1}
    SimNet <- OneNet
    PayloadNet <- OneNetPayloads
    AutoPulls = {listen, listen2, poll}
    Poller = poll
    ApiPulls = {api}
    Syncs = {c1, c2}
    Sims = {s1, s2}
    Payloads = {p1, p2}
    Events = {e1, e2}
    Verdict <- Mixed
    Deployments <- SerialOrFree
SPECIFICATION FairSpec
INVARIANTS
    TypeOK
    Lineage
    ParkedForAReason
    KnownSimOnDisk
PROPERTIES
    AutoSyncPullsOnce
    UploadedGetsKnown
    ParkedGetsComposed
CHECK_DEADLOCK FALSE
