\* Changes at any time, and changes between requests; each is a way to start.
CONSTANTS
    NoBundle = NoBundle
    Bundles = {b1, b2}
    Requests = {r1, r2}
    TTL = 1
    Horizon = 1
    MaxWrites = 2
SYMMETRY Symmetric
SPECIFICATION Spec
INVARIANTS
    TypeOK
    StaleOnlyWithinTTL
    SettledServesActive
    OnePolicyPerArea
    DrainedServesDisk
VIEW
    View
