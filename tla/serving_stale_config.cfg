CONSTANTS
    NoBundle = NoBundle
    Bundles = {b1, b2}
    Requests = {r1}
    TTL = 1
    Horizon = 2
    MaxWrites = 2
SPECIFICATION Spec
INVARIANTS
    SettledMapsActive
