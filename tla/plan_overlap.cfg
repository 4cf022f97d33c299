CONSTANTS
    N = 3
    Layouts <- SmallLayouts
    Durations = {1, 4, 6, 9}
    Requests = {r1, r2}
    NumActions = 3
    Keep = 1
    Step = 2
    MinGreen = 2
    MaxGreen = 6
    MaxSkips = 1
    RecoveryGreen = 3
    NoMap = NoMap
SYMMETRY RequestSymmetry
SPECIFICATION Spec
INVARIANTS
    TypeOK
    ProposalFits
    PlanIsSafe
    RefusedOnlyIfImpossible
    CounterBounded
