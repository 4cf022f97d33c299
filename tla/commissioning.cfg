\* Every pair of snapshots of an area, every trained network in between, compiles that may
\* be missing, and a manual config of a cross.
CONSTANTS
    None       = None
    Payloads   <- Variants
    Networks   <- Trained
    Manual     <- ManualConfigs
    Requests   <- RequestSet
    Production = FALSE
    MaxSyncs   = 2
SPECIFICATION Spec
CHECK_DEADLOCK FALSE
INVARIANTS
    TypeOK
    ApproachesBoundRightly
    RefusedForAReason
    MappingStaysWithBundle
    NothingLostWhileInStep
    ServedFromLatestCompile
    HydratedTimesAddUp
