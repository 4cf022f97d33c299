\* A road between two crosses is the approach of both: the deployment map refuses it.
CONSTANTS
    None       = None
    Payloads   <- OneInternalRoad
    Networks   <- Trained
    Manual     <- ManualConfigs
    Requests   <- RequestSet
    Production = FALSE
    MaxSyncs   = 1
SPECIFICATION Spec
CHECK_DEADLOCK FALSE
INVARIANT FitsIsComposed
