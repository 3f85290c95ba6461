SPECIFICATION PipelineSpec
CONSTANTS
    N = 5
    Ids <- AnyIds
    NoId = 0
    Pipelines <- AnyPipelines
    Order <- FiveStages
    Ns <- FiveNs
    Refs <- FiveRefs
    Registered <- All
    MaxInput = 2
    MaxRuns = 3
    use_cache = TRUE
    stop_on_first_failure = TRUE
    DiskFaults = TRUE
CHECK_DEADLOCK FALSE
INVARIANT OrderIsStable
INVARIANT ValidateIsExact
INVARIANT HandlesOwned
INVARIANT CachedIsFresh
PROPERTY ImplementsRun
