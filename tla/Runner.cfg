SPECIFICATION Spec
CONSTANTS
    Stages <- FiveStages
    Upstream <- Branches
    Content <- MCContent
    Plugin <- MCPlugin
    Reentrant = {"writer"}
    Workers = {w1, w2, w3}
    Fallible = {1, 2, 3, 4, 5}
    Resolves <- MCResolves
    Payloads = {1, 2, 3}
    Serializable = {1, 2}
    Warm = {1, 3}
    use_cache = TRUE
    disk_backing = TRUE
    stop_on_first_failure = TRUE
CHECK_DEADLOCK FALSE
INVARIANT TypeOK
INVARIANT KeysMatchSequential
INVARIANT SerialPluginsExclusive
INVARIANT UpstreamBeforeDispatch
INVARIANT StageAccounting
PROPERTY ImplementsRun
