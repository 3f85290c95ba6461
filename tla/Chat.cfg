SPECIFICATION Spec
CONSTANTS
    Names <- ToolNames
    Confirmation <- ToolLevels
    max_steps = 2
    MaxCalls = 4
    MaxBatch = 2
    Projects = {p1, p2}
    NoCard = NoCard
    NoSession = NoSession
CHECK_DEADLOCK FALSE
INVARIANT RequestsAreWellFormed
INVARIANT ToolsRunOnceInOrder
INVARIANT OnlyApprovedToolsRun
INVARIANT LoopAndDispatcherAgree
INVARIANT NoSilentChange
