SPECIFICATION Spec
CONSTANTS
    Calls <- Two
    StdinLen <- Stdin
    OutLen <- Output
    Timed = {"solver"}
    WorkDir <- OneDirectory
    Home = "home"
    PipeSize = 1
    max_capture = 1
    Faults <- AllFaults
CHECK_DEADLOCK FALSE
INVARIANT NothingLeftBehind
INVARIANT OutputIsComplete
INVARIANT DirectoryRestored
PROPERTY TimedCallReturns
