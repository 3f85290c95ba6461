SPECIFICATION Spec
CONSTANTS
    Calls <- Two
    StdinLen <- Stdin
    OutLen <- Output
    Timed = {"solver"}
    WorkDir <- WorkDirs
    Home = "home"
    PipeSize = 1
    max_capture = 1
    Faults <- AllFaults
CHECK_DEADLOCK FALSE
INVARIANT CapPerStream
