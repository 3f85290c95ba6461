SPECIFICATION Spec
CONSTANTS
    Calls <- Two
    StdinLen <- NoStdin
    OutLen <- NoOutput
    Timed = {}
    WorkDir <- WorkDirs
    Home = "home"
    PipeSize = 1
    max_capture = 0
    Faults <- NoFaults
CHECK_DEADLOCK FALSE
INVARIANT SafeAcrossStages
