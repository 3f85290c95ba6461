SPECIFICATION ToolsSpec
CONSTANTS
    Tags = {a, b}
    Dirs <- MCDirs
    DefaultDir = "z"
    Capabilities <- MCCapabilities
    Hosts <- MCHosts
    MaxBcs = 3
    MaxMaterials = 1
    MaxMeshes = 2
    MaxToolCalls = 4
INVARIANT ValidatorIsExact
INVARIANT SetupCostable
PROPERTY FailedToolsChangeNothing
PROPERTY StagingKeepsTheRest
SYMMETRY TagSymmetry
CHECK_DEADLOCK FALSE
