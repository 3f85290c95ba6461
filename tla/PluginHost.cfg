SPECIFICATION HostedSpec
CONSTANTS
    AbiWidth = 4
    d1 = d1
    d2 = d2
    d3 = d3
    Dirs <- MCDirs
    Root <- MCRoot
    Plugins <- MCPlugins
    Holds <- MCHolds
    Callers <- MCCallers
    HostExts <- MCExts
    Boxes <- MCBoxes
    Grids <- MCGrids
    Solids <- MCSolids
    LayerCases <- MCLayerCases
    SliceCases <- MCSliceCases
    FlowCases <- MCFlowCases
    PatchCases <- MCPatchCases
    LoadCases <- MCLoadCases
    Surfaces <- MCSurfaces
    ObjFiles <- MCObjFiles
INVARIANT RegisteredAreBacked
INVARIANT ConformantPluginsCoexist
INVARIANT NothingLeaks
INVARIANT RefusalsKeepTheFile
INVARIANT GeometryIsKept
INVARIANT PartIsPrinted
INVARIANT SolversGetTheProblem
PROPERTY HostEnds
