--------------------------- MODULE PluginOutcomes ---------------------------
(***************************************************************************)
(* What the calls of PluginCalls compute: when one succeeds, `result`      *)
(* holds what it made of one of the sample inputs (PluginResults).         *)
(***************************************************************************)
EXTENDS PluginCalls, PluginResults

VARIABLE result

outcomesVars == <<callVars, result>>

OutcomesInit == CallsInit /\ result = NoResult

\* The call returns with what it computed, when it is one that is modelled.
Computes ==
    IF Inputs(call) = {} THEN result' = NoResult
    ELSE \E i \in Inputs(call) : result' = [of |-> call, in |-> i, value |-> Compute(call, i)]

OutcomesNext ==
    \/ DoReturn /\ Computes
    \/ Starts /\ result' = NoResult
    \/ (Load \/ Works) /\ UNCHANGED result

OutcomesSpec == OutcomesInit /\ [][OutcomesNext]_outcomesVars

-----------------------------------------------------------------------------
\* The boundary the manufacturability solvers work on is closed, also where a
\* cell is listed inside out; the slicer finds the same facets, and on cells
\* listed right way round the two agree on the volume; whatever the build
\* direction, what faces down shades the plate as much as what faces up.
SkinIsClosed ==
    result.of \in Dfam =>
        /\ ClosedSkin(result.value)
        /\ SameSkin(result.in, result.value)
        /\ \A b \in {<<1, 0, 0>>, <<0, 0, 1>>, <<1, 2, -1>>} : ShadowsBalance(result.in, b)

\* The cells of both meshers fill their box without gap or overlap, and no cell
\* is inside out.
MeshersFillTheBox ==
    /\ result.of = "mesher.am.layered" =>
        Fills(result.value, result.in.size[1] * result.in.size[2] * result.in.size[3])
    /\ result.of = "mesher.tetra.grid" =>
        LET i == result.in IN Fills(result.value, i.m * i.m * i.m * i.d[1] * i.d[2] * i.d[3])

\* The layered mesher tags exactly the boundary of the box, each facet with the
\* side it faces, and its cells with the layer their height says.
TagsNameSidesAndLayers ==
    result.of = "mesher.am.layered" =>
        /\ TagsAreSides(result.value)
        /\ TagsAreLayers(result.value, (result.in.size[3] + result.in.h - 1) \div result.in.h)

\* The four plugins that resolve the layers of a mesh, each with its own code,
\* put every cell into the same layer; the build front never sinks.
LayersResolveAlike ==
    result.of \in Layered =>
        /\ LayersAgree(result.of, result.in, result.value)
        /\ result.of = "solver.am.distortion.inherent_strain" => FrontRises(result.value, result.in.height)

\* Cut off its corners, a closed surface has closed outlines only, and the areas
\* of outlines less those of holes carry the volume of an upright part.
SlicesKeepTheVolume ==
    (result.of = "writer.am.gcode" /\ Generic(result.in)) =>
        /\ \A k \in DOMAIN result.value.layers :
            \A j \in DOMAIN result.value.layers[k] : result.value.layers[k][j].closed
        /\ result.in.prism => SlicedVolume(result.value.layers, result.in.height)
                                = enclosed_volume(CaseTriangles(result.in))

\* The sweep's active list never misses a triangle that a plane meets, not even
\* one that begins or ends in the plane.
SweepMissesNothing ==
    result.of = "writer.am.cli" => SweepIsComplete(result.in)

\* Infill covers the inside of each slice, holes spared, each point once: also on
\* scan lines that run through corners or along edges.
InfillIsTheInside ==
    (result.of = "writer.am.gcode" /\ Generic(result.in)) =>
        \A k \in DOMAIN result.value.layers : Filled(result.value.layers[k], result.in.spacing)

\* A machine that reads the toolpath with modal feedrates prints at the printing
\* speed, never prints with the filament drawn back, and never draws it back
\* twice.
ToolpathReplays ==
    result.of = "writer.am.gcode" => Replay(result.value.path).ok

\* The stiffness is symmetric and a rigid motion of the part costs no force.
StiffnessBalances ==
    result.of = "solver.elasticity.fem" =>
        Symmetric(result.value.A) /\ ForceFree(result.in.mesh, result.value.A)

\* With the prescribed displacements eliminated the system is still symmetric,
\* which conjugate gradients need, and says what it said.
EliminationKeepsTheSystem ==
    result.of = "solver.elasticity.fem" =>
        Symmetric(result.value.reduced.A) /\ KeepsEquations(result.value)

\* A traction on a side of a layered box, chosen by plane or by tag, acts on the
\* area of the side.
TractionsCoverTheSide ==
    result.of = "mesher.am.layered" =>
        \A axis \in Axes : SideLoads(result.value, result.in.size, axis)

\* The polyMesh lists each face once, in the order OpenFOAM requires, and its
\* patches split the boundary by tag; a face no condition names is a wall.
PolyMeshIsValid ==
    result.of \in Flow =>
        /\ WellFormedPolyMesh(result.in.mesh, result.value)
        /\ PatchesFollowTags(result.in.mesh, result.in.entries, result.value)

\* Where patches meet, a node takes the strongest role of the faces it lies on,
\* wall before inlet before outlet, in whatever order the cells come; fluid on a
\* wall is at rest even where an inlet meets it.
NodesTakeTheStrongestRole ==
    result.of = "solver.cfd.simple" =>
        RoutedByRank(result.in.mesh, read_patch_bcs(result.in.patches), result.value)

\* A closed surface written as STL text is closed again when read, with the same
\* volume: equal corners become one node.
StlKeepsTheSurface ==
    result.of = "reader.stl" =>
        /\ result.value.ok
        /\ Manifold(SurfaceMesh(result.value)) = "closed"
        /\ enclosed_volume(BoundaryTriangles(SurfaceMesh(result.value))) = enclosed_volume(result.in)

\* The two copies of the OBJ parser read the same surface from a file, also with
\* references counted back from vertices that more vertices follow.
ObjReadersAgree ==
    result.of = "reader.blend" =>
        /\ result.value.ok = parse_obj(result.in).ok
        /\ result.value.coords = parse_obj(result.in).coords
        /\ result.value.tris = parse_obj(result.in).tris

-----------------------------------------------------------------------------
\* Meshes and surfaces keep what they stand for on their way through the
\* plugins: boundaries are closed and the same for all, the meshers fill their
\* boxes and name sides and layers right, the layers are resolved alike, and a
\* surface that is read is the surface that was written.
GeometryIsKept ==
    /\ SkinIsClosed
    /\ MeshersFillTheBox
    /\ TagsNameSidesAndLayers
    /\ LayersResolveAlike
    /\ StlKeepsTheSurface
    /\ ObjReadersAgree

\* The toolpath prints the part: its slices carry the volume, none misses a
\* triangle, the infill is the inside, and a machine can follow it.
PartIsPrinted ==
    /\ SlicesKeepTheVolume
    /\ SweepMissesNothing
    /\ InfillIsTheInside
    /\ ToolpathReplays

\* What the solvers are given is the problem that was posed: a balanced and
\* symmetric system with the loads and supports asked for, a valid polyMesh with
\* a patch for each tag, and the strongest role for each node.
SolversGetTheProblem ==
    /\ StiffnessBalances
    /\ EliminationKeepsTheSystem
    /\ TractionsCoverTheSide
    /\ PolyMeshIsValid
    /\ NodesTakeTheStrongestRole
=============================================================================
