---------------------------- MODULE PluginResults ----------------------------
(***************************************************************************)
(* What the example plugins compute, and when it is right.  The inputs are *)
(* samples (constants); most properties compare what one plugin computed   *)
(* with what another makes of it, or with a quantity both must conserve.   *)
(***************************************************************************)
EXTENDS CfdBoundaries, Layers, FiniteElements, SurfaceReaders, Slicing

CONSTANTS
    Boxes,      \* [size, h], for the layered mesher
    Grids,      \* [m, d], for the grid mesher
    Solids,     \* meshes of volume cells
    LayerCases, \* [mesh, b, height, requested]
    SliceCases, \* [mesh, w, height, max_layers, d, spacing, retract, prism]
    FlowCases,  \* [mesh, entries]
    PatchCases, \* [mesh, patches]
    LoadCases,  \* [mesh, p, q, fixes]
    Surfaces,   \* sequences of triangles
    ObjFiles    \* sequences of lines

NoResult == [of |-> "none", in |-> 0, value |-> 0]

Dfam == {"solver.am.overhang", "solver.am.printability"}

Flow == {"solver.cfd.openfoam.simple", "solver.cfd.openfoam.pimple", "solver.cfd.openfoam.inter"}

Layered == {"solver.am.thermal.lpbf", "solver.am.distortion.inherent_strain",
            "solver.am.polymer.fff", "solver.am.buildtime"}

Inputs(cap) ==
    CASE cap = "mesher.am.layered" -> Boxes
      [] cap = "mesher.tetra.grid" -> Grids
      [] cap \in Dfam -> Solids
      [] cap \in Layered -> LayerCases
      [] cap \in {"writer.am.gcode", "writer.am.cli"} -> SliceCases
      [] cap \in Flow -> FlowCases
      [] cap = "solver.cfd.simple" -> PatchCases
      [] cap = "solver.elasticity.fem" -> LoadCases
      [] cap = "reader.stl" -> Surfaces
      [] cap \in {"reader.obj", "reader.blend"} -> ObjFiles
      [] OTHER -> {}

-----------------------------------------------------------------------------
\* The slices of a case: the mesh in the build frame, a plane per layer.

Plan(i, max_layers) ==
    LET mesh == Projected(i.mesh, build_frame(i.w))
    IN plan_layers(Lowest(mesh, 3), Highest(mesh, 3), i.height, max_layers)

CaseTriangles(i) == BoundaryTriangles(Projected(i.mesh, build_frame(i.w)))

Slices(i, plan) == slice_uniform(CaseTriangles(i), plan.h0, plan.dh, plan.count)

\* The system of an elasticity case: assembled, then with the fixes eliminated.
System(i) ==
    LET A == Assembled(i.mesh, Elements(i.mesh, make_material(i.p, i.q)))
        sel(s) == [i.fixes[s] EXCEPT !.sel = parse_selector_geometry(i.mesh, @)]
        fixed == Prescribed(i.mesh, [s \in DOMAIN i.fixes |-> sel(s)])
        rhs == [d \in Dofs(i.mesh) |-> d[1]]
        reduced == Eliminate(A, rhs, fixed)
    IN [A |-> A, rhs |-> rhs, fixed |-> fixed, reduced |-> reduced]

\* The facets of an STL file: a facet line, the loop with its vertices, and the
\* closing lines.
StlFile(tris) ==
    LET line(head, p) == [head |-> head, p |-> p]
        facet(t) == <<line("facet", 0), line("outer", 0), line("vertex", t[1]), line("vertex", t[2]),
                      line("vertex", t[3]), line("endloop", 0), line("endfacet", 0)>>
    IN <<line("solid", 0)>> \o FlattenSeq([i \in DOMAIN tris |-> facet(tris[i])])
        \o <<line("endsolid", 0)>>

GCode(i, mesh, layers) ==
    [layers |-> layers,
     path |-> Toolpath(layers, <<Lowest(mesh, 1), Lowest(mesh, 2)>>, i.d, i.spacing, i.retract)]

\* A part with too many layers is not written at all.
Cli(i) ==
    LET plan == Plan(i, kMaxCliLayers)
        layers == Slices(i, plan)
    IN IF plan.truncated THEN <<>> ELSE [k \in DOMAIN layers |-> Polylines(layers[k])]

Compute(cap, i) ==
    CASE cap = "mesher.am.layered" -> am_layered_mesh_of(i.size, i.h)
      [] cap = "mesher.tetra.grid" -> grid_mesh_of(i.m, i.d)
      [] cap \in Dfam -> BoundaryFacets(i)
      [] cap = "solver.am.thermal.lpbf" -> thermal_layers(i.mesh, i.b, i.height, i.requested)
      [] cap = "solver.am.distortion.inherent_strain" ->
            distortion_layers(i.mesh, i.b, i.height, i.requested)
      [] cap = "solver.am.polymer.fff" -> polymer_layers(i.mesh, i.b, i.height, i.requested)
      [] cap = "solver.am.buildtime" -> buildtime_layers(i.mesh, i.b, i.height)
      [] cap = "writer.am.gcode" ->
            GCode(i, Projected(i.mesh, build_frame(i.w)), Slices(i, Plan(i, i.max_layers)))
      [] cap = "writer.am.cli" -> Cli(i)
      [] cap \in Flow -> PolyMeshOf(i.mesh, i.entries)
      [] cap = "solver.cfd.simple" -> route_nodes(i.mesh, read_patch_bcs(i.patches))
      [] cap = "solver.elasticity.fem" -> System(i)
      [] cap = "reader.stl" -> parse_ascii_stl(StlFile(i))
      [] cap = "reader.obj" -> parse_obj(i)
      [] cap = "reader.blend" -> blender_parse_obj(i)

-----------------------------------------------------------------------------
\* What is right.

\* Two cells of the mesh may be turned inside out against each other; the area
\* vectors of the boundary still add up to nothing.
ClosedSkin(facets) == SumVec([i \in DOMAIN facets |-> facets[i].area]) = <<0, 0, 0>>

\* The facets that face down shade as much of the plate as those that face up.
ShadowsBalance(mesh, b) ==
    LET faces == BoundaryFacets(mesh)
        down(skin) == UNION {skin[c].down : c \in DOMAIN skin}
        shadow(which) == SumOf([i \in DOMAIN faces |-> IF i \in which THEN dot(faces[i].area, b) ELSE 0])
    IN shadow(down(summarise_downskin(mesh, b))) = -shadow(down(summarise_downskin(mesh, Scale(-1, b))))

\* 720 times the volume of the cells.
VolumeOfCells(mesh) ==
    SumOf([c \in 1..Len(mesh.cells) |->
        (120 \div Corners(mesh.cells[c].type)) * cell_volume(mesh, c)])

\* Every cell is listed right way round.
Upright(mesh) ==
    \A cf \in ToSet(Claims(mesh, local_face_table)) : OrientSign(mesh, cf) = 1

SameSkin(mesh, facets) ==
    LET slicer == SlicerFaces(mesh) IN
    /\ {facets[i].key : i \in DOMAIN facets} = {FaceKey(mesh, topo_for, slicer[i]) : i \in DOMAIN slicer}
    /\ Upright(mesh) => 120 * enclosed_volume(BoundaryTriangles(mesh)) = VolumeOfCells(mesh)

\* The side a tag of the layered mesher names.
SideOf(area) ==
    CASE area[1] < 0 -> 10 [] area[1] > 0 -> 11 [] area[2] < 0 -> 12
      [] area[2] > 0 -> 13 [] area[3] < 0 -> 14 [] area[3] > 0 -> 15

TagsAreSides(mesh) ==
    LET facets == BoundaryFacets(mesh)
        tagged == {cf \in ToSet(Claims(mesh, local_face_table)) : mesh.cells[cf[1]].tags[cf[2]] # -1}
    IN /\ tagged = {<<facets[i].cell, facets[i].face>> : i \in DOMAIN facets}
       /\ \A i \in DOMAIN facets :
            mesh.cells[facets[i].cell].tags[facets[i].face] = SideOf(facets[i].area)

\* A layer's tag is the layer its height says, whatever the part's height.
TagsAreLayers(mesh, nz) ==
    LET s == Projection(mesh, <<0, 0, 1>>)
        top == Max({s[i] : i \in DOMAIN s})
    IN \A c \in 1..Len(mesh.cells) : mesh.cells[c].tag = bin_layer(mesh, s, c, top \div nz)

\* The cells of a mesh fill a box of volume v, right way round, without a gap.
Fills(mesh, v) ==
    /\ Upright(mesh)
    /\ VolumeOfCells(mesh) = 720 * v
    /\ enclosed_volume(BoundaryTriangles(mesh)) = 6 * v

-----------------------------------------------------------------------------
\* The firmware that reads a toolpath: where the filament is, whether it is drawn
\* back, and the feedrate that holds.
Firmware(st, c) ==
    LET f == IF c.feed = "same" THEN st.feed ELSE c.feed
        wanted == CASE c.kind = "extrude" -> "print"
                    [] c.kind \in {"retract", "prime"} -> "retract"
                    [] OTHER -> "travel"
        e == IF c.kind \in {"extrude", "retract", "prime"} THEN c.e ELSE st.e
        sound == /\ f = wanted
                 /\ c.kind = "extrude" => ~st.back /\ e = st.e + 1
                 /\ c.kind = "retract" => ~st.back /\ e < st.e
                 /\ c.kind = "prime" => st.back /\ e > st.e
    IN [feed |-> f, e |-> e,
        back |-> IF c.kind = "retract" THEN TRUE ELSE IF c.kind = "prime" THEN FALSE ELSE st.back,
        ok |-> st.ok /\ sound]

Replay(path) ==
    LET run[k \in 0..Len(path)] ==
            IF k = 0 THEN [feed |-> "none", e |-> 0, back |-> FALSE, ok |-> TRUE]
            ELSE Firmware(run[k - 1], path[k])
    IN run[Len(path)]

\* The even-odd inside of a slice.
Inside(contours, q) ==
    Cardinality({j \in DOMAIN contours :
        contours[j].closed /\ point_in_ring(q, contours[j].points)}) % 2 = 1

\* On the lattice lines v = k * spacing, a point is infilled exactly when it is
\* inside; the right end of a line is not.
CoversInside(lines, contours, spacing) ==
    LET pts == UNION {ToSet(contours[j].points) : j \in DOMAIN contours}
        us == {p[1] : p \in pts}
        vs == {p[2] : p \in pts}
        probe == {q \in (Min(us)..Max(us)) \X (Min(vs)..Max(vs)) : q[2] % spacing = 0}
        covers(l, q) == /\ l[1][2] = q[2]
                        /\ Min({l[1][1], l[2][1]}) <= q[1] /\ q[1] < Max({l[1][1], l[2][1]})
    IN \A q \in probe :
        Cardinality({i \in DOMAIN lines : covers(lines[i], q)}) = IF Inside(contours, q) THEN 1 ELSE 0

Filled(contours, spacing) == CoversInside(build_infill(contours, <<1, 0>>, spacing), contours, spacing)

\* Six times the volume of the slices, each taken to be one layer high.
SlicedVolume(layers, height) ==
    3 * height * SumOf([k \in DOMAIN layers |->
        SumOf([j \in DOMAIN layers[k] |-> shoelace(layers[k][j].points)])])

\* No corner of the surface lies in a plane.
Generic(i) ==
    LET plan == Plan(i, i.max_layers)
    IN \A t \in ToSet(CaseTriangles(i)), k \in 1..3, l \in 1..plan.count :
        t[k][3] # plan.h0 + (l - 1) * plan.dh

\* The segments of the triangles the sweep holds are those of all triangles.
SweepIsComplete(i) ==
    LET tris == CaseTriangles(i)
        plan == Plan(i, kMaxCliLayers)
        lists == ActiveLists(tris, plan.h0, plan.dh, plan.count)
        all == [k \in DOMAIN tris |-> k]
        of(active, k) == ToSet(Segments(tris, active, plan.h0 + (k - 1) * plan.dh))
    IN \A k \in 1..plan.count : of(lists[k], k) = of(all, k)

-----------------------------------------------------------------------------
\* Layers: in range, and the same for the four plugins that resolve them; the
\* build-time estimate takes no request, the others one the mesh has layers for.
LayersAgree(cap, i, value) ==
    LET request == IF cap = "solver.am.buildtime" THEN 0 ELSE i.requested
        own == distortion_layers(i.mesh, i.b, i.height, 0)
    IN /\ \A c \in DOMAIN value.cell : value.cell[c] \in 0..(value.num - 1)
       /\ own # Refused /\ request <= own.num
            => value.cell = thermal_layers(i.mesh, i.b, i.height, request).cell

\* The build front of the distortion solver never sinks, also when some layers
\* are the base plate; each step deposits a layer.
FrontRises(value, height) ==
    \A plate \in 0..(value.num + 1) :
        LET steps == deposition_steps(value, height, plate, TRUE) IN
        /\ \A l \in 1..(value.num - 1) :
            /\ steps.s_top[l] <= steps.s_top[l + 1]
            /\ steps.deposited[l + 1] - steps.deposited[l] = IF l < plate THEN 0 ELSE 1
        /\ value.num > 0 => steps.s_top[value.num] + steps.datum >= value.top[value.num]

-----------------------------------------------------------------------------
\* Elasticity: forces balance, reciprocity, and what elimination keeps.

Coefficient(A, r, k) == IF k \in DOMAIN A[r] THEN A[r][k] ELSE 0

Symmetric(A) == \A r \in DOMAIN A, k \in DOMAIN A : Coefficient(A, r, k) = Coefficient(A, k, r)

\* The six rigid motions of the nodes.
RigidMotions(mesh) ==
    {[d \in Dofs(mesh) |-> IF d[2] = a THEN 1 ELSE 0] : a \in Axes}
        \cup {[d \in Dofs(mesh) |-> cross(w, mesh.coords[d[1]])[d[2]]] :
                w \in {<<1, 0, 0>>, <<0, 1, 0>>, <<0, 0, 1>>}}

ForceFree(mesh, A) ==
    \A u \in RigidMotions(mesh) : \A r \in DOMAIN A : Product(A, u)[r] = 0

\* For a displacement that takes the prescribed values the free equations say
\* the same before and after.
KeepsEquations(sys) ==
    LET u == [d \in DOMAIN sys.A |-> IF d \in DOMAIN sys.fixed THEN sys.fixed[d] ELSE d[1] - 2 * d[2]]
        before == Product(sys.A, u)
        after == Product(sys.reduced.A, u)
    IN \A r \in DOMAIN sys.A :
        IF r \in DOMAIN sys.fixed THEN after[r] = sys.reduced.rhs[r]
        ELSE before[r] - sys.rhs[r] = after[r] - sys.reduced.rhs[r]

\* A traction on a side of a box acts on the side's area, by plane or by tag.
SideLoads(mesh, size, axis) ==
    LET plane == parse_selector_geometry(mesh, [kind |-> "plane", axis |-> axis, at |-> 0, side |-> "max"])
        byTag == [kind |-> "tag", tag |-> 9 + 2 * axis]
        total(w) == SumOf([i \in 1..Len(mesh.coords) |-> w[i]])
        area == (size[1] * size[2] * size[3]) \div size[axis]
    IN /\ total(TractionWeights(mesh, plane)) = 24 * area
       /\ TractionWeights(mesh, plane) = TractionWeights(mesh, byTag)

-----------------------------------------------------------------------------
\* The CFD stub: a node has the strongest of the roles of the patches it lies
\* on, whatever the order of the cells, and one that touches a wall is at rest.

RolesAt(mesh, bcs, n) ==
    {bcs[mesh.cells[cf[1]].tags[cf[2]]].routing :
        cf \in {cf \in ToSet(Claims(mesh, faces_for)) :
                    /\ n \in FaceKey(mesh, Table, cf)
                    /\ mesh.cells[cf[1]].tags[cf[2]] \in DOMAIN bcs}}

RoutedByRank(mesh, bcs, value) ==
    \A n \in 1..Len(mesh.coords) :
        LET roles == RolesAt(mesh, bcs, n) IN
        /\ value[n].routing = (IF roles = {} THEN "bulk"
                               ELSE CHOOSE r \in roles : \A q \in roles : Rank[q] <= Rank[r])
        /\ "wall" \in roles => value[n].velocity = AtRest

-----------------------------------------------------------------------------
\* OpenFOAM: what the format demands of a polyMesh, and of the patches.

WellFormedPolyMesh(mesh, pm) ==
    LET n == Len(pm.neighbour)
        keys == {FaceKey(mesh, face_table_for, cf) : cf \in ToSet(Claims(mesh, face_table_for))}
    IN /\ ToSet(pm.faces) = keys /\ Len(pm.faces) = Cardinality(keys)
       /\ \A i \in 1..n : pm.owner[i] < pm.neighbour[i]
       /\ \A i \in 1..(n - 1) :
            \/ pm.owner[i] < pm.owner[i + 1]
            \/ pm.owner[i] = pm.owner[i + 1] /\ pm.neighbour[i] < pm.neighbour[i + 1]
       /\ \A i \in DOMAIN pm.boundary :
            pm.boundary[i].startFace =
                IF i = 1 THEN n ELSE pm.boundary[i - 1].startFace + pm.boundary[i - 1].nFaces
       /\ n + SumOf([i \in DOMAIN pm.boundary |-> pm.boundary[i].nFaces]) = Len(pm.faces)

PatchesFollowTags(mesh, entries, pm) ==
    LET map == FaceMap(mesh)
        bcs == parse_boundary_conditions(entries)
        of(p) == {pm.faces[k] : k \in (p.startFace + 1)..(p.startFace + p.nFaces)}
        matched(t) == \E i \in DOMAIN bcs : bcs[i].tag = t /\ t # NoTag
    IN /\ \A i, j \in DOMAIN pm.boundary : i # j => pm.boundary[i].tag # pm.boundary[j].tag
       /\ \A i \in DOMAIN pm.boundary :
            LET p == pm.boundary[i] IN
            /\ \A k \in of(p) : FaceTag(mesh, map, k) = p.tag
            /\ ~matched(p.tag) => p.U = "noSlip" /\ p.p = "zeroGradient"
=============================================================================
