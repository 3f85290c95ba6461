------------------------------- MODULE Facets -------------------------------
(***************************************************************************)
(* The boundary of a mesh as four parts of the system compute it, each     *)
(* with its own copy of the face tables of src/core/face_topology.cpp: the *)
(* manufacturability solvers (BoundaryFacets), the slicer (SlicerFaces),   *)
(* the OpenFOAM translator (face_table_for) and the CFD stub (faces_for).  *)
(*                                                                         *)
(* A mesh is [coords |-> <<x, y, z>> per node, cells |-> a sequence of     *)
(* [type, nodes, tags]], nodes and faces numbered from 1, tags one per     *)
(* local face and -1 for an untagged face.  Coordinates are integers.      *)
(***************************************************************************)
EXTENDS Integers, Sequences, FiniteSets, SequencesExt

\* core/face_topology.cpp: faces counter-clockwise seen from outside.
face_node_table ==
    [Tet4  |-> <<<<2,3,4>>, <<1,4,3>>, <<1,2,4>>, <<1,3,2>>>>,
     Hex8  |-> <<<<1,4,3,2>>, <<5,6,7,8>>, <<1,2,6,5>>, <<4,8,7,3>>, <<1,5,8,4>>, <<2,3,7,6>>>>,
     Prism6 |-> <<<<1,3,2>>, <<4,5,6>>, <<1,2,5,4>>, <<2,3,6,5>>, <<3,1,4,6>>>>,
     Pyramid5 |-> <<<<1,4,3,2>>, <<1,2,5>>, <<2,3,5>>, <<3,4,5>>, <<4,1,5>>>>,
     Tri3  |-> <<<<1,2,3>>>>,
     Quad4 |-> <<<<1,2,3,4>>>>]

Table(type) == IF type \in DOMAIN face_node_table THEN face_node_table[type] ELSE <<>>

IsVolume(type) == Len(Table(type)) > 1

\* The quadratic elements list their corners first.
Lowered(type) ==
    CASE type = "Tet10" -> "Tet4"
      [] type \in {"Hex20", "Hex27"} -> "Hex8"
      [] type = "Prism15" -> "Prism6"
      [] type = "Pyramid13" -> "Pyramid5"
      [] type = "Tri6" -> "Tri3"
      [] type \in {"Quad8", "Quad9"} -> "Quad4"
      [] OTHER -> type

\* The numbers of corners; the nodes that follow them lie inside edges or faces.
Corners(type) ==
    CASE Lowered(type) = "Tri3" -> 3
      [] Lowered(type) \in {"Tet4", "Quad4"} -> 4
      [] Lowered(type) = "Pyramid5" -> 5
      [] Lowered(type) = "Prism6" -> 6
      [] OTHER -> 8

\* The slicer's and the manufacturability solvers' tables lower the quadratic
\* elements to their corners; the translator takes linear volume elements.
topo_for(type) == Table(Lowered(type))

local_face_table(type) == Table(Lowered(type))

face_table_for(type) == IF IsVolume(type) THEN Table(type) ELSE <<>>

\* The CFD stub knows Tet4 and Hex8 and lists one face from another corner.
faces_for(type) ==
    IF type = "Hex8" THEN [Table(type) EXCEPT ![4] = <<3,4,8,7>>]
    ELSE IF type = "Tet4" THEN Table(type) ELSE <<>>

\* All (cell, local face) pairs of a mesh in cell and face order, for the cells
\* of which `table` knows the faces.
Claims(mesh, table(_)) ==
    FlattenSeq([c \in 1..Len(mesh.cells) |->
        [f \in 1..Len(table(mesh.cells[c].type)) |-> <<c, f>>]])

\* The nodes of a face in the order of the table, and its sorted key: two faces
\* are the same when their keys are.
FaceNodes(mesh, table(_), cf) ==
    LET cell == mesh.cells[cf[1]] IN
    [i \in 1..Len(table(cell.type)[cf[2]]) |-> cell.nodes[table(cell.type)[cf[2]][i]]]

face_key(nodes) == ToSet(nodes)

FaceKey(mesh, table(_), cf) == face_key(FaceNodes(mesh, table, cf))

\* The claims no other claim has the key of.
ClaimedOnce(mesh, table(_), claims) ==
    LET keys == [i \in DOMAIN claims |-> FaceKey(mesh, table, claims[i])] IN
    SelectSeq(claims, LAMBDA cf :
        Cardinality({i \in DOMAIN keys : keys[i] = FaceKey(mesh, table, cf)}) = 1)

-----------------------------------------------------------------------------
\* Vectors.

Minus(a, b) == <<a[1] - b[1], a[2] - b[2], a[3] - b[3]>>

Scale(k, a) == <<k * a[1], k * a[2], k * a[3]>>

dot(a, b) == a[1] * b[1] + a[2] * b[2] + a[3] * b[3]

cross(a, b) ==
    <<a[2] * b[3] - a[3] * b[2], a[3] * b[1] - a[1] * b[3], a[1] * b[2] - a[2] * b[1]>>

SumVec(s) ==
    LET sum(k) == LET part[i \in 0..Len(s)] == IF i = 0 THEN 0 ELSE part[i - 1] + s[i][k]
                  IN part[Len(s)]
    IN <<sum(1), sum(2), sum(3)>>

Points(mesh, ids) == [i \in DOMAIN ids |-> mesh.coords[ids[i]]]

-----------------------------------------------------------------------------
\* am-manufacturability

\* Twice the area vector of a facet, fanned about its first vertex.
FacetArea(pts) ==
    SumVec([k \in 1..(Len(pts) - 2) |->
        cross(Minus(pts[k + 1], pts[1]), Minus(pts[k + 2], pts[1]))])

CornerPoints(mesh, cell) == Points(mesh, SubSeq(cell.nodes, 1, Corners(cell.type)))

\* Is the facet's table orientation outward?  The facet's middle is compared
\* with the cell's, both scaled by their numbers of points; a shell is taken as
\* it is listed.
OrientSign(mesh, cf) ==
    LET cell == mesh.cells[cf[1]]
        pts == Points(mesh, FaceNodes(mesh, local_face_table, cf))
        corners == CornerPoints(mesh, cell)
        outward == Minus(Scale(Len(corners), SumVec(pts)), Scale(Len(pts), SumVec(corners)))
    IN IF IsVolume(Lowered(cell.type)) /\ dot(FacetArea(pts), outward) < 0 THEN -1 ELSE 1

\* Mutant: the orientation of the table is trusted.
OutwardArea_Trusting(mesh, cf) == FacetArea(Points(mesh, FaceNodes(mesh, local_face_table, cf)))

OutwardArea(mesh, cf) ==
    Scale(OrientSign(mesh, cf), FacetArea(Points(mesh, FaceNodes(mesh, local_face_table, cf))))

\* The facets only one cell claims, in claim order, with their area vectors.
BoundaryFacets(mesh) ==
    LET kept == ClaimedOnce(mesh, local_face_table, Claims(mesh, local_face_table)) IN
    [i \in DOMAIN kept |->
        [cell |-> kept[i][1], face |-> kept[i][2],
         key |-> FaceKey(mesh, local_face_table, kept[i]), area |-> OutwardArea(mesh, kept[i])]]

\* 6 * corners times the volume of a cell, by the divergence theorem about its
\* middle, as a magnitude.
cell_volume(mesh, c) ==
    LET cell == mesh.cells[c]
        corners == CornerPoints(mesh, cell)
        lever(pts) == Minus(Scale(Len(corners), pts[1]), SumVec(corners))
        flux(f) == LET pts == Points(mesh, FaceNodes(mesh, local_face_table, <<c, f>>))
                   IN OrientSign(mesh, <<c, f>>) * dot(lever(pts), FacetArea(pts))
        total[f \in 0..Len(local_face_table(cell.type))] ==
            IF f = 0 THEN 0 ELSE total[f - 1] + flux(f)
        v == total[Len(local_face_table(cell.type))]
    IN IF ~IsVolume(Lowered(cell.type)) THEN 0 ELSE IF v < 0 THEN -v ELSE v

\* For each cell its boundary facets, and those of them that face down against
\* the build direction b.
summarise_downskin(mesh, b) ==
    LET faces == BoundaryFacets(mesh)
        of(c) == {i \in DOMAIN faces : faces[i].cell = c}
    IN [c \in 1..Len(mesh.cells) |->
            [boundary |-> of(c), down |-> {i \in of(c) : dot(faces[i].area, b) < 0}]]

-----------------------------------------------------------------------------
\* am-slicer

\* Quads are split on the diagonal from their first vertex.
emit_face(pts) ==
    IF Len(pts) = 3 THEN <<pts>>
    ELSE <<<<pts[1], pts[2], pts[3]>>, <<pts[1], pts[3], pts[4]>>>>

\* With volume cells the facets claimed once by them, shell cells ignored;
\* without, the shell cells themselves.
HasVolume(mesh) == \E c \in 1..Len(mesh.cells) : IsVolume(Lowered(mesh.cells[c].type))

SlicerFaces(mesh) ==
    LET claims == SelectSeq(Claims(mesh, topo_for),
                            LAMBDA cf : IsVolume(Lowered(mesh.cells[cf[1]].type)) = HasVolume(mesh))
    IN IF HasVolume(mesh) THEN ClaimedOnce(mesh, topo_for, claims) ELSE claims

\* A shell is closed when each of its edges belongs to two facets; the facets
\* of volume cells are taken to be.
Manifold(mesh) ==
    LET faces == SlicerFaces(mesh)
        nodes(i) == FaceNodes(mesh, topo_for, faces[i])
        edge(i, k) == {nodes(i)[k], nodes(i)[(k % Len(nodes(i))) + 1]}
        uses == {<<i, k>> \in (DOMAIN faces) \X (1..4) : k \in DOMAIN nodes(i)}
    IN IF faces = <<>> THEN "unknown"
       ELSE IF HasVolume(mesh) THEN "closed"
       ELSE IF \A u \in uses :
                 Cardinality({w \in uses : edge(w[1], w[2]) = edge(u[1], u[2])}) = 2
            THEN "closed" ELSE "open"

BoundaryTriangles(mesh) ==
    LET faces == SlicerFaces(mesh) IN
    FlattenSeq([i \in DOMAIN faces |-> emit_face(Points(mesh, FaceNodes(mesh, topo_for, faces[i])))])

\* Six times the volume under the triangles.
enclosed_volume(tris) ==
    LET sum[i \in 0..Len(tris)] ==
            IF i = 0 THEN 0 ELSE sum[i - 1] + dot(tris[i][1], cross(tris[i][2], tris[i][3]))
    IN sum[Len(tris)]
=============================================================================
