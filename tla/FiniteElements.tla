--------------------------- MODULE FiniteElements ---------------------------
(***************************************************************************)
(* The linear system solver.elasticity.fem builds on a mesh of tetrahedra: *)
(* stiffness, tractions and prescribed displacements.  Numbers are         *)
(* integers: a cell's stiffness is scaled by 6 det J and the material by   *)
(* (1 - 2 nu) / mu, so the cells of one mesh must have one volume; the     *)
(* hexahedra, whose quadrature points are irrational, take part in the     *)
(* tractions only.  A degree of freedom is <<node, axis>>.                 *)
(***************************************************************************)
EXTENDS VoxelMeshers, FiniteSetsExt

Axes == 1..3

\* Voigt order xx, yy, zz, xy, yz, zx with engineering shear; nu = p / q.
make_material(p, q) ==
    LET lambda == 2 * p
        mu == q - 2 * p
    IN [r \in 1..6 |-> [c \in 1..6 |->
            CASE r <= 3 /\ c <= 3 -> lambda + (IF r = c THEN 2 * mu ELSE 0)
              [] r > 3 /\ c = r -> mu
              [] OTHER -> 0]]

\* The adjugate: the inverse times the determinant.
invert3(J) ==
    LET minor(r, c) ==
            LET r1 == (r % 3) + 1
                r2 == (r1 % 3) + 1
                c1 == (c % 3) + 1
                c2 == (c1 % 3) + 1
            IN J[r1][c1] * J[r2][c2] - J[r1][c2] * J[r2][c1]
    IN [det |-> J[1][1] * minor(1, 1) + J[1][2] * minor(1, 2) + J[1][3] * minor(1, 3),
        adj |-> [r \in Axes |-> [c \in Axes |-> minor(c, r)]]]

shape_derivatives == <<<<-1, -1, -1>>, <<1, 0, 0>>, <<0, 1, 0>>, <<0, 0, 1>>>>

\* J[r][c] = dx_c / dxi_r.
Jacobian(xe) ==
    [r \in Axes |-> [c \in Axes |->
        shape_derivatives[1][r] * xe[1][c] + shape_derivatives[2][r] * xe[2][c]
            + shape_derivatives[3][r] * xe[3][c] + shape_derivatives[4][r] * xe[4][c]]]

\* Mutant: two shear rows are exchanged in the second column.
StrainColumns_Swapped(g) ==
    <<<<g[1], 0, 0, g[2], 0, g[3]>>, <<0, g[2], 0, g[3], g[1], 0>>, <<0, 0, g[3], 0, g[2], g[1]>>>>

\* The columns of B for one node, from its spatial derivatives.
StrainColumns(g) ==
    <<<<g[1], 0, 0, g[2], 0, g[3]>>, <<0, g[2], 0, g[1], g[3], 0>>, <<0, 0, g[3], 0, g[2], g[1]>>>>

Dot6(a, b) == a[1] * b[1] + a[2] * b[2] + a[3] * b[3] + a[4] * b[4] + a[5] * b[5] + a[6] * b[6]

\* ke[i][a][j][c], the sum over the one quadrature point.
accumulate_gauss_point(D, dNdx) ==
    LET B == [i \in 1..4 |-> StrainColumns(dNdx[i])]
        DB == [j \in 1..4 |-> [c \in Axes |-> [r \in 1..6 |-> Dot6(D[r], B[j][c])]]]
    IN [i \in 1..4 |-> [a \in Axes |-> [j \in 1..4 |-> [c \in Axes |-> Dot6(B[i][a], DB[j][c])]]]]

\* A cell that is not positively oriented is refused.
element_stiffness(D, xe) ==
    LET inv == invert3(Jacobian(xe))
        dNdx == [i \in 1..4 |-> [c \in Axes |->
            inv.adj[c][1] * shape_derivatives[i][1] + inv.adj[c][2] * shape_derivatives[i][2]
                + inv.adj[c][3] * shape_derivatives[i][3]]]
    IN IF inv.det <= 0 THEN [ok |-> FALSE, ke |-> <<>>]
       ELSE [ok |-> TRUE, ke |-> accumulate_gauss_point(D, dNdx)]

Elements(mesh, D) ==
    [c \in 1..Len(mesh.cells) |-> element_stiffness(D, Points(mesh, mesh.cells[c].nodes))]

Dofs(mesh) == (1..Len(mesh.coords)) \X Axes

\* The nodes that share a cell with a node.
Adjacent(mesh, i) ==
    UNION {ToSet(mesh.cells[c].nodes) : c \in {k \in 1..Len(mesh.cells) : i \in ToSet(mesh.cells[k].nodes)}}

\* A[row][col], the row's columns being those of the sparsity pattern.
Assembled(mesh, elements) ==
    LET place(c, i) == CHOOSE k \in 1..4 : mesh.cells[c].nodes[k] = i
        cells(i, j) == {c \in 1..Len(mesh.cells) : {i, j} \subseteq ToSet(mesh.cells[c].nodes)}
        entry(r, k) == MapThenSumSet(
            LAMBDA c : elements[c].ke[place(c, r[1])][r[2]][place(c, k[1])][k[2]], cells(r[1], k[1]))
    IN [r \in Dofs(mesh) |-> [k \in Adjacent(mesh, r[1]) \X Axes |-> entry(r, k)]]

-----------------------------------------------------------------------------
\* Selectors: [kind |-> "plane", axis, at] with `at` a number, "min" or "max", or
\* [kind |-> "tag", tag].

parse_selector_geometry(mesh, sel) ==
    LET xs == {mesh.coords[i][sel.axis] : i \in DOMAIN mesh.coords} IN
    IF sel.kind = "tag" THEN sel
    ELSE [sel EXCEPT !.at = IF sel.side = "max" THEN Max(xs) ELSE IF sel.side = "min" THEN Min(xs) ELSE @]

node_on_plane(mesh, sel, i) == mesh.coords[i][sel.axis] = sel.at

face_table(type) == IF type \in {"Tet4", "Hex8"} THEN Table(type) ELSE <<>>

\* Mutant: one node in the plane is enough.
SelectedFaces_AnyNode(mesh, sel) ==
    SelectSeq(Claims(mesh, face_table), LAMBDA cf :
        IF sel.kind = "tag" THEN mesh.cells[cf[1]].tags[cf[2]] = sel.tag
        ELSE \E i \in FaceKey(mesh, face_table, cf) : node_on_plane(mesh, sel, i))

\* The faces a traction acts on: those that carry the tag, or whose nodes all
\* lie in the plane.
SelectedFaces(mesh, sel) ==
    SelectSeq(Claims(mesh, face_table), LAMBDA cf :
        IF sel.kind = "tag" THEN mesh.cells[cf[1]].tags[cf[2]] = sel.tag
        ELSE \A i \in FaceKey(mesh, face_table, cf) : node_on_plane(mesh, sel, i))

\* 24 times the shape integral of each node of a flat face along the axes: a
\* third of a triangle's area, a quarter of a parallelogram's.
FaceWeight(pts) ==
    LET n == cross(Minus(pts[2], pts[1]), Minus(pts[Len(pts)], pts[1]))
        size == Max({n[1], -n[1]}) + Max({n[2], -n[2]}) + Max({n[3], -n[3]})
    IN IF Len(pts) = 3 THEN 4 * size ELSE 6 * size

\* The weights of the nodes; a node's load is its weight times the traction.
TractionWeights(mesh, sel) ==
    LET faces == SelectedFaces(mesh, sel)
        at(i) == {k \in DOMAIN faces : i \in FaceKey(mesh, face_table, faces[k])}
    IN [i \in DOMAIN mesh.coords |-> MapThenSumSet(
            LAMBDA k : FaceWeight(Points(mesh, FaceNodes(mesh, face_table, faces[k]))), at(i))]

\* A fix is a selector with the components it holds and their values; a later
\* one wins.  The result gives the prescribed value of each fixed dof.
FixedBy(mesh, fix) ==
    LET nodes == IF fix.sel.kind = "tag"
                 THEN LET faces == SelectedFaces(mesh, fix.sel)
                      IN UNION {FaceKey(mesh, face_table, faces[k]) : k \in DOMAIN faces}
                 ELSE {i \in DOMAIN mesh.coords : node_on_plane(mesh, fix.sel, i)}
    IN nodes \X fix.components

Prescribed(mesh, fixes) ==
    LET by(d) == {s \in DOMAIN fixes : d \in FixedBy(mesh, fixes[s])}
    IN [d \in UNION {FixedBy(mesh, fixes[s]) : s \in DOMAIN fixes} |-> fixes[Max(by(d))].value[d[2]]]

\* Mutant: the row is cleared, the column is not.
Eliminate_RowsOnly(A, rhs, fixed) ==
    [A |-> [r \in DOMAIN A |-> [k \in DOMAIN A[r] |->
        IF r \in DOMAIN fixed THEN (IF k = r THEN 1 ELSE 0) ELSE A[r][k]]],
     rhs |-> [r \in DOMAIN A |-> IF r \in DOMAIN fixed THEN fixed[r] ELSE rhs[r]]]

\* Each fixed column's part goes to the right-hand side, then its row and
\* column are cleared and the diagonal set to one.
Eliminate(A, rhs, fixed) ==
    [A |-> [r \in DOMAIN A |-> [k \in DOMAIN A[r] |->
        IF r \in DOMAIN fixed THEN (IF k = r THEN 1 ELSE 0)
        ELSE IF k \in DOMAIN fixed THEN 0 ELSE A[r][k]]],
     rhs |-> [r \in DOMAIN A |->
        IF r \in DOMAIN fixed THEN fixed[r]
        ELSE rhs[r] - MapThenSumSet(LAMBDA k : A[r][k] * fixed[k], (DOMAIN A[r]) \cap DOMAIN fixed)]]

Product(A, u) == [r \in DOMAIN A |-> MapThenSumSet(LAMBDA k : A[r][k] * u[k], DOMAIN A[r])]
=============================================================================
