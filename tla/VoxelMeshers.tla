---------------------------- MODULE VoxelMeshers ----------------------------
(***************************************************************************)
(* The meshes of two reference meshers: mesher.am.layered fills a box with *)
(* tagged hexahedra, mesher.tetra.grid cuts each box of a regular grid into*)
(* Kuhn's six tetrahedra.  A cell's tag is its layer, or -1.               *)
(***************************************************************************)
EXTENDS Facets

\* mesher.am.layered: a box of voxels, layer by layer from the plate up.

OuterTags == <<14, 15, 12, 13, 10, 11>>

\* Mutant: the last voxel of a row is not on the boundary.
OnOuter_OpenEnd(n, i, j, k) == <<k = 0, k + 1 = n[3], j = 0, j + 1 = n[2], i = 0, FALSE>>

\* Which faces of a voxel are on the boundary of the box.
OnOuter(n, i, j, k) == <<k = 0, k + 1 = n[3], j = 0, j + 1 = n[2], i = 0, i + 1 = n[1]>>

\* n gives the numbers of voxels, d their edges, both <<x, y, z>>.
am_layered_grid(n, d) ==
    LET node(i, j, k) == ((k * (n[2] + 1)) + j) * (n[1] + 1) + i + 1
        nodes == (n[1] + 1) * (n[2] + 1) * (n[3] + 1)
        at(id) == <<d[1] * ((id - 1) % (n[1] + 1)),
                    d[2] * (((id - 1) \div (n[1] + 1)) % (n[2] + 1)),
                    d[3] * ((id - 1) \div ((n[1] + 1) * (n[2] + 1)))>>
        cell(i, j, k) ==
            [type |-> "Hex8", tag |-> k,
             nodes |-> <<node(i, j, k), node(i + 1, j, k), node(i + 1, j + 1, k), node(i, j + 1, k),
                         node(i, j, k + 1), node(i + 1, j, k + 1), node(i + 1, j + 1, k + 1),
                         node(i, j + 1, k + 1)>>,
             tags |-> [f \in 1..6 |-> IF OnOuter(n, i, j, k)[f] THEN OuterTags[f] ELSE -1]]
    IN [coords |-> [id \in 1..nodes |-> at(id)],
        cells |-> [c \in 1..(n[1] * n[2] * n[3]) |->
            cell((c - 1) % n[1], ((c - 1) \div n[1]) % n[2], (c - 1) \div (n[1] * n[2]))]]

\* A box of size `size` in voxels of at most h.
am_layered_mesh_of(size, h) ==
    LET count(k) == (size[k] + h - 1) \div h
        n == <<count(1), count(2), count(3)>>
    IN am_layered_grid(n, <<size[1] \div n[1], size[2] \div n[2], size[3] \div n[3]>>)

-----------------------------------------------------------------------------
\* mesher.tetra.grid

\* Mutant: the table the mesher had before.
kHexToTets_Five == <<<<1,2,3,6>>, <<1,3,4,8>>, <<1,6,7,8>>, <<3,6,7,8>>, <<1,3,6,8>>>>

kHexToTets == <<<<1,2,4,8>>, <<1,2,8,6>>, <<1,3,8,4>>, <<1,3,7,8>>, <<1,5,6,8>>, <<1,5,8,7>>>>

\* m boxes of edges d along each axis.
grid_mesh_of(m, d) ==
    LET n == m + 1
        at(id) == <<d[1] * ((id - 1) % n), d[2] * (((id - 1) \div n) % n), d[3] * ((id - 1) \div (n * n))>>
        offsets == <<0, 1, n, n + 1, n * n, n * n + 1, n * n + n, n * n + n + 1>>
        base(v) == (((v \div (m * m)) * n) + ((v \div m) % m)) * n + (v % m) + 1
        tet(v, t) ==
            [type |-> "Tet4", tag |-> -1, tags |-> <<-1, -1, -1, -1>>,
             nodes |-> [i \in 1..4 |-> base(v) + offsets[kHexToTets[t][i]]]]
        per == Len(kHexToTets)
    IN [coords |-> [id \in 1..(n * n * n) |-> at(id)],
        cells |-> [c \in 1..(m * m * m * per) |-> tet((c - 1) \div per, ((c - 1) % per) + 1)]]
=============================================================================
