------------------------------- MODULE Layers -------------------------------
(***************************************************************************)
(* The layers of a part as the additive-manufacturing plugins see them.    *)
(* The layered mesher tags its cells; the thermal, distortion and polymer  *)
(* solvers and the build-time estimate each resolve the layers of a mesh   *)
(* with code of their own.  Layers count from 0 at the build plate.  A     *)
(* cell's tag is its layer, or NoLayer; a request of 0 layers is none.     *)
(***************************************************************************)
EXTENDS VoxelMeshers, FiniteSetsExt

NoLayer == -1

kMaxLayers == 200000

\* A resolution the solver refuses.
Refused == [cell |-> <<>>, node |-> <<>>, top |-> <<>>, num |-> 0]

AtMost(n, limit) == IF n > limit THEN limit ELSE n

-----------------------------------------------------------------------------
\* Heights along the build direction, above the lowest node.

SumOf(s) == LET part[i \in 0..Len(s)] == IF i = 0 THEN 0 ELSE part[i - 1] + s[i] IN part[Len(s)]

Projection(mesh, b) == [i \in DOMAIN mesh.coords |-> dot(mesh.coords[i], b)]

Base(s) == Min({s[i] : i \in DOMAIN s})

\* The layer that holds the middle of a cell.
bin_layer(mesh, s, c, height) ==
    LET ids == mesh.cells[c].nodes
        sum == SumOf([j \in DOMAIN ids |-> s[ids[j]]])
    IN (sum - Len(ids) * Base(s)) \div (Len(ids) * height)

NodeBin(s, i, height) == (s[i] - Base(s)) \div height

\* A tag is the layer; a cell without one is binned.
CellLayer(mesh, s, c, height) ==
    IF mesh.cells[c].tag >= 0 THEN mesh.cells[c].tag ELSE bin_layer(mesh, s, c, height)

CellsAt(mesh, i) == {c \in 1..Len(mesh.cells) : i \in ToSet(mesh.cells[c].nodes)}

-----------------------------------------------------------------------------
\* am-thermal: never refuses.  A node is in the lowest layer that touches it; a
\* node no cell has is binned, and counts.
thermal_layers(mesh, b, height, requested) ==
    LET s == Projection(mesh, b)
        cell == [c \in 1..Len(mesh.cells) |->
                    AtMost(CellLayer(mesh, s, c, height), kMaxLayers - 1)]
        node == [i \in DOMAIN mesh.coords |->
                    IF CellsAt(mesh, i) = {} THEN AtMost(NodeBin(s, i, height), kMaxLayers - 1)
                    ELSE Min({cell[c] : c \in CellsAt(mesh, i)})]
        found == 1 + Max({0} \cup {cell[c] : c \in DOMAIN cell}
                         \cup {node[i] : i \in {j \in DOMAIN node : CellsAt(mesh, j) = {}}})
        num == IF requested > 0 THEN AtMost(found, requested) ELSE found
    IN [cell |-> [c \in DOMAIN cell |-> AtMost(cell[c], num - 1)],
        node |-> [i \in DOMAIN node |-> AtMost(node[i], num - 1)],
        num |-> num]

\* Mutant: the layers are counted, not clamped.
distortion_layers_Unclamped(mesh, b, height, requested) ==
    LET s == Projection(mesh, b)
        cell == [c \in 1..Len(mesh.cells) |-> CellLayer(mesh, s, c, height)]
        found == 1 + Max({0} \cup {cell[c] : c \in DOMAIN cell})
        num == IF requested > 0 THEN AtMost(found, requested) ELSE found
        tops(l) == {0} \cup {s[i] - Base(s) :
            i \in UNION {ToSet(mesh.cells[c].nodes) : c \in {k \in DOMAIN cell : cell[k] <= l}}}
    IN IF \E c \in DOMAIN cell : cell[c] > kMaxLayers - 1 THEN Refused
       ELSE [cell |-> cell, top |-> [l \in 1..num |-> Max(tops(l - 1))], num |-> num]

\* am-distortion: refuses layers beyond the cap; the top of each layer is the
\* highest node of its cells or of those below.
distortion_layers(mesh, b, height, requested) ==
    LET s == Projection(mesh, b)
        cell == [c \in 1..Len(mesh.cells) |-> CellLayer(mesh, s, c, height)]
        found == 1 + Max({0} \cup {cell[c] : c \in DOMAIN cell})
        num == IF requested > 0 THEN AtMost(found, requested) ELSE found
        kept == [c \in DOMAIN cell |-> AtMost(cell[c], num - 1)]
        tops(l) == {0} \cup {s[i] - Base(s) :
            i \in UNION {ToSet(mesh.cells[c].nodes) : c \in {k \in DOMAIN kept : kept[k] <= l}}}
    IN IF \E c \in DOMAIN cell : cell[c] > kMaxLayers - 1 THEN Refused
       ELSE [cell |-> kept, top |-> [l \in 1..num |-> Max(tops(l - 1))], num |-> num]

\* The steps of the inherent-strain model: the layers deposited on the base
\* plate's, the height of the build front above it, and whether it is held.
deposition_steps(geo, height, baseplate, clamped) ==
    LET plate == AtMost(baseplate, geo.num)
        datum == IF plate > 0 THEN geo.top[plate] ELSE 0
    IN [deposited |-> [j \in 1..geo.num |-> IF j > plate THEN j - plate ELSE 0],
        s_top |-> [j \in 1..geo.num |-> Max({geo.top[j] - datum, height})],
        datum |-> datum, anchored |-> clamped /\ plate > 0]

\* am-polymer: refuses like distortion, but takes the requested number of layers
\* also when the mesh has fewer; a node is in the highest layer that touches it.
polymer_layers(mesh, b, height, requested) ==
    LET s == Projection(mesh, b)
        cell == [c \in 1..Len(mesh.cells) |-> CellLayer(mesh, s, c, height)]
        found == 1 + Max({0} \cup {cell[c] : c \in DOMAIN cell})
        num == IF requested > 0 THEN AtMost(requested, kMaxLayers) ELSE found
        kept == [c \in DOMAIN cell |-> AtMost(cell[c], num - 1)]
    IN IF \E c \in DOMAIN cell : cell[c] > kMaxLayers - 1 THEN Refused
       ELSE [cell |-> kept,
             node |-> [i \in DOMAIN mesh.coords |->
                IF CellsAt(mesh, i) = {} THEN AtMost(NodeBin(s, i, height), num - 1)
                ELSE Max({kept[c] : c \in CellsAt(mesh, i)})],
             num |-> num]

\* am-manufacturability: a cap of its own; no request for a number of layers.
kMaxBuildLayers == 1000000

buildtime_layers(mesh, b, height) ==
    LET s == Projection(mesh, b)
        cell == [c \in 1..Len(mesh.cells) |-> CellLayer(mesh, s, c, height)]
    IN IF \E c \in DOMAIN cell : cell[c] >= kMaxBuildLayers THEN Refused
       ELSE [cell |-> cell, num |-> 1 + Max({0} \cup {cell[c] : c \in DOMAIN cell})]
=============================================================================
