--------------------------- MODULE CfdBoundaries ----------------------------
(***************************************************************************)
(* What the CFD plugins make of a mesh and the tags of its faces.  Of      *)
(* openfoam-solver the polyMesh: the faces with their owners and           *)
(* neighbours, the patches of the boundary, and the initial condition of   *)
(* each patch.  Of cfd-stub the role each node takes.                      *)
(***************************************************************************)
EXTENDS Facets

-----------------------------------------------------------------------------
\* openfoam-solver.  A boundary condition is [tag_id, tag, type, condition, pressure];
\* NoTag stands for a missing tag and for an untagged face.

NoTag == -1

\* A number in tag_id wins over digits in the tag's name.
parse_boundary_conditions(entries) ==
    [i \in DOMAIN entries |->
        [tag |-> IF entries[i].tag_id # NoTag THEN entries[i].tag_id ELSE entries[i].tag,
         type |-> entries[i].type, condition |-> entries[i].condition,
         pressure |-> entries[i].pressure]]

\* The first cell that claims a face owns it; a later cell is its neighbour,
\* unless it has the lower index: then the two change places.
Claimed(entry, cf) ==
    IF entry.owner > cf[1]
    THEN [entry EXCEPT !.neighbour = entry.owner, !.owner = cf[1], !.local = cf[2]]
    ELSE [entry EXCEPT !.neighbour = cf[1]]

FaceMap(mesh) ==
    LET claims == Claims(mesh, face_table_for)
        key(i) == FaceKey(mesh, face_table_for, claims[i])
        keys == {key(i) : i \in DOMAIN claims}
        of(k) == SelectSeq(claims, LAMBDA cf : FaceKey(mesh, face_table_for, cf) = k)
    IN [k \in keys |->
            FoldLeft(Claimed, [owner |-> of(k)[1][1], local |-> of(k)[1][2], neighbour |-> 0],
                     Tail(of(k)))]

\* The keys of the faces in the order of their owners' claims.
OwnersOrder(mesh, map) ==
    LET owned == SelectSeq(Claims(mesh, face_table_for), LAMBDA cf :
            LET e == map[FaceKey(mesh, face_table_for, cf)]
            IN e.owner = cf[1] /\ e.local = cf[2])
    IN [i \in DOMAIN owned |-> FaceKey(mesh, face_table_for, owned[i])]

\* Internal faces in (owner, neighbour) order, boundary faces in owner order.
\* The boundary faces of one owner come in the order of a hash table; the model
\* takes them in local order and no property looks at it.
internal_faces(mesh, map) ==
    SortSeq(SelectSeq(OwnersOrder(mesh, map), LAMBDA k : map[k].neighbour # 0),
        LAMBDA a, b : \/ map[a].owner < map[b].owner
                      \/ map[a].owner = map[b].owner /\ map[a].neighbour < map[b].neighbour)

boundary_faces(mesh, map) ==
    SelectSeq(OwnersOrder(mesh, map), LAMBDA k : map[k].neighbour = 0)

FaceTag(mesh, map, k) == mesh.cells[map[k].owner].tags[map[k].local]

Patch(bc, tag, faces) == [bc |-> bc, tag |-> tag, faces |-> faces]

\* The conditions of the list named first, a patch each; then the other tags of the
\* boundary in order; then its untagged faces.
SplitByTag(boundary, tag, bcs, named) ==
    LET of(t) == SelectSeq(boundary, LAMBDA k : tag[k] = t)
        others == SetToSortSeq(Range(tag) \ ({bcs[i].tag : i \in ToSet(named)} \cup {NoTag}), <)
        loose == IF NoTag \in Range(tag) THEN <<NoTag>> ELSE <<>>
    IN [i \in DOMAIN named |-> Patch(named[i], bcs[named[i]].tag, of(bcs[named[i]].tag))]
        \o [i \in DOMAIN (others \o loose) |-> Patch(0, (others \o loose)[i], of((others \o loose)[i]))]

\* Mutant: a second condition on a tag gets a patch of its own.
patches_Repeated(mesh, map, bcs) ==
    LET boundary == boundary_faces(mesh, map)
        tag == [k \in ToSet(boundary) |-> FaceTag(mesh, map, k)]
        carried(i) == bcs[i].tag \in Range(tag) \ {NoTag}
    IN SplitByTag(boundary, tag, bcs, SelectSeq([i \in DOMAIN bcs |-> i], carried))

\* One patch per boundary condition whose tag some face carries, the first
\* condition of a tag.
patches(mesh, map, bcs) ==
    LET boundary == boundary_faces(mesh, map)
        tag == [k \in ToSet(boundary) |-> FaceTag(mesh, map, k)]
        carried(i) == /\ bcs[i].tag \in Range(tag) \ {NoTag}
                      /\ \A j \in 1..(i - 1) : bcs[j].tag # bcs[i].tag
    IN SplitByTag(boundary, tag, bcs, SelectSeq([i \in DOMAIN bcs |-> i], carried))

\* The velocity at a patch: given at an inlet, free at an outlet, none at a wall.
write_initial_U(p, bcs) ==
    LET type == IF p.bc = 0 THEN "wall" ELSE bcs[p.bc].type IN
    CASE type = "inlet" -> "inflow"
      [] type = "outlet" -> "zeroGradient"
      [] type = "wall" /\ p.bc # 0 /\ bcs[p.bc].condition = "slip" -> "slip"
      [] OTHER -> "noSlip"

\* The pressure is given at a pressure outlet, and at an inlet that has one.
write_initial_p(p, bcs) ==
    LET type == IF p.bc = 0 THEN "wall" ELSE bcs[p.bc].type IN
    IF \/ type = "outlet" /\ bcs[p.bc].condition = "pressure_outlet"
       \/ type = "inlet" /\ bcs[p.bc].pressure
    THEN "fixedValue" ELSE "zeroGradient"

\* The start of each patch in the face list: a running sum from the internal
\* faces on.
StartFaces(internal, ps) ==
    [i \in DOMAIN ps |->
        Len(internal) + Len(FlattenSeq([j \in 1..(i - 1) |-> ps[j].faces]))]

\* The files of constant/polyMesh, as one record.
Files(map, bcs, internal, ps) ==
    LET all == internal \o FlattenSeq([i \in DOMAIN ps |-> ps[i].faces])
    IN [faces |-> all,
        owner |-> [i \in DOMAIN all |-> map[all[i]].owner],
        neighbour |-> [i \in DOMAIN internal |-> map[internal[i]].neighbour],
        boundary |-> [i \in DOMAIN ps |->
            [tag |-> ps[i].tag, nFaces |-> Len(ps[i].faces),
             startFace |-> StartFaces(internal, ps)[i],
             U |-> write_initial_U(ps[i], bcs), p |-> write_initial_p(ps[i], bcs)]]]

PolyMeshOf(mesh, entries) ==
    LET map == FaceMap(mesh)
        bcs == parse_boundary_conditions(entries)
    IN Files(map, bcs, internal_faces(mesh, map), patches(mesh, map, bcs))

-----------------------------------------------------------------------------
\* cfd-stub: the faces of the cells are walked in order, and each face whose tag names
\* a patch offers its nodes the patch's role.  A velocity is a name.

Rank == [bulk |-> 0, outlet |-> 1, inlet |-> 2, wall |-> 3]

\* Mutant: the last face of a node decides.
routing_supersedes_Last(incoming, current) == Rank[incoming] >= 0 /\ Rank[current] >= 0

routing_supersedes(incoming, current) == Rank[incoming] > Rank[current]

routing_from_type_string(type) ==
    CASE type \in {"wall", "no-slip"} -> "wall"
      [] type \in {"inlet", "velocity-inlet"} -> "inlet"
      [] type \in {"outlet", "pressure-outlet"} -> "outlet"
      [] OTHER -> "bulk"

AtRest == "zero"

Bulk == [routing |-> "bulk", velocity |-> "free stream"]

\* A patch [tag, type, velocity], "none" for what an entry lacks.  Entries without
\* a tag, and those of no known type, are passed over; the last entry of a tag
\* is its condition.
read_patch_bcs(entries) ==
    LET routing(i) == routing_from_type_string(entries[i].type)
        usable == {i \in DOMAIN entries : entries[i].tag # -1 /\ routing(i) # "bulk"}
        last(t) == CHOOSE i \in usable :
            entries[i].tag = t /\ \A j \in usable : entries[j].tag = t => j <= i
    IN [t \in {entries[i].tag : i \in usable} |->
            [routing |-> routing(last(t)), velocity |-> entries[last(t)].velocity]]

\* What a face offers its nodes: a wall rest, another patch its own velocity or
\* else the free stream.
Offer(bc) ==
    [bc EXCEPT !.velocity = IF bc.routing = "wall" THEN AtRest
                            ELSE IF @ = "none" THEN Bulk.velocity ELSE @]

\* The walk, told for each node by itself.  Cells of other types have no faces
\* here and are skipped.
route_nodes(mesh, bcs) ==
    LET claims == SelectSeq(Claims(mesh, faces_for),
                            LAMBDA cf : mesh.cells[cf[1]].tags[cf[2]] \in DOMAIN bcs)
        offer(cf) == Offer(bcs[mesh.cells[cf[1]].tags[cf[2]]])
        met(n) == SelectSeq(claims, LAMBDA cf : n \in FaceKey(mesh, faces_for, cf))
        routed(n) == FoldLeft(LAMBDA node, cf :
                IF routing_supersedes(offer(cf).routing, node.routing) THEN offer(cf) ELSE node,
            Bulk, met(n))
    IN [n \in 1..Len(mesh.coords) |-> routed(n)]
=============================================================================
