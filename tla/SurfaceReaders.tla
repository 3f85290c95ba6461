--------------------------- MODULE SurfaceReaders ---------------------------
(***************************************************************************)
(* What the surface readers make of a text file: stl-reader's line         *)
(* automaton, obj-reader's, and the second copy of the OBJ parser in       *)
(* blender-reader.  A line is a record: its keyword, a point, vertex       *)
(* references (a malformed one is 0) and a material name.  A reader yields *)
(* [ok, coords, tris, tags].                                               *)
(***************************************************************************)
EXTENDS Facets

Rejected == [ok |-> FALSE, coords |-> <<>>, tris |-> <<>>, tags |-> <<>>]

-----------------------------------------------------------------------------
\* stl-reader

\* A point seen before is the node it was given then.
NodeOf(coords, p) == SelectInSeq(coords, LAMBDA q : q = p)

\* Mutant: every vertex line makes a node.
AddVertex_Always(st, p) ==
    [st EXCEPT !.coords = Append(@, p), !.tri = Append(@, Len(st.coords) + 1)]

AddVertex(st, p) ==
    LET known == NodeOf(st.coords, p) IN
    IF known # 0 THEN [st EXCEPT !.tri = Append(@, known)]
    ELSE [st EXCEPT !.coords = Append(@, p), !.tri = Append(@, Len(st.coords) + 1)]

\* One line; "error" is final.  A loop is not closed by the end of its facet.
StlLine(st, line) ==
    CASE st.error -> st
      [] line.head = "solid" -> [st EXCEPT !.saw_solid = TRUE]
      [] line.head = "facet" ->
            IF st.in_facet THEN [st EXCEPT !.error = TRUE]
            ELSE [st EXCEPT !.in_facet = TRUE, !.tri = <<>>]
      [] line.head = "endfacet" ->
            IF ~st.in_facet \/ Len(st.tri) # 3 THEN [st EXCEPT !.error = TRUE]
            ELSE [st EXCEPT !.in_facet = FALSE, !.tris = Append(@, st.tri)]
      [] line.head = "outer" -> [st EXCEPT !.in_loop = TRUE]
      [] line.head = "endloop" -> [st EXCEPT !.in_loop = FALSE]
      [] line.head = "vertex" ->
            IF ~st.in_facet \/ ~st.in_loop THEN [st EXCEPT !.error = TRUE] ELSE AddVertex(st, line.p)
      [] OTHER -> st

parse_ascii_stl(lines) ==
    LET st[i \in 0..Len(lines)] ==
            IF i = 0 THEN [error |-> FALSE, saw_solid |-> FALSE, in_facet |-> FALSE, in_loop |-> FALSE,
                           tri |-> <<>>, coords |-> <<>>, tris |-> <<>>]
            ELSE StlLine(st[i - 1], lines[i])
        end == st[Len(lines)]
    IN IF end.error \/ ~end.saw_solid \/ end.in_facet \/ end.tris = <<>> THEN Rejected
       ELSE [ok |-> TRUE, coords |-> end.coords, tris |-> end.tris,
             tags |-> [i \in DOMAIN end.tris |-> -1]]

-----------------------------------------------------------------------------
\* obj-reader

\* Mutant: a reference back counts from before the last vertex.
resolve_index_OffByOne(idx, verts) ==
    IF idx > 0 /\ idx <= verts THEN idx
    ELSE IF idx < 0 /\ verts + idx >= 0 THEN verts + idx ELSE 0

\* References count from 1, or back from the last vertex read so far.
resolve_index(idx, verts) ==
    IF idx > 0 /\ idx <= verts THEN idx
    ELSE IF idx < 0 /\ verts + idx >= 0 THEN verts + idx + 1 ELSE 0

Fan(ids) == [i \in 1..(Len(ids) - 2) |-> <<ids[1], ids[i + 1], ids[i + 2]>>]

\* Materials get tags in the order of their first use.
ObjLine(st, line) ==
    LET ids == [i \in DOMAIN line.refs |-> resolve_index(line.refs[i], Len(st.coords))]
        bad == Len(ids) < 3 \/ \E i \in DOMAIN ids : ids[i] = 0
        seen == SelectInSeq(st.materials, LAMBDA n : n = line.name)
    IN CASE st.error -> st
         [] line.head = "v" -> [st EXCEPT !.coords = Append(@, line.p)]
         [] line.head = "f" ->
               IF bad THEN [st EXCEPT !.error = TRUE]
               ELSE [st EXCEPT !.tris = @ \o Fan(ids), !.tags = @ \o [i \in DOMAIN Fan(ids) |-> st.tag]]
         [] line.head = "usemtl" ->
               IF line.name = "none" THEN [st EXCEPT !.tag = -1]
               ELSE IF seen # 0 THEN [st EXCEPT !.tag = seen]
               ELSE [st EXCEPT !.materials = Append(@, line.name), !.tag = Len(st.materials) + 1]
         [] OTHER -> st

parse_obj(lines) ==
    LET st[i \in 0..Len(lines)] ==
            IF i = 0 THEN [error |-> FALSE, coords |-> <<>>, tris |-> <<>>, tags |-> <<>>, tag |-> -1,
                           materials |-> <<>>]
            ELSE ObjLine(st[i - 1], lines[i])
        end == st[Len(lines)]
    IN IF end.error \/ end.coords = <<>> \/ end.tris = <<>> THEN Rejected
       ELSE [ok |-> TRUE, coords |-> end.coords, tris |-> end.tris, tags |-> end.tags]

-----------------------------------------------------------------------------
\* blender-reader: the same references; materials are ignored.

blender_resolve_index(idx, verts) ==
    IF idx > 0 /\ idx <= verts THEN idx
    ELSE IF idx < 0 /\ verts + idx >= 0 THEN verts + idx + 1 ELSE 0

BlenderLine(st, line) ==
    LET ids == [i \in DOMAIN line.refs |-> blender_resolve_index(line.refs[i], Len(st.coords))] IN
    CASE st.error -> st
      [] line.head = "v" -> [st EXCEPT !.coords = Append(@, line.p)]
      [] line.head = "f" ->
            IF Len(ids) < 3 \/ \E i \in DOMAIN ids : ids[i] = 0 THEN [st EXCEPT !.error = TRUE]
            ELSE [st EXCEPT !.tris = @ \o Fan(ids)]
      [] OTHER -> st

blender_parse_obj(lines) ==
    LET st[i \in 0..Len(lines)] ==
            IF i = 0 THEN [error |-> FALSE, coords |-> <<>>, tris |-> <<>>]
            ELSE BlenderLine(st[i - 1], lines[i])
        end == st[Len(lines)]
    IN IF end.error \/ end.coords = <<>> \/ end.tris = <<>> THEN Rejected
       ELSE [ok |-> TRUE, coords |-> end.coords, tris |-> end.tris,
             tags |-> [i \in DOMAIN end.tris |-> -1]]

\* The mesh of triangles the readers hand on.
SurfaceMesh(r) ==
    [coords |-> r.coords,
     cells |-> [i \in DOMAIN r.tris |-> [type |-> "Tri3", nodes |-> r.tris[i], tag |-> r.tags[i],
                                         tags |-> <<-1>>]]]
=============================================================================
