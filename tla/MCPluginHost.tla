---------------------------- MODULE MCPluginHost ----------------------------
(***************************************************************************)
(* Three plugin directories, d1 in an earlier root, d2 and d3 in a later   *)
(* one.  From one of their contents each of the example plugins is called, *)
(* any number of times while the pipeline runs, on sample inputs: a few    *)
(* small meshes that between them hold the cases the algorithms differ on. *)
(***************************************************************************)
EXTENDS HostedPlugins

CONSTANTS d1, d2, d3

MCDirs == {d1, d2, d3}
MCRoot == (d1 :> 1) @@ (d2 :> 2) @@ (d3 :> 2)
MCExts == <<".so", ".dylib", ".dll">>

Doc == [toml |-> TRUE, id |-> "ok", name |-> "ok", version |-> "ok", license |-> "ok",
        abi |-> [given |-> "int", v |-> 1], binary |-> "ok", provides |-> "ok",
        items |-> <<"ok">>, threading |-> "absent", minor |-> "absent", tags |-> "absent"]

Kind == [m |-> "mesher", s |-> "solver", w |-> "writer", r |-> "reader", p |-> "postproc"]

AddCall(c, v) == [cap |-> c, kind |-> Kind[c], vtable |-> v]

Plugin(id, caps, adds, onRefusal) ==
    [manifest |-> TRUE, readable |-> TRUE,
     doc |-> [Doc EXCEPT !.threading = IF id = "p" THEN "absent" ELSE "reentrant"],
     id |-> id, caps |-> caps, declared |-> <<1, <<".so">>>>, files |-> {<<1, <<".dylib">>>>},
     binary |-> "loads",
     script |-> [adds |-> adds, onRefusal |-> onRefusal, result |-> "ok",
                 mentionsDlopen |-> FALSE]]

M == AddCall("m", TRUE)
S == AddCall("s", TRUE)

\* What a plugin announces and the add calls it makes.
Shapes == << << <<"m">>, <<M>> >>, << <<"s">>, <<S>> >>, << <<"m", "s">>, <<M, S>> >>,
             << <<"m", "s">>, <<S>> >>, << <<"s">>, <<S, AddCall("m", FALSE)>> >>,
             << <<"w">>, <<AddCall("w", TRUE)>> >> >>

P == Plugin("p", <<"m">>, <<M>>, "return")

Defects ==
   <<[P EXCEPT !.manifest = FALSE],
     [P EXCEPT !.readable = FALSE],
     [P EXCEPT !.declared = <<1, <<".txt">>>>, !.files = {<<1, <<".so">>>>}],
     [P EXCEPT !.declared = <<1, <<".txt">>>>, !.files = {<<1, <<".txt">>>>}],
     [P EXCEPT !.binary = "cannot_open", !.files = {<<0, <<".dll">>>>}],
     [P EXCEPT !.binary = "no_symbol"],
     [P EXCEPT !.doc.abi.v = 2],
     [P EXCEPT !.doc.abi.v = 17],   \* 1, once it is stored
     [P EXCEPT !.script.result = "raise", !.script.mentionsDlopen = TRUE],
     [P EXCEPT !.script = [@ EXCEPT !.result = "return",
                                    !.adds = <<M, AddCall("w", TRUE), AddCall("r", TRUE),
                                               AddCall("p", TRUE)>>]]>>

\* In-tree plugins return non-zero when an add is refused; others may not.
Names == ({"p", "q"} \X (1..5) \X {"return", "raise", "ignore"})
         \cup {<<"r", 6, "return">>} \cup ({"defect"} \X (DOMAIN Defects) \X {"return"})

MCPlugins ==
    [n \in Names |-> IF n[1] = "defect" THEN Defects[n[2]]
                     ELSE Plugin(n[1], Shapes[n[2]][1], Shapes[n[2]][2], n[3])]

MCHolds == [d \in MCDirs |-> IF d = d3 THEN ({"q"} \X {1, 5} \X {"return", "ignore"})
                                                \cup {<<"r", 6, "return">>}
                              ELSE Names]

\* Calls are made from one of the contents; d1's and d2's plugins have one id.
MCCallers == {(d1 :> <<"p", 1, "return">>) @@ (d2 :> <<"p", 1, "return">>)
                @@ (d3 :> <<"q", 1, "return">>)}

-----------------------------------------------------------------------------
\* Sample inputs.

Cell(type, nodes) ==
    [type |-> type, nodes |-> nodes, tag |-> -1, tags |-> [f \in 1..Len(Table(type)) |-> -1]]

MCBoxes == {[size |-> <<4, 2, 4>>, h |-> 2], [size |-> <<6, 4, 3>>, h |-> 4], [size |-> <<2, 2, 6>>, h |-> 2]}

MCGrids == {[m |-> 1, d |-> <<2, 2, 2>>], [m |-> 2, d |-> <<2, 1, 3>>]}

Box == am_layered_mesh_of(<<4, 2, 4>>, 2)

\* Two cubes, the second with its bottom and top exchanged.
Inverted ==
    LET two == am_layered_grid(<<2, 1, 1>>, <<2, 2, 2>>)
        n == two.cells[2].nodes
    IN [two EXCEPT !.cells[2].nodes = SubSeq(n, 5, 8) \o SubSeq(n, 1, 4)]

\* A cube with a pyramid on top and a prism at its side.
Mixed ==
    [coords |-> <<<<0,0,0>>, <<2,0,0>>, <<2,2,0>>, <<0,2,0>>, <<0,0,2>>, <<2,0,2>>, <<2,2,2>>, <<0,2,2>>,
                  <<1,1,4>>, <<4,0,0>>, <<4,0,2>>>>,
     cells |-> <<Cell("Hex8", <<1,2,3,4,5,6,7,8>>), Cell("Pyramid5", <<5,6,7,8,9>>),
                 Cell("Prism6", <<2,10,3,6,11,7>>)>>]

MCSolids == {Box, Inverted, Mixed, grid_mesh_of(1, <<2, 2, 2>>)}

Untagged(mesh) == [mesh EXCEPT !.cells = [c \in DOMAIN mesh.cells |-> [mesh.cells[c] EXCEPT !.tag = -1]]]

MCLayerCases ==
    LET up == <<0, 0, 1>>
        tall == am_layered_mesh_of(<<2, 2, 6>>, 2)
        huge == [tall EXCEPT !.cells[3].tag = kMaxLayers]
    IN {[mesh |-> m, b |-> up, height |-> h, requested |-> r] :
            m \in {tall, Untagged(tall), Untagged(Mixed)}, h \in {2, 3}, r \in {0, 2, 5}}
        \cup {[mesh |-> huge, b |-> up, height |-> 2, requested |-> 0],
              [mesh |-> Untagged(Box), b |-> <<1, 0, 0>>, height |-> 2, requested |-> 0],
              [mesh |-> Untagged(Box), b |-> <<0, 0, -1>>, height |-> 1, requested |-> 3]}

\* The box from lo to hi as a shell, seen from outside or from inside.
Shell(lo, hi, base, outward) ==
    LET corner(k) ==
            <<IF k \in {1, 4, 5, 8} THEN lo[1] ELSE hi[1],
              IF k \in {1, 2, 5, 6} THEN lo[2] ELSE hi[2], IF k <= 4 THEN lo[3] ELSE hi[3]>>
        face(f) == [i \in 1..4 |-> base + Table("Hex8")[f][i]]
    IN [coords |-> [k \in 1..8 |-> corner(k)],
        cells |-> [f \in 1..6 |-> Cell("Quad4", IF outward THEN face(f) ELSE Reverse(face(f)))]]

Join(a, b) == [coords |-> a.coords \o b.coords, cells |-> a.cells \o b.cells]

\* A tube with a rod in it, and a step whose edges lie in planes.
Tube == Join(Join(Shell(<<0,0,0>>, <<12,12,4>>, 0, TRUE), Shell(<<2,2,0>>, <<10,10,4>>, 8, FALSE)),
             Shell(<<4,4,0>>, <<8,8,4>>, 16, TRUE))

Stepped == Join(Shell(<<0,0,0>>, <<8,8,2>>, 0, TRUE), Shell(<<0,0,3>>, <<8,8,5>>, 8, TRUE))

Tetra == [coords |-> <<<<0,0,0>>, <<8,0,0>>, <<0,8,0>>, <<0,0,8>>>>, cells |-> <<Cell("Tet4", <<1,2,3,4>>)>>]

Block == am_layered_grid(<<2, 1, 1>>, <<4, 4, 4>>)

MCSliceCases ==
    LET of(m, prism) == [mesh |-> m, w |-> <<0, 0, 1>>, height |-> 2, d |-> <<1, 0>>, spacing |-> 4,
                         retract |-> 1, prism |-> prism, max_layers |-> 5000]
    IN {[of(Tube, TRUE) EXCEPT !.height = 4, !.spacing = 6], [of(Tetra, FALSE) EXCEPT !.max_layers = 3],
        of(Stepped, FALSE), of(Block, TRUE), [of(Block, TRUE) EXCEPT !.w = <<1, 0, 0>>],
        [of(Block, TRUE) EXCEPT !.retract = 0, !.spacing = 2], [of(Block, FALSE) EXCEPT !.max_layers = 1]}

Bc(id, tag, type, condition, pressure) ==
    [tag_id |-> id, tag |-> tag, type |-> type, condition |-> condition, pressure |-> pressure]

MCFlowCases ==
    LET inlet == Bc(10, NoTag, "inlet", "velocity", FALSE)
        outlet == Bc(NoTag, 11, "outlet", "pressure_outlet", FALSE)
        again == Bc(10, 12, "wall", "slip", FALSE)
        absent == Bc(7, NoTag, "inlet", "velocity", TRUE)
    IN {[mesh |-> m, entries |-> e] : m \in {Box, Mixed}, e \in {<<>>, <<inlet, outlet>>, <<inlet, absent, again, outlet>>}}

\* Walls beside an inlet and an outlet; a tag named twice; a type nobody knows; cells
\* in reverse.
MCPatchCases ==
    LET patch(tag, type, v) == [tag |-> tag, type |-> type, velocity |-> v]
        duct == <<patch(10, "inlet", "fast"), patch(11, "pressure-outlet", "none"),
                  patch(12, "wall", "fast"), patch(13, "no-slip", "none")>>
        odd == <<patch(14, "wall", "none"), patch(14, "inlet", "none"), patch(10, "sponge", "fast"),
                 patch(-1, "wall", "none"), patch(11, "wall", "none")>>
    IN {[mesh |-> m, patches |-> p] :
            m \in {Box, Mixed, [Box EXCEPT !.cells = Reverse(@)]}, p \in {<<>>, duct, odd}}

MCLoadCases ==
    LET hold(axis, side, components, value) ==
            [sel |-> [kind |-> "plane", axis |-> axis, at |-> 0, side |-> side], components |-> components, value |-> value]
    IN {[mesh |-> grid_mesh_of(1, <<2, 2, 2>>), p |-> 1, q |-> 4, fixes |-> f] :
            f \in {<<hold(1, "min", {1, 2, 3}, <<0, 0, 0>>)>>,
                   <<hold(1, "min", {1}, <<0, 0, 0>>), hold(3, "max", {1, 3}, <<2, 0, -1>>)>>}}

Pyramid == [coords |-> <<<<0,0,0>>, <<2,0,0>>, <<2,2,0>>, <<0,2,0>>, <<1,1,2>>>>,
            cells |-> <<Cell("Pyramid5", <<1,2,3,4,5>>)>>]

MCSurfaces == {BoundaryTriangles(Tetra), BoundaryTriangles(Pyramid)}

\* Two triangles of a square, then a third on a vertex read later.
MCObjFiles ==
    LET v(p) == [head |-> "v", p |-> p, refs |-> <<>>, name |-> "none"]
        f(refs) == [head |-> "f", p |-> 0, refs |-> refs, name |-> "none"]
        use(name) == [head |-> "usemtl", p |-> 0, refs |-> <<>>, name |-> name]
        square == <<v(<<0,0,0>>), v(<<2,0,0>>), v(<<2,2,0>>), v(<<0,2,0>>)>>
    IN {square \o <<a>> \o <<use("steel"), v(<<0,0,2>>), b>> :
            a \in {f(<<1,2,3,4>>), f(<<-4,-3,-2,-1>>), f(<<1,2>>), f(<<1,2,5>>)},
            b \in {f(<<1,2,5>>), f(<<-5,-4,-1>>), f(<<-6,1,2>>)}}
=============================================================================
