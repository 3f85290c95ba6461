--------------------------- MODULE MCToolSession ----------------------------
(***************************************************************************)
(* Hosts: the CLI and the bridge wire everything and start from an empty   *)
(* map; the Python binding may leave things out and set any session value, *)
(* with entries in it that no tool would have staged.                      *)
(***************************************************************************)
EXTENDS ToolSession

\* Tags are interchangeable.
TagSymmetry == Permutations(Tags)
MCDirs == {"z", "x"}
MCCapabilities == {Solver, Printer, Collapse, Corrosion, Quality, Derived, Mesher, Writer}

\* One boundary condition that the host wrote by hand, for each tag and defect.
Defective == {[EmptyMap EXCEPT !.bcs = <<[Entry("outlet", t) EXCEPT !.defect = d]>>] :
                t \in Tags, d \in {"MALFORMED", "OUTLET_NEEDS_PRESSURE"}}

MCHosts == {[wired |-> FALSE, session |-> s] : s \in Defective} \cup
           {[wired |-> TRUE, session |-> [EmptyMap EXCEPT !.geometry = TRUE]],
            [wired |-> FALSE, session |-> [EmptyMap EXCEPT !.kind = "absent"]],
            [wired |-> FALSE, session |-> [EmptyMap EXCEPT !.kind = "null"]]}
=============================================================================
