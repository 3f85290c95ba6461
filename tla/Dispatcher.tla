----------------------------- MODULE Dispatcher -----------------------------
(***************************************************************************)
(* RegistryDispatcher::dispatch (src/pipeline/registry_dispatcher.cpp): a  *)
(* capability id is routed by its namespace, the stage references of its   *)
(* input bag are resolved to upstream outputs of the right kind, and what  *)
(* the plugin handed back is either owned by a StageOutput or freed.       *)
(***************************************************************************)
EXTENDS FiniteSets

Namespaces == {"reader", "mesher", "solver", "postproc", "writer"}
Kinds == {"Mesh", "Geometry", "Field", "Path"}
Slots == {"geometry", "mesh", "field"}

SlotKind(slot) == CASE slot = "geometry" -> "Geometry"
                    [] slot = "mesh" -> "Mesh"
                    [] slot = "field" -> "Field"

(* The slots a namespace must have, and those it looks at. *)
Required(ns) == CASE ns \in {"solver", "writer"} -> {"mesh"}
                  [] ns = "postproc" -> {"mesh", "field"}
                  [] OTHER -> {}

Read(ns) == CASE ns = "mesher" -> {"geometry"}
              [] ns = "solver" -> {"mesh"}
              [] ns \in {"writer", "postproc"} -> {"mesh", "field"}
              [] OTHER -> {}

(* The handles a plugin of the namespace can return. *)
Handles(ns) == CASE ns = "mesher" -> {"Mesh"}
                 [] ns \in {"solver", "postproc"} -> {"Field"}
                 [] ns = "reader" -> {"Mesh", "Geometry"}
                 [] OTHER -> {}

(***************************************************************************)
(* refs gives for each slot of the bag the stage it refers to, kindOf the  *)
(* kind of each upstream output.  A slot the namespace does not look at is *)
(* ignored; one it looks at must lead to an output of the right kind.      *)
(***************************************************************************)
Resolved(ns, refs, kindOf) ==
    /\ ns \in Namespaces
    /\ Required(ns) \subseteq DOMAIN refs
    /\ \A slot \in Read(ns) \cap DOMAIN refs :
         refs[slot] \in DOMAIN kindOf /\ kindOf[refs[slot]] = SlotKind(slot)

(* What the guarded call into the plugin can end with. *)
CallResult(ns) == [raised : BOOLEAN, ok : BOOLEAN, handles : SUBSET Handles(ns)]

(* A writer returns nothing, everyone else exactly one handle. *)
Succeeded(ns, call) ==
    /\ ~ call.raised
    /\ call.ok
    /\ ns = "writer" \/ Cardinality(call.handles) = 1

OutputKind(ns, call) ==
    IF ns = "writer" THEN "Path" ELSE CHOOSE h \in call.handles : TRUE
=============================================================================
