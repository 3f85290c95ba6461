--------------------------- MODULE AdditivePlugins ---------------------------
(***************************************************************************)
(* The entry points of the additive-manufacturing and marine example       *)
(* plugins, as programs of PluginSteps.  Sources: am-thermal, am-distortion*)
(* am-polymer, am-manufacturability, am-layered-mesher and marine under    *)
(* src/examples/plugins.  What they compute of layers and of boundaries is *)
(* in Layers.tla and Facets.tla; their physics is left out.                *)
(***************************************************************************)
EXTENDS PluginSteps

-----------------------------------------------------------------------------
\* am-thermal

\* A build direction of length zero; a melt no hotter than what it lies on.
read_process == <<Refuse("INVALID"), Refuse("INVALID")>>

\* Coordinates, then the budget on num_nodes x num_layers.  The vector of layer
\* temperatures is allocated while the field is held; there is no handler.
am_thermal_solve ==
    NeedsMesh \o read_process \o <<Refuse("INTERNAL")>> \o <<Throws>> \o <<Refuse("INVALID")>>
        \o NewField \o <<Throws>> \o <<Return("field")>>

\* A missing or ill-shaped temperature field is replaced by the baseplate's.  The
\* cache of melt pools grows while the field is held; there is no handler.
melt_pool_compute ==
    NeedsMesh \o <<Refuse("INVALID")>> \o read_process \o <<Refuse("INTERNAL")>> \o <<Throws>>
        \o NewField \o Loop(<<Throws>>) \o <<Return("field")>>

-----------------------------------------------------------------------------
\* am-distortion

read_inherent_strain_inputs == <<Refuse("INVALID")>>

\* No nodes, no cells, coordinates; per cell its nodes and the layer cap by
\* tag or by height.  Vectors are sized from the mesh.
build_geometry ==
    <<Refuse("INVALID"), Refuse("INVALID"), Refuse("INTERNAL"), Throws>>
        \o Loop(CellNodes \o <<Refuse("INVALID")>>) \o <<Throws>>

layer_states == <<Throws>>

distortion_solve_impl ==
    <<Refuse("INVALID"), Refuse("INVALID")>> \o read_inherent_strain_inputs \o build_geometry
        \o <<Refuse("INVALID")>> \o layer_states
        \o NewField \o <<Abandon("field", "INTERNAL"), Return("field")>>

distortion_solve == Try("OUT_OF_MEMORY", distortion_solve_impl)

\* Mutant: the cell-node test returns without freeing the field.
residual_stress_compute_impl_KeepsField ==
    <<Refuse("INVALID"), Refuse("INVALID"), Refuse("INVALID"),
      Refuse("INVALID"), Refuse("INVALID"), Refuse("INTERNAL")>>
        \o read_inherent_strain_inputs \o build_geometry \o <<Refuse("INTERNAL")>>
        \o NewField \o Loop(<<Throws>> \o CellNodes) \o <<Return("field")>>

\* The displacement field's shape, length and buffer; the cell loop resizes a
\* vector while the output field is held.
residual_stress_compute_impl ==
    <<Refuse("INVALID"), Refuse("INVALID"), Refuse("INVALID"),
      Refuse("INVALID"), Refuse("INVALID"), Refuse("INTERNAL")>>
        \o read_inherent_strain_inputs \o build_geometry \o <<Refuse("INTERNAL")>>
        \o NewField \o Loop(<<Throws>> \o CellNodesWith("field")) \o <<Return("field")>>

residual_stress_compute == Try("OUT_OF_MEMORY", residual_stress_compute_impl)

-----------------------------------------------------------------------------
\* am-polymer

\* Coordinates; per cell the tag cap, its nodes and the height cap; then the
\* second pass reads the nodes again.
resolve_layers ==
    <<Refuse("INTERNAL"), Throws>>
        \o Loop(<<Refuse("INVALID"), Throws>> \o CellNodes \o <<Refuse("INVALID")>>)
        \o Loop(<<Throws>> \o CellNodes)

build_layer_history == <<Throws>>

polymer_fff_solve_impl ==
    NeedsMesh \o <<Refuse("INVALID"), Refuse("INVALID")>> \o resolve_layers
        \o <<Refuse("INVALID")>> \o build_layer_history \o NewField \o <<Return("field")>>

polymer_fff_solve == Try("OUT_OF_MEMORY", polymer_fff_solve_impl)

\* mesh, input_field, out_field, cells, shape, count, buffer; the history
\* vectors are allocated while the output field is held.
bond_strength_compute_impl ==
    <<Refuse("INVALID"), Refuse("INVALID"), Refuse("INVALID"), Refuse("INVALID"),
      Refuse("INVALID"), Refuse("INVALID"), Refuse("INTERNAL")>>
        \o NewField \o <<Throws>>
        \o Loop(Maybe(<<Throws>> \o CellNodesWith("field"))) \o <<Return("field")>>

bond_strength_compute == Try("OUT_OF_MEMORY", bond_strength_compute_impl)

-----------------------------------------------------------------------------
\* am-manufacturability

read_build_direction == <<Refuse("INVALID")>>

\* mesh, out, nodes, cells, coordinates, then the nodes of each cell that has
\* a face table.
build_mesh_geometry ==
    <<Refuse("INVALID"), Refuse("INVALID"), Refuse("INVALID"), Refuse("INVALID"),
      Refuse("INTERNAL"), Throws>> \o Loop(Maybe(<<Throws>> \o CellNodes))

reject_undecomposable == <<Refuse("PLUGIN_REJECTED")>>

overhang_solve ==
    <<Refuse("INVALID")>> \o read_build_direction \o build_mesh_geometry
        \o reject_undecomposable \o NewField \o <<Return("field")>>

printability_solve ==
    <<Refuse("INVALID")>> \o read_build_direction \o build_mesh_geometry
        \o reject_undecomposable \o NewField \o <<Return("field")>>

process_from_string == <<Refuse("INVALID")>>

\* The layer of each cell may pass the cap by its tag or by its height.
buildtime_solve ==
    <<Refuse("INVALID")>> \o read_build_direction \o process_from_string
        \o build_mesh_geometry \o reject_undecomposable
        \o <<Refuse("INTERNAL")>> \o Loop(<<Refuse("INVALID")>>)
        \o NewField \o <<Return("field")>>

-----------------------------------------------------------------------------
\* am-layered-mesher: out, element order, extent, cell cap; then the cells and
\* the tags of their outer faces.
am_layered_mesh ==
    <<Refuse("INVALID"), Refuse("NOT_IMPLEMENTED"), Refuse("INTERNAL"), Refuse("INVALID")>>
        \o NewMesh
        \o Loop(<<Throws>> \o <<Abandon("mesh", "INTERNAL")>> \o Loop(<<Abandon("mesh", "INTERNAL")>>))
        \o <<Return("mesh")>>

-----------------------------------------------------------------------------
\* marine.  The host copies a key to look it up; one longer than fifteen
\* characters (seawater_density, unsupported_length) may find no memory.

resolve_build_direction == <<Refuse("INVALID")>>

read_depth_factors == Try("OUT_OF_MEMORY", <<Throws>>)

hydrostatic_solve ==
    NeedsMesh \o <<Refuse("INTERNAL")>> \o resolve_build_direction \o <<Throws>>
        \o read_depth_factors
        \o NewField \o <<Return("field")>>

\* The hull type, the thin-shell limit, no applicable mode.
hull_collapse_solve ==
    NeedsMesh \o <<Refuse("INVALID")>> \o <<Throws>> \o <<Refuse("INVALID"), Refuse("INVALID")>>
        \o NewField \o <<Return("field")>>

\* With a mating alloy, both must be in the galvanic series.
corrosion_evaluate == <<Throws>> \o Maybe(<<Refuse("INVALID"), Refuse("INVALID")>>)

corrosion_solve == NeedsMesh \o corrosion_evaluate \o NewField \o <<Return("field")>>

\* Mutant: the file is opened first and the dossier rendered into it.
qualification_report_write_OpensFirst ==
    <<Refuse("INVALID")>> \o NeedsPath \o <<OpenFile("IO"), Refuse("INVALID")>>
        \o Try("INTERNAL", <<Throws, WriteFile("IO")>>) \o <<Return("none")>>

\* What the dossier says of a field, if there is one.
render_field_section == Maybe(<<Throws>>)

\* Identification, requirements, the field's evidence, the mesh's digest.
dossier_text == <<Throws>> \o render_field_section \o <<Throws>>

\* The dossier is rendered in memory; only then is the file opened.
qualification_report_write ==
    <<Refuse("INVALID")>> \o NeedsPath \o <<Throws>> \o <<Refuse("INVALID")>>
        \o Try("INTERNAL", dossier_text \o StreamTo) \o <<Return("none")>>
=============================================================================
