---------------------------- MODULE SolverPlugins ----------------------------
(***************************************************************************)
(* The entry points of the meshers, solvers, readers and writers among the *)
(* example plugins (src/examples/plugins), as programs of PluginSteps.     *)
(* What they compute is in SurfaceReaders, VoxelMeshers, FiniteElements    *)
(* and CfdBoundaries.                                                      *)
(***************************************************************************)
EXTENDS PluginSteps

\* The coordinates do not match the node count.
FlatNodes == <<Refuse("INTERNAL")>>

\* A reader's null tests: the path, then the two out parameters.
NeedsOuts == <<Refuse("INVALID"), Refuse("INVALID")>>

-----------------------------------------------------------------------------
\* Meshers

hello_mesh ==
    <<Refuse("INVALID")>> \o NewMesh \o <<Abandon("mesh", "FORWARDED"), Return("mesh")>>

\* Nothing is tested once the mesh exists.
grid_mesh ==
    <<Refuse("INVALID"), Refuse("INVALID"), Refuse("FORWARDED"), Refuse("INVALID")>>
        \o NewMesh \o <<Return("mesh")>>

\* Gmsh's model is a resource of the process: it is removed on every path, and
\* again by the handler, which does not cover Gmsh's initialisation.
gmsh_mesh ==
    <<Refuse("INVALID"), Refuse("INVALID"), Refuse("INVALID"), Throws>>
        \o TryFreeing("gmsh_model", "PLUGIN_REJECTED",
            <<Throws, Acquire("gmsh_model", "PLUGIN_REJECTED"), Throws,
              Abandon("gmsh_model", "PLUGIN_REJECTED"), Throws,
              AcquireElse("mesh", "gmsh_model", "OUT_OF_MEMORY"), Throws,
              Release("gmsh_model"), Return("mesh")>>)

-----------------------------------------------------------------------------
\* Solvers and post-processors

heat_solve == NeedsMesh \o FlatNodes \o NewField \o <<Return("field")>>

elasticity_solve == NeedsMesh \o FlatNodes \o NewField \o <<Return("field")>>

\* A mesh of no extent along x has no mode shape.
modal_solve ==
    NeedsMesh \o FlatNodes \o <<Refuse("INVALID")>> \o NewField \o <<Return("field")>>

\* Ill-formed patches are skipped, a cell whose nodes cannot be read is skipped.
cfd_solve == NeedsMesh \o <<Throws>> \o NewField \o <<Return("field")>>

scalar_magnitude_compute ==
    <<Refuse("INVALID"), Refuse("INVALID"), Refuse("INVALID"), Refuse("INTERNAL")>>
        \o NewField \o <<Return("field")>>

\* The field is freed when a cell cannot be read, but not when one of the
\* vectors of the metrics finds no memory.
mesh_quality_compute ==
    NeedsMesh \o FlatNodes \o NewField \o <<Throws>>
        \o Loop(Maybe(<<Throws>> \o CellNodesWith("field"))) \o <<Return("field")>>

build_ingest_buffers ==
    <<Refuse("INVALID")>> \o FlatNodes \o <<Throws>>
        \o Loop(<<Refuse("NOT_IMPLEMENTED"), Refuse("FORWARDED")>>)

assemble_poisson == Try("PLUGIN_REJECTED", <<Throws>>)

fenicsx_solve ==
    <<Refuse("INVALID"), Refuse("INVALID")>> \o build_ingest_buffers \o assemble_poisson
        \o <<Refuse("INTERNAL")>> \o NewField \o <<Return("field")>>

-----------------------------------------------------------------------------
\* fem-elasticity.  The solver holds nothing until the solution exists.

\* The inputs, the element types and the node adjacency.
fem_pattern ==
    NeedsMesh \o FlatNodes \o <<Refuse("INVALID"), Refuse("INVALID")>> \o <<Throws>>
        \o Loop(<<Refuse("NOT_IMPLEMENTED"), Refuse("INTERNAL")>> \o CellNodes)

\* An inverted cell; an entry outside the pattern.
fem_assembly ==
    <<Throws>> \o Loop(<<Refuse("FORWARDED"), Refuse("INVALID"), Refuse("INTERNAL")>>)

\* Each traction names a plane or a face tag, and a vector.
fem_tractions ==
    Loop(<<Refuse("INVALID"), Refuse("INVALID")>> \o Loop(<<Refuse("FORWARDED")>>))

\* At least one selector, each well formed, and together they fix something.
fem_fixes ==
    <<Refuse("INVALID")>> \o Loop(<<Refuse("INVALID")>> \o Loop(<<Refuse("FORWARDED")>>))
        \o <<Refuse("INVALID")>>

fem_emit == NewField \o <<Return("field")>>

\* Conjugate gradients run before the field is made.
fem_solve ==
    fem_pattern \o fem_assembly \o fem_tractions \o fem_fixes \o <<Throws>> \o fem_emit

-----------------------------------------------------------------------------
\* openfoam-solver.  The case directory is removed when the mesh cannot be
\* translated and when the run has succeeded; a failed run leaves it in place,
\* and so does an exception of its many paths, strings and files.

\* Cells without a face table are found before polyMesh is created.
write_polymesh_from_mesh ==
    <<Abandon("casedir", "INVALID")>>
        \o Loop(<<Throws>> \o <<Abandon("casedir", "INVALID")>>) \o <<Throws>>

openfoam_solve_impl ==
    <<Refuse("INVALID"), Refuse("INVALID"), Throws, Refuse("PLUGIN_REJECTED"), Throws,
      Acquire("casedir", "IO")>>
        \o <<Throws>> \o write_polymesh_from_mesh
        \o <<Throws, Refuse("INTERNAL"), Refuse("TIMEOUT"), Refuse("PLUGIN_REJECTED"),
             Refuse("PLUGIN_REJECTED")>>
        \o NewField \o <<Release("casedir"), Return("field")>>

\* simpleFoam, pimpleFoam and interFoam differ in the binary only.
simple_solve == openfoam_solve_impl

pimple_solve == openfoam_solve_impl

inter_solve == openfoam_solve_impl

-----------------------------------------------------------------------------
\* Readers

\* An extension nobody reads, a rejected file, a file of no shapes.
read_step_or_iges == <<Throws, Refuse("INVALID"), Refuse("IO"), Refuse("IO")>>

\* The shapes become vertices, edges, faces and solids.  The caller's test of the
\* status is never taken; OpenCASCADE may throw.
emit_geometry == <<Throws>>

occt_read ==
    NeedsOuts \o read_step_or_iges \o <<Acquire("geometry", "OUT_OF_MEMORY")>>
        \o emit_geometry \o <<Return("geometry")>>

obj_read ==
    NeedsOuts \o <<Throws, Refuse("NOT_FOUND"), Refuse("IO")>> \o NewMesh \o <<Return("mesh")>>

stl_read ==
    NeedsOuts \o <<Throws, Refuse("NOT_FOUND"), Refuse("IO")>> \o NewMesh \o <<Return("mesh")>>

\* Blender exports into a fresh directory: the spawn, the timeout, the signal,
\* the exit code, the missing OBJ and the reopening each remove it.  The paths and
\* the script, the messages, the test for the OBJ, its stream and its parsing may
\* throw past it.
blender_read ==
    NeedsOuts \o <<Throws, Refuse("PLUGIN_REJECTED"), Throws, Acquire("workdir", "IO")>>
        \o <<Throws, Abandon("workdir", "PLUGIN_REJECTED"), Abandon("workdir", "TIMEOUT"),
             Throws, Abandon("workdir", "PLUGIN_REJECTED"), Abandon("workdir", "PLUGIN_REJECTED"),
             Throws, Abandon("workdir", "PLUGIN_REJECTED"), Abandon("workdir", "IO"), Throws>>
        \o <<Release("workdir")>> \o <<Refuse("IO")>> \o NewMesh \o <<Return("mesh")>>

\* The file, then each line of it: shape, key, value, number.
parse_spec_file == <<Throws, Refuse("NOT_FOUND")>> \o Loop(<<Throws, Refuse("IO")>>)

\* The unit cell, the box, the strut cap, an empty lattice, the diameter.
lattice_read ==
    NeedsOuts \o parse_spec_file
        \o <<Refuse("INVALID"), Refuse("INVALID"), Refuse("INVALID"), Throws, Refuse("INTERNAL"),
             Refuse("INVALID"), Refuse("INVALID")>>
        \o NewMesh \o Loop(<<Throws>> \o <<Abandon("mesh", "FORWARDED")>>) \o <<Return("mesh")>>

-----------------------------------------------------------------------------
\* Writers

\* fprintf and fclose are not tested: a full disk is reported as success.
hello_write ==
    <<Refuse("INVALID")>> \o NeedsPath \o <<OpenPlain("IO")>> \o <<PrintFile>> \o <<Return("none")>>

\* The document is rendered in memory, but its copy is made after the file has
\* been truncated.
vtu_write ==
    <<Refuse("INVALID")>> \o NeedsPath \o <<Throws>> \o Loop(<<Refuse("FORWARDED")>>)
        \o Loop(<<Refuse("INVALID")>>) \o Maybe(<<Refuse("INVALID")>>)
        \o <<OpenFile("IO")>> \o <<Throws>> \o <<PutFile("IO")>> \o <<Return("none")>>
=============================================================================
