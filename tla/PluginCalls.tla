----------------------------- MODULE PluginCalls -----------------------------
(***************************************************************************)
(* The host loads one of the example plugins and calls its entry points,   *)
(* any number of times.  A call runs the program of its capability (the    *)
(* *Plugins modules) step by step: every test may fail, every allocation   *)
(* may be refused, every write may find the disk full, and work that may   *)
(* throw may throw.  What a call computes is added by PluginOutcomes.      *)
(***************************************************************************)
EXTENDS AdditivePlugins, SolverPlugins, SlicerPlugins, SequencesExt

-----------------------------------------------------------------------------
\* Registration: the capabilities a plugin adds, and what it returns.

\* The ABI test fails; or the additions are made in order until one fails.
InOrder(caps) ==
    {[code |-> 0, added |-> ToSet(caps)], [code |-> -1, added |-> {}]}
        \cup {[code |-> 1, added |-> ToSet(SubSeq(caps, 1, n))] : n \in 0..(Len(caps) - 1)}

\* As many as the binaries found allow; none is an error.
Found(caps) ==
    {[code |-> IF some = {} THEN -2 ELSE 0, added |-> some] : some \in SUBSET ToSet(caps)}
        \cup {[code |-> -1, added |-> {}]}

FoamSolvers ==
    <<"solver.cfd.openfoam.simple", "solver.cfd.openfoam.pimple", "solver.cfd.openfoam.inter">>

am_thermal_register == InOrder(<<"solver.am.thermal.lpbf", "postproc.am.melt_pool">>)

am_distortion_register ==
    InOrder(<<"solver.am.distortion.inherent_strain", "postproc.am.residual_stress">>)

am_polymer_register == InOrder(<<"solver.am.polymer.fff", "postproc.am.bond_strength">>)

am_manufacturability_register ==
    InOrder(<<"solver.am.overhang", "solver.am.printability", "solver.am.buildtime">>)

am_layered_mesher_register == InOrder(<<"mesher.am.layered">>)

marine_register ==
    InOrder(<<"solver.marine.hydrostatic", "solver.marine.hull_collapse",
              "solver.marine.corrosion", "writer.marine.qualification_report">>)

am_slicer_register == InOrder(<<"writer.am.gcode", "writer.am.cli", "writer.am.report">>)

hello_mesher_register == InOrder(<<"mesher.tetra.hello">>)

hello_writer_register == InOrder(<<"writer.text-summary">>)

grid_mesher_register == InOrder(<<"mesher.tetra.grid">>)

gmsh_mesher_register == InOrder(<<"mesher.tetra.gmsh">>)

heat_solver_register == InOrder(<<"solver.heat.linear">>)

elasticity_stub_register == InOrder(<<"solver.elasticity.linear">>)

modal_stub_register == InOrder(<<"solver.modal.linear">>)

cfd_stub_register == InOrder(<<"solver.cfd.simple">>)

scalar_magnitude_register == InOrder(<<"postproc.scalar_magnitude">>)

mesh_quality_register == InOrder(<<"postproc.mesh_quality">>)

fenicsx_solver_register == InOrder(<<"solver.heat.fenicsx">>)

fem_elasticity_register == InOrder(<<"solver.elasticity.fem">>)

occt_reader_register == InOrder(<<"reader.step", "reader.iges">>)

obj_reader_register == InOrder(<<"reader.obj">>)

stl_reader_register == InOrder(<<"reader.stl">>)

lattice_reader_register == InOrder(<<"reader.lattice">>)

vtu_writer_register == InOrder(<<"writer.vtu">>)

openfoam_solver_register == Found(FoamSolvers)

\* Without Blender nothing is added.
blender_reader_register ==
    Found(<<"reader.blend">>) \cup {[code |-> 1, added |-> {}]}

Registrations ==
    {am_thermal_register, am_distortion_register, am_polymer_register,
     am_manufacturability_register, am_layered_mesher_register, marine_register,
     am_slicer_register, hello_mesher_register, hello_writer_register, grid_mesher_register,
     gmsh_mesher_register, heat_solver_register, elasticity_stub_register, modal_stub_register,
     cfd_stub_register, scalar_magnitude_register, mesh_quality_register,
     fenicsx_solver_register, fem_elasticity_register, occt_reader_register,
     obj_reader_register, stl_reader_register, lattice_reader_register, vtu_writer_register,
     openfoam_solver_register, blender_reader_register}

\* The function behind each capability.
Program(cap) ==
    CASE cap = "solver.am.thermal.lpbf" -> am_thermal_solve
      [] cap = "postproc.am.melt_pool" -> melt_pool_compute
      [] cap = "solver.am.distortion.inherent_strain" -> distortion_solve
      [] cap = "postproc.am.residual_stress" -> residual_stress_compute
      [] cap = "solver.am.polymer.fff" -> polymer_fff_solve
      [] cap = "postproc.am.bond_strength" -> bond_strength_compute
      [] cap = "solver.am.overhang" -> overhang_solve
      [] cap = "solver.am.printability" -> printability_solve
      [] cap = "solver.am.buildtime" -> buildtime_solve
      [] cap = "mesher.am.layered" -> am_layered_mesh
      [] cap = "solver.marine.hydrostatic" -> hydrostatic_solve
      [] cap = "solver.marine.hull_collapse" -> hull_collapse_solve
      [] cap = "solver.marine.corrosion" -> corrosion_solve
      [] cap = "writer.marine.qualification_report" -> qualification_report_write
      [] cap = "writer.am.gcode" -> gcode_write
      [] cap = "writer.am.cli" -> cli_write
      [] cap = "writer.am.report" -> report_write
      [] cap = "mesher.tetra.hello" -> hello_mesh
      [] cap = "writer.text-summary" -> hello_write
      [] cap = "mesher.tetra.grid" -> grid_mesh
      [] cap = "mesher.tetra.gmsh" -> gmsh_mesh
      [] cap = "solver.heat.linear" -> heat_solve
      [] cap = "solver.elasticity.linear" -> elasticity_solve
      [] cap = "solver.modal.linear" -> modal_solve
      [] cap = "solver.cfd.simple" -> cfd_solve
      [] cap = "postproc.scalar_magnitude" -> scalar_magnitude_compute
      [] cap = "postproc.mesh_quality" -> mesh_quality_compute
      [] cap = "solver.heat.fenicsx" -> fenicsx_solve
      [] cap = "solver.elasticity.fem" -> fem_solve
      [] cap \in {"reader.step", "reader.iges"} -> occt_read
      [] cap = "reader.obj" -> obj_read
      [] cap = "reader.stl" -> stl_read
      [] cap = "reader.lattice" -> lattice_read
      [] cap = "writer.vtu" -> vtu_write
      [] cap = "solver.cfd.openfoam.simple" -> simple_solve
      [] cap = "solver.cfd.openfoam.pimple" -> pimple_solve
      [] cap = "solver.cfd.openfoam.inter" -> inter_solve
      [] cap = "reader.blend" -> blender_read

Resources == {"mesh", "field", "geometry", "casedir", "workdir", "gmsh_model"}

-----------------------------------------------------------------------------
VARIABLES
    plugin,      \* the set of outcomes its registration may have
    registered,  \* the capabilities it has added
    call,        \* the capability last called, or "none"
    at,          \* the next step of the call; 0 when it has returned
    held,        \* what the call has taken and not given back
    out,         \* what it has handed to the host
    file,        \* the file at the call's path: "old", "partial" or "new"
    handler,     \* the enclosing catch: what it frees and what it returns
    threw,       \* "work" or "stream" when an exception ended the call, else "no"
    status       \* "none" until the call returns

callVars == <<plugin, registered, call, at, held, out, file, handler, threw, status>>

\* What no handler catches reaches the host's guard_call, which reports it.
NoHandler == [what |-> "none", code |-> "ESCAPED"]

CallsInit ==
    /\ plugin \in Registrations
    /\ registered = {}
    /\ call = "none" /\ at = 0
    /\ held = {} /\ out = "none" /\ file = "old"
    /\ handler = NoHandler /\ threw = "no"
    /\ status = "none"

\* A registration that fails is undone by the host, and may be tried again.
Load ==
    /\ registered = {}
    /\ \E r \in plugin : registered' = IF r.code = 0 THEN r.added ELSE {}
    /\ UNCHANGED <<plugin, call, at, held, out, file, handler, threw, status>>

\* The host asks for a capability; each call has a path of its own.
Call(cap) ==
    /\ at = 0
    /\ call' = cap /\ at' = 1
    /\ held' = {} /\ out' = "none" /\ file' = "old"
    /\ handler' = NoHandler /\ threw' = "no"
    /\ status' = "none"
    /\ UNCHANGED <<plugin, registered>>

Step == Program(call)[at]

Running(op) == at # 0 /\ Step.op = op

Continue(to) ==
    /\ at' = to
    /\ UNCHANGED <<plugin, registered, call, out, threw, status>>

Finish(code) ==
    /\ at' = 0 /\ status' = code
    /\ UNCHANGED <<plugin, registered, call, handler>>

\* Ends without a result.
Fail(code, freed) ==
    /\ Finish(code)
    /\ held' = held \ {freed}
    /\ UNCHANGED <<out, threw>>

DoRefuse ==
    /\ Running("refuse")
    /\ \/ Continue(at + 1) /\ UNCHANGED <<held, file, handler>>
       \/ Fail(Step.code, "none") /\ UNCHANGED file

DoAcquire ==
    /\ Running("acquire")
    /\ \/ Continue(at + 1) /\ held' = held \cup {Step.what} /\ UNCHANGED <<file, handler>>
       \/ Fail(Step.code, "none") /\ UNCHANGED file

DoAcquireElse ==
    /\ Running("acquire_else")
    /\ \/ Continue(at + 1) /\ held' = held \cup {Step.what[1]} /\ UNCHANGED <<file, handler>>
       \/ Fail(Step.code, Step.what[2]) /\ UNCHANGED file

DoAbandon ==
    /\ Running("abandon")
    /\ \/ Continue(at + 1) /\ UNCHANGED <<held, file, handler>>
       \/ Fail(Step.code, Step.what) /\ UNCHANGED file

DoRelease ==
    /\ Running("release")
    /\ Continue(at + 1)
    /\ held' = held \ {Step.what}
    /\ UNCHANGED <<file, handler>>

DoReturn ==
    /\ Running("return")
    /\ Finish("OK")
    /\ out' = Step.what
    /\ held' = held \ {Step.what}
    /\ UNCHANGED <<file, threw>>

\* The handler in force frees what it frees; without one nothing is freed.
Throw(from) ==
    /\ Finish(handler.code)
    /\ held' = held \ {handler.what}
    /\ threw' = from
    /\ UNCHANGED out

DoThrow ==
    /\ Running("throws")
    /\ \/ Continue(at + 1) /\ UNCHANGED <<held, file, handler>>
       \/ Throw("work") /\ UNCHANGED file

DoTry ==
    /\ Running("try")
    /\ Continue(at + 1)
    /\ handler' = [what |-> Step.what, code |-> Step.code]
    /\ UNCHANGED <<held, file>>

DoEndTry ==
    /\ Running("endtry")
    /\ Continue(at + 1)
    /\ handler' = NoHandler
    /\ UNCHANGED <<held, file>>

DoOpen ==
    /\ Running("open")
    /\ \/ Continue(at + 1) /\ file' = "partial" /\ UNCHANGED <<held, handler>>
       \/ Fail(Step.code, "none") /\ UNCHANGED file
       \/ Step.what = "stream" /\ Throw("stream") /\ file' = "partial"

DoWrite ==
    /\ Running("write")
    /\ \/ Continue(at + 1) /\ file' = "new" /\ UNCHANGED <<held, handler>>
       \/ Fail(Step.code, "none") /\ UNCHANGED file

\* What the stream still buffers may be lost after the test.
DoPut ==
    /\ Running("put")
    /\ \/ Continue(at + 1) /\ file' \in {"partial", "new"} /\ UNCHANGED <<held, handler>>
       \/ Fail(Step.code, "none") /\ UNCHANGED file

DoPrint ==
    /\ Running("print")
    /\ Continue(at + 1)
    /\ file' \in {"partial", "new"}
    /\ UNCHANGED <<held, handler>>

DoSkip ==
    /\ Running("skip")
    /\ \/ Continue(at + 1)
       \/ Continue(at + 1 + Step.what)
    /\ UNCHANGED <<held, file, handler>>

DoAgain ==
    /\ Running("again")
    /\ \/ Continue(at + 1)
       \/ Continue(at - Step.what)
    /\ UNCHANGED <<held, file, handler>>

Starts == \E cap \in registered : Call(cap)

\* A step that does not return to the host with a result.
Works ==
    \/ DoRefuse \/ DoAcquire \/ DoAcquireElse \/ DoAbandon \/ DoRelease
    \/ DoThrow \/ DoTry \/ DoEndTry
    \/ DoOpen \/ DoWrite \/ DoPut \/ DoPrint
    \/ DoSkip \/ DoAgain

CallsNext == Load \/ Starts \/ Works \/ DoReturn

CallsSpec == CallsInit /\ [][CallsNext]_callVars

-----------------------------------------------------------------------------
CallsTypeOK ==
    /\ registered \in SUBSET UNION {r.added : r \in plugin}
    /\ call \in {"none"} \cup registered
    /\ at \in 0..(IF call = "none" THEN 0 ELSE Len(Program(call)))
    /\ held \subseteq Resources /\ out \in {"none"} \cup Resources
    /\ file \in {"old", "partial", "new"} /\ threw \in {"no", "work", "stream"}
    /\ status # "none" => at = 0

\* What a function holds while an allocation of its own, or one of the host's as
\* cells are added, may throw past it.
Unguarded(cap) ==
    CASE cap \in {"mesher.tetra.hello", "mesher.tetra.grid", "mesher.tetra.gmsh",
                  "mesher.am.layered", "reader.obj", "reader.stl", "reader.lattice"} -> {"mesh"}
      [] cap = "reader.blend" -> {"workdir", "mesh"}
      [] cap \in {"reader.step", "reader.iges"} -> {"geometry"}
      [] cap \in {"solver.am.thermal.lpbf", "postproc.am.melt_pool", "postproc.mesh_quality",
                  "postproc.am.residual_stress", "postproc.am.bond_strength"} -> {"field"}
      [] OTHER -> {}

\* Whichever test, allocation, cell or write failed, in whatever iteration of its
\* loops, a call that has returned holds nothing it took.  Two exceptions: an
\* OpenFOAM run that fails once its case is written leaves the case directory, and
\* an exception loses what the function does not guard.  It is one output or one
\* directory, never Gmsh's model, and never a solver's field but in the thermal one.
NothingLeaks ==
    (at = 0 /\ held # {}) =>
        \/ held = {"casedir"} /\ call \in ToSet(FoamSolvers) /\ status \notin {"OK", "INVALID", "IO"}
        \/ threw = "work" /\ \E x \in Unguarded(call) : held = {x}

\* A writer that refuses its inputs or whose work throws leaves the file it was to
\* replace.  Two exceptions: writer.vtu copies the document after it has truncated
\* the file, and a stream may find no memory for its buffer when its file is open.
\* The qualification report, which flushes before it answers, is on the disk in
\* full when it reports success.
RefusalsKeepTheFile ==
    /\ (at = 0 /\ status \notin {"none", "OK", "IO"}) =>
        \/ file = "old"
        \/ threw = "stream"
        \/ threw = "work" /\ call = "writer.vtu"
    /\ (call = "writer.marine.qualification_report" /\ status = "OK") => file = "new"
=============================================================================
