----------------------------- MODULE BuildCost ------------------------------
(***************************************************************************)
(* propose_am_setup and estimate_build_cost (src/src/ai/tools): which      *)
(* machine a proposal stages under session `manufacturing`, which pipeline *)
(* it emits, and whether the cost estimate can use what is staged.         *)
(*                                                                         *)
(* Of a machine only the rates that a cost formula divides by are kept,    *)
(* and of a rate only whether it is positive: a machine is the set of its  *)
(* positive rates.                                                         *)
(***************************************************************************)
EXTENDS Naturals, Checks

Processes == {"lpbf", "fff", "ded_waam", "sls"}
Polymer   == {"fff", "sls"}

Rates == {"scan_speed", "hatch_spacing", "process_layer_height",
          "print_speed", "road_width", "deposition_rate"}

\* A setup without a machine: what set_build_orientation stages on its own.
NoMachine == {"none"}

-----------------------------------------------------------------------------
\* propose_am_setup

\* The presets' positive rates (kLpbf, kFff, kDed, kSls).
preset_for(process) ==
    CASE process = "lpbf"     -> {"scan_speed", "hatch_spacing", "process_layer_height"}
      [] process = "fff"      -> {"process_layer_height", "print_speed", "road_width"}
      [] process = "ded_waam" -> Rates \ {"print_speed"}
      [] process = "sls"      -> Rates \ {"print_speed", "deposition_rate"}

\* Each rate of `machine` replaces the preset's: zero is the set of rates it
\* sets to zero, positive the set of those it sets to a positive number.
MachineOf(process, zero, positive) == (preset_for(process) \cup positive) \ zero

\* kMaterials: the feedstocks of the two families.
Metals   == {"316L", "Ti6Al4V", "IN625", "AlSi10Mg", "NAB", "2507"}
Polymers == {"PA12-CF", "PEKK"}

find_material(id) == id \in Metals \cup Polymers

\* spec: kind of the input, process, material ("default" when absent),
\* the first refused parameter ("nothing" when all are usable).
SetupRefused(spec) ==
    FirstFailure(
      <<Check(spec.kind # "map", "INVALID_ARGUMENT"),
        Check(spec.process \notin Processes, "INVALID_ARGUMENT"),
        Check(spec.material # "default" /\ ~find_material(spec.material), "INVALID_ARGUMENT"),
        Check(spec.material # "default"
              /\ (spec.material \in Polymers) # (spec.process \in Polymer), "INVALID_ARGUMENT"),
        Check(spec.bad \in {"machine", "layer_height", "build_volume", "build_direction"},
              "INVALID_ARGUMENT")>>)

\* What a successful proposal stages; any earlier `manufacturing` is replaced.
StagedSetup(spec) ==
    [process |-> spec.process,
     machine |-> MachineOf(spec.process, spec.zero, spec.positive),
     dir     |-> spec.dir]

-----------------------------------------------------------------------------
\* The proposed pipeline: stages of [id, plugin, refs], refs by input name.

Stage(id, plugin, refs) == [id |-> id, plugin |-> plugin, refs |-> refs]
OnMesh == [mesh |-> "build_mesh"]
OnField(f) == [mesh |-> "build_mesh", field |-> f]

MeshSource(lattice) ==
    IF lattice THEN <<Stage("build_mesh", "reader.lattice", <<>>)>>
    ELSE <<Stage("build_mesh", "mesher.am.layered", <<>>)>>

MetalStages(process) ==
       <<Stage("thermal", "solver.am.thermal.lpbf", OnMesh)>>
    \o (IF process = "ded_waam" THEN <<>>
        ELSE <<Stage("melt_pool", "postproc.am.melt_pool", OnField("thermal"))>>)
    \o <<Stage("distortion", "solver.am.distortion.inherent_strain", OnMesh),
         Stage("residual_stress", "postproc.am.residual_stress", OnField("distortion"))>>

PolymerStages ==
    <<Stage("thermal", "solver.am.polymer.fff", OnMesh),
      Stage("bond_strength", "postproc.am.bond_strength", OnField("thermal"))>>

ManufacturabilityStages ==
    <<Stage("overhang", "solver.am.overhang", OnMesh),
      Stage("printability", "solver.am.printability", OnMesh),
      Stage("buildtime", "solver.am.buildtime", OnMesh)>>

MachineOutput(process) ==
    CASE process = "fff" -> <<Stage("gcode", "writer.am.gcode", OnMesh)>>
      [] process \in {"sls", "lpbf"} -> <<Stage("slices", "writer.am.cli", OnMesh)>>
      [] OTHER -> <<>>

MarineStages ==
    <<Stage("hydrostatic", "solver.marine.hydrostatic", OnMesh),
      Stage("hull_collapse", "solver.marine.hull_collapse", OnMesh),
      Stage("corrosion", "solver.marine.corrosion", OnMesh),
      Stage("qualification", "writer.marine.qualification_report", OnField("corrosion"))>>

\* A depth or a marine application asks for the marine stages as well.
IncludesMarine(spec) ==
    spec.include_marine \/ spec.depth \/ spec.application \in {"hull", "propulsion", "piping"}

Report == <<Stage("report", "writer.am.report", OnField("buildtime"))>>

ProposedStages(spec) ==
       MeshSource(spec.lattice)
    \o (IF spec.process \in Polymer THEN PolymerStages ELSE MetalStages(spec.process))
    \o ManufacturabilityStages
    \o MachineOutput(spec.process)
    \o (IF IncludesMarine(spec) THEN MarineStages ELSE <<>>)
    \o Report

\* kKnownCapabilities: the ids the planner may emit.
is_known_capability(id) ==
    id \in {"mesher.am.layered", "postproc.am.bond_strength", "postproc.am.melt_pool",
            "postproc.am.residual_stress", "reader.lattice", "solver.am.buildtime",
            "solver.am.distortion.inherent_strain", "solver.am.overhang",
            "solver.am.polymer.fff", "solver.am.printability", "solver.am.thermal.lpbf",
            "solver.marine.corrosion", "solver.marine.hull_collapse",
            "solver.marine.hydrostatic", "writer.am.cli", "writer.am.gcode",
            "writer.am.report", "writer.marine.qualification_report"}

\* The verdict of a proposal, its last guard included.
propose_am_setup(spec) ==
    LET refused == SetupRefused(spec)
    IN  IF refused # "ok" THEN refused
        ELSE IF \E i \in DOMAIN ProposedStages(spec) :
                    ~is_known_capability(ProposedStages(spec)[i].plugin)
             THEN "INTERNAL" ELSE "ok"

-----------------------------------------------------------------------------
\* estimate_build_cost

defaults_for(process) ==
    CASE process = "fff"      -> {"process_layer_height", "print_speed", "road_width"}
      [] process = "ded_waam" -> {"process_layer_height", "road_width", "deposition_rate"}
      [] process = "sls"      -> Rates \ {"print_speed", "deposition_rate"}
      [] OTHER                -> {"scan_speed", "hatch_spacing", "process_layer_height"}

\* Positive after resolution: the call's own number, the staged machine's,
\* the process default, in this order.
Resolved(q, machine, process) ==
    {r \in Rates : \/ r \in q.positive
                   \/ r \notin q.zero /\ r \in (IF machine # NoMachine THEN machine
                                                ELSE defaults_for(process))}

\* The rates a process's time formula divides by.
Divisors(process) ==
    CASE process = "ded_waam" -> {"deposition_rate"}
      [] process = "fff"      -> {"road_width", "print_speed"}
      [] OTHER                -> {"hatch_spacing", "scan_speed"}

\* Mutant: the staged process is forgotten.
CostProcess_IgnoresSetup(q, setup) == IF q.process # "default" THEN q.process ELSE "lpbf"

CostProcess(q, setup) ==
    IF q.process # "default" THEN q.process
    ELSE IF setup.process # "none" THEN setup.process ELSE "lpbf"

\* q: the call; setup: session `manufacturing`; part: "none" (no mesh),
\* "flat" (a bounding box without volume) or "solid".
estimate_build_cost(q, setup, part) ==
    LET process  == CostProcess(q, setup)
        resolved == Resolved(q, setup.machine, process)
    IN  FirstFailure(
          <<Check(q.kind = "other", "INVALID_ARGUMENT"),
            Check(process \notin Processes, "INVALID_ARGUMENT"),
            Check(q.bad \in {"fill_fraction", "density"}, "INVALID_ARGUMENT"),
            Check("process_layer_height" \notin resolved, "INVALID_ARGUMENT"),
            Check(q.bad = "build_direction", "INVALID_ARGUMENT"),
            Check(part # "solid", "PRECONDITION_FAILED"),
            Check(~(Divisors(process) \subseteq resolved), "INVALID_ARGUMENT")>>)
=============================================================================
