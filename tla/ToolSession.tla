---------------------------- MODULE ToolSession -----------------------------
(***************************************************************************)
(* The agent's tools (src/src/ai/tools) over one ToolContext: the session  *)
(* bag they stage in, the mesh and field handles they leave for the next   *)
(* tool, and the reply to the last call.  One action per tool; the         *)
(* confirmation gate in front of them is in Agent.                         *)
(*                                                                         *)
(* An input is abstracted to its kind and to the one parameter a handler   *)
(* refuses ("nothing" when all are usable): every refusal of a parameter   *)
(* has the code INVALID_ARGUMENT.  A mesh is its number; a field is the    *)
(* capability that computed it, the meshes its values come from and        *)
(* whether the call chose parameters of its own.                           *)
(***************************************************************************)
EXTENDS BuildCost, FiniteSets

CONSTANTS
    Tags,          \* boundary tags
    Dirs,          \* build directions
    DefaultDir,    \* [0, 0, 1]
    Capabilities,  \* capabilities of the registry
    Hosts,         \* [wired, session]: ToolContexts a host may construct
    MaxBcs,        \* bound on staged boundary conditions
    MaxMaterials,  \* bound on staged materials
    MaxMeshes,     \* bound on meshes made in one session
    MaxToolCalls   \* bound on the calls of one session

VARIABLES
    wired,         \* registry and dispatcher are set
    session,       \* *session_state, see Session
    mesh,          \* mesh_handle: 0 or the number of the mesh
    flat,          \* the mesh's bounding box has no volume
    field,         \* field_handle: NoField or a field
    meshes,        \* meshes made so far
    made,          \* calls made so far (bounds the model)
    reply          \* to the last call: its code and what its answer rests on

toolVars == <<wired, session, mesh, flat, field, meshes, made, reply>>

Solver   == "solver.elasticity.linear"
Printer  == "solver.am.printability"
Collapse == "solver.marine.hull_collapse"
Corrosion == "solver.marine.corrosion"
Quality  == "postproc.mesh_quality"
Derived  == "postproc.scalar_magnitude"
Mesher   == "mesher.am.layered"
Writer   == "writer.vtu"

\* core::Field: these capabilities compute three numbers for every cell.
CellVector(f) == f.cap \in {Printer, Collapse, Corrosion, Quality}

NoField == [cap |-> "none"]
NoSetup == [process |-> "none", machine |-> NoMachine, dir |-> "none"]
NoAnswer == [tool |-> "none"]

EmptyMap == [kind |-> "map", bcs |-> <<>>, materials |-> 0, setup |-> NoSetup,
             geometry |-> FALSE]

Entry(type, tag) == [type |-> type, tag |-> tag, dir |-> "none", defect |-> "none"]

\* What may be wrong with an entry that a host put there: it is no map or has no string
\* tag or type, and is not looked at any further, or is an outlet without its pressure.
Unread == {"MALFORMED", "MISSING_TAG", "MISSING_TYPE"}

Entries == [type : {"dirichlet", "inlet", "wall", "outlet", "hydrostatic", "build_orientation"},
            tag : Tags, dir : Dirs \cup {"none"},
            defect : Unread \cup {"OUTLET_NEEDS_PRESSURE", "none"}]

Setups == [process : Processes \cup {"none"}, machine : (SUBSET Rates) \cup {NoMachine},
           dir : Dirs \cup {"none"}]

SessionBags == [kind : {"map", "null", "other", "absent"}, bcs : Seq(Entries),
             materials : 0..MaxMaterials, setup : Setups, geometry : BOOLEAN]

\* A host may start from any session it can express.
ASSUME ToolSessionAssumption ==
    /\ DefaultDir \in Dirs /\ "none" \notin Dirs
    /\ MaxBcs \in Nat /\ MaxMaterials \in Nat /\ MaxMeshes \in Nat /\ MaxToolCalls \in Nat
    /\ Hosts \subseteq [wired : BOOLEAN, session : SessionBags]
    /\ \A h \in Hosts : Len(h.session.bcs) <= MaxBcs

\* A session that is not a map is replaced by an empty one before staging.
AsMap == IF session.kind = "map" THEN session ELSE EmptyMap

ToolsInit ==
    /\ \E h \in Hosts : wired = h.wired /\ session = h.session
    /\ mesh = 0 /\ flat = FALSE /\ field = NoField /\ meshes = 0 /\ made = 0
    /\ reply = [code |-> "none", answer |-> NoAnswer]

-----------------------------------------------------------------------------
\* Results.

Returns(code, answer) == reply' = [code |-> code, answer |-> answer]

handles == <<mesh, flat, field, meshes>>

Fail(code) == Returns(code, NoAnswer) /\ UNCHANGED <<wired, session, handles>>

ReadOnly(answer) == Returns("ok", answer) /\ UNCHANGED <<wired, session, handles>>

Refused(in, kinds, params) == in.kind \notin kinds \/ in.bad \in params

-----------------------------------------------------------------------------
\* Boundary conditions and materials.

\* Rebuilds the map with one more entry at the end of boundary_conditions.
WithBc(s, e) == [s EXCEPT !.bcs = Append(@, e)]

\* Common to the tools that stage a boundary condition.
StageBc(refused, e) ==
    \/ refused /\ Fail("INVALID_ARGUMENT")
    \/ ~refused /\ session.kind = "absent" /\ Fail("INTERNAL")
    \/ /\ ~refused /\ session.kind # "absent"
       /\ Len(AsMap.bcs) < MaxBcs
       /\ session' = WithBc(AsMap, e)
       /\ Returns("ok", NoAnswer)
       /\ UNCHANGED <<wired, handles>>

set_bc(in, type, tag) ==
    StageBc(Refused(in, {"map"}, {"tag", "type", "value"}), Entry(type, tag))

apply_inlet(in, tag) ==
    StageBc(Refused(in, {"map"}, {"tag", "velocity", "pressure", "turbulence_intensity",
                                  "hydraulic_diameter"}),
            Entry("inlet", tag))

apply_wall(in, tag) ==
    StageBc(Refused(in, {"map"}, {"tag", "condition", "temperature", "roughness"}),
            Entry("wall", tag))

apply_outlet(in, tag) ==
    StageBc(Refused(in, {"map"}, {"tag", "condition", "pressure"}), Entry("outlet", tag))

HydrostaticParams == {"depth", "gravity", "salinity_psu", "seawater_temperature",
                      "seawater_density", "include_atmospheric", "atmospheric_pressure",
                      "depth_factors"}

\* The tag is looked at after the session has been made a map.
apply_hydrostatic_load(in, tag) ==
    \/ StageBc(Refused(in, {"map", "null"}, HydrostaticParams), Entry("hydrostatic", tag))
       /\ in.bad # "tag"
    \/ /\ in.kind = "map" /\ in.bad = "tag"
       /\ \/ session.kind = "absent" /\ Fail("INTERNAL")
          \/ /\ session.kind # "absent"
             /\ session' = AsMap
             /\ Returns("INVALID_ARGUMENT", NoAnswer)
             /\ UNCHANGED <<wired, handles>>

set_material(in) ==
    LET refused == Refused(in, {"map"}, {"tag", "model", "properties"})
    IN  \/ refused /\ Fail("INVALID_ARGUMENT")
        \/ ~refused /\ session.kind = "absent" /\ Fail("INTERNAL")
        \/ /\ ~refused /\ session.kind # "absent"
           /\ AsMap.materials < MaxMaterials
           /\ session' = [AsMap EXCEPT !.materials = @ + 1]
           /\ Returns("ok", NoAnswer)
           /\ UNCHANGED <<wired, handles>>

-----------------------------------------------------------------------------
\* validate_bcs: every entry is compared with the first one of its tag.

Readable(bcs) == {i \in DOMAIN bcs : bcs[i].defect \notin Unread}

FirstOfTag(bcs, i) ==
    CHOOSE j \in Readable(bcs) \cap (1..i) :
        /\ bcs[j].tag = bcs[i].tag
        /\ \A k \in Readable(bcs) \cap (1..(j - 1)) : bcs[k].tag # bcs[i].tag

\* Mutant: two entries of one type never conflict.
DuplicateTag_TypesOnly(bcs, i) ==
    i \in Readable(bcs) /\ bcs[FirstOfTag(bcs, i)].type # bcs[i].type

DuplicateTag(bcs, i) ==
    /\ i \in Readable(bcs) /\ FirstOfTag(bcs, i) # i
    /\ ~(bcs[FirstOfTag(bcs, i)].type = bcs[i].type /\ bcs[i].type = "wall")

CountOf(bcs, types) == Cardinality({i \in Readable(bcs) : bcs[i].type \in types})

\* The bag's verdict; a session that is absent or no map has no entries.
BagOk(bcs) == \A i \in DOMAIN bcs : bcs[i].defect = "none" /\ ~DuplicateTag(bcs, i)

\* NO_INLET and NO_OUTLET are warned of when CFD entries are staged, or none can be read.
Warnings(bcs) ==
    LET cfd == \/ CountOf(bcs, {"inlet", "outlet", "wall"}) > 0
               \/ Readable(bcs) = {} /\ bcs # <<>>
    IN  (IF bcs = <<>> THEN {"EMPTY"} ELSE {})
        \cup (IF cfd /\ CountOf(bcs, {"inlet"}) = 0 THEN {"NO_INLET"} ELSE {})
        \cup (IF cfd /\ CountOf(bcs, {"outlet"}) = 0 THEN {"NO_OUTLET"} ELSE {})

validate_bcs ==
    LET bcs == AsMap.bcs
    IN  ReadOnly([tool |-> "validate_bcs", ok |-> BagOk(bcs), warnings |-> Warnings(bcs)])

-----------------------------------------------------------------------------
\* Dispatching into plugins.

\* What every dispatching tool tests before its dispatch, in this order.
NotReady(cap, needsMesh, needsField) ==
    FirstFailure(<<Check(~wired, "INTERNAL"),
                   Check(cap \notin Capabilities, "PLUGIN_NOT_FOUND"),
                   Check(needsMesh /\ mesh = 0, "PRECONDITION_FAILED"),
                   Check(needsField /\ field = NoField, "PRECONDITION_FAILED")>>)

\* The dispatcher's answer: an error, a payload that is not what the tool
\* expects (of the wrong kind or, for the checks, the wrong shape), or a success.
Outcomes == {"error", "unexpected", "ok"}

DispatchCode(o) == CASE o = "error" -> "DISPATCH_FAILED" [] o = "unexpected" -> "INTERNAL"
                     [] o = "ok" -> "ok"

make_mesh(in, o, isFlat) ==
    LET code == FirstFailure(<<Check(Refused(in, {"map"}, {"capability_id"}), "INVALID_ARGUMENT"),
                               Check(NotReady(in.cap, FALSE, FALSE) # "ok",
                                     NotReady(in.cap, FALSE, FALSE)),
                               Check(o # "ok", DispatchCode(o))>>)
    IN  \/ code # "ok" /\ Fail(code)
        \/ /\ code = "ok"
           /\ meshes < MaxMeshes
           /\ meshes' = meshes + 1
           /\ mesh' = meshes'
           /\ flat' = isFlat
           /\ Returns("ok", NoAnswer)
           /\ UNCHANGED <<wired, session, field>>

\* A field computed on the session's mesh.
OnSessionMesh(cap, params) == [cap |-> cap, of |-> {mesh}, own |-> params]

KeepField(f) ==
    /\ field' = f
    /\ UNCHANGED <<wired, session, mesh, flat, meshes>>

\* The staged boundary_conditions go with the call; nothing else of the session does.
solve(in, o) ==
    LET code == FirstFailure(<<Check(Refused(in, {"map"}, {"capability_id"}), "INVALID_ARGUMENT"),
                               Check(NotReady(in.cap, TRUE, FALSE) # "ok",
                                     NotReady(in.cap, TRUE, FALSE)),
                               Check(o # "ok", DispatchCode(o))>>)
    IN  \/ code # "ok" /\ Fail(code)
        \/ code = "ok" /\ KeepField(OnSessionMesh(in.cap, in.own)) /\ Returns("ok", NoAnswer)

compute_field(in, o) ==
    LET code == FirstFailure(<<Check(Refused(in, {"map"}, {"capability_id"}), "INVALID_ARGUMENT"),
                               Check(NotReady(in.cap, TRUE, TRUE) # "ok",
                                     NotReady(in.cap, TRUE, TRUE)),
                               Check(o # "ok", DispatchCode(o))>>)
    IN  \/ code # "ok" /\ Fail(code)
        \/ /\ code = "ok"
           /\ KeepField([cap |-> in.cap, of |-> {mesh} \cup field.of, own |-> in.own])
           /\ Returns("ok", NoAnswer)

export_results(in, o, include) ==
    LET code == FirstFailure(<<Check(Refused(in, {"map"}, {"capability_id", "path"}),
                                     "INVALID_ARGUMENT"),
                               Check(NotReady(in.cap, TRUE, FALSE) # "ok",
                                     NotReady(in.cap, TRUE, FALSE)),
                               Check(o = "error", "DISPATCH_FAILED")>>)
    IN  \/ code # "ok" /\ Fail(code)
        \/ code = "ok" /\ ReadOnly([tool |-> "export_results",
                                    field |-> IF include THEN field ELSE NoField, mesh |-> mesh])

\* data: whether the field holds a finite value.
query_field(data) ==
    \/ field = NoField /\ Fail("PRECONDITION_FAILED")
    \/ field # NoField /\ ~data /\ Fail("NOT_AVAILABLE")
    \/ field # NoField /\ data /\ ReadOnly([tool |-> "query_field", field |-> field, mesh |-> mesh])

-----------------------------------------------------------------------------
\* Tools that summarise a field and compute it when the session has none.

\* check_printability goes by name.
reuse_session_field == field # NoField /\ CellVector(field) /\ field.cap = Printer

\* query_mesh_quality goes by shape.
reuse_existing_quality_field == field # NoField /\ CellVector(field)

Answer(tool, f, own) == [tool |-> tool, field |-> f, mesh |-> mesh, own |-> own]

PrintabilityRefused(in) ==
    Refused(in, {"map", "null"}, {"score_threshold", "number", "vec3"})

check_printability(in, o) ==
    LET code == FirstFailure(<<Check(NotReady(Printer, TRUE, FALSE) # "ok",
                                     NotReady(Printer, TRUE, FALSE)),
                               Check(o # "ok", DispatchCode(o))>>)
        fresh == OnSessionMesh(Printer, in.own)
    IN  \/ PrintabilityRefused(in) /\ Fail("INVALID_ARGUMENT")
        \/ /\ ~PrintabilityRefused(in)
           /\ \/ /\ ~in.own /\ reuse_session_field
                 /\ ReadOnly(Answer("check_printability", field, in.own))
              \/ /\ in.own \/ ~reuse_session_field
                 /\ \/ code # "ok" /\ Fail(code)
                    \/ /\ code = "ok"
                       /\ KeepField(fresh)
                       /\ Returns("ok", Answer("check_printability", fresh, in.own))

query_mesh_quality(o) ==
    LET code == FirstFailure(<<Check(NotReady(Quality, TRUE, FALSE) # "ok",
                                     NotReady(Quality, TRUE, FALSE)),
                               Check(o # "ok", DispatchCode(o))>>)
        fresh == OnSessionMesh(Quality, FALSE)
    IN  \/ /\ reuse_existing_quality_field
           /\ ReadOnly(Answer("query_mesh_quality", field, FALSE))
        \/ /\ ~reuse_existing_quality_field
           /\ \/ code # "ok" /\ Fail(code)
              \/ /\ code = "ok"
                 /\ KeepField(fresh)
                 /\ Returns("ok", Answer("query_mesh_quality", fresh, FALSE))

\* The capabilities the call asked for, in the order they are dispatched.
Wanted(checks) == (IF Collapse \in checks THEN <<Collapse>> ELSE <<>>)
                  \o (IF Corrosion \in checks THEN <<Corrosion>> ELSE <<>>)

MarineRefused(in) == Refused(in, {"map", "null"}, {"checks", "unusable"})

\* Mutant: each check leaves its field on the session as it finishes.
check_marine_integrity_KeepsEach(in, checks, outcome) ==
    LET wanted == Wanted(checks)
    IN  /\ wired /\ mesh # 0 /\ checks \subseteq Capabilities
        /\ ~MarineRefused(in)
        /\ \/ /\ \A c \in checks : outcome[c] = "ok"
              /\ KeepField(OnSessionMesh(wanted[Len(wanted)], in.own))
              /\ Returns("ok", NoAnswer)
           \/ /\ outcome[wanted[Len(wanted)]] # "ok"
              /\ IF Len(wanted) = 2 /\ outcome[Collapse] = "ok"
                 THEN KeepField(OnSessionMesh(Collapse, in.own))
                 ELSE UNCHANGED <<wired, session, handles>>
              /\ Returns(DispatchCode(outcome[wanted[Len(wanted)]]), NoAnswer)

check_marine_integrity(in, checks, outcome) ==
    LET wanted == Wanted(checks)
        code == FirstFailure(
                  <<Check(MarineRefused(in), "INVALID_ARGUMENT"),
                    Check(~wired, "INTERNAL"),
                    Check(~(checks \subseteq Capabilities), "PLUGIN_NOT_FOUND"),
                    Check(mesh = 0, "PRECONDITION_FAILED")>>
                  \o [i \in DOMAIN wanted |-> Check(outcome[wanted[i]] # "ok",
                                                    DispatchCode(outcome[wanted[i]]))])
    IN  \/ code # "ok" /\ Fail(code)
        \/ /\ code = "ok"
           /\ KeepField(OnSessionMesh(wanted[Len(wanted)], in.own))
           /\ Returns("ok", NoAnswer)

-----------------------------------------------------------------------------
\* Manufacturing.

\* Mutant: the session is rebuilt from the setup alone.
ProposeSetup_DropsOthers(spec) ==
    LET code == propose_am_setup(spec)
    IN  \/ code # "ok" /\ Fail(code)
        \/ /\ code = "ok"
           /\ session' = IF session.kind = "absent" THEN session
                         ELSE [EmptyMap EXCEPT !.setup = StagedSetup(spec)]
           /\ Returns("ok", NoAnswer)
           /\ UNCHANGED <<wired, handles>>

\* propose_am_setup's effect: `manufacturing` is replaced as a whole.
ProposeSetup(spec) ==
    LET code == propose_am_setup(spec)
    IN  \/ code # "ok" /\ Fail(code)
        \/ /\ code = "ok"
           /\ session' = IF session.kind = "absent" THEN session
                         ELSE [AsMap EXCEPT !.setup = StagedSetup(spec)]
           /\ Returns("ok", NoAnswer)
           /\ UNCHANGED <<wired, handles>>

OrientationRefused(in) ==
    Refused(in, {"map", "null"}, {"overhang_threshold_deg", "weights", "candidates"})

\* The directions that can rank first: without a mesh every candidate scores the same
\* and the first one wins, the caller's own before the built-in [0, 0, 1].
Winners(own) == IF mesh = 0 /\ ~own THEN {DefaultDir} ELSE Dirs

\* The winner is an entry of boundary_conditions and the direction of `manufacturing`,
\* whose other keys are kept.
set_build_orientation(in, tag, winner) ==
    \/ OrientationRefused(in) /\ Fail("INVALID_ARGUMENT")
    \/ /\ ~OrientationRefused(in)
       /\ winner \in Winners(in.own)
       /\ session.kind # "absent" => Len(AsMap.bcs) < MaxBcs
       /\ session' = IF session.kind = "absent" THEN session
                     ELSE [WithBc(AsMap, [Entry("build_orientation", tag) EXCEPT !.dir = winner])
                            EXCEPT !.setup.dir = winner]
       /\ Returns("ok", NoAnswer)
       /\ UNCHANGED <<wired, handles>>

Part == IF mesh = 0 THEN "none" ELSE IF flat THEN "flat" ELSE "solid"

EstimateCost(q) ==
    LET code == estimate_build_cost(q, AsMap.setup, Part)
    IN  \/ code # "ok" /\ Fail(code)
        \/ code = "ok" /\ ReadOnly(NoAnswer)

-----------------------------------------------------------------------------
\* Tools that only look.

read_geometry_summary(inline) ==
    \/ (inline \/ AsMap.geometry) /\ ReadOnly(NoAnswer)
    \/ ~inline /\ ~AsMap.geometry /\ Fail("NOT_AVAILABLE")

list_plugins == \/ ~wired /\ Fail("INTERNAL")
                \/ wired /\ ReadOnly(NoAnswer)

screenshot_viewport == Fail("NOT_AVAILABLE")

-----------------------------------------------------------------------------
\* Inputs: their kind, the refused parameter, the capability they name and
\* whether they carry parameters of their own.
Inputs(param, caps) ==
    {in \in [kind : {"map", "null", "other"}, bad : {"nothing", param},
             cap : caps \cup {"none"}, own : BOOLEAN] :
       IF in.kind = "map" /\ in.bad = "nothing" THEN in.cap \in caps
       ELSE (in.kind = "map" \/ in.bad = "nothing") /\ in.cap = "none" /\ ~in.own}

Plain(param) == {in \in Inputs(param, {"none"}) : ~in.own}

\* A number of the call replaces a machine's rate by zero or by a positive one.
Overrides == {[zero |-> {}, positive |-> {}], [zero |-> {"hatch_spacing"}, positive |-> {}],
              [zero |-> {}, positive |-> {"print_speed", "road_width"}]}

Proposal(process, o, d) ==
    [kind |-> "map", process |-> process, material |-> "default", bad |-> "nothing",
     zero |-> o.zero, positive |-> o.positive, dir |-> d, lattice |-> FALSE,
     include_marine |-> FALSE, depth |-> FALSE, application |-> "none"]

Specs == {Proposal("lpbf", o, DefaultDir) : o \in Overrides}
         \cup {Proposal(p, [zero |-> {}, positive |-> {}], d) : p \in Processes \cup {"unknown"},
                                                               d \in Dirs}

CostQueries == {[kind |-> "map", process |-> p, bad |-> b, zero |-> o.zero, positive |-> o.positive] :
                  p \in {"default", "fff"}, b \in {"nothing"}, o \in Overrides}
               \cup {[kind |-> "null", process |-> "default", bad |-> "density", zero |-> {},
                      positive |-> {}]}

StagingTools ==
    \/ \E in \in Plain("tag"), tag \in Tags :
          \/ set_bc(in, "dirichlet", tag)
          \/ apply_inlet(in, tag)
          \/ apply_wall(in, tag)
          \/ apply_outlet(in, tag)
          \/ apply_hydrostatic_load(in, tag)
    \/ \E in \in Plain("model") : set_material(in)
    \/ validate_bcs
    \/ \E in \in Inputs("weights", {"none"}), tag \in Tags, d \in Dirs :
          set_build_orientation(in, tag, d)
    \/ \E spec \in Specs : ProposeSetup(spec)

PluginTools ==
    \/ \E o \in Outcomes :
          \/ \E in \in Inputs("capability_id", {Mesher, "missing"}), isFlat \in BOOLEAN :
                make_mesh(in, o, isFlat)
          \/ \E in \in Inputs("capability_id", {Solver, Printer, "missing"}) : solve(in, o)
          \/ \E in \in Inputs("capability_id", {Derived, "missing"}) : compute_field(in, o)
          \/ \E in \in Inputs("path", {Writer, "missing"}), include \in BOOLEAN :
                export_results(in, o, include)
          \/ \E in \in Inputs("vec3", {"none"}) : check_printability(in, o)
          \/ query_mesh_quality(o)
    \/ \E in \in Inputs("unusable", {"none"}), checks \in (SUBSET {Collapse, Corrosion}) \ {{}} :
          \E outcome \in [checks -> Outcomes] : check_marine_integrity(in, checks, outcome)

LookingTools ==
    \/ \E data \in BOOLEAN : query_field(data)
    \/ \E q \in CostQueries : EstimateCost(q)
    \/ \E inline \in BOOLEAN : read_geometry_summary(inline)
    \/ list_plugins
    \/ screenshot_viewport

ToolsNext ==
    /\ made < MaxToolCalls
    /\ made' = made + 1
    /\ StagingTools \/ PluginTools \/ LookingTools

ToolsSpec == ToolsInit /\ [][ToolsNext]_toolVars

-----------------------------------------------------------------------------
\* Properties.

Fields == [cap : Capabilities, of : SUBSET (1..MaxMeshes), own : BOOLEAN]

\* The type invariant: a handle names a mesh that was made, a field rests on such meshes
\* and was computed by a capability of the registry.
ToolsTypeOK ==
    /\ wired \in BOOLEAN /\ flat \in BOOLEAN
    /\ session \in SessionBags /\ Len(session.bcs) <= MaxBcs
    /\ meshes \in 0..MaxMeshes /\ mesh = meshes
    /\ field = NoField \/ (field \in Fields /\ field.of # {} /\ field.of \subseteq 1..meshes)
    /\ made \in 0..MaxToolCalls

\* A tool that reports an error has changed nothing: neither the session bag nor a handle
\* (the tools stage and store their handles last).  apply_hydrostatic_load with an
\* unusable tag may have turned a session that was no map into an empty one.
FailedToolsChangeNothing ==
    [][reply'.code # "ok" =>
         /\ UNCHANGED handles
         /\ session' = session \/ (session.kind # "map" /\ session' = EmptyMap)]_toolVars

\* No tool loses what an earlier one staged: boundary conditions are appended one at a
\* time, materials only grow, geometry stays, and a setup is only replaced by a setup
\* (with_key rebuilds the map with every other key kept).
StagingKeepsTheRest ==
    [][session.kind = "map" =>
         /\ IsPrefix(session.bcs, session'.bcs) /\ Len(session'.bcs) <= Len(session.bcs) + 1
         /\ session'.materials >= session.materials
         /\ session'.geometry = session.geometry
         /\ session.setup # NoSetup => session'.setup # NoSetup]_toolVars

\* The verdict of validate_bcs, which compares entries with the first of their tag only,
\* is that of comparing all pairs: ok exactly when no entry is defective and two entries of
\* one tag are both walls.
ValidatorIsExact ==
    BagOk(AsMap.bcs) <=>
       /\ \A i \in DOMAIN AsMap.bcs : AsMap.bcs[i].defect = "none"
       /\ \A i, j \in DOMAIN AsMap.bcs :
            (i < j /\ AsMap.bcs[i].tag = AsMap.bcs[j].tag) =>
               AsMap.bcs[i].type = "wall" /\ AsMap.bcs[j].type = "wall"

\* A proposal that keeps its preset's rates can be costed on a solid mesh without further
\* parameters, whatever was staged between the two calls.
SetupCostable ==
    LET setup == AsMap.setup
        ask   == [kind |-> "null", process |-> "default", bad |-> "nothing",
                  zero |-> {}, positive |-> {}]
    IN  (setup.process \in Processes /\ preset_for(setup.process) \subseteq setup.machine)
           => estimate_build_cost(ask, setup, "solid") = "ok"
=============================================================================
