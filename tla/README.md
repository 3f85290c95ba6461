# souxmar: specifications, model checks and proofs

souxmar is a CAD/FEM/CFD workbench: a C++ engine that runs pipelines of plugin
stages, an AI agent that drives the engine through tools, an auto-updater, a CLI
and a Tauri desktop app on top. This directory models the parts of it whose
correctness depends on order (of threads, of file operations, of user actions)
and says what was checked with TLC and what was proved with TLAPS.

`PROJECT.json` lists the components, the runs, the mutants that show that each
property can fail, the source lines behind each definition (`map`), the hazards
and the theorems.

## 1. Inventory

| Component | Source | State | Operations | Hard part | What makes it correct |
|---|---|---|---|---|---|
| Pipeline validation | `src/src/pipeline/dag.cpp` | none | `validate` | duplicate, empty, unknown ids; cycles | accepted iff well-formed and acyclic; stable order |
| Parallel runner | `pipeline/parallel_runner.cpp` | ready queue, in-degrees, results, hashes, outputs, counters, stop flag under one mutex | worker loop, `process_stage`, join | threads, condition variable, failure while others run | no stage lost or run twice; upstream first; it returns |
| Sequential runner | `pipeline/runner.cpp` | results, outputs | `run_pipeline` | failures, cache hits | same promise as the parallel one |
| Reentrancy guard | `parallel_runner.cpp` 35-55 | mutex per plugin id | `acquire` | locks made on demand | calls into a serial plugin never overlap |
| Stage caches | `pipeline/cache.cpp` | keys in memory and on disk | lookup, put, `hash_inputs` | two stages, one key; torn blobs; edits between runs | keys do not depend on the schedule; a hit is what a fresh run gives |
| Registry dispatcher | `pipeline/registry_dispatcher.cpp` | handles in flight | `dispatch`, `(de)serialize_stage_output` | plugins that raise or fail half-way | every handle is freed or owned once |
| Update policy | `updater/state_machine.cpp` | none | `apply_gate` | nine ordered checks | never below what was installed |
| Update apply, rollback, gc | `updater/apply.cpp`, `install_layout.cpp`, `rollback_log.cpp`, `update_state.cpp` | `current.txt`, `previous.txt`, `versions/`, rollback log, state file | stage, switch, log, gc, save | crash or failure between any two file operations | undoable; records agree; payload of what is installed stays |
| Subprocess harness | `plugin-host/subprocess.cpp` | working directory, pipes, child | `run_subprocess` | children, timeouts, shared descriptors and directory | all is cleaned up, output complete, directory restored |
| Agent loop | `ai/agent.cpp` | history, pending call, queue, step budget | `run_agent_turn`, `resume_agent_turn` | suspension in the middle of an answer | well-formed requests, each call settled once |
| Tool dispatcher | `ai/tool_dispatcher.cpp` | confirmation policy | `dispatch_tool` | gate decided twice (loop, dispatcher) | guarded tools only after approval |
| Chat bridge and panel | `c-bridge/provider.cpp`, `desktop/src/chat/Chat.tsx` | session per project; card, projectId | `chat_send`, `chat_confirm`, `decide` | answers arrive in a later call | the answer settles what was asked |
| CLI | `cli/main.cpp` | none of its own | `update *`, `agent chat`, `agent invoke`, others | order of load, act, save | with the components above |
| Plugin host | `plugin-host/` manifest, discovery, loader, registry, guard, conformance | registry, open libraries, loaded plugins | discover, load, register, unload, conformance checks | failure half-way, order of directories, unload order | what is registered is backed by an open library; nothing is replaced; the process ends clean |
| AI tools | `ai/tools/*.cpp` | the session map, mesh and field handles of `ToolContext` | some twenty handlers | each rebuilds the whole map; results of one feed another | a failed tool changes nothing; staging keeps the rest; what one tool stages another can use |
| Example plugins | `src/examples/plugins/*` | handles, work directories, output files | entry points of meshers, solvers, readers, writers | some sixty early returns; geometry with copies in four plugins | nothing leaks; a refusal keeps the old file; the copies agree and conserve area, volume, balance |
| Audit log, budget, heap accountant | `ai/audit_log.cpp`, ... | append-only file | `append`, `record` | - | not modelled |
| Providers, crypto, manifest, fetcher, parser, core data, shim, bindings, services, desktop shell | see `components` | mostly none | conversions and wrappers | formats | not modelled, see section 8 |

How they interact: the CLI and the bridge call `validate` and a runner; a runner's
workers share the caches, the guard and the dispatcher, which calls plugins, some
of which call `run_subprocess`. The plugin host fills the registry the dispatcher
looks capabilities up in. The agent's tools are called through `dispatch_tool`,
share one session, and call solvers of the registry themselves. The panel calls the bridge through Tauri commands, one at a time.
The updater's commands communicate only through files.

## 2. Modules

| Module | Models | Checked by |
|---|---|---|
| `UpdateGate` | `apply_gate` and the replay floor | through `Updater` |
| `Updater` | `update check/apply/rollback`, one action per file operation, crashes and I/O faults | `MCUpdater` |
| `UpdaterProofs` | theorems about `Updater` | TLAPS |
| `PipelineRun` | abstract: what any run of a pipeline promises | refined by both runners |
| `ParallelRunner` | worker pool, one action per critical section or shared object touched | `MCParallelRunner` |
| `ParallelRunnerProofs` | theorems about `ParallelRunner` | TLAPS |
| `Dag` | `validate`: id checks, Kahn's queue, cycle report, one action per queue step | `MCPipeline` |
| `DagProofs` | theorems about `Dag` | TLAPS |
| `IndexLemmas` | least and greatest index, what holds along a sequence, terms over an order | TLAPS |
| `Dispatcher` | namespaces, slots and kinds of stage references, what a guarded plugin call may leave | through `CachedRuns` |
| `CachedRuns` | `run_pipeline`, several runs with memory and disk cache, handles, edits and process ends between them | `MCPipeline` |
| `CachedRunsProofs` | theorems about `CachedRuns` | TLAPS |
| `PluginManifest` | `plugin.toml`: the checks of the parser, in order | through `PluginHost` |
| `PluginHost` | discovery, load, registration, unload; the conformance suite as a function | through `HostedPlugins` |
| `PluginHostProofs` | theorems about `PluginHost` and `PluginCalls` | TLAPS |
| `Subprocess` | `run_posix`, its children, concurrent calls | `MCSubprocess` |
| `SubprocessProofs` | theorems about `Subprocess` | TLAPS |
| `Agent` | `run_loop`, suspend, resume, `dispatch_tool` | through `ChatBridge` |
| `ChatBridge` | extends `Agent` with the panel, the bridge's sessions and the two CLI commands | `MCChatBridge` |
| `ChatProofs` | theorems about `ChatBridge`, `Agent` and `ToolSession` | TLAPS |
| `Checks` | "test in order, report the first defect" | through its users |
| `BuildCost` | presets and arithmetic guards of `propose_am_setup` and `estimate_build_cost` | through `ToolSession` |
| `ToolSession` | the tools, one action each, over the session map | `MCToolSession` |
| `PluginSteps` | the vocabulary of a plugin's entry point: test, take, give back, open, write | through `PluginCalls` |
| `AdditivePlugins`, `SolverPlugins`, `SlicerPlugins` | the entry points of the example plugins, as programs of steps | through `PluginCalls` |
| `Facets` | face tables and boundary extraction, three copies | through `PluginResults` |
| `VoxelMeshers`, `Layers`, `FiniteElements`, `CfdBoundaries`, `SurfaceReaders`, `Slicing` | what the plugins compute: meshes, layers, the linear system, OpenFOAM files, CFD roles, STL/OBJ surfaces, slices and toolpaths | through `PluginResults` |
| `PluginCalls` | the host calling entry points, each step of which may fail or throw | through `PluginOutcomes` |
| `PluginResults` | sample inputs and what relates the results | through `PluginOutcomes` |
| `PluginOutcomes` | `PluginCalls`, and what a call that succeeds has computed | through `HostedPlugins` |
| `HostedPlugins` | composes `PluginHost` and `PluginOutcomes`: while the host's pipeline runs, its plugins are called | `MCPluginHost` |

### Correspondence with the code

*Updater.* A process has a program counter `pc` and a `job` (its locals: what it
loaded, what it will install). `current`, `previous`, `payload`, `rollbackLog`
and `stateFile` are the files. Every rename, removal and write is one action and
may fail if its kind is among the faults of the `machine` (a rigid variable: what
may fail, which manifests and overrides a command may be given): `io` (an operation reports an error), `rename`,
`log` and `save` (the log or the state file cannot be written), `full` (a write
reports success and leaves an empty file, as a buffered stream does whose error
surfaces in its destructor), `crash` (the process dies between two operations).
Versions and instants are numbers, `Empty` and `Malformed` besides.

*ParallelRunner.* The fields of `ParallelState` keep their names. One action per
critical section under `mu`; outside of it one action per shared object: hash the
inputs, look up memory, look up disk, snapshot the outputs, take the plugin's
lock, dispatch, put, put on disk, publish. The FIFO ready queue is a set: more
schedules than the code has, so what holds here holds there. A key is the tuple
of what `hash_inputs` digests, i.e. SHA-256 is taken as injective.

*Subprocess.* A call opens its pipes, prepares arguments and environment, saves and
changes the directory, spawns, restores, closes the child's ends, writes stdin, polls,
drains and waits. Each step has the failures the code meets there: the system call
that fails (`Fail`), the allocation that throws past `run_posix` into the handler of
`run_subprocess` (`Throw`, with pipes and child as they are), a directory that cannot
be saved or entered again (both are ignored by the code), a `poll` that fails. What may
fail in a call is its `Faults`. `Read` is one `read` of a drain, `EndOfData` its last
one, and `CloseStream` the append and the close after it, so that a child may write
between any two. `mishaps` is a history of what went wrong unnoticed. A child may
read, write, close its streams (all three, as one that goes on in the background
does) and exit when it likes. Descriptors are not close-on-exec, so `SpawnedEnds`
gives a child also what other calls have open at that moment. Data is counted in
units of one read; opening the three pipes is one step. SIGPIPE is taken to be
ignored, as in the desktop's process.

*Agent and ChatBridge.* A call is an id and a tool name, a message is a role and
ids. `steps_used < limit` stands for the loop counter: `limit` is set on entry
from `max_steps` and what earlier legs used. `overrides` is a set because all
callers override only to `Auto`. A desktop turn is one call on the app's main
thread under `sessions_mutex`, hence no other panel action happens while it runs.
`granted`, `allowed`, `consented`, `ran` and `shown` are history variables.

*CachedRuns.* A stage is looked up, dispatched, settled and persisted in separate
steps. A result is the term of what it was computed from, so that `FreshWork` can
compare a hit with a run from scratch; handles are named by run, stage and kind
and counted in `live`. The process may end at any step; the user edits or deletes
files only between runs.

*PluginHost.* Directories hold contents chosen at the start from a list in
`MCPluginHost` with one entry per way a manifest, a binary or a register function
can be wrong; a file name is its number of leading `lib`s and its extensions. `load` is one step: nothing else runs in the process while a plugin
registers. Discovery may return the directories of a root in any order. `AbiWidth`
scales the 32-bit narrowing of `plugin.abi`.

*ToolSession.* The session map keeps the keys the tools read or write; numbers are
kept as "zero", "positive" or "missing", which is what the tools divide by or
refuse. Fields carry the kind and the mesh they were computed for. A host may start with
boundary conditions that its bindings made and `validate_bcs` calls defective.

*Plugins.* An entry point is a sequence of steps (refuse, take, give back, work
that may throw, open, write, commit). `PluginCalls` runs it with every test, every
allocation and every write free to fail. `Throws` stands wherever the function, or
the host's `souxmar_mesh_add_cell` on its behalf, allocates: an exception is caught
by the innermost handler of the function, or leaves it for `guard_call` with
what is held still held. Opening a file truncates it; the stream's own buffer is
allocated after that, and may throw too. `PluginOutcomes` adds `result`, which when a
call succeeds is what the plugin computes for one of the sample inputs: the algorithms over integer
coordinates, with tolerances zero. The physics between the steps (temperatures,
stresses, flow) is left out.

*HostedPlugins.* Calls are made only while the host's pipeline runs, and it does not end
within one. They are those of the example plugins, whose registrations are
lists of capabilities; which of them the registry holds is `PluginHost`'s matter.

*MCPipeline.* `validate` checks a pipeline; if it is the one that `CachedRuns` runs and
is accepted in its order, the runs follow.

## 3. Runs

Passing:

| Run | Instance | Shows |
|---|---|---|
| `updater` | four versions; three machines: *Careful* (eight manifests, one for each field of the gate, operations that fail and say so, four log entries), *Crashing* (crashes, lost log and state writes, two entries), *Tearing* (full disk, failing renames, removals that work, crashes, overrides, three versions, two entries) | on Careful `ReplayDefence`, `AppliedIsReversible`, `RecordsAgree`; on Careful and Crashing `AgreedCurrentHasPayload`, `FloorNeverRegresses` (the floor on all); on Tearing `LeftoversAreReaped` |
| `runner` | two branches of five stages, the first two with one key and one serial plugin, three workers, warm memory and disk caches, failures that stop the run | `TypeOK`, `KeysMatchSequential`, `SerialPluginsExclusive`, `UpstreamBeforeDispatch`, `StageAccounting`, and `ImplementsRun` with its liveness: the run returns |
| `pipeline` | `validate`: all graphs over four of five ids; all pipelines of four stages with empty, equal and unknown ids and at most one reference per stage. Then five stages (reader, mesher, solver, postproc, writer), three runs, two contents of the input file or none, both caches, torn and failed puts, process ends | `ValidateIsExact` (accepted iff well-formed and acyclic; the cycle error names the cycles and what depends on them), `OrderIsStable`; `HandlesOwned`, `CachedIsFresh`, `ImplementsRun` |
| `plugin_host` | three directories in two roots, each with any of its sample contents; from one of them every entry point of the example plugins is called, with sample boxes, grids, solids, layers, slices, flows, loads, STL and OBJ files | `RegisteredAreBacked`, `ConformantPluginsCoexist`, `HostEnds`; `NothingLeaks`, `RefusalsKeepTheFile`; `GeometryIsKept` (`SkinIsClosed`, `MeshersFillTheBox`, `TagsNameSidesAndLayers`, `LayersResolveAlike`, `StlKeepsTheSurface`, `ObjReadersAgree`); `PartIsPrinted` (`SlicesKeepTheVolume`, `SweepMissesNothing`, `InfillIsTheInside`, `ToolpathReplays`); `SolversGetTheProblem` (`StiffnessBalances`, `EliminationKeepsTheSystem`, `TractionsCoverTheSide`, `PolyMeshIsValid`, `NodesTakeTheStrongestRole`) |
| `tool_session` | hosts fully wired, with parts missing and with defective boundary conditions, two tags, three boundary conditions, two meshes, four calls of any tools | `ValidatorIsExact`, `SetupCostable`, `FailedToolsChangeNothing`, `StagingKeepsTheRest` |
| `subprocess` | a call with directory, stdin and stdout of two units each, timeout, cap of one, in which memory, save, restore and poll may fail, and one call without; pipes of one unit; every system call may fail | `NothingLeftBehind`, `OutputIsComplete`, `DirectoryRestored`, `TimedCallReturns` |
| `chat` | two projects, a tool of each level and an unknown one, answers of up to two calls, four calls in all, `max_steps` two; desktop, terminal, `--yes` and `invoke` | `RequestsAreWellFormed`, `ToolsRunOnceInOrder`, `OnlyApprovedToolsRun`, `LoopAndDispatcherAgree`, `NoSilentChange` |

The type invariants of the modules other than `ParallelRunner` (`TypeOK`, in
`ToolSession` `ToolsTypeOK`, in `PluginCalls` `CallsTypeOK`) are left out of the
configurations, which keep to what could be wrong in the code. All of them are
proved (section 4). The compound properties of `pipeline` and `plugin_host`
have a mutant for each of their parts.

Expected violations, each a sentence of the repository that the code does not keep:

| Run | Property | What happens |
|---|---|---|
| `updater_reapply` | `RolledBackIsNotReapplied` | the floor equals the version rolled back from and the gate refuses only what is below it, so the same manifest is accepted again |
| `subprocess_dirs` | `SafeAcrossStages` | two plugins, each with its own lock, change the host's directory at the same time |
| `subprocess_cap` | `CapPerStream` | each poll drains a stream with the full cap, so a child that writes twice is captured beyond it, and no flag is set |
| `chat_budget` | `HardCeiling` | a turn suspended in its last step is resumed with one step, beyond `max_steps` |
| `chat_switch` | `ApprovalMatchesCard` | turns suspended in two projects; the card of one is answered while the other is open |

### Why the bounds are enough

- Updater: a second apply is needed for `previous.txt`, a third for gc to have
  a victim, a rollback to separate floor and current version: four versions. The
  log bound `max_log` limits the number of switches, not of commands that fail.
- Parallel runner: three workers are one more than the width of the graph, so one
  sleeps; a failing stage finds another running, another ready and one that is not
  ready. Failures that do not stop the run are covered by the proofs, which hold
  for both values of the option.
- Validation: a cycle of three with something upstream, something downstream or a
  second cycle takes four stages; the fifth one is there because the run has five.
- Cached runs: an edit needs two runs to make an entry stale and a third to come
  back to the first content; one stage of each namespace has every kind of output.
- Plugin host: two plugins of one root for the order, a third in an earlier root for
  priority. The contents include equal ids, equal capabilities and the wrap-around of
  `abi`.
- Tools: a tool that stages, one that replaces the mesh, one that fails and one that
  reports make four calls; three boundary conditions are the least for a
  conflict between the second and the third.
- Plugins: the number of calls is not bounded. The sample solids have the four
  types of volume cells, one mesh that mixes three of them, a cell listed inside out
  and inner faces; the slices a hole, an island in it and planes through corners.
- Subprocess: stdin is longer than the pipe so that the write can block; output
  longer than the cap and the pipe so that it truncates; one concurrent call, whose
  child inherits pipe ends. stderr stays silent, yet its end of file and hang-up come
  with, before or after those of stdout.
- Chat: two calls per answer make a queue behind a pending call, four calls allow
  three answers, with `max_steps` two one of them over the budget; two projects
  are the least that can be confused.

Deadlock checking is off where the system ends (a run returns, all calls are done,
the model's ids or calls are used up) and on in the updater, which always accepts a
command, and in the plugin host, whose end is a step.

### Fairness

`ParallelRunner`: weak fairness of each worker's steps and of the join. It
means: the OS schedules threads, plugin calls return, and a mutex that is free is
obtained. The wait on the condition variable is not a spinning loop: a sleeper
steps only when notified, so the liveness half of `ImplementsRun` depends on every
`notify_all`. `PluginHost`: the process goes on, a register call returns, and so does the pipeline
with the calls it makes (`HostedPlugins` adds no fairness of its own).
`Subprocess`: host threads go on and a poll with a timeout returns; nothing is
assumed of children. The updater, validation, the sequential runner, the agent and
the tools have safety properties only.

## 4. What is proved

Every safety property of the passing runs is proved, for all values of the
constants, except the three compound properties of `plugin_host` about results
(section 5). The
assumptions named in a module (`UpdaterAssumption`, `DagAssumption`, ...) are those
its constants must satisfy; they say what kind of value a constant is, and TLC
evaluates them in the runs. Hypotheses beyond those are named below.

### Updater (`UpdaterProofs`)

| Theorem | Statement |
|---|---|
| `TypeInvariance`, `TypeCorrect` | `Spec => []Typed`, `Spec => []TypeOK`, for any number of commands at once |
| `Invariance` | `OneCommand` gives `Spec => []IInv` |
| `NoReplay` | `OneCommand` gives `Spec => []ReplayDefence` |
| `ApplyCanBeUndone` | `OneCommand` gives `Spec => []AppliedIsReversible` |
| `RecordsTellTheSame` | `OneCommand` gives `Spec => []RecordsAgree` |
| `InstalledIsThere` | `OneCommand` gives `Spec => []AgreedCurrentHasPayload` |
| `FloorIsMonotone` | `OneCommand` gives `Spec => FloorNeverRegresses` |
| `LeftoversGo` | `OneCommand` gives `Spec => []LeftoversAreReaped` |

`OneCommand` says that there is one process: the code takes no lock on the install
root and each command keeps what it loaded at its start, so that two at once can
overwrite each other's state file. Versions, manifests, machines and the log are
arbitrary. As in the runs, a property holds on machines with certain faults: those
that report their failures, for the three about the log; those without torn writes,
for the payload; those whose removals work, for gc; all, for the floor. `AppliedIsReversible` also supposes that
no `--current-version` was given.

Argument. Between the operations of a command the records disagree, so the
invariant says of each phase which of them the command has already
written (`NotYet`, `Recorded`, `Accounted`): the log is a chain whose last version
is the current one except between the flip and the append, and no version that was
ever in place, in the log or in `previous.txt`, is above the floor the command
carries (`BelowFloor`). The gate admits nothing below that floor, hence
`ReplayDefence`. `Present` and `Undoable` follow the version from the staging
to the end of the command, `Unreferenced` the victim of gc from its choice to its removal.
`Reaping` says of a command in gc that what is on disk is named by a marker, on its
list or in its hand; hence `LeftoversGo`, whatever earlier commands left.

### Pipeline validation (`DagProofs`)

| Theorem | Statement |
|---|---|
| `Invariance` | `ValidateSpec => []IInv` |
| `TypeCorrect` | `ValidateSpec => []ValidateTypeOK`: no in-degree goes below zero |
| `OrderIsDetermined` | `ValidateSpec => []OrderIsStable` |
| `KahnIsExact` | `ValidateSpec => []ValidateIsExact` |
| `AcceptedIsRunnable` | `ValidateSpec => []Runnable` |

For pipelines of any length, well-formed or not. The invariant is Kahn's: the
in-degree of a stage counts its producers that are not ordered (`Counted`), the
ready queue is sorted and holds exactly the unordered stages with none (`Waiting`,
`Sorted`). `ValidateIsExact` speaks of cycles by reachability, the
references within `n` steps, and the proof relates the two: this set closes after as
many steps as there are stages (`UpstreamCloses`, by cardinality); a stage with
everything upstream ordered is not on a cycle (`OrderedUpstream`); and where the
queue runs dry, a stage whose upstream set is least among those that remain
depends on itself (`CyclesRemain`). So what the cycle error names is what is on a
cycle or downstream of one.

`AcceptedIsRunnable` closes the gap to the runners: an accepted order lists every
stage once, after what it refers to, and whatever the stages contribute to it, the
recursion of keys along the references has a solution. That is what
`CachedRunsAssumption` and `KeysAssumption` assume below.

### Parallel runner (`ParallelRunnerProofs`)

For every finite pipeline, any number of workers and
all cache, plugin and failure configurations:

| Theorem | Statement |
|---|---|
| `Invariance` | `Spec => []IInv` |
| `TypeCorrect` | `Spec => []TypeOK` |
| `AccountingHolds` | `Spec => []StageAccounting` |
| `DispatchAfterUpstream` | `Spec => []UpstreamBeforeDispatch` |
| `ReentrancyGuardWorks` | `Spec => []SerialPluginsExclusive` |
| `KeysAreSequential` | `Spec => []KeysMatchSequential` |
| `RunnerImplementsRun` | `Spec => ImplementsRunSafely`: every step is a step of `PipelineRun` or a stutter, the safety half of `ImplementsRun` |

Assumptions: `RunnerAssumption` (finite, non-empty sets of stages and workers,
references within the pipeline, the dispatcher resolves only references) and
`KeysAssumption` (the function of sequential keys satisfies its recursion, which
`AcceptedIsRunnable` shows of what `validate` accepts). TLC evaluates both.

Argument. None of the properties is inductive. That a dispatched stage has its
upstream done rests on its having been in `ready`, which rests on
`in_degree[s]` being the number of unsettled upstream stages (`DegreesCount`),
which rests on each stage being settled once, i.e. held by one worker
(`OneWorkerPerStage`) and never ready again (`ReadyIsExact`). `IInv` is the
conjunction of these with the counters (`CountersAgree`), the outputs map
(`OutputsExact`), the cause of a stop (`StopHasCause`), what a busy worker's
upstream ended as (`UpstreamUsable`), when a worker may leave (`ExitJustified`)
and what a snapshot holds (`SnapshotComplete`). The bookkeeping is given up when
the final sweep marks stages Skipped, therefore it is conditional on `~returned`.
The counting lemma `SettleKeepsDegrees` carries the cardinality argument; each
action has a lemma of its own; `KeysKnown` adds to `IInv` that a published
hash, and a key in a worker's hands, is the sequential one.

### Sequential runner and caches (`CachedRunsProofs`)

| Theorem | Statement |
|---|---|
| `TypeCorrect` | `Spec => []TypeOK` |
| `CachedRunnerImplementsRun` | `Spec => ImplementsRun`: each step is one of `PipelineRun`, a new run or a stutter |
| `HandlesHaveOwners` | `Spec => []HandlesOwned` |
| `CachedResultsAreFresh` | `Spec => []CachedIsFresh` |

For every pipeline in a topological order, any number of runs, edits, torn or lost
entries and ends of the process. `Progress` says that the stages before the current one have
a status and the maps hold what those statuses say; the refinement follows.
`Handling` adds that outside a plugin call the live handles are those the outputs
and the memory cache own, and that a plugin is called only for want of an entry,
which makes the names of its handles new. `Fresh` says that each entry is right for
the stage and the content of the input file *it was computed for*, which need not be
the present one. That a hit is right for the present one is the lemma
`SameKeySameWork`: over two contents of the file, two stages with the same key do the
same work, by induction along the order. It takes `hash_inputs` as a term, i.e.
SHA-256 as injective. `TermsExist` of `IndexLemmas` shows that the recursive keys and
works are defined at all.

### Subprocess harness (`SubprocessProofs`)

| Theorem | Statement |
|---|---|
| `TypeCorrect` | `Spec => []TypeOK` |
| `CallsTidyUp` | `Spec => []NothingLeftBehind` |
| `NothingUnread` | `Spec => []OutputIsComplete` |
| `DirectoryComesBack` | `Spec => []DirectoryRestored` |

For any number of concurrent calls, with any directories, inputs, pipe sizes, caps,
timeouts and faults. The invariant is local to a call (`Local`): which of its pipe ends
are open at each program point and that its child is there to be waited for, also
where an exception may leave them (`Tidy`), that what the child wrote is captured, still
in the pipe, or marked as truncated (`Counted`), and that a closed stream is empty
(`Emptied`). Other calls do not disturb it although their children may hold its pipe
ends. `DirectoryComesBack` needs no hypothesis on the callers: `DirectoryRestored`
itself speaks of the behaviours in which no call has started its change between
another's save and its restore, the first overlap being where `subprocess_dirs` begins.
Until then at most one call is between the two, and the directory is the one it saved,
or the one it went to, or home but for calls whose own save or restore failed.

### Plugin host (`PluginHostProofs`)

| Theorem | Statement |
|---|---|
| `TypeCorrect` | `Spec => []TypeOK` |
| `EntriesAreBacked` | `Spec => []RegisteredAreBacked` |
| `ConformanceIsEnough` | `Spec => []ConformantPluginsCoexist` |

For any set of directories and scripts of register calls. `Backed` is the property
for any registry and any open libraries, so that `LoadIsBacked` can follow a
registration through its failures. For `ConformanceIsEnough`: a plugin that passes the
suite alone, in an empty registry, makes the same calls with the same outcome in any
registry that has none of its capabilities (`SameRefusals`, `ConformantTogether`);
`Together` then says that what was tried so far is loaded, with all it announced.

### Agent, bridge and panel (`ChatProofs`)

| Theorem | Statement |
|---|---|
| `Invariance`, `TypeCorrect` | `Spec => []IInv`, `Spec => []TypeOK` |
| `RequestsAccepted` | `Spec => []RequestsAreWellFormed` |
| `ToolsOnceInOrder` | `Spec => []ToolsRunOnceInOrder` |
| `ApprovalIsNeeded` | `Spec => []OnlyApprovedToolsRun` |
| `QuestionsAgree` | `Spec => []LoopAndDispatcherAgree` |
| `BudgetIsKept` | `Spec => []RoundTripsBounded` |
| `PanelTellsAll` | `Spec => []NoSilentChange` |
| `CardIsForTheCall` | `OneProject` gives `Spec => []ApprovalMatchesCard` |

For any tools, projects, front ends, `max_steps` and answers of the provider. A
project's turn may be under way or lie suspended in its session; `Turn(p)` is the
same view of both, and the invariant speaks of it. `WellFormed(history, calls)` says that the
history answers everything except what still waits, in its order (`Histories`).
`InOrder` relates ids: what waits is asked for in that history and comes after all of
it that ran, what ran did so in ascending order, and no call is in two histories (`Orders`). `Approvals` ties `confirmed_once` to a
call that was let through before, `Rows` each call that ran to a row shown or on its
way, `Budgeted` the round trips to `max_steps` plus the answers given. `Modes` says
which combinations of prompter, suspension and overrides the front ends have.
`CardIsForTheCall` holds with one project; the run `chat_switch` shows that a second
one breaks it.

### Tools (`ChatProofs`)

| Theorem | Statement |
|---|---|
| `ToolTypes` | `ToolsSpec => []ToolsTypeOK` |
| `FailureChangesNothing` | `ToolsSpec => FailedToolsChangeNothing` |
| `NothingStagedIsLost` | `ToolsSpec => StagingKeepsTheRest` |
| `ValidationIsExact` | `ToolsSpec => []ValidatorIsExact` |
| `SetupsCanBeCosted` | `ToolsSpec => []SetupCostable` |

For any registry, tags, directions, starting session and number of calls. A call has
one of seven effects (`ToolEffects`): none (`Quiet`), an empty map where there was
none (`Emptied`), one more boundary condition (`Staged`), a material, a setup, a mesh,
a field. Only the first two come with a reply other than `ok`, which is the first
action property; what each of the others keeps is the second. The validator compares
an entry with the first one of its tag: `ValidationIsExact` shows that this finds a conflict
exactly where some two entries of a tag disagree (`FirstOfTag`, by least index).
`SetupsCanBeCosted` goes through the presets of `propose_am_setup` and the
divisions of `estimate_build_cost`, process by process.

### Calls of the example plugins (`PluginHostProofs`)

| Theorem | Statement |
|---|---|
| `CallTypes` | `CallsSpec => []CallsTypeOK` |
| `NothingIsLeaked` | `CallsSpec => []NothingLeaks` |
| `OldFilesAreKept` | `CallsSpec => []RefusalsKeepTheFile` |

For any number of calls of the 39 entry points, any outcome of every step and
any number of iterations of their loops. Neither is without exceptions, and the
properties name them. `NothingLeaks`: the case directory of an OpenFOAM run that
fails, by intent; and, when an exception leaves the function, one output or the work
directory of Blender, of the capabilities that `Unguarded` lists (fifteen of the 39, among
them every reader and mesher that adds cells while it holds its mesh). What is shown is
that no other resource is ever lost and never two at once.
`RefusalsKeepTheFile`: `writer.vtu` truncates the file at line 247 and copies the document at
251; any writer's stream may find no memory for its buffer when its file is open.

The proof is a program logic in the
manner of Floyd: an annotation gives for each step of a program the `Point` at which
it is reached: what is held, the handler in force, and what the file at the path may
be. `Annotated` says that each step leads from its point to that of its successors
(`Moves`), or out of the call in a way `Ends` allows, which is what the two properties
say of a return. Programs that only test
(`Steady`) need one lemma, and annotations compose along concatenation, optional
parts, loops and handlers (`SteadyTogether`, `FlowsTogether`, `TryFlows`); each entry
point has an annotation (`ProgramsSound`), and what a registration adds is one of
them (`RegisteredAreCapable`). The invariant `CallsInv` says that a running call is at a
state of such an annotation (`Underway`), and that one that returned satisfies `Ends`.

The run checks the properties on `HostedPlugins`, whose steps are those of
`PluginHost`, or those of `PluginCalls` with `result` besides. That inclusion is read off
`HostedNext` and is not a theorem: `PluginOutcomes` reaches the RECURSIVE operators of
`Slicing`, with which the SMT backend is lost. For this reason they are separate modules.

## 5. Only model-checked

- Liveness: `ImplementsRun` of the parallel runner with its fairness, `HostEnds`,
  `TimedCallReturns`. The provers do not reason about ENABLED, hence not about
  weak fairness.
- `GeometryIsKept`, `PartIsPrinted` and `SolversGetTheProblem` (`PluginOutcomes`)
  relate what recursive functions and folds compute, over sample inputs; for all
  inputs they would need induction over data, which is out of reach.

Two more limits of the proofs: the theorems about a component assume the
abstraction of its module (section 2 and 8), and those marked with a hypothesis say
nothing without it: two update commands at once, two projects.

## 6. Mutants

Every property of a passing run has a mutant: an operator next to the mapped
definition, named `<Definition>_<change>`, that is a plausible mistake in that
code (a forgotten notify, a lock not taken, a floor not compared, an override
not erased). Substituted for the definition, it makes TLC report the property.

## 7. Observations

Found while modelling, without a run of their own:

- *Updater.* On a full disk `write_marker_atomic` renames an empty file over
  `current.txt` and reports success, because the stream is tested before its
  destructor flushes; `install_layout.h` 50-52 promises the file untouched.
  The Tearing machine covers the states this leads to. Restaging the current
  version removes its payload first. A failed second marker write leaves
  `previous.txt` equal to `current.txt`, so that a rollback puts back the version it
  leaves. With a torn `current.txt` gc reaps the version just installed. Two commands at once are not excluded by a lock. Scratch
  directories of a crashed stage are never removed. gc reaps versions the rollback
  log still names. A failed save loses a raised floor. Nothing is fsynced.
- *Runners.* With `stop_on_first_failure` off, dependents of a failed stage are
  dispatched without its output (`parallel_runner.cpp` 235-237 says otherwise).
  The sequential runner reports in topological, the parallel one in declaration
  order. Exceptions are caught in the parallel runner only.
- *Caches.* A writer's disk entry is a hit as soon as some file exists at its path
  (`registry_dispatcher.cpp` 555): with input A, then B, then A again the writer is
  reported cached and its file holds the results for B, although `runner.cpp` 61
  says a hit means "the same input". The key holds the ABI number and not the
  plugin's version; the reader's file is hashed before the plugin reads it again.
- *Plugin host.* When the registration of a second copy of a plugin is refused, the
  loader removes everything under that id (`loader.cpp` 169), the first copy's
  capabilities included, though `main.cpp` 147 prepends overrides "so they win
  priority": neither copy is then usable. `abi = 4294967297` is accepted as 1. A
  load error is attributed to a conformance check by words in its message.
- *Dag.* The cycle error also names what is downstream of a cycle; `CycleReport`
  states what it names.
- *Subprocess.* `SubprocessResult.ok` false "means the spawn itself failed"
  (`subprocess.h` 72-73), but memory that runs out later gives the same after a child has
  run, with the two pipes it is read from open and the child not waited for. A failed
  `poll` (278) ends the loop as a timeout does, without a kill and without a flag: what
  the child writes after the last drain is lost in a result with `ok`, and the wait
  has no deadline. A directory that cannot be saved or entered again leaves the host
  in the case directory, unreported. The
  results of `posix_spawn_file_actions_*` are not looked at. What a capped stream keeps need
  not be its prefix, as `subprocess.h` 95-96 says. The kill
  on timeout reaches the child and not its group. A child that keeps writing
  postpones the timeout. stdin is written before output is read. In the CLI, which
  does not ignore SIGPIPE, a child that exits without reading stdin ends the host.
  The Windows path waits for the process before it reads the pipes.
- *Agent.* Beyond `max_steps` (run `chat_budget`) a turn gets one round trip for each
  confirmation answered after it was spent; `BudgetIsKept` proves that bound. `allowed_tools` limits what is advertised and not what is
  dispatched. `confirmed_once` is set before the handler runs, `tool.h` says on
  success. A declined pending call writes no audit line. The rest of a queue
  is found by call id. `resume_agent_turn` erases an override the caller had set.
- *Chat bridge.* `chat_confirm` does not look at `config_error` and continues with
  the stub. It uses the configured model and ignores the one of the request. Each
  `chat_send` builds a new session, so confirmations and session state last one
  turn.

- *Tools.* `check_printability` and `query_mesh_quality` reuse a field of an earlier
  mesh although they report "against the current mesh" (`check_printability.cpp` 88
  and 353). `set_material` says the next solve consumes it; `solve` forwards only the
  boundary conditions. A second `set_build_orientation` with the same tag makes the
  validator report a duplicate, and a later `propose_am_setup` undoes the mirror its
  comment speaks of. `propose_cfd_setup` can name one tag as inlet and wall.
  `estimate_build_cost` for FFF after an LPBF setup is always refused, because the
  staged zeros shadow the defaults; its DED preset differs from the setup's.
- *Writers.* `vtu_write` and the slicer's `commit_file` test the stream before it is
  flushed, so a full disk may be reported as success; `hello_write` tests nothing. `vtu_write`
  loses the old file when the copy of the document finds no memory.
- *Meshers and solvers.* Most functions that allocate while they hold an output have
  no handler (`Unguarded`): mesh quality 90-118, the thermal solver's field, melt pool, residual stress,
  bond strength, every mesher and reader; the host's `souxmar_mesh_add_cell` allocates outside its own `try`
  (`c_abi_mesh.cpp` 91) and so throws through its C interface into them.
  gmsh is finalised when the plugin goes, not per call as its comment says. The
  polymer solver takes a requested number of layers even when it is larger than
  the tags allow. `solve_pcg` does not report that it did not converge. A plane
  traction also selects interior faces. The melt-pool geometry is cached by a
  rounded temperature.
- *Readers.* The STL automaton stays in a loop when `endloop` is missing.
- *Slicer.* A plane through a vertex can leave an open contour on a closed mesh;
  the branch for a walk that meets the far end is dead. A face covered by a shell cell
  is boundary for the slicer and not for the manufacturability checks.
- *OpenFOAM.* Two tags may get one patch name; a condition with a name that is not a
  number gets no patch, silently; faces of one owner are written in the order of a
  hash table.
- *CFD stub.* A comment promises a fallback to the cell's tag; the code goes on.

## 8. Not modelled, and why

Stateless conversions (pipeline parser, values, update manifest, provider formats,
configuration, crypto), wrappers (C ABI shim, bindings, Tauri commands, remaining
bridge functions), data structures (core), the audit log, the services. Of the
example plugins the numerics: floating point, quadrature of hexahedra, the
iterative solver, physics between two steps, and the lattice generator. The Windows
path of the subprocess harness. Power failure: a crash here is that of the process.
Two update commands at once: `Procs` allows it, the run takes one.

Of the plugins' failures: handlers whose own message finds no memory (gmsh 157-163,
fenicsx 216-220); a `bad_alloc` within `ostream <<`, which the stream keeps to itself;
work and case directories that cannot be removed. Of the subprocess harness: a file
action of the spawn that is missing for want of memory.

## 9. Plan

Done: Updater, ParallelRunner with PipelineRun, Dag, CachedRuns with Dispatcher,
PluginHost, Subprocess, Agent and ChatBridge, ToolSession and the calls of the
example plugins, each with proofs; what the plugins compute, model-checked.

Next, in this order:

1. `Updater` with two commands at once, and with power failure.
2. Edits of the input while a run reads it, and plugins rebuilt between runs.
3. Audit log and budget in `Agent`; provider configuration changing between
   `chat_send` and `chat_confirm`; the retry and streaming state of the providers.
