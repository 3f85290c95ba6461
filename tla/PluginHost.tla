----------------------------- MODULE PluginHost -----------------------------
(***************************************************************************)
(* The plugin host of one souxmar process, as `souxmar run` drives it:     *)
(* discover the plugin directories, load every one of them into one        *)
(* registry, run, and unload at exit.  Sources: discovery.cpp, loader.cpp, *)
(* guard.cpp, registry.cpp, conformance.cpp under src/src/plugin-host and  *)
(* cmd_run / cmd_plugin_list in src/src/cli/main.cpp.                      *)
(*                                                                         *)
(* A plugin directory is a record: whether it has a manifest, the document *)
(* it holds, the declared binary name and the files present, what the      *)
(* platform loader does with the binary, and the plugin's registration     *)
(* script.  The script is the plugin's own code, seen through the C ABI:   *)
(* the add calls it makes, what it does when one is refused, and what it   *)
(* returns.                                                                *)
(***************************************************************************)
EXTENDS PluginManifest, FiniteSets, TLC

CONSTANTS
    Dirs,          \* plugin directories
    Root,          \* directory -> position of its root on the search path
    Plugins,       \* plugin directories that may be met: name -> contents
    Holds,         \* directory -> names of the contents it may have
    HostExts       \* shared-library extensions, host-native first

\* A script makes any number of the five add calls and then, or when one is
\* refused, returns a status or raises: guard_call tells these apart.
ASSUME PluginHostAssumption ==
    /\ IsFiniteSet(Dirs)
    /\ \A n \in DOMAIN Plugins :
         LET script == Plugins[n].script
         IN  /\ script.onRefusal \in {"ignore", "return", "raise"}
             /\ script.result \in {"ok", "return", "raise"}
             /\ script.adds \in Seq(Range(script.adds))
             /\ \A i \in DOMAIN script.adds :
                  /\ script.adds[i].kind \in {"mesher", "solver", "writer", "postproc", "reader"}
                  /\ script.adds[i].vtable \in BOOLEAN

VARIABLES
    content,       \* directory -> name of its contents, fixed at the start
    pc,            \* "start", "loading", "running", "exiting", "exited"
    found,         \* DiscoveryReport.loaded: directories in discovery order
    cursor,        \* how many of found have been tried
    entries,       \* Registry::entries_: capability -> entry
    open,          \* libraries the process has open
    live,          \* cmd_run's live_plugins
    exit           \* the process's exit code

vars == <<content, pc, found, cursor, entries, open, live, exit>>

In(d) == Plugins[content[d]]

EmptyFn == [c \in {} |-> {}]

-----------------------------------------------------------------------------
\* Discovery.

\* A binary name is its number of leading "lib"s and its extensions.
Stems(n) == <<n, IF n > 0 THEN n - 1 ELSE n, n + 1>>

\* A library's extension is taken off, any other belongs to the stem.
StemExts(exts) == IF exts # <<>> /\ Last(exts) \in Range(HostExts) THEN Front(exts) ELSE exts

resolve_plugin_binary(declared, files) ==
    LET candidates == <<declared>>
                   \o FlattenSeq([e \in DOMAIN HostExts |->
                        [s \in 1..3 |-> <<Stems(declared[1])[s],
                                          Append(StemExts(declared[2]), HostExts[e])>>]])
        present == SelectSeq(candidates, LAMBDA f : f \in files)
    IN  IF present = <<>> THEN <<>> ELSE <<present[1]>>

plausible_plugin_binary_name(f) == f[2] # <<>> /\ Last(f[2]) \in Range(HostExts)

\* What discover_plugins does with one directory.
DiscoveryVerdict(c) ==
    LET code == parse_manifest_file(c)
        bin  == resolve_plugin_binary(c.declared, c.files)
    IN  IF ~c.manifest THEN "skipped"
        ELSE FirstFailure(<<Check(code # "ok", "manifest_parse_failed"),
                            Check(bin = <<>>, "binary_not_found"),
                            Check(bin # <<>> /\ ~plausible_plugin_binary_name(Head(bin)),
                                  "binary_unrecognised_extension")>>)

Discoverable == {d \in Dirs : DiscoveryVerdict(In(d)) = "ok"}

\* The order of the directories of one root is the file system's; roots are
\* visited in search-path order.  A root that does not exist contributes nothing.
DiscoveryOrders ==
    {s \in SetToSeqs(Discoverable) :
        \A i, j \in DOMAIN s : i < j => Root[s[i]] <= Root[s[j]]}

-----------------------------------------------------------------------------
\* The registry.  An add call names a capability, its kind and whether its
\* vtable passes the checks (non-null, ABI version, function pointer).

Entry(kind, d, c) ==
    [owner |-> d, plugin |-> c.id, kind |-> kind, threading |-> DeclaredThreading(c.doc)]

\* taken: the capabilities registered when the call is made.
AddRefused(taken, a) == a.cap = "" \/ ~a.vtable \/ a.cap \in taken

add_mesher(d, c) == Entry("mesher", d, c)

add_solver(d, c) == Entry("solver", d, c)

add_writer(d, c) == Entry("writer", d, c)

add_postproc(d, c) == Entry("postproc", d, c)

add_reader(d, c) == Entry("reader", d, c)

\* souxmar_registry_add_*: the plugin id and threading model are those the
\* loader stashed in the registry before calling register.
AddC(a, d, c) ==
    CASE a.kind = "mesher"   -> add_mesher(d, c)
      [] a.kind = "solver"   -> add_solver(d, c)
      [] a.kind = "writer"   -> add_writer(d, c)
      [] a.kind = "postproc" -> add_postproc(d, c)
      [] a.kind = "reader"   -> add_reader(d, c)

remove_plugin(e, id) == [c \in {x \in DOMAIN e : e[x].plugin # id} |-> e[c]]

list_capabilities(e) == DOMAIN e

-----------------------------------------------------------------------------
\* The loader.

\* Add call i of the script, made when the registry held e: the calls before
\* it have registered what they could.
CallRefused(adds, e, i) ==
    AddRefused(DOMAIN e \cup {adds[j].cap : j \in {k \in 1..(i - 1) : adds[k].vtable}}, adds[i])

\* guard_call(register_fn): the calls of the script up to the first refusal the
\* plugin does not ignore (it returns non-zero or throws), then its own result.
RunRegister(c, d, e) ==
    LET adds    == c.script.adds
        refused == {i \in DOMAIN adds : CallRefused(adds, e, i)}
        stopped == c.script.onRefusal # "ignore" /\ refused # {}
        made    == {i \in DOMAIN adds : i \notin refused
                                        /\ (stopped => \A k \in refused : i < k)}
        added   == {adds[i].cap : i \in made}
    IN  [entries |-> [x \in DOMAIN e \cup added |->
                        IF x \in added
                        THEN AddC(adds[CHOOSE i \in made : adds[i].cap = x], d, c)
                        ELSE e[x]],
         status  |-> IF stopped THEN c.script.onRefusal ELSE c.script.result]

Removed(r, id) == [r EXCEPT !.entries = remove_plugin(@, id)]

\* Mutant: a plugin that reports failure keeps what it registered.
load_KeepsOnFailure(c, d, e) ==
    IF StoredAbi(c.doc.abi.v) # 1 THEN [entries |-> e, status |-> "abi"]
    ELSE IF c.binary = "cannot_open" THEN [entries |-> e, status |-> "dlopen"]
    ELSE IF c.binary = "no_symbol" THEN [entries |-> e, status |-> "symbol"]
    ELSE RunRegister(c, d, e)

load(c, d, e) ==
    IF StoredAbi(c.doc.abi.v) # 1 THEN [entries |-> e, status |-> "abi"]
    ELSE IF c.binary = "cannot_open" THEN [entries |-> e, status |-> "dlopen"]
    ELSE IF c.binary = "no_symbol" THEN [entries |-> e, status |-> "symbol"]
    ELSE LET r == RunRegister(c, d, e)
         IN  IF r.status \in {"raise", "return"} THEN Removed(r, c.id) ELSE r

-----------------------------------------------------------------------------
\* The conformance suite: ten checks on one plugin, in a registry of its own.

\* The check the loader's message is attributed to.  The message of a raise
\* carries the plugin's own text, in which the word "dlopen" may occur.
attribute_load_error(status, c) ==
    CASE status = "dlopen" \/ (status = "raise" /\ c.script.mentionsDlopen) -> 3
      [] status = "symbol" -> 4
      [] OTHER -> 5

run_conformance(c, d) ==
    LET r          == load(c, d, EmptyFn)
        announced  == Range(c.caps)
        registered == {x \in list_capabilities(r.entries) : r.entries[x].plugin = c.id}
        after      == remove_plugin(r.entries, c.id)
        PassFail(b) == IF b THEN "pass" ELSE "fail"
        StopAt(k)  == [i \in 1..10 |-> IF i < k THEN "pass" ELSE IF i = k THEN "fail" ELSE "skip"]
    IN  IF StoredAbi(c.doc.abi.v) # 1 THEN StopAt(1)
        ELSE IF resolve_plugin_binary(c.declared, c.files) = <<>> THEN StopAt(2)
        ELSE IF r.status # "ok" THEN StopAt(attribute_load_error(r.status, c))
        ELSE [StopAt(11) EXCEPT
               ![6] = PassFail(announced \subseteq registered),
               ![7] = PassFail(registered \subseteq announced),
               ![8] = PassFail(\A x \in registered : r.entries[x].threading = DeclaredThreading(c.doc)),
               ![9] = PassFail(\A x \in DOMAIN after : after[x].plugin # c.id),
               ![10] = PassFail(DOMAIN r.entries = announced /\ DOMAIN after = {})]

all_passed(report) == \A i \in DOMAIN report : report[i] = "pass"

-----------------------------------------------------------------------------
\* The process.

Init ==
    /\ content \in {f \in [Dirs -> DOMAIN Plugins] : \A d \in Dirs : f[d] \in Holds[d]}
    /\ pc = "start" /\ found = <<>> /\ cursor = 0
    /\ entries = EmptyFn /\ open = {} /\ live = {} /\ exit = "none"

\* cmd_plugin_list reports what discovery finds and loads nothing.
PluginList ==
    /\ pc = "start"
    /\ \E s \in DiscoveryOrders : found' = s
    /\ pc' = "exited" /\ exit' = "ok"
    /\ UNCHANGED <<content, cursor, entries, open, live>>

Discover ==
    /\ pc = "start"
    /\ \E s \in DiscoveryOrders : found' = s
    /\ pc' = "loading"
    /\ UNCHANGED <<content, cursor, entries, open, live, exit>>

\* Mutant: each plugin is loaded into a registry of its own.
LoadNext_FreshRegistry ==
    /\ pc = "loading" /\ cursor < Len(found)
    /\ LET d == found[cursor + 1]
       IN  \E r \in {load(In(d), d, EmptyFn)} :
              /\ entries' = r.entries
              /\ IF r.status = "ok"
                 THEN /\ open' = open \cup {d}
                      /\ live' = live \cup {d}
                 ELSE UNCHANGED <<open, live>>
    /\ cursor' = cursor + 1
    /\ UNCHANGED <<content, pc, found, exit>>

\* One turn of cmd_run's loading loop.  A load that fails is a warning.
LoadNext ==
    /\ pc = "loading" /\ cursor < Len(found)
    /\ LET d == found[cursor + 1]
       IN  \E r \in {load(In(d), d, entries)} :
              /\ entries' = r.entries
              /\ IF r.status = "ok"
                 THEN /\ open' = open \cup {d}
                      /\ live' = live \cup {d}
                 ELSE UNCHANGED <<open, live>>
    /\ cursor' = cursor + 1
    /\ UNCHANGED <<content, pc, found, exit>>

AllLoaded ==
    /\ pc = "loading" /\ cursor = Len(found)
    /\ IF entries = EmptyFn
       THEN pc' = "exiting" /\ exit' = "internal"
       ELSE pc' = "running" /\ UNCHANGED exit
    /\ UNCHANGED <<content, found, cursor, entries, open, live>>

\* The pipeline itself is modelled by the runners; here it only ends.
PipelineEnds ==
    /\ pc = "running"
    /\ pc' = "exiting"
    /\ \E code \in {"ok", "input_data", "internal"} : exit' = code
    /\ UNCHANGED <<content, found, cursor, entries, open, live>>

\* Mutant: the handle closes the library but stays in live_plugins.
Unload_ForgetsLive(d) ==
    /\ pc = "exiting" /\ d \in live
    /\ entries' = remove_plugin(entries, In(d).id)
    /\ open' = open \ {d}
    /\ UNCHANGED <<content, pc, found, cursor, live, exit>>

\* ~LoadedPlugin: deregister, then close the library.
Unload(d) ==
    /\ pc = "exiting" /\ d \in live
    /\ entries' = remove_plugin(entries, In(d).id)
    /\ live' = live \ {d}
    /\ open' = open \ {d}
    /\ UNCHANGED <<content, pc, found, cursor, exit>>

Exit ==
    /\ pc = "exiting" /\ live = {}
    /\ pc' = "exited"
    /\ UNCHANGED <<content, found, cursor, entries, open, live, exit>>

Done == pc = "exited" /\ UNCHANGED vars

Next == PluginList \/ Discover \/ LoadNext \/ AllLoaded \/ PipelineEnds
        \/ (\E d \in Dirs : Unload(d)) \/ Exit \/ Done

Proceed == LoadNext \/ AllLoaded \/ PipelineEnds
           \/ (\E d \in Dirs : Unload(d)) \/ Exit

\* Discover is the step that leads from "start" to "loading".
Fairness == WF_pc(pc = "start" /\ pc' = "loading") /\ WF_vars(Proceed)

Spec == Init /\ [][Next]_vars /\ Fairness

-----------------------------------------------------------------------------
\* Properties.

\* Every variable has its type.
TypeOK ==
    /\ pc \in {"start", "loading", "running", "exiting", "exited"}
    /\ Range(found) \subseteq Dirs /\ cursor \in 0..Len(found)
    /\ live \subseteq open /\ open \subseteq Range(found)
    /\ exit \in {"none", "ok", "input_data", "internal"}

\* Whatever mixture of failing, refusing and half-registering plugins was
\* loaded or unloaded, each registered capability points into a library that
\* is open, and carries the id and the threading model its own manifest
\* declares (loader.cpp sets and clears the two slots, removes on failure and
\* removes before it closes).
RegisteredAreBacked ==
    \A x \in DOMAIN entries :
        LET e == entries[x]
        IN  /\ e.owner \in open
            /\ e.plugin = In(e.owner).id
            /\ e.threading = DeclaredThreading(In(e.owner).doc)

\* The conformance suite tests a plugin alone; the host loads it with others.
\* Plugins that each pass the ten checks, have distinct ids and announce
\* disjoint capabilities all load together, in whatever order the file system
\* lists them, and the registry then holds exactly what they announced.
ConformantPluginsCoexist ==
    LET fs == Range(found)
        Compatible == \A d, f \in fs : d # f =>
                         /\ In(d).id # In(f).id
                         /\ Range(In(d).caps) \cap Range(In(f).caps) = {}
    IN  (/\ pc \in {"loading", "running"} /\ cursor = Len(found)
         /\ Compatible
         /\ \A d \in fs : all_passed(run_conformance(In(d), d)))
            => /\ live = fs
               /\ DOMAIN entries = UNION {Range(In(d).caps) : d \in fs}

\* Every process that starts ends with all libraries closed and nothing
\* registered, whatever its plugins did (a register call returns).
HostEnds == <>(pc = "exited" /\ open = {} /\ entries = EmptyFn)
=============================================================================
