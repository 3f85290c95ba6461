-------------------------- MODULE PluginHostProofs --------------------------
(***************************************************************************)
(* Theorems about PluginHost, for any plugin directories, whatever their   *)
(* manifests, binaries and registration scripts are, in any order; and     *)
(* about PluginCalls, for every entry point of the example plugins.        *)
(***************************************************************************)
EXTENDS PluginHost, PluginCalls, IndexLemmas, SequenceTheorems

(* A registration script that the host may meet. *)
Legal(c) ==
    LET script == c.script
    IN  /\ script.onRefusal \in {"ignore", "return", "raise"}
        /\ script.result \in {"ok", "return", "raise"}
        /\ script.adds \in Seq(Range(script.adds))
        /\ \A i \in DOMAIN script.adds :
             /\ script.adds[i].kind \in {"mesher", "solver", "writer", "postproc", "reader"}
             /\ script.adds[i].vtable \in BOOLEAN

(* The add calls that are refused, whether that ends the script, and those made. *)
Refused(c, e) == {i \in DOMAIN c.script.adds : CallRefused(c.script.adds, e, i)}
Stopped(c, e) == c.script.onRefusal # "ignore" /\ Refused(c, e) # {}
Made(c, e) == {i \in DOMAIN c.script.adds : i \notin Refused(c, e)
                                            /\ (Stopped(c, e) => \A k \in Refused(c, e) : i < k)}
Added(c, e) == {c.script.adds[i].cap : i \in Made(c, e)}

-----------------------------------------------------------------------------
(* What a script leaves. *)

(* The registry and the status after a registration script. *)
LEMMA RunRegisterIs ==
    ASSUME NEW c, NEW d, NEW e, Legal(c)
    PROVE  /\ DOMAIN RunRegister(c, d, e).entries = DOMAIN e \cup Added(c, e)
           /\ \A x \in DOMAIN RunRegister(c, d, e).entries :
                \/ x \in DOMAIN e /\ RunRegister(c, d, e).entries[x] = e[x]
                \/ \E i \in DOMAIN c.script.adds :
                     RunRegister(c, d, e).entries[x] = AddC(c.script.adds[i], d, c)
           /\ RunRegister(c, d, e).status = IF Stopped(c, e) THEN c.script.onRefusal
                                            ELSE c.script.result
<1> DEFINE New(x) == AddC(c.script.adds[CHOOSE i \in Made(c, e) : c.script.adds[i].cap = x], d, c)
           all == [x \in DOMAIN e \cup Added(c, e) |-> IF x \in Added(c, e) THEN New(x) ELSE e[x]]
<1>1. RunRegister(c, d, e) =
        [entries |-> all,
         status |-> IF Stopped(c, e) THEN c.script.onRefusal ELSE c.script.result]
  BY DEF RunRegister, Refused, Stopped, Made, Added
<1>2. ASSUME NEW x \in Added(c, e)
      PROVE  \E i \in DOMAIN c.script.adds : New(x) = AddC(c.script.adds[i], d, c)
  <2>1. \E i \in Made(c, e) : c.script.adds[i].cap = x
    BY DEF Added
  <2>2. (CHOOSE i \in Made(c, e) : c.script.adds[i].cap = x) \in Made(c, e)
    BY <2>1
  <2>3. Made(c, e) \subseteq DOMAIN c.script.adds
    BY DEF Made
  <2> QED
    BY <2>2, <2>3
<1>3. DOMAIN all = DOMAIN e \cup Added(c, e)
  OBVIOUS
<1>4. ASSUME NEW x \in DOMAIN all
      PROVE  \/ x \in DOMAIN e /\ all[x] = e[x]
             \/ \E i \in DOMAIN c.script.adds : all[x] = AddC(c.script.adds[i], d, c)
  <2>1. CASE x \in Added(c, e)
    <3>1. all[x] = New(x)
      BY <2>1
    <3> HIDE DEF all, New
    <3> QED
      BY <1>2, <2>1, <3>1
  <2>2. CASE x \notin Added(c, e)
    <3>1. x \in DOMAIN e /\ all[x] = e[x]
      BY <2>2
    <3> QED
      BY <3>1
  <2> QED
    BY <2>1, <2>2
<1> HIDE DEF all
<1> QED
  BY <1>1, <1>3, <1>4

(* An entry says whose it is and what the owner's manifest declares. *)
LEMMA AddCIs ==
    ASSUME NEW a, NEW d, NEW c, a.kind \in {"mesher", "solver", "writer", "postproc", "reader"}
    PROVE  /\ AddC(a, d, c).owner = d
           /\ AddC(a, d, c).plugin = c.id
           /\ AddC(a, d, c).threading = DeclaredThreading(c.doc)
BY DEF AddC, add_mesher, add_solver, add_writer, add_postproc, add_reader, Entry

(* Deregistration takes the plugin's entries and no others. *)
LEMMA RemoveIs ==
    ASSUME NEW e, NEW id
    PROVE  /\ DOMAIN remove_plugin(e, id) = {x \in DOMAIN e : e[x].plugin # id}
           /\ \A x \in DOMAIN remove_plugin(e, id) : remove_plugin(e, id)[x] = e[x]
BY DEF remove_plugin

-----------------------------------------------------------------------------
(* Entries are backed by open libraries. *)

(* RegisteredAreBacked, of any registry and any set of open libraries. *)
Backed(e, libs) ==
    \A x \in DOMAIN e : /\ e[x].owner \in libs
                        /\ e[x].plugin = In(e[x].owner).id
                        /\ e[x].threading = DeclaredThreading(In(e[x].owner).doc)

(* A load that succeeds has its library open; one that fails leaves nothing. *)
LEMMA LoadIsBacked ==
    ASSUME NEW d, NEW e, NEW libs, Legal(In(d)), Backed(e, libs)
    PROVE  /\ load(In(d), d, e).status = "ok" => Backed(load(In(d), d, e).entries, libs \cup {d})
           /\ load(In(d), d, e).status # "ok" => Backed(load(In(d), d, e).entries, libs)
<1> DEFINE c == In(d)
           r == RunRegister(c, d, e)
           l == load(c, d, e)
<1>1. Backed(r.entries, libs \cup {d}) /\ r.status \in {"ok", "return", "raise"}
  <2>1. ASSUME NEW x \in DOMAIN r.entries
        PROVE  /\ r.entries[x].owner \in libs \cup {d}
               /\ r.entries[x].plugin = In(r.entries[x].owner).id
               /\ r.entries[x].threading = DeclaredThreading(In(r.entries[x].owner).doc)
    <3>1. CASE x \in DOMAIN e /\ r.entries[x] = e[x]
      BY <3>1 DEF Backed
    <3>2. ASSUME NEW i \in DOMAIN c.script.adds, r.entries[x] = AddC(c.script.adds[i], d, c)
          PROVE  /\ r.entries[x].owner = d
                 /\ r.entries[x].plugin = In(d).id
                 /\ r.entries[x].threading = DeclaredThreading(In(d).doc)
      <4> DEFINE a == c.script.adds[i]
      <4>1. a.kind \in {"mesher", "solver", "writer", "postproc", "reader"}
        BY DEF Legal
      <4>2. /\ AddC(a, d, c).owner = d /\ AddC(a, d, c).plugin = c.id
            /\ AddC(a, d, c).threading = DeclaredThreading(c.doc)
        BY <4>1, AddCIs
      <4> QED
        BY <3>2, <4>2
    <3>3. \/ x \in DOMAIN e /\ r.entries[x] = e[x]
          \/ \E i \in DOMAIN c.script.adds : r.entries[x] = AddC(c.script.adds[i], d, c)
      BY RunRegisterIs
    <3> QED
      BY <3>1, <3>2, <3>3
  <2>2. r.status \in {"ok", "return", "raise"}
    <3>1. r.status = IF Stopped(c, e) THEN c.script.onRefusal ELSE c.script.result
      BY RunRegisterIs
    <3> QED
      BY <3>1 DEF Stopped, Legal
  <2> HIDE DEF r
  <2> QED
    BY <2>1, <2>2 DEF Backed
<1>2. Backed(remove_plugin(r.entries, c.id), libs)
  <2> DEFINE f == r.entries
             g == remove_plugin(f, c.id)
  <2>1. /\ DOMAIN g = {x \in DOMAIN f : f[x].plugin # c.id}
        /\ \A x \in DOMAIN g : g[x] = f[x]
    BY RemoveIs
  <2>2. \A x \in DOMAIN f : /\ f[x].owner \in libs \cup {d}
                           /\ f[x].plugin = In(f[x].owner).id
                           /\ f[x].threading = DeclaredThreading(In(f[x].owner).doc)
    BY <1>1 DEF Backed
  <2> HIDE DEF f, g
  <2>3. \A x \in DOMAIN g : f[x].owner # d
    BY <2>1, <2>2
  <2>4. Backed(g, libs)
    BY <2>1, <2>2, <2>3 DEF Backed
  <2> QED
    BY <2>4 DEF f, g
<1>3. \/ l.entries = e /\ l.status # "ok"
      \/ l = r /\ r.status \notin {"raise", "return"}
      \/ l = Removed(r, c.id) /\ r.status \in {"raise", "return"}
  <2> HIDE DEF c
  <2> QED
    BY DEF load
<1>4. /\ Removed(r, c.id).entries = remove_plugin(r.entries, c.id)
      /\ Removed(r, c.id).status = r.status
  BY DEF Removed, RunRegister
<1> HIDE DEF r, c, l
<1>5. CASE l.entries = e /\ l.status # "ok"
  BY <1>5 DEF l, c
<1>6. CASE l = r /\ r.status \notin {"raise", "return"}
  BY <1>1, <1>6 DEF l, c
<1>7. CASE l = Removed(r, c.id) /\ r.status \in {"raise", "return"}
  BY <1>2, <1>4, <1>7 DEF l, c
<1> QED
  BY <1>3, <1>5, <1>6, <1>7

(* The directories in an order of discovery, each once. *)
LEMMA OrdersAre ==
    ASSUME NEW s \in DiscoveryOrders
    PROVE  /\ s \in Seq(Dirs)
           /\ Len(s) \in Nat /\ DOMAIN s = 1..Len(s)
           /\ \A i, j \in 1..Len(s) : s[i] = s[j] => i = j
           /\ Range(s) \subseteq Dirs
<1> DEFINE S == Discoverable
<1>1. S \subseteq Dirs /\ IsFiniteSet(S)
  BY PluginHostAssumption, FS_Subset DEF Discoverable
<1>2. Cardinality(S) \in Nat
  BY <1>1, FS_CardinalityType
<1>3. s \in SetToSeqs(S)
  BY DEF DiscoveryOrders
<1> HIDE DEF S
<1>4. /\ s \in [1..Cardinality(S) -> S]
      /\ \A i, j \in 1..Cardinality(S) : i # j => s[i] # s[j]
  BY <1>3 DEF SetToSeqs
<1>5. s \in Seq(Dirs) /\ Len(s) = Cardinality(S)
  BY <1>1, <1>2, <1>4
<1> QED
  BY <1>2, <1>4, <1>5 DEF Range

(* TypeOK, with what the process has before it loads. *)
Typed ==
    /\ TypeOK
    /\ content \in [Dirs -> DOMAIN Plugins]
    /\ found \in Seq(Dirs)
    /\ \A i, j \in 1..Len(found) : found[i] = found[j] => i = j
    /\ pc = "start" => cursor = 0 /\ entries = EmptyFn /\ open = {} /\ live = {}

(* What may be loaded is legal. *)
LEMMA ContentIsLegal ==
    ASSUME Typed, NEW d \in Dirs
    PROVE  Legal(In(d))
BY PluginHostAssumption DEF Typed, Legal, In

(* What one turn of the loading loop does. *)
LEMMA LoadNextIs ==
    ASSUME Typed, LoadNext
    PROVE  \E d \in Range(found) :
             /\ d = found[cursor + 1] /\ d \in Dirs /\ cursor + 1 \in 1..Len(found)
             /\ cursor' = cursor + 1 /\ UNCHANGED <<content, pc, found, exit>>
             /\ entries' = load(In(d), d, entries).entries
             /\ \/ /\ load(In(d), d, entries).status = "ok"
                   /\ open' = open \cup {d} /\ live' = live \cup {d}
                \/ /\ load(In(d), d, entries).status # "ok"
                   /\ UNCHANGED <<open, live>>
<1> DEFINE d == found[cursor + 1]
<1>1. cursor + 1 \in 1..Len(found) /\ d \in Dirs /\ d \in Range(found)
  BY DEF Typed, TypeOK, LoadNext, Range
<1>2. /\ cursor' = cursor + 1 /\ UNCHANGED <<content, pc, found, exit>>
      /\ entries' = load(In(d), d, entries).entries
      /\ \/ /\ load(In(d), d, entries).status = "ok"
            /\ open' = open \cup {d} /\ live' = live \cup {d}
         \/ /\ load(In(d), d, entries).status # "ok"
            /\ UNCHANGED <<open, live>>
  BY DEF LoadNext
<1> HIDE DEF d
<1>3. d = found[cursor + 1]
  BY DEF d
<1> QED
  BY <1>1, <1>2, <1>3

(* The types hold at first and every step of the host keeps them. *)
LEMMA TypeInvariance ==
    /\ Init => Typed
    /\ Typed /\ [Next]_vars => Typed'
<1>1. ASSUME Init PROVE Typed
  <2>1. found \in Seq(Dirs) /\ Len(found) = 0 /\ Range(found) = {}
    BY <1>1 DEF Init, Range
  <2> QED
    BY <1>1, <2>1 DEF Init, Typed, TypeOK
<1>2. ASSUME Typed, [Next]_vars PROVE Typed'
  <2>1. CASE PluginList \/ Discover
    <3>1. PICK s \in DiscoveryOrders : found' = s
      BY <2>1 DEF PluginList, Discover
    <3>2. /\ pc = "start" /\ UNCHANGED <<content, cursor, open, live, entries>>
          /\ pc' \in {"exited", "loading"} /\ exit' \in {exit, "ok"}
      BY <2>1 DEF PluginList, Discover
    <3> QED
      BY <1>2, <3>1, <3>2, OrdersAre DEF Typed, TypeOK
  <2>2. CASE LoadNext
    <3>1. PICK d \in Range(found) :
            /\ cursor + 1 \in 1..Len(found)
            /\ cursor' = cursor + 1 /\ UNCHANGED <<content, pc, found, exit>>
            /\ \/ open' = open \cup {d} /\ live' = live \cup {d}
               \/ UNCHANGED <<open, live>>
      BY <1>2, <2>2, LoadNextIs
    <3>2. pc = "loading"
      BY <2>2 DEF LoadNext
    <3> QED
      BY <1>2, <3>1, <3>2 DEF Typed, TypeOK
  <2>3. CASE AllLoaded \/ PipelineEnds \/ Exit \/ Done
    BY <1>2, <2>3 DEF AllLoaded, PipelineEnds, Exit, Done, vars, Typed, TypeOK
  <2>4. ASSUME NEW d \in Dirs, Unload(d)
        PROVE  Typed'
    BY <1>2, <2>4 DEF Unload, Typed, TypeOK
  <2>5. CASE UNCHANGED vars
    BY <1>2, <2>5 DEF vars, Typed, TypeOK
  <2> QED
    BY <1>2, <2>1, <2>2, <2>3, <2>4, <2>5 DEF Next
<1> QED
  BY <1>1, <1>2

(* TypeOK: every variable has its type. *)
THEOREM TypeCorrect == Spec => []TypeOK
<1>1. Typed => TypeOK
  BY DEF Typed
<1> QED
  BY <1>1, TypeInvariance, PTL DEF Spec

(***************************************************************************)
(* RegisteredAreBacked: through loads that succeed, fail half-way or are   *)
(* refused, and through unloads, no capability outlives its library or     *)
(* carries another plugin's id or threading model.                         *)
(***************************************************************************)
THEOREM EntriesAreBacked == Spec => []RegisteredAreBacked
<1>1. Init => Typed /\ RegisteredAreBacked
  BY TypeInvariance DEF Init, RegisteredAreBacked, EmptyFn
<1>2. Typed /\ RegisteredAreBacked /\ [Next]_vars => (Typed /\ RegisteredAreBacked)'
  <2> SUFFICES ASSUME Typed, RegisteredAreBacked, [Next]_vars PROVE RegisteredAreBacked'
    BY TypeInvariance
  <2>1. Backed(entries, open)
    BY DEF RegisteredAreBacked, Backed
  <2>2. CASE LoadNext
    <3>1. PICK d \in Range(found) :
            /\ d \in Dirs /\ UNCHANGED content
            /\ entries' = load(In(d), d, entries).entries
            /\ \/ load(In(d), d, entries).status = "ok" /\ open' = open \cup {d}
               \/ load(In(d), d, entries).status # "ok" /\ UNCHANGED open
      BY <2>2, LoadNextIs
    <3>2. Legal(In(d))
      BY <3>1, ContentIsLegal
    <3>3. Backed(entries', open')
      BY <2>1, <3>1, <3>2, LoadIsBacked, ZenonT(40)
    <3> QED
      BY <3>1, <3>3 DEF RegisteredAreBacked, Backed, In
  <2>3. ASSUME NEW d \in Dirs, Unload(d)
        PROVE  RegisteredAreBacked'
    <3>1. /\ entries' = remove_plugin(entries, In(d).id) /\ open' = open \ {d}
          /\ UNCHANGED content
      BY <2>3 DEF Unload
    <3>2. \A x \in DOMAIN entries' :
            x \in DOMAIN entries /\ entries'[x] = entries[x] /\ entries[x].plugin # In(d).id
      BY <3>1 DEF remove_plugin
    <3>3. \A x \in DOMAIN entries' : entries'[x].owner \in open'
      BY <2>1, <3>1, <3>2 DEF Backed
    <3> QED
      BY <2>1, <3>1, <3>2, <3>3 DEF RegisteredAreBacked, Backed, In
  <2>4. ASSUME UNCHANGED <<content, entries, open>>
        PROVE  RegisteredAreBacked'
    BY <2>4 DEF RegisteredAreBacked, In
  <2> QED
    BY <2>2, <2>3, <2>4
       DEF Next, PluginList, Discover, AllLoaded, PipelineEnds, Exit, Done, vars
<1> QED
  BY <1>1, <1>2, PTL DEF Spec

-----------------------------------------------------------------------------
(* A plugin that passes the suite alone loads next to others. *)

(* What the suite has shown of a plugin that passes its ten checks. *)
LEMMA ConformantAlone ==
    ASSUME NEW c, NEW d, all_passed(run_conformance(c, d))
    PROVE  /\ StoredAbi(c.doc.abi.v) = 1
           /\ load(c, d, EmptyFn).status = "ok"
           /\ DOMAIN load(c, d, EmptyFn).entries = Range(c.caps)
<1> DEFINE r == load(c, d, EmptyFn)
           StopAt(k) == [i \in 1..10 |-> IF i < k THEN "pass" ELSE IF i = k THEN "fail" ELSE "skip"]
           PassFail(b) == IF b THEN "pass" ELSE "fail"
           announced == {x \in list_capabilities(r.entries) : r.entries[x].plugin = c.id}
           after == remove_plugin(r.entries, c.id)
           Latest == PassFail(DOMAIN r.entries = Range(c.caps) /\ DOMAIN after = {})
           Report == [StopAt(11) EXCEPT
               ![6] = PassFail(Range(c.caps) \subseteq announced),
               ![7] = PassFail(announced \subseteq Range(c.caps)),
               ![8] = PassFail(\A x \in announced : r.entries[x].threading = DeclaredThreading(c.doc)),
               ![9] = PassFail(\A x \in DOMAIN after : after[x].plugin # c.id),
               ![10] = Latest]
           report == run_conformance(c, d)
<1>1. report = IF StoredAbi(c.doc.abi.v) # 1 THEN StopAt(1)
               ELSE IF resolve_plugin_binary(c.declared, c.files) = <<>> THEN StopAt(2)
               ELSE IF r.status # "ok" THEN StopAt(attribute_load_error(r.status, c))
               ELSE Report
  BY DEF run_conformance
<1>2. ASSUME NEW k \in 1..10, report = StopAt(k)
      PROVE  FALSE
  <2>1. DOMAIN StopAt(k) = 1..10 /\ StopAt(k)[k] = "fail"
    OBVIOUS
  <2> HIDE DEF StopAt
  <2> QED
    BY <1>2, <2>1 DEF all_passed
<1>3. attribute_load_error(r.status, c) \in 1..10
  BY DEF attribute_load_error
<1>4. 10 \in DOMAIN Report /\ Report[10] = Latest
  OBVIOUS
<1> HIDE DEF StopAt, Report, report, r, Latest
<1>5. StoredAbi(c.doc.abi.v) = 1 /\ r.status = "ok" /\ report = Report
  BY <1>1, <1>2, <1>3
<1>6. Latest = "pass"
  BY <1>4, <1>5 DEF all_passed, report
<1>7. DOMAIN r.entries = Range(c.caps)
  BY <1>6 DEF Latest
<1> QED
  BY <1>5, <1>7 DEF r

(* The same calls are refused where nothing that is added alone is taken. *)
LEMMA SameRefusals ==
    ASSUME NEW c, Legal(c), ~ Stopped(c, EmptyFn), NEW e,
           DOMAIN e \cap Added(c, EmptyFn) = {}
    PROVE  Refused(c, e) = Refused(c, EmptyFn)
<1> DEFINE adds == c.script.adds
           n == Len(adds)
           Before(i) == {adds[j].cap : j \in {k \in 1..(i - 1) : adds[k].vtable}}
<1>1. n \in Nat /\ DOMAIN adds = 1..n
  BY DEF Legal
<1>2. ASSUME NEW f, NEW i \in 1..n
      PROVE  i \in Refused(c, f) <=> \/ adds[i].cap = "" \/ ~ adds[i].vtable
                                     \/ adds[i].cap \in DOMAIN f \cup Before(i)
  BY <1>1 DEF Refused, CallRefused, AddRefused
<1>3. DOMAIN EmptyFn = {}
  BY DEF EmptyFn
<1>4. ASSUME NEW i \in 1..n, adds[i].cap # "", adds[i].vtable
      PROVE  adds[i].cap \in Added(c, EmptyFn)
  <2> DEFINE same == {j \in 1..n : adds[j].cap = adds[i].cap /\ adds[j].vtable}
  <2>1. same \subseteq 1..n /\ same # {}
    BY <1>4
  <2>2. PICK j \in same : \A k \in same : j <= k
    <3> HIDE DEF same
    <3> QED
      BY <1>1, <2>1, FirstIndex
  <2>3. j \in 1..n /\ adds[j].cap = adds[i].cap /\ adds[j].vtable
    OBVIOUS
  <2>4. adds[j].cap \notin Before(j)
    <3> SUFFICES ASSUME NEW k \in 1..(j - 1), adds[k].vtable, adds[k].cap = adds[j].cap
                 PROVE  FALSE
      OBVIOUS
    <3>1. k \in same /\ k < j
      BY <1>1, <2>3
    <3> HIDE DEF same
    <3> QED
      BY <2>2, <2>3, <3>1
  <2>5. j \notin Refused(c, EmptyFn)
    <3> HIDE DEF Before, adds
    <3> QED
      BY <1>2, <1>3, <1>4, <2>3, <2>4
  <2>6. j \in Made(c, EmptyFn)
    BY <1>1, <2>3, <2>5 DEF Made
  <2> QED
    BY <2>3, <2>6 DEF Added
<1>5. ASSUME NEW i \in 1..n
      PROVE  i \in Refused(c, e) <=> i \in Refused(c, EmptyFn)
  <2> HIDE DEF Before, adds, n
  <2> QED
    BY <1>2, <1>3, <1>4
<1>6. Refused(c, e) \subseteq 1..n /\ Refused(c, EmptyFn) \subseteq 1..n
  BY <1>1 DEF Refused
<1> QED
  BY <1>5, <1>6

(* A plugin that passes alone loads next to plugins that took none of its capabilities. *)
LEMMA ConformantTogether ==
    ASSUME NEW c, NEW d, NEW e, Legal(c), all_passed(run_conformance(c, d)),
           DOMAIN e \cap Range(c.caps) = {}
    PROVE  /\ load(c, d, e).status = "ok"
           /\ DOMAIN load(c, d, e).entries = DOMAIN e \cup Range(c.caps)
<1> DEFINE Result(f) == RunRegister(c, d, f)
<1>1. /\ StoredAbi(c.doc.abi.v) = 1
      /\ load(c, d, EmptyFn).status = "ok"
      /\ DOMAIN load(c, d, EmptyFn).entries = Range(c.caps)
  BY ConformantAlone
<1>2. ASSUME NEW f
      PROVE  /\ DOMAIN Result(f).entries = DOMAIN f \cup Added(c, f)
             /\ Result(f).status = IF Stopped(c, f) THEN c.script.onRefusal ELSE c.script.result
             /\ Removed(Result(f), c.id).status = Result(f).status
  <2>1. /\ DOMAIN RunRegister(c, d, f).entries = DOMAIN f \cup Added(c, f)
        /\ RunRegister(c, d, f).status = IF Stopped(c, f) THEN c.script.onRefusal
                                         ELSE c.script.result
    BY RunRegisterIs
  <2>2. Removed(Result(f), c.id).status = Result(f).status
    BY DEF Removed, RunRegister
  <2> QED
    BY <2>1, <2>2
<1> HIDE DEF Result
<1>3. /\ c.binary \notin {"cannot_open", "no_symbol"}
      /\ Result(EmptyFn).status \notin {"raise", "return"}
      /\ load(c, d, EmptyFn) = Result(EmptyFn)
  <2>1. c.binary \notin {"cannot_open", "no_symbol"}
    BY <1>1 DEF load
  <2>2. load(c, d, EmptyFn) = IF Result(EmptyFn).status \in {"raise", "return"}
                              THEN Removed(Result(EmptyFn), c.id) ELSE Result(EmptyFn)
    BY <1>1, <2>1 DEF load, Result
  <2> QED
    BY <1>1, <1>2, <2>1, <2>2
<1>4. ~ Stopped(c, EmptyFn) /\ c.script.result = "ok"
  <2>1. Result(EmptyFn).status = "ok"
    BY <1>1, <1>3
  <2>2. Stopped(c, EmptyFn) => c.script.onRefusal \in {"return", "raise"}
    BY DEF Stopped, Legal
  <2> QED
    BY <1>2, <2>1, <2>2
<1>5. Added(c, EmptyFn) = Range(c.caps)
  <2>1. DOMAIN EmptyFn = {}
    BY DEF EmptyFn
  <2> QED
    BY <1>1, <1>2, <1>3, <2>1
<1>6. Refused(c, e) = Refused(c, EmptyFn)
  BY <1>4, <1>5, SameRefusals
<1>7. Stopped(c, e) = Stopped(c, EmptyFn) /\ Added(c, e) = Added(c, EmptyFn)
  BY <1>6 DEF Stopped, Made, Added
<1>8. Result(e).status = "ok" /\ DOMAIN Result(e).entries = DOMAIN e \cup Range(c.caps)
  BY <1>2, <1>4, <1>5, <1>7
<1>9. load(c, d, e) = IF Result(e).status \in {"raise", "return"}
                      THEN Removed(Result(e), c.id) ELSE Result(e)
  BY <1>1, <1>3 DEF load, Result
<1> QED
  BY <1>8, <1>9

(* The plugins found are conformant, of different ids, and announce different things. *)
Coexisting ==
    LET fs == Range(found)
    IN  /\ \A d, f \in fs : d # f => /\ In(d).id # In(f).id
                                    /\ Range(In(d).caps) \cap Range(In(f).caps) = {}
        /\ \A d \in fs : all_passed(run_conformance(In(d), d))

Tried == {found[i] : i \in 1..cursor}
Announced(ds) == UNION {Range(In(d).caps) : d \in ds}

(* So far, all that were tried are there, with what they announced. *)
Together ==
    pc \in {"loading", "running"} /\ Coexisting =>
        live = Tried /\ DOMAIN entries = Announced(Tried)

(* The next plugin comes on top of those. *)
LEMMA LoadNextTogether ==
    ASSUME Typed, Together, LoadNext
    PROVE  Together'
<1> SUFFICES ASSUME Coexisting'
             PROVE  live' = Tried' /\ DOMAIN entries' = Announced(Tried)'
  BY DEF Together
<1>1. PICK d \in Range(found) :
        /\ d = found[cursor + 1] /\ d \in Dirs /\ cursor + 1 \in 1..Len(found)
        /\ cursor' = cursor + 1 /\ UNCHANGED <<content, pc, found, exit>>
        /\ entries' = load(In(d), d, entries).entries
        /\ \/ /\ load(In(d), d, entries).status = "ok"
              /\ open' = open \cup {d} /\ live' = live \cup {d}
           \/ /\ load(In(d), d, entries).status # "ok"
              /\ UNCHANGED <<open, live>>
  BY LoadNextIs
<1>2. \A x : In(x)' = In(x)
  BY <1>1 DEF In
<1>3. Coexisting
  BY <1>1, <1>2 DEF Coexisting, In
<1>4. live = Tried /\ DOMAIN entries = Announced(Tried)
  BY <1>3 DEF Together, LoadNext
<1>5. cursor \in Nat /\ Len(found) \in Nat /\ DOMAIN found = 1..Len(found)
  BY DEF Typed, TypeOK
<1>6. d \notin Tried /\ Tried \subseteq Range(found)
  <2>1. ASSUME NEW i \in 1..cursor
        PROVE  found[i] # d /\ found[i] \in Range(found)
    BY <1>1, <1>5 DEF Typed, Range
  <2> QED
    BY <2>1 DEF Tried
<1>7. Tried' = Tried \cup {d}
  BY <1>1, <1>5 DEF Tried
<1>8. DOMAIN entries \cap Range(In(d).caps) = {}
  BY <1>3, <1>4, <1>6 DEF Coexisting, Announced
<1>9. /\ load(In(d), d, entries).status = "ok"
      /\ DOMAIN load(In(d), d, entries).entries = DOMAIN entries \cup Range(In(d).caps)
  <2>1. all_passed(run_conformance(In(d), d)) /\ Legal(In(d))
    BY <1>1, <1>3, ContentIsLegal DEF Coexisting
  <2> QED
    BY <1>8, <2>1, ConformantTogether
<1>10. Announced(Tried)' = Announced(Tried) \cup Range(In(d).caps)
  <2>1. Announced(Tried)' = UNION {Range(In(x).caps) : x \in Tried \cup {d}}
    BY <1>1, <1>7 DEF Announced, In
  <2> QED
    BY <2>1 DEF Announced
<1> QED
  BY <1>1, <1>4, <1>7, <1>9, <1>10

(***************************************************************************)
(* ConformantPluginsCoexist: what the suite checks of each plugin alone is *)
(* enough for plugins of different ids and capabilities to load together,  *)
(* however many there are and in whatever order they are found.            *)
(***************************************************************************)
THEOREM ConformanceIsEnough == Spec => []ConformantPluginsCoexist
<1>1. Init => Typed /\ Together
  BY TypeInvariance DEF Init, Together
<1>2. Typed /\ Together /\ [Next]_vars => (Typed /\ Together)'
  <2> SUFFICES ASSUME Typed, Together, [Next]_vars PROVE Together'
    BY TypeInvariance
  <2>1. CASE Discover
    <3>1. /\ cursor' = 0 /\ live' = {} /\ entries' = EmptyFn
      BY <2>1 DEF Discover, Typed
    <3>2. Tried' = {} /\ DOMAIN entries' = {}
      BY <3>1 DEF Tried, EmptyFn
    <3>3. Announced(Tried)' = {}
      BY <3>2 DEF Announced
    <3> QED
      BY <3>1, <3>2, <3>3 DEF Together
  <2>2. ASSUME UNCHANGED <<content, found, cursor, entries, live>>,
               pc' \in {"loading", "running"} => pc \in {"loading", "running"}
        PROVE  Together'
    BY <2>2 DEF Together, Coexisting, Tried, Announced, In
  <2>3. CASE AllLoaded \/ PipelineEnds \/ Exit \/ Done \/ PluginList \/ UNCHANGED vars
    BY <2>2, <2>3 DEF AllLoaded, PipelineEnds, Exit, Done, PluginList, vars, Together
  <2>4. ASSUME NEW d \in Dirs, Unload(d)
        PROVE  Together'
    BY <2>4 DEF Unload, Together
  <2> QED
    BY <2>1, <2>3, <2>4, LoadNextTogether DEF Next
<1>3. Typed /\ Together => ConformantPluginsCoexist
  <2> SUFFICES ASSUME Typed, Together, pc \in {"loading", "running"}, cursor = Len(found),
                      Coexisting
               PROVE  /\ live = Range(found)
                      /\ DOMAIN entries = UNION {Range(In(d).caps) : d \in Range(found)}
    BY DEF ConformantPluginsCoexist, Coexisting
  <2>1. Tried = Range(found)
    BY DEF Tried, Range, Typed
  <2> QED
    BY <2>1 DEF Together, Announced
<1> QED
  BY <1>1, <1>2, <1>3, PTL DEF Spec

-----------------------------------------------------------------------------
(* A logic for the programs of the plugins.  A point says what is held,     *)
(* which handler is in force and what the file at the call's path may be;   *)
(* an annotation gives each step of a program the point before it, and is   *)
(* right when every step leads to the next one and every exit is allowed.   *)

Errors == {"INVALID", "INTERNAL", "OUT_OF_MEMORY", "PLUGIN_REJECTED", "FORWARDED",
           "NOT_IMPLEMENTED", "IO", "NOT_FOUND", "TIMEOUT", "ESCAPED"}

Point(x, h, f) == [held |-> x, handler |-> h, files |-> f]

\* Before the file is touched, with x held; with nothing held; after the return.
With(x, h) == Point(x, h, {"old"})

Free(h) == With({}, h)

Over == Point({}, NoHandler, {})

IsPoint(a) == a.held \subseteq Resources /\ a.files \subseteq {"old", "partial", "new"}

\* What a call of capability k may leave behind when it returns `code`; `thrown`
\* says whether an exception ended it, and what threw.
Ends(k, left, code, thrown, f) ==
    /\ code \in Errors \cup {"OK"}
    /\ left # {} =>
        \/ left = {"casedir"} /\ k \in ToSet(FoamSolvers) /\ code \notin {"OK", "INVALID", "IO"}
        \/ thrown = "work" /\ \E x \in Unguarded(k) : left = {x}
    /\ code \notin {"OK", "IO"} =>
        \/ f \subseteq {"old"}
        \/ thrown = "stream"
        \/ thrown = "work" /\ k = "writer.vtu"
    /\ (k = "writer.marine.qualification_report" /\ code = "OK") => f \subseteq {"new"}

\* Step s leads from point a to point b, and may end the call at a.
Moves(k, s, a, b) ==
    \/ s.op = "refuse" /\ b = a /\ Ends(k, a.held, s.code, "no", a.files)
    \/ /\ s.op = "acquire" /\ b = Point(a.held \cup {s.what}, a.handler, a.files)
       /\ Ends(k, a.held, s.code, "no", a.files)
    \/ /\ s.op = "acquire_else" /\ b = Point(a.held \cup {s.what[1]}, a.handler, a.files)
       /\ Ends(k, a.held \ {s.what[2]}, s.code, "no", a.files)
    \/ s.op = "abandon" /\ b = a /\ Ends(k, a.held \ {s.what}, s.code, "no", a.files)
    \/ s.op = "release" /\ b = Point(a.held \ {s.what}, a.handler, a.files)
    \/ /\ s.op = "return" /\ b = Over /\ s.what \in Resources \cup {"none"}
       /\ Ends(k, a.held \ {s.what}, "OK", "no", a.files)
    \/ /\ s.op = "throws" /\ b = a
       /\ Ends(k, a.held \ {a.handler.what}, a.handler.code, "work", a.files)
    \/ s.op = "try" /\ b = Point(a.held, [what |-> s.what, code |-> s.code], a.files)
    \/ s.op = "endtry" /\ b = Point(a.held, NoHandler, a.files)
    \/ /\ s.op = "open" /\ b = Point(a.held, a.handler, {"partial"})
       /\ Ends(k, a.held, s.code, "no", a.files)
       /\ s.what = "stream" =>
            Ends(k, a.held \ {a.handler.what}, a.handler.code, "stream", {"partial"})
    \/ /\ s.op = "write" /\ b = Point(a.held, a.handler, {"new"})
       /\ Ends(k, a.held, s.code, "no", a.files)
    \/ /\ s.op = "put" /\ b = Point(a.held, a.handler, {"partial", "new"})
       /\ Ends(k, a.held, s.code, "no", a.files)
    \/ s.op = "print" /\ b = Point(a.held, a.handler, {"partial", "new"})

\* A skip or a repetition stays inside the program.
JumpsTo(P, i, j) ==
    \/ P[i].op = "skip" /\ P[i].what \in Nat /\ j = i + 1 + P[i].what /\ j <= Len(P) + 1
    \/ P[i].op = "again" /\ P[i].what \in Nat /\ P[i].what < i /\ j = i - P[i].what

IsProgram(P) == \E S : P \in Seq(S)

Annotated(k, P, A) ==
    /\ \A i \in 1..(Len(P) + 1) : IsPoint(A[i])
    /\ \A i \in 1..Len(P) :
        \/ Moves(k, P[i], A[i], A[i + 1])
        \/ A[i + 1] = A[i] /\ \E j \in Nat : JumpsTo(P, i, j) /\ A[j] = A[i]

Flows(k, P, a, b) ==
    /\ IsProgram(P)
    /\ \E A : Annotated(k, P, A) /\ A[1] = a /\ A[Len(P) + 1] = b

\* Every step of P starts and ends at a.
Steady(k, P, a) ==
    /\ IsProgram(P) /\ IsPoint(a)
    /\ \A i \in 1..Len(P) : Moves(k, P[i], a, a) \/ \E j \in Nat : JumpsTo(P, i, j)

\* Steps that test something and may end the call, and those that may be taken at a.
TestSteps ==
    {Refuse(c) : c \in Errors} \cup {Abandon(x, c) : x \in Resources, c \in Errors} \cup {Throws}

Tests(k, a) == {s \in TestSteps : Moves(k, s, a, a)}

(* The length and the steps of two programs run one after the other. *)
LEMMA ProgramsTogether ==
    ASSUME NEW P, NEW Q, IsProgram(P), IsProgram(Q)
    PROVE  /\ IsProgram(P \o Q)
           /\ Len(P) \in Nat /\ Len(Q) \in Nat /\ Len(P \o Q) = Len(P) + Len(Q)
           /\ \A i \in 1..Len(P) : (P \o Q)[i] = P[i]
           /\ \A i \in 1..Len(Q) : (P \o Q)[Len(P) + i] = Q[i]
<1>1. PICK S : P \in Seq(S)
  BY DEF IsProgram
<1>2. PICK T : Q \in Seq(T)
  BY DEF IsProgram
<1>3. P \in Seq(S \cup T) /\ Q \in Seq(S \cup T)
  BY <1>1, <1>2, SeqMonotonic
<1>4. /\ P \o Q \in Seq(S \cup T) /\ Len(P \o Q) = Len(P) + Len(Q)
      /\ \A i \in 1..Len(P) + Len(Q) : (P \o Q)[i] = IF i <= Len(P) THEN P[i] ELSE Q[i - Len(P)]
  BY <1>3, ConcatProperties
<1>5. Len(P) \in Nat /\ Len(Q) \in Nat
  BY <1>3, LenProperties
<1>6. ASSUME NEW i \in 1..Len(P)
      PROVE  (P \o Q)[i] = P[i]
  BY <1>4, <1>5
<1>7. ASSUME NEW i \in 1..Len(Q)
      PROVE  (P \o Q)[Len(P) + i] = Q[i]
  <2>1. Len(P) + i \in 1..Len(P) + Len(Q) /\ ~ (Len(P) + i <= Len(P)) /\ (Len(P) + i) - Len(P) = i
    BY <1>5
  <2> QED
    BY <2>1, <1>4
<1> QED
  BY <1>4, <1>5, <1>6, <1>7 DEF IsProgram

(* Jumps stay where they were when a program is extended. *)
LEMMA JumpsTogether ==
    ASSUME NEW P, NEW Q, IsProgram(P), IsProgram(Q)
    PROVE  /\ \A i \in 1..Len(P), j \in Nat :
               JumpsTo(P, i, j) => JumpsTo(P \o Q, i, j) /\ j \in 1..(Len(P) + 1)
           /\ \A i \in 1..Len(Q), j \in Nat :
               JumpsTo(Q, i, j) => /\ JumpsTo(P \o Q, Len(P) + i, Len(P) + j)
                                   /\ j \in 1..(Len(Q) + 1)
<1>1. /\ Len(P) \in Nat /\ Len(Q) \in Nat /\ Len(P \o Q) = Len(P) + Len(Q)
      /\ \A i \in 1..Len(P) : (P \o Q)[i] = P[i]
      /\ \A i \in 1..Len(Q) : (P \o Q)[Len(P) + i] = Q[i]
  BY ProgramsTogether
<1>2. ASSUME NEW i \in 1..Len(P), NEW j \in Nat, JumpsTo(P, i, j)
      PROVE  JumpsTo(P \o Q, i, j) /\ j \in 1..(Len(P) + 1)
  BY <1>1, <1>2 DEF JumpsTo
<1>3. ASSUME NEW i \in 1..Len(Q), NEW j \in Nat, JumpsTo(Q, i, j)
      PROVE  JumpsTo(P \o Q, Len(P) + i, Len(P) + j) /\ j \in 1..(Len(Q) + 1)
  <2> DEFINE s == Q[i]
             m == Len(P)
             n == Len(Q)
             l == Len(P \o Q)
             w == s.what
  <2>0. i \in 1..n
    OBVIOUS
  <2>1. (P \o Q)[m + i] = s /\ l = m + n /\ m \in Nat /\ n \in Nat /\ w \in Nat
    BY <1>1, <1>3 DEF JumpsTo
  <2>2. \/ s.op = "skip" /\ j = i + 1 + w /\ j <= n + 1
        \/ s.op = "again" /\ w < i /\ j = i - w
    BY <1>3 DEF JumpsTo
  <2> HIDE DEF m, n, l, w
  <2>3. \/ s.op = "skip" /\ m + j = (m + i) + 1 + w /\ m + j <= l + 1
        \/ s.op = "again" /\ w < m + i /\ m + j = (m + i) - w
    BY <2>1, <2>2
  <2>4. j \in 1..(n + 1)
    BY <2>1, <2>2, <2>0
  <2>5. JumpsTo(P \o Q, m + i, m + j)
    BY <2>1, <2>3 DEF JumpsTo, l, w
  <2> QED
    BY <2>4, <2>5 DEF m, n
<1> QED
  BY <1>2, <1>3

(* Two programs one after the other. *)
LEMMA FlowsTogether ==
    ASSUME NEW k, NEW P, NEW Q, NEW a, NEW b, NEW c, Flows(k, P, a, b), Flows(k, Q, b, c)
    PROVE  Flows(k, P \o Q, a, c)
<1> DEFINE m == Len(P)
           n == Len(Q)
<1>1. PICK A : Annotated(k, P, A) /\ A[1] = a /\ A[m + 1] = b
  BY DEF Flows
<1>2. PICK B : Annotated(k, Q, B) /\ B[1] = b /\ B[n + 1] = c
  BY DEF Flows
<1> DEFINE C == [i \in 1..(m + n + 1) |-> IF i <= m THEN A[i] ELSE B[i - m]]
<1>3. IsProgram(P) /\ IsProgram(Q)
  BY DEF Flows
<1>4. /\ IsProgram(P \o Q) /\ m \in Nat /\ n \in Nat /\ Len(P \o Q) = m + n
      /\ \A i \in 1..m : (P \o Q)[i] = P[i]
      /\ \A i \in 1..n : (P \o Q)[m + i] = Q[i]
  BY <1>3, ProgramsTogether
<1>5. /\ \A i \in 1..m, j \in Nat :
          JumpsTo(P, i, j) => JumpsTo(P \o Q, i, j) /\ j \in 1..(m + 1)
      /\ \A i \in 1..n, j \in Nat :
          JumpsTo(Q, i, j) => /\ JumpsTo(P \o Q, m + i, m + j)
                              /\ j \in 1..(n + 1)
  BY <1>3, JumpsTogether
<1> HIDE DEF m, n
<1>6. \A i \in 1..(m + 1) : C[i] = A[i]
  <2>1. ASSUME NEW i \in 1..(m + 1)
        PROVE  C[i] = A[i]
    <3>1. CASE i <= m
      BY <3>1, <1>4
    <3>2. CASE i = m + 1
      <4>1. i \in 1..(m + n + 1) /\ ~ (i <= m) /\ i - m = 1
        BY <3>2, <1>4
      <4> QED
        BY <3>2, <4>1, <1>1, <1>2
    <3> QED
      BY <3>1, <3>2, <1>4
  <2> QED
    BY <2>1
<1>7. \A i \in 1..(n + 1) : C[m + i] = B[i]
  <2>1. ASSUME NEW i \in 1..(n + 1)
        PROVE  C[m + i] = B[i]
    <3>1. m + i \in 1..(m + n + 1) /\ ~ (m + i <= m) /\ (m + i) - m = i
      BY <1>4
    <3> QED
      BY <3>1
  <2> QED
    BY <2>1
<1> HIDE DEF C
<1>8. \A i \in 1..(m + n + 1) : i \in 1..(m + 1) \/ \E j \in 1..(n + 1) : i = m + j
  <2>1. ASSUME NEW i \in 1..(m + n + 1), i \notin 1..(m + 1)
        PROVE  i - m \in 1..(n + 1) /\ i = m + (i - m)
    BY <1>4, <2>1
  <2> QED
    BY <2>1
<1>9. \A i \in 1..(m + n) : i \in 1..m \/ \E j \in 1..n : i = m + j
  <2>1. ASSUME NEW i \in 1..(m + n), i \notin 1..m
        PROVE  i - m \in 1..n /\ i = m + (i - m)
    BY <1>4, <2>1
  <2> QED
    BY <2>1
<1>10. \A i \in 1..(m + n + 1) : IsPoint(C[i])
  <2>1. /\ \A i \in 1..(m + 1) : IsPoint(A[i])
        /\ \A i \in 1..(n + 1) : IsPoint(B[i])
    BY <1>1, <1>2 DEF Annotated, m, n
  <2> QED
    BY <2>1, <1>6, <1>7, <1>8
<1>11. ASSUME NEW i \in 1..(m + n)
       PROVE  \/ Moves(k, (P \o Q)[i], C[i], C[i + 1])
              \/ C[i + 1] = C[i] /\ \E j \in Nat : JumpsTo(P \o Q, i, j) /\ C[j] = C[i]
  <2>1. CASE i \in 1..m
    <3>1. \/ Moves(k, P[i], A[i], A[i + 1])
          \/ A[i + 1] = A[i] /\ \E j \in Nat : JumpsTo(P, i, j) /\ A[j] = A[i]
      BY <2>1, <1>1 DEF Annotated, m
    <3>2. i \in 1..(m + 1) /\ i + 1 \in 1..(m + 1)
      BY <2>1, <1>4
    <3>3. C[i] = A[i] /\ C[i + 1] = A[i + 1] /\ (P \o Q)[i] = P[i]
      BY <2>1, <3>2, <1>4, <1>6
    <3> QED
      BY <2>1, <3>1, <3>3, <1>5, <1>6
  <2>2. ASSUME NEW h \in 1..n, i = m + h
        PROVE  \/ Moves(k, (P \o Q)[i], C[i], C[i + 1])
               \/ C[i + 1] = C[i] /\ \E j \in Nat : JumpsTo(P \o Q, i, j) /\ C[j] = C[i]
    <3>1. \/ Moves(k, Q[h], B[h], B[h + 1])
          \/ B[h + 1] = B[h] /\ \E j \in Nat : JumpsTo(Q, h, j) /\ B[j] = B[h]
      BY <2>2, <1>2 DEF Annotated, n
    <3>2. h \in 1..(n + 1) /\ h + 1 \in 1..(n + 1) /\ i + 1 = m + (h + 1)
      BY <2>2, <1>4
    <3>3. C[i] = B[h] /\ C[i + 1] = B[h + 1] /\ (P \o Q)[i] = Q[h]
      BY <2>2, <3>2, <1>4, <1>7
    <3>4. \A j \in Nat : m + j \in Nat
      BY <1>4
    <3> QED
      BY <2>2, <3>1, <3>3, <3>4, <1>5, <1>7
  <2> QED
    BY <2>1, <2>2, <1>9
<1>12. C[1] = a /\ C[m + n + 1] = c
  <2>1. 1 \in 1..(m + 1) /\ n + 1 \in 1..(n + 1) /\ m + n + 1 = m + (n + 1)
    BY <1>4
  <2> QED
    BY <2>1, <1>1, <1>2, <1>6, <1>7 DEF m, n
<1> QED
  BY <1>4, <1>10, <1>11, <1>12 DEF Flows, Annotated

(* A program of one step. *)
LEMMA OneStep ==
    ASSUME NEW k, NEW s, NEW a, NEW b, IsPoint(a), IsPoint(b), Moves(k, s, a, b)
    PROVE  Flows(k, <<s>>, a, b)
<1> DEFINE P == <<s>>
           A == [i \in 1..2 |-> IF i = 1 THEN a ELSE b]
<1>1. P \in Seq({s}) /\ Len(P) = 1 /\ P[1] = s
  OBVIOUS
<1>2. A[1] = a /\ A[2] = b
  OBVIOUS
<1> HIDE DEF P, A
<1>3. \A i \in 1..(Len(P) + 1) : IsPoint(A[i])
  <2>1. \A i \in 1..(Len(P) + 1) : i = 1 \/ i = 2
    BY <1>1
  <2> QED
    BY <2>1, <1>2
<1>4. \A i \in 1..Len(P) : Moves(k, P[i], A[i], A[i + 1])
  <2>1. \A i \in 1..Len(P) : i = 1 /\ i + 1 = 2
    BY <1>1
  <2> QED
    BY <2>1, <1>1, <1>2
<1>5. Len(P) + 1 = 2
  BY <1>1
<1>6. Flows(k, P, a, b)
  BY <1>1, <1>2, <1>3, <1>4, <1>5 DEF Flows, IsProgram, Annotated
<1> QED
  BY <1>6 DEF P

(* A steady program ends where it starts. *)
LEMMA SteadyFlows ==
    ASSUME NEW k, NEW P, NEW a, Steady(k, P, a)
    PROVE  Flows(k, P, a, a)
<1> DEFINE A == [i \in 1..(Len(P) + 1) |-> a]
<1>1. IsProgram(P) /\ IsPoint(a) /\ Len(P) \in Nat
  BY LenProperties DEF Steady, IsProgram
<1>2. \A i \in 1..(Len(P) + 1) : A[i] = a
  OBVIOUS
<1> HIDE DEF A
<1>3. 1 \in 1..(Len(P) + 1) /\ Len(P) + 1 \in 1..(Len(P) + 1)
  BY <1>1
<1>4. ASSUME NEW i \in 1..Len(P)
      PROVE  \/ Moves(k, P[i], A[i], A[i + 1])
             \/ A[i + 1] = A[i] /\ \E j \in Nat : JumpsTo(P, i, j) /\ A[j] = A[i]
  <2>1. i \in 1..(Len(P) + 1) /\ i + 1 \in 1..(Len(P) + 1)
    BY <1>1
  <2>2. A[i] = a /\ A[i + 1] = a
    BY <2>1, <1>2
  <2>3. CASE Moves(k, P[i], a, a)
    BY <2>2, <2>3
  <2>4. ASSUME NEW j \in Nat, JumpsTo(P, i, j)
        PROVE  A[j] = A[i]
    <3>1. j \in 1..(Len(P) + 1)
      BY <1>1, <2>1, <2>4 DEF JumpsTo
    <3> QED
      BY <3>1, <2>2, <1>2
  <2> QED
    BY <2>2, <2>3, <2>4 DEF Steady
<1> QED
  BY <1>1, <1>2, <1>3, <1>4 DEF Flows, Annotated

(* Steady programs one after the other. *)
LEMMA SteadyTogether ==
    ASSUME NEW k, NEW P, NEW Q, NEW a, Steady(k, P, a), Steady(k, Q, a)
    PROVE  Steady(k, P \o Q, a)
<1> DEFINE m == Len(P)
           n == Len(Q)
<1>1. IsProgram(P) /\ IsProgram(Q) /\ IsPoint(a)
  BY DEF Steady
<1>2. /\ IsProgram(P \o Q) /\ m \in Nat /\ n \in Nat /\ Len(P \o Q) = m + n
      /\ \A i \in 1..m : (P \o Q)[i] = P[i]
      /\ \A i \in 1..n : (P \o Q)[m + i] = Q[i]
  BY <1>1, ProgramsTogether
<1>3. /\ \A i \in 1..m, j \in Nat : JumpsTo(P, i, j) => JumpsTo(P \o Q, i, j)
      /\ \A i \in 1..n, j \in Nat : JumpsTo(Q, i, j) => JumpsTo(P \o Q, m + i, m + j)
  BY <1>1, JumpsTogether
<1>4. /\ \A i \in 1..m : Moves(k, P[i], a, a) \/ \E j \in Nat : JumpsTo(P, i, j)
      /\ \A i \in 1..n : Moves(k, Q[i], a, a) \/ \E j \in Nat : JumpsTo(Q, i, j)
  BY DEF Steady
<1> HIDE DEF m, n
<1>5. ASSUME NEW i \in 1..(m + n)
      PROVE  Moves(k, (P \o Q)[i], a, a) \/ \E j \in Nat : JumpsTo(P \o Q, i, j)
  <2>1. CASE i \in 1..m
    BY <2>1, <1>2, <1>3, <1>4
  <2>2. CASE i \notin 1..m
    <3>1. PICK h \in 1..n : i = m + h
      <4>1. i - m \in 1..n /\ i = m + (i - m)
        BY <2>2, <1>2
      <4> QED
        BY <4>1
    <3>2. \A j \in Nat : m + j \in Nat
      BY <1>2
    <3> QED
      BY <3>1, <3>2, <1>2, <1>3, <1>4
  <2> QED
    BY <2>1, <2>2
<1> QED
  BY <1>1, <1>2, <1>5 DEF Steady

(* Steps that are steady, one after the other. *)
LEMMA TestsAreSteady ==
    ASSUME NEW k, NEW a, IsPoint(a), NEW P \in Seq(Tests(k, a))
    PROVE  Steady(k, P, a)
<1>1. \A i \in 1..Len(P) : P[i] \in Tests(k, a)
  <2>1. PICK T : T = Tests(k, a)
    OBVIOUS
  <2>2. P \in Seq(T)
    BY <2>1
  <2>3. P \in [1..Len(P) -> T]
    BY <2>2, LenProperties
  <2>4. \A i \in 1..Len(P) : P[i] \in T
    BY <2>3
  <2> QED
    BY <2>1, <2>4
<1>2. \A s \in Tests(k, a) : Moves(k, s, a, a)
  BY DEF Tests
<1>3. \A i \in 1..Len(P) : Moves(k, P[i], a, a)
  BY <1>1, <1>2
<1> QED
  BY <1>3 DEF Steady, IsProgram

(* What is steady is steady when it may be passed over. *)
LEMMA SteadyMaybe ==
    ASSUME NEW k, NEW P, NEW a, Steady(k, P, a)
    PROVE  Steady(k, Maybe(P), a)
<1> DEFINE s == [op |-> "skip", what |-> Len(P), code |-> "OK"]
           H == <<s>>
<1>1. IsProgram(P) /\ IsPoint(a) /\ Len(P) \in Nat
  BY LenProperties DEF Steady, IsProgram
<1>2. H \in Seq({s}) /\ Len(H) = 1 /\ H[1] = s
  OBVIOUS
<1>3. s.op = "skip" /\ s.what = Len(P)
  OBVIOUS
<1> HIDE DEF H, s
<1>4. IsProgram(H)
  BY <1>2 DEF IsProgram
<1>5. /\ IsProgram(H \o P) /\ Len(H \o P) = 1 + Len(P)
      /\ (H \o P)[1] = s
      /\ \A i \in 1..Len(P) : (H \o P)[1 + i] = P[i]
  <2>1. /\ IsProgram(H \o P) /\ Len(H \o P) = Len(H) + Len(P)
        /\ \A i \in 1..Len(H) : (H \o P)[i] = H[i]
        /\ \A i \in 1..Len(P) : (H \o P)[Len(H) + i] = P[i]
    BY <1>1, <1>4, ProgramsTogether
  <2>2. 1 \in 1..Len(H)
    BY <1>2
  <2> QED
    BY <2>1, <2>2, <1>2
<1>6. \A i \in 1..Len(P), j \in Nat : JumpsTo(P, i, j) => JumpsTo(H \o P, 1 + i, 1 + j)
  BY <1>1, <1>2, <1>4, JumpsTogether
<1>7. \A i \in 1..Len(P) : Moves(k, P[i], a, a) \/ \E j \in Nat : JumpsTo(P, i, j)
  BY DEF Steady
<1>8. ASSUME NEW i \in 1..Len(H \o P)
      PROVE  Moves(k, (H \o P)[i], a, a) \/ \E j \in Nat : JumpsTo(H \o P, i, j)
  <2>1. CASE i = 1
    <3>1. 2 + Len(P) \in Nat /\ 1 + 1 + Len(P) = 2 + Len(P) /\ 2 + Len(P) <= (1 + Len(P)) + 1
      BY <1>1
    <3>2. JumpsTo(H \o P, 1, 2 + Len(P))
      BY <3>1, <1>1, <1>3, <1>5 DEF JumpsTo
    <3> QED
      BY <2>1, <3>1, <3>2
  <2>2. CASE i # 1
    <3>1. PICK h \in 1..Len(P) : i = 1 + h
      <4>1. i - 1 \in 1..Len(P) /\ i = 1 + (i - 1)
        BY <2>2, <1>1, <1>5
      <4> QED
        BY <4>1
    <3>2. \A j \in Nat : 1 + j \in Nat
      OBVIOUS
    <3> QED
      BY <3>1, <3>2, <1>5, <1>6, <1>7
  <2> QED
    BY <2>1, <2>2
<1>9. Steady(k, H \o P, a)
  BY <1>1, <1>5, <1>8 DEF Steady
<1> QED
  BY <1>9 DEF Maybe, H, s

(* And when it is repeated. *)
LEMMA SteadyLoop ==
    ASSUME NEW k, NEW P, NEW a, Steady(k, P, a)
    PROVE  Steady(k, Loop(P), a)
<1> DEFINE s == [op |-> "again", what |-> Len(P), code |-> "OK"]
           H == <<s>>
<1>1. IsProgram(P) /\ IsPoint(a) /\ Len(P) \in Nat
  BY LenProperties DEF Steady, IsProgram
<1>2. H \in Seq({s}) /\ Len(H) = 1 /\ H[1] = s
  OBVIOUS
<1>3. s.op = "again" /\ s.what = Len(P)
  OBVIOUS
<1> HIDE DEF H, s
<1>4. IsProgram(H)
  BY <1>2 DEF IsProgram
<1>5. /\ IsProgram(P \o H) /\ Len(P \o H) = Len(P) + 1
      /\ \A i \in 1..Len(P) : (P \o H)[i] = P[i]
      /\ (P \o H)[Len(P) + 1] = s
  <2>1. /\ IsProgram(P \o H) /\ Len(P \o H) = Len(P) + Len(H)
        /\ \A i \in 1..Len(P) : (P \o H)[i] = P[i]
        /\ \A i \in 1..Len(H) : (P \o H)[Len(P) + i] = H[i]
    BY <1>1, <1>4, ProgramsTogether
  <2>2. 1 \in 1..Len(H)
    BY <1>2
  <2> QED
    BY <2>1, <2>2, <1>2
<1>6. \A i \in 1..Len(P), j \in Nat : JumpsTo(P, i, j) => JumpsTo(P \o H, i, j)
  BY <1>1, <1>4, JumpsTogether
<1>7. \A i \in 1..Len(P) : Moves(k, P[i], a, a) \/ \E j \in Nat : JumpsTo(P, i, j)
  BY DEF Steady
<1>8. ASSUME NEW i \in 1..Len(P \o H)
      PROVE  Moves(k, (P \o H)[i], a, a) \/ \E j \in Nat : JumpsTo(P \o H, i, j)
  <2>1. CASE i = Len(P) + 1
    <3>1. (Len(P) + 1) - Len(P) = 1 /\ Len(P) < Len(P) + 1 /\ 1 \in Nat
      BY <1>1
    <3>2. JumpsTo(P \o H, Len(P) + 1, 1)
      BY <3>1, <1>1, <1>3, <1>5 DEF JumpsTo
    <3> QED
      BY <2>1, <3>1, <3>2
  <2>2. CASE i # Len(P) + 1
    <3>1. i \in 1..Len(P)
      BY <2>2, <1>1, <1>5
    <3> QED
      BY <3>1, <1>5, <1>6, <1>7
  <2> QED
    BY <2>1, <2>2
<1>9. Steady(k, P \o H, a)
  BY <1>1, <1>5, <1>8 DEF Steady
<1>10. Steady(k, Maybe(P \o H), a)
  BY <1>9, SteadyMaybe
<1> QED
  BY <1>10 DEF Loop, H, s

-----------------------------------------------------------------------------
(* Where the common steps lead. *)

(* The codes and the resources by name. *)
LEMMA Codes ==
    /\ "INVALID" \in Errors /\ "INTERNAL" \in Errors /\ "OUT_OF_MEMORY" \in Errors
    /\ "PLUGIN_REJECTED" \in Errors /\ "FORWARDED" \in Errors /\ "NOT_IMPLEMENTED" \in Errors
    /\ "IO" \in Errors /\ "NOT_FOUND" \in Errors /\ "TIMEOUT" \in Errors
    /\ "ESCAPED" \in Errors
    /\ "OK" \notin Errors /\ "none" \notin Errors
  BY DEF Errors

(* What no handler catches reaches the host with everything that is held. *)
LEMMA Unhandled ==
    NoHandler.code \in Errors /\ NoHandler.what = "none"
  BY Codes DEF NoHandler

(* The fields of a point. *)
LEMMA Points ==
    ASSUME NEW x, NEW h, NEW f
    PROVE  /\ Point(x, h, f).held = x /\ Point(x, h, f).handler = h /\ Point(x, h, f).files = f
           /\ x \subseteq Resources /\ f \subseteq {"old", "partial", "new"} => IsPoint(Point(x, h, f))
  BY DEF Point, IsPoint

(* With nothing held every test may end the call, and so may a throw. *)
LEMMA FreeTests ==
    ASSUME NEW k, NEW h
    PROVE  /\ IsPoint(Free(h))
           /\ \A c \in Errors : Refuse(c) \in Tests(k, Free(h))
           /\ h.code \in Errors => Throws \in Tests(k, Free(h))
<1> DEFINE a == Free(h)
<1>1. a.held = {} /\ a.handler = h /\ a.files = {"old"} /\ IsPoint(a)
  BY Points DEF Free, With
<1> HIDE DEF a
<1>2. \A c \in Errors : \A t : Ends(k, {}, c, t, {"old"})
  BY Codes DEF Ends
<1>3. ASSUME NEW c \in Errors
      PROVE  Refuse(c) \in Tests(k, a)
  <2>1. Refuse(c).op = "refuse" /\ Refuse(c).code = c
    BY DEF Refuse
  <2>2. Ends(k, {}, c, "no", {"old"})
    BY <1>2
  <2>3. Moves(k, Refuse(c), a, a)
    BY <1>1, <2>1, <2>2 DEF Moves
  <2>4. Refuse(c) \in TestSteps
    BY DEF TestSteps
  <2> QED
    BY <2>3, <2>4 DEF Tests
<1>4. ASSUME h.code \in Errors
      PROVE  Throws \in Tests(k, a)
  <2>1. Throws.op = "throws"
    BY DEF Throws
  <2>2. Ends(k, {}, h.code, "work", {"old"}) /\ {} \ {h.what} = {}
    BY <1>2, <1>4
  <2>3. Moves(k, Throws, a, a)
    BY <1>1, <2>1, <2>2 DEF Moves
  <2>4. Throws \in TestSteps
    BY DEF TestSteps
  <2> QED
    BY <2>3, <2>4 DEF Tests
<1> QED
  BY <1>1, <1>3, <1>4 DEF a

(* With x held a test frees it, and a throw past it is for what is unguarded. *)
LEMMA HeldTests ==
    ASSUME NEW k, NEW x \in Resources, NEW h
    PROVE  /\ IsPoint(With({x}, h))
           /\ \A c \in Errors : Abandon(x, c) \in Tests(k, With({x}, h))
           /\ (h.code \in Errors /\ h.what = "none" /\ x \in Unguarded(k))
               => Throws \in Tests(k, With({x}, h))
<1> DEFINE a == With({x}, h)
<1>1. a.held = {x} /\ a.handler = h /\ a.files = {"old"} /\ IsPoint(a)
  BY Points DEF With
<1> HIDE DEF a
<1>2. \A c \in Errors : \A t : Ends(k, {}, c, t, {"old"})
  BY Codes DEF Ends
<1>3. ASSUME NEW c \in Errors
      PROVE  Abandon(x, c) \in Tests(k, a)
  <2>1. Abandon(x, c).op = "abandon" /\ Abandon(x, c).code = c /\ Abandon(x, c).what = x
    BY DEF Abandon
  <2>2. Ends(k, {x} \ {x}, c, "no", {"old"})
    <3>1. {x} \ {x} = {}
      OBVIOUS
    <3> QED
      BY <1>2, <3>1
  <2>3. Moves(k, Abandon(x, c), a, a)
    BY <1>1, <2>1, <2>2 DEF Moves
  <2>4. Abandon(x, c) \in TestSteps
    BY DEF TestSteps
  <2> QED
    BY <2>3, <2>4 DEF Tests
<1>4. ASSUME h.code \in Errors, h.what = "none", x \in Unguarded(k)
      PROVE  Throws \in Tests(k, a)
  <2>1. Throws.op = "throws"
    BY DEF Throws
  <2>2. Ends(k, {x} \ {h.what}, h.code, "work", {"old"})
    <3>1. "none" \notin Resources
      BY DEF Resources
    <3>2. {x} \ {h.what} = {x}
      BY <1>4, <3>1
    <3>3. Ends(k, {x}, h.code, "work", {"old"})
      BY <1>4, Codes DEF Ends
    <3> QED
      BY <3>2, <3>3
  <2>3. Moves(k, Throws, a, a)
    BY <1>1, <2>1, <2>2 DEF Moves
  <2>4. Throws \in TestSteps
    BY DEF TestSteps
  <2> QED
    BY <2>3, <2>4 DEF Tests
<1> QED
  BY <1>1, <1>3, <1>4 DEF a

(* Tests one after the other. *)
LEMMA FreeSteady ==
    ASSUME NEW k, NEW h, NEW P \in Seq(Tests(k, Free(h)))
    PROVE  Steady(k, P, Free(h))
  BY FreeTests, TestsAreSteady

(* Taking what a test has found to be there. *)
LEMMA AcquireFlows ==
    ASSUME NEW k, NEW h, NEW x \in Resources, NEW c \in Errors
    PROVE  Flows(k, <<Acquire(x, c)>>, Free(h), With({x}, h))
<1>1. Acquire(x, c).op = "acquire" /\ Acquire(x, c).what = x /\ Acquire(x, c).code = c
  BY DEF Acquire
<1>2. Ends(k, {}, c, "no", {"old"})
  BY Codes DEF Ends
<1>3. /\ Free(h).held = {} /\ Free(h).handler = h /\ Free(h).files = {"old"} /\ IsPoint(Free(h))
      /\ With({x}, h) = Point({} \cup {x}, h, {"old"}) /\ IsPoint(With({x}, h))
  BY Points DEF Free, With
<1>4. Moves(k, Acquire(x, c), Free(h), With({x}, h))
  BY <1>1, <1>2, <1>3 DEF Moves
<1> QED
  BY <1>3, <1>4, OneStep

(* The field and the test on its buffer. *)
LEMMA NewFieldFlows ==
    ASSUME NEW k, NEW h
    PROVE  Flows(k, NewField, Free(h), With({"field"}, h))
<1> DEFINE x == "field"
           A == Acquire(x, "OUT_OF_MEMORY")
           B == Abandon(x, "INTERNAL")
<1>1. x \in Resources
  BY DEF Resources
<1>2. Flows(k, <<A>>, Free(h), With({x}, h))
  BY <1>1, Codes, AcquireFlows
<1>3. B \in Tests(k, With({x}, h)) /\ IsPoint(With({x}, h))
  BY <1>1, Codes, HeldTests
<1>4. <<B>> \in Seq(Tests(k, With({x}, h)))
  BY <1>3
<1>5. Flows(k, <<B>>, With({x}, h), With({x}, h))
  BY <1>3, <1>4, TestsAreSteady, SteadyFlows
<1>6. Flows(k, <<A>> \o <<B>>, Free(h), With({x}, h))
  BY <1>2, <1>5, FlowsTogether
<1>7. NewField = <<A>> \o <<B>>
  BY DEF NewField
<1> QED
  BY <1>6, <1>7

(* The host is handed what was made. *)
LEMMA ReturnFlows ==
    ASSUME NEW k, k # "writer.marine.qualification_report", NEW x \in Resources, NEW h
    PROVE  Flows(k, <<Return(x)>>, With({x}, h), Over)
<1>1. Return(x).op = "return" /\ Return(x).what = x
  BY DEF Return
<1>2. Ends(k, {x} \ {x}, "OK", "no", {"old"})
  BY DEF Ends
<1>3. /\ With({x}, h).held = {x} /\ With({x}, h).files = {"old"} /\ IsPoint(With({x}, h))
      /\ IsPoint(Over)
  BY Points DEF With, Over
<1>4. Moves(k, Return(x), With({x}, h), Over)
  BY <1>1, <1>2, <1>3 DEF Moves
<1> QED
  BY <1>3, <1>4, OneStep

(* The points of a flow. *)
LEMMA FlowPoints ==
    ASSUME NEW k, NEW P, NEW a, NEW b, Flows(k, P, a, b)
    PROVE  IsProgram(P) /\ IsPoint(a) /\ IsPoint(b)
<1>1. PICK A : Annotated(k, P, A) /\ A[1] = a /\ A[Len(P) + 1] = b
  BY DEF Flows
<1>2. Len(P) \in Nat /\ IsProgram(P)
  BY LenProperties DEF Flows, IsProgram
<1>3. 1 \in 1..(Len(P) + 1) /\ Len(P) + 1 \in 1..(Len(P) + 1)
  BY <1>2
<1> QED
  BY <1>1, <1>2, <1>3 DEF Annotated

(* A handler is in force while its body runs. *)
LEMMA TryFlows ==
    ASSUME NEW k, NEW x, NEW code, NEW body, NEW a, NEW b, IsPoint(a),
           Flows(k, body, Point(a.held, [what |-> x, code |-> code], a.files), b)
    PROVE  Flows(k, TryFreeing(x, code, body), a, Point(b.held, NoHandler, b.files))
<1> DEFINE s == [op |-> "try", what |-> x, code |-> code]
           t == [op |-> "endtry", what |-> "none", code |-> "OK"]
           h == [what |-> x, code |-> code]
           c == Point(a.held, h, a.files)
           d == Point(b.held, NoHandler, b.files)
<1>1. s.op = "try" /\ s.what = x /\ s.code = code /\ t.op = "endtry"
  OBVIOUS
<1>2. IsPoint(b)
  BY FlowPoints
<1>3. IsPoint(c) /\ IsPoint(d)
  BY <1>2, Points DEF IsPoint
<1>4. Moves(k, s, a, c)
  BY <1>1 DEF Moves
<1>5. Moves(k, t, b, d)
  BY <1>1 DEF Moves
<1> HIDE DEF s, t, c, d
<1>6. Flows(k, <<s>>, a, c)
  BY <1>3, <1>4, OneStep
<1>7. Flows(k, <<t>>, b, d)
  BY <1>2, <1>3, <1>5, OneStep
<1>8. Flows(k, body, c, b)
  BY DEF c, h
<1>9. Flows(k, <<s>> \o body, a, b)
  BY <1>6, <1>8, FlowsTogether
<1>10. Flows(k, <<s>> \o body \o <<t>>, a, d)
  BY <1>7, <1>9, FlowsTogether
<1> QED
  BY <1>10 DEF TryFreeing, s, t, d

\* The handler of a Try.
Catch(code) == [what |-> "none", code |-> code]

(* A function that is one try block. *)
LEMMA WholeTry ==
    ASSUME NEW k, NEW code, NEW body, Flows(k, body, Free(Catch(code)), Over)
    PROVE  Flows(k, Try(code, body), Free(NoHandler), Over)
<1>1. IsPoint(Free(NoHandler)) /\ Free(NoHandler).held = {} /\ Free(NoHandler).files = {"old"}
  BY Points DEF Free, With
<1>2. Free(Catch(code)) = Point({}, [what |-> "none", code |-> code], {"old"})
  BY DEF Free, With, Catch
<1>3. Over.held = {} /\ Over.files = {} /\ Over = Point({}, NoHandler, {})
  BY Points DEF Over
<1>4. Flows(k, TryFreeing("none", code, body), Free(NoHandler), Point(Over.held, NoHandler, Over.files))
  BY <1>1, <1>2, TryFlows
<1> QED
  BY <1>3, <1>4 DEF Try

(* A try block with nothing but tests. *)
LEMMA InnerTry ==
    ASSUME NEW k, NEW code, NEW body, Steady(k, body, Free(Catch(code)))
    PROVE  Flows(k, Try(code, body), Free(NoHandler), Free(NoHandler))
<1>1. IsPoint(Free(NoHandler)) /\ Free(NoHandler).held = {} /\ Free(NoHandler).files = {"old"}
  BY Points DEF Free, With
<1>2. Free(Catch(code)) = Point({}, [what |-> "none", code |-> code], {"old"})
  BY DEF Free, With, Catch
<1>3. /\ Free(Catch(code)).held = {} /\ Free(Catch(code)).files = {"old"}
      /\ Free(NoHandler) = Point({}, NoHandler, {"old"})
  BY Points DEF Free, With
<1>4. Flows(k, body, Free(Catch(code)), Free(Catch(code)))
  BY SteadyFlows
<1>5. Flows(k, TryFreeing("none", code, body), Free(NoHandler),
            Point(Free(Catch(code)).held, NoHandler, Free(Catch(code)).files))
  BY <1>1, <1>2, <1>4, TryFlows
<1> QED
  BY <1>3, <1>5 DEF Try

-----------------------------------------------------------------------------
(* Each program is sound: from the call, with nothing held and the file as it *)
(* was, to a return.                                                          *)

Sound(k, P) == Flows(k, P, Free(NoHandler), Over)

\* The report is the one function whose success says something of its file.
Plain(k) == k # "writer.marine.qualification_report"

(* The runs of tests that many programs share. *)
LEMMA SharedRuns ==
    ASSUME NEW k, NEW h
    PROVE  /\ Steady(k, NeedsMesh, Free(h))
           /\ Steady(k, NeedsPath, Free(h))
           /\ Steady(k, NeedsOuts, Free(h))
           /\ Steady(k, FlatNodes, Free(h))
           /\ Steady(k, CellNodes, Free(h))
           /\ \A c \in Errors : Steady(k, <<Refuse(c)>>, Free(h))
           /\ \A c, d \in Errors : Steady(k, <<Refuse(c), Refuse(d)>>, Free(h))
           /\ \A c, d, e \in Errors : Steady(k, <<Refuse(c), Refuse(d), Refuse(e)>>, Free(h))
           /\ h.code \in Errors => Steady(k, <<Throws>>, Free(h))
<1> DEFINE T == Tests(k, Free(h))
<1>1. \A c \in Errors : Refuse(c) \in T
  BY FreeTests
<1>2. h.code \in Errors => Throws \in T
  BY FreeTests
<1>3. \A P \in Seq(T) : Steady(k, P, Free(h))
  BY FreeSteady
<1> HIDE DEF T
<1>4. ASSUME NEW c \in Errors, NEW d \in Errors, NEW e \in Errors
      PROVE  /\ <<Refuse(c)>> \in Seq(T)
             /\ <<Refuse(c), Refuse(d)>> \in Seq(T)
             /\ <<Refuse(c), Refuse(d), Refuse(e)>> \in Seq(T)
  BY <1>1
<1>5. h.code \in Errors => <<Throws>> \in Seq(T)
  BY <1>2
<1>6. /\ \A c \in Errors : Steady(k, <<Refuse(c)>>, Free(h))
      /\ \A c, d \in Errors : Steady(k, <<Refuse(c), Refuse(d)>>, Free(h))
      /\ \A c, d, e \in Errors : Steady(k, <<Refuse(c), Refuse(d), Refuse(e)>>, Free(h))
  BY <1>3, <1>4
<1>7. h.code \in Errors => Steady(k, <<Throws>>, Free(h))
  BY <1>3, <1>5
<1> QED
  BY <1>6, <1>7, Codes DEF NeedsMesh, NeedsPath, NeedsOuts, FlatNodes, CellNodes

(* The same with an output held. *)
LEMMA HeldRuns ==
    ASSUME NEW k, NEW x \in Resources, NEW h
    PROVE  /\ \A c \in Errors : Steady(k, <<Abandon(x, c)>>, With({x}, h))
           /\ Steady(k, CellNodesWith(x), With({x}, h))
           /\ (h.code \in Errors /\ h.what = "none" /\ x \in Unguarded(k))
               => Steady(k, <<Throws>>, With({x}, h))
<1> DEFINE T == Tests(k, With({x}, h))
<1>1. /\ \A c \in Errors : Abandon(x, c) \in T
      /\ (h.code \in Errors /\ h.what = "none" /\ x \in Unguarded(k)) => Throws \in T
  BY HeldTests
<1>2. \A P \in Seq(T) : Steady(k, P, With({x}, h))
  BY HeldTests, TestsAreSteady
<1> HIDE DEF T
<1>3. ASSUME NEW c \in Errors, NEW d \in Errors
      PROVE  <<Abandon(x, c)>> \in Seq(T) /\ <<Abandon(x, c), Abandon(x, d)>> \in Seq(T)
  BY <1>1
<1>4. /\ \A c \in Errors : Steady(k, <<Abandon(x, c)>>, With({x}, h))
      /\ \A c, d \in Errors : Steady(k, <<Abandon(x, c), Abandon(x, d)>>, With({x}, h))
  BY <1>2, <1>3
<1>5. (h.code \in Errors /\ h.what = "none" /\ x \in Unguarded(k)) => Steady(k, <<Throws>>, With({x}, h))
  <2>1. Throws \in T => <<Throws>> \in Seq(T)
    OBVIOUS
  <2> QED
    BY <2>1, <1>1, <1>2
<1> QED
  BY <1>4, <1>5, Codes DEF CellNodesWith

(* After its tests a solver makes a field and hands it over. *)
LEMMA Solves ==
    ASSUME NEW k, Plain(k), NEW h, NEW P, Flows(k, P, Free(h), Free(h))
    PROVE  Flows(k, P \o NewField \o <<Return("field")>>, Free(h), Over)
<1>1. Flows(k, P \o NewField, Free(h), With({"field"}, h))
  BY NewFieldFlows, FlowsTogether
<1>2. Flows(k, <<Return("field")>>, With({"field"}, h), Over)
  BY ReturnFlows DEF Plain, Resources
<1> QED
  BY <1>1, <1>2, FlowsTogether

(* A program that is written down whole may be read in parts. *)
LEMMA Halves ==
    ASSUME NEW s1, NEW s2
    PROVE  <<s1, s2>> = <<s1>> \o <<s2>>
<1> DEFINE S == {s1, s2}
           P == <<s1>>
           Q == <<s2>>
           R == P \o Q
<1>1. P \in Seq(S) /\ Q \in Seq(S) /\ Len(P) = 1 /\ Len(Q) = 1 /\ P[1] = s1 /\ Q[1] = s2
  OBVIOUS
<1> HIDE DEF S, P, Q
<1>2. R \in Seq(S) /\ Len(R) = 2 /\ \A i \in 1..2 : R[i] = IF i <= 1 THEN P[i] ELSE Q[i - 1]
  BY <1>1, ConcatProperties
<1>3. R[1] = s1 /\ R[2] = s2
  BY <1>1, <1>2
<1> HIDE DEF R
<1>4. R = <<s1, s2>>
  BY <1>2, <1>3, LenProperties
<1> QED
  BY <1>4 DEF R, P, Q

(* The mesh, and the host's allocations while it grows. *)
LEMMA NewMeshFlows ==
    ASSUME NEW k, "mesh" \in Unguarded(k), NEW h, h.code \in Errors, h.what = "none"
    PROVE  Flows(k, NewMesh, Free(h), With({"mesh"}, h))
<1> DEFINE b == With({"mesh"}, h)
           A == <<Acquire("mesh", "OUT_OF_MEMORY")>>
           T == <<Throws>>
<1>1. "mesh" \in Resources
  BY DEF Resources
<1>2. Flows(k, A, Free(h), b) /\ Flows(k, T, b, b)
  BY <1>1, Codes, AcquireFlows, HeldRuns, SteadyFlows
<1>3. NewMesh = A \o T
  BY Halves DEF NewMesh
<1> HIDE DEF A, T, b
<1>4. Flows(k, A \o T, Free(h), b)
  BY <1>2, FlowsTogether
<1> QED
  BY <1>3, <1>4 DEF b

(* After its tests a mesher or a reader makes a mesh and hands it over. *)
LEMMA Meshes ==
    ASSUME NEW k, Plain(k), "mesh" \in Unguarded(k), NEW P,
           Flows(k, P, Free(NoHandler), Free(NoHandler))
    PROVE  Flows(k, P \o NewMesh \o <<Return("mesh")>>, Free(NoHandler), Over)
<1>1. Flows(k, P \o NewMesh, Free(NoHandler), With({"mesh"}, NoHandler))
  BY Unhandled, NewMeshFlows, FlowsTogether
<1>2. Flows(k, <<Return("mesh")>>, With({"mesh"}, NoHandler), Over)
  BY ReturnFlows DEF Plain, Resources
<1> QED
  BY <1>1, <1>2, FlowsTogether

LEMMA ThermalSound ==
    ASSUME NEW k, Plain(k), "field" \in Unguarded(k)
    PROVE  Sound(k, am_thermal_solve) /\ Sound(k, melt_pool_compute)
<1> DEFINE a == Free(NoHandler)
           b == With({"field"}, NoHandler)
           R == <<Refuse("INVALID")>>
           I == <<Refuse("INTERNAL")>>
           T == <<Throws>>
           Y == <<Return("field")>>
           P == NeedsMesh \o read_process \o I \o T \o R
           Q == NeedsMesh \o R \o read_process \o I \o T
<1>1. /\ Steady(k, NeedsMesh, a) /\ Steady(k, read_process, a)
      /\ Steady(k, R, a) /\ Steady(k, I, a) /\ Steady(k, T, a)
  BY Unhandled, SharedRuns, Codes DEF read_process
<1>2. "field" \in Resources
  BY DEF Resources
<1>3. Steady(k, T, b)
  BY <1>2, Unhandled, HeldRuns
<1>4. Flows(k, Y, b, Over) /\ Flows(k, NewField, a, b)
  BY <1>2, ReturnFlows, NewFieldFlows DEF Plain
<1> HIDE DEF R, I, T, Y, b
<1>5. Flows(k, P, a, a) /\ Flows(k, Q, a, a)
  BY <1>1, SteadyTogether, SteadyFlows
<1>6. Flows(k, T, b, b) /\ Flows(k, Loop(T), b, b)
  BY <1>3, SteadyLoop, SteadyFlows
<1> HIDE DEF P, Q
<1>7. /\ Flows(k, P \o NewField \o T \o Y, a, Over)
      /\ Flows(k, Q \o NewField \o Loop(T) \o Y, a, Over)
  BY <1>4, <1>5, <1>6, FlowsTogether
<1> QED
  BY <1>7 DEF Sound, am_thermal_solve, melt_pool_compute, P, Q, R, I, T, Y

(* Distortion and residual stress: both build the geometry first. *)
LEMMA BuildGeometrySteady ==
    ASSUME NEW k, NEW h, h.code \in Errors
    PROVE  Steady(k, build_geometry, Free(h))
<1> DEFINE a == Free(h)
           P == <<Refuse("INVALID"), Refuse("INVALID"), Refuse("INTERNAL"), Throws>>
           Q == CellNodes \o <<Refuse("INVALID")>>
<1>1. P \in Seq(Tests(k, a))
  BY FreeTests, Codes
<1>2. Steady(k, P, a)
  BY <1>1, FreeSteady
<1>3. Steady(k, CellNodes, a) /\ Steady(k, <<Refuse("INVALID")>>, a) /\ Steady(k, <<Throws>>, a)
  BY SharedRuns, Codes
<1>4. Steady(k, Q, a)
  BY <1>3, SteadyTogether
<1> HIDE DEF P, Q
<1>5. Steady(k, Loop(Q), a)
  BY <1>4, SteadyLoop
<1>6. Steady(k, P \o Loop(Q) \o <<Throws>>, a)
  BY <1>2, <1>3, <1>5, SteadyTogether
<1> QED
  BY <1>6 DEF build_geometry, P, Q

LEMMA DistortionSound ==
    ASSUME NEW k, Plain(k)
    PROVE  Sound(k, distortion_solve)
<1> DEFINE h == Catch("OUT_OF_MEMORY")
           a == Free(h)
           b == With({"field"}, h)
           R == <<Refuse("INVALID"), Refuse("INVALID")>>
           P == R \o read_inherent_strain_inputs \o build_geometry
                    \o <<Refuse("INVALID")>> \o layer_states
           X == <<Abandon("field", "INTERNAL")>>
           Y == <<Return("field")>>
<1>1. h.code \in Errors /\ "field" \in Resources
  BY Codes DEF Catch, Resources
<1> HIDE DEF h
<1>2. /\ Steady(k, R, a) /\ Steady(k, read_inherent_strain_inputs, a)
      /\ Steady(k, <<Refuse("INVALID")>>, a) /\ Steady(k, layer_states, a)
  BY <1>1, SharedRuns, Codes DEF read_inherent_strain_inputs, layer_states
<1>3. Steady(k, build_geometry, a)
  BY <1>1, BuildGeometrySteady
<1>4. Flows(k, P, a, a)
  BY <1>2, <1>3, SteadyTogether, SteadyFlows
<1>5. Steady(k, X, b)
  BY <1>1, Codes, HeldRuns
<1>6. Flows(k, X, b, b) /\ Flows(k, Y, b, Over) /\ Flows(k, NewField, a, b)
  BY <1>1, <1>5, SteadyFlows, ReturnFlows, NewFieldFlows DEF Plain
<1>7. Flows(k, X \o Y, b, Over)
  BY <1>6, FlowsTogether
<1>8. X \o Y = <<Abandon("field", "INTERNAL"), Return("field")>>
  BY Halves
<1> HIDE DEF P, X, Y
<1>9. Flows(k, P \o NewField \o (X \o Y), a, Over)
  BY <1>4, <1>6, <1>7, FlowsTogether
<1>10. Flows(k, distortion_solve_impl, a, Over)
  BY <1>8, <1>9 DEF distortion_solve_impl, P
<1> QED
  BY <1>10, WholeTry DEF Sound, distortion_solve, h

LEMMA ResidualStressSound ==
    ASSUME NEW k, Plain(k), "field" \in Unguarded(k)
    PROVE  Sound(k, residual_stress_compute)
<1> DEFINE h == Catch("OUT_OF_MEMORY")
           a == Free(h)
           b == With({"field"}, h)
           R == <<Refuse("INVALID"), Refuse("INVALID"), Refuse("INVALID"),
                  Refuse("INVALID"), Refuse("INVALID"), Refuse("INTERNAL")>>
           P == R \o read_inherent_strain_inputs \o build_geometry \o <<Refuse("INTERNAL")>>
           Q == <<Throws>> \o CellNodesWith("field")
           Y == <<Return("field")>>
<1>1. h.code \in Errors /\ h.what = "none" /\ "field" \in Resources
  BY Codes DEF Catch, Resources
<1> HIDE DEF h
<1>2. R \in Seq(Tests(k, a))
  BY FreeTests, Codes
<1>3. /\ Steady(k, R, a) /\ Steady(k, read_inherent_strain_inputs, a)
      /\ Steady(k, <<Refuse("INTERNAL")>>, a)
  BY <1>2, FreeSteady, SharedRuns, Codes DEF read_inherent_strain_inputs
<1>4. Steady(k, build_geometry, a)
  BY <1>1, BuildGeometrySteady
<1> HIDE DEF R
<1>5. Flows(k, P, a, a)
  BY <1>3, <1>4, SteadyTogether, SteadyFlows
<1>6. Throws \in Tests(k, b) /\ IsPoint(b)
  BY <1>1, HeldTests
<1>7. <<Throws>> \in Seq(Tests(k, b))
  BY <1>6
<1>8. Steady(k, <<Throws>>, b) /\ Steady(k, CellNodesWith("field"), b)
  BY <1>1, <1>6, <1>7, TestsAreSteady, HeldRuns
<1>9. Steady(k, Q, b)
  BY <1>8, SteadyTogether
<1> HIDE DEF Q
<1>10. Flows(k, Loop(Q), b, b)
  BY <1>9, SteadyLoop, SteadyFlows
<1>11. Flows(k, Y, b, Over) /\ Flows(k, NewField, a, b)
  BY <1>1, ReturnFlows, NewFieldFlows DEF Plain
<1> HIDE DEF P, Y
<1>12. Flows(k, P \o NewField \o Loop(Q) \o Y, a, Over)
  BY <1>5, <1>10, <1>11, FlowsTogether
<1>13. Flows(k, residual_stress_compute_impl, a, Over)
  BY <1>12 DEF residual_stress_compute_impl, P, Q, R, Y
<1> QED
  BY <1>13, WholeTry DEF Sound, residual_stress_compute, h

LEMMA PolymerSound ==
    ASSUME NEW k, Plain(k)
    PROVE  Sound(k, polymer_fff_solve)
<1> DEFINE h == Catch("OUT_OF_MEMORY")
           a == Free(h)
           R == <<Refuse("INVALID"), Refuse("INVALID")>>
           X == <<Refuse("INTERNAL"), Throws>>
           Y == <<Refuse("INVALID"), Throws>> \o CellNodes \o <<Refuse("INVALID")>>
           Z == <<Throws>> \o CellNodes
           P == NeedsMesh \o R \o resolve_layers \o <<Refuse("INVALID")>> \o build_layer_history
<1>1. h.code \in Errors
  BY Codes DEF Catch
<1> HIDE DEF h
<1>2. X \in Seq(Tests(k, a)) /\ <<Refuse("INVALID"), Throws>> \in Seq(Tests(k, a))
  BY <1>1, FreeTests, Codes
<1>3. Steady(k, X, a) /\ Steady(k, <<Refuse("INVALID"), Throws>>, a)
  BY <1>2, FreeSteady
<1>4. /\ Steady(k, NeedsMesh, a) /\ Steady(k, R, a) /\ Steady(k, <<Refuse("INVALID")>>, a)
      /\ Steady(k, CellNodes, a) /\ Steady(k, <<Throws>>, a)
  BY <1>1, SharedRuns, Codes
<1>5. Steady(k, Y, a) /\ Steady(k, Z, a)
  BY <1>3, <1>4, SteadyTogether
<1> HIDE DEF X, Y, Z
<1>6. Steady(k, X \o Loop(Y) \o Loop(Z), a)
  BY <1>3, <1>5, SteadyLoop, SteadyTogether
<1>7. Steady(k, resolve_layers, a)
  BY <1>6 DEF resolve_layers, X, Y, Z
<1>8. Steady(k, build_layer_history, a)
  BY <1>4 DEF build_layer_history
<1>9. Flows(k, P, a, a)
  BY <1>4, <1>7, <1>8, SteadyTogether, SteadyFlows
<1> HIDE DEF P
<1>10. Flows(k, P \o NewField \o <<Return("field")>>, a, Over)
  BY <1>9, Solves
<1>11. Flows(k, polymer_fff_solve_impl, a, Over)
  BY <1>10 DEF polymer_fff_solve_impl, P
<1> QED
  BY <1>11, WholeTry DEF Sound, polymer_fff_solve, h

LEMMA BondStrengthSound ==
    ASSUME NEW k, Plain(k), "field" \in Unguarded(k)
    PROVE  Sound(k, bond_strength_compute)
<1> DEFINE h == Catch("OUT_OF_MEMORY")
           a == Free(h)
           b == With({"field"}, h)
           P == <<Refuse("INVALID"), Refuse("INVALID"), Refuse("INVALID"), Refuse("INVALID"),
                  Refuse("INVALID"), Refuse("INVALID"), Refuse("INTERNAL")>>
           X == <<Throws>>
           Q == X \o CellNodesWith("field")
           Y == <<Return("field")>>
<1>1. h.code \in Errors /\ h.what = "none" /\ "field" \in Resources
  BY Codes DEF Catch, Resources
<1> HIDE DEF h
<1>2. P \in Seq(Tests(k, a))
  BY FreeTests, Codes
<1>3. Flows(k, P, a, a)
  BY <1>2, FreeSteady, SteadyFlows
<1>4. Throws \in Tests(k, b) /\ IsPoint(b)
  BY <1>1, HeldTests
<1>5. X \in Seq(Tests(k, b))
  BY <1>4
<1>6. Steady(k, X, b) /\ Steady(k, CellNodesWith("field"), b)
  BY <1>1, <1>4, <1>5, TestsAreSteady, HeldRuns
<1> HIDE DEF X
<1>7. Steady(k, Q, b)
  BY <1>6, SteadyTogether
<1> HIDE DEF Q
<1>8. Flows(k, X, b, b) /\ Flows(k, Loop(Maybe(Q)), b, b)
  BY <1>6, <1>7, SteadyMaybe, SteadyLoop, SteadyFlows
<1>9. Flows(k, Y, b, Over) /\ Flows(k, NewField, a, b)
  BY <1>1, ReturnFlows, NewFieldFlows DEF Plain
<1> HIDE DEF P, Y
<1>10. Flows(k, P \o NewField \o X \o Loop(Maybe(Q)) \o Y, a, Over)
  BY <1>3, <1>8, <1>9, FlowsTogether
<1>11. Flows(k, bond_strength_compute_impl, a, Over)
  BY <1>10 DEF bond_strength_compute_impl, P, Q, X, Y
<1> QED
  BY <1>11, WholeTry DEF Sound, bond_strength_compute, h

(* The manufacturability solvers test the same inputs and the same mesh. *)
LEMMA ManufacturabilitySound ==
    ASSUME NEW k, Plain(k)
    PROVE  Sound(k, overhang_solve) /\ Sound(k, printability_solve) /\ Sound(k, buildtime_solve)
<1> DEFINE a == Free(NoHandler)
           R == <<Refuse("INVALID")>>
           I == <<Refuse("INTERNAL")>>
           T == <<Throws>>
           P == <<Refuse("INVALID"), Refuse("INVALID"), Refuse("INVALID"), Refuse("INVALID"),
                  Refuse("INTERNAL"), Throws>>
           U == R \o read_build_direction \o build_mesh_geometry \o reject_undecomposable
           V == R \o read_build_direction \o process_from_string
                    \o build_mesh_geometry \o reject_undecomposable \o I \o Loop(R)
<1>1. P \in Seq(Tests(k, a))
  BY Unhandled, FreeTests, Codes
<1>2. /\ Steady(k, P, a) /\ Steady(k, R, a) /\ Steady(k, I, a) /\ Steady(k, CellNodes, a)
      /\ Steady(k, <<Refuse("PLUGIN_REJECTED")>>, a) /\ Steady(k, T, a)
  BY <1>1, Unhandled, FreeSteady, SharedRuns, Codes
<1>3. /\ Steady(k, read_build_direction, a) /\ Steady(k, process_from_string, a)
      /\ Steady(k, reject_undecomposable, a)
  BY <1>2 DEF read_build_direction, process_from_string, reject_undecomposable
<1> HIDE DEF P, T
<1>4. Steady(k, P \o Loop(Maybe(T \o CellNodes)), a)
  BY <1>2, SteadyMaybe, SteadyLoop, SteadyTogether
<1>5. Steady(k, build_mesh_geometry, a)
  BY <1>4 DEF build_mesh_geometry, P, T
<1> HIDE DEF R, I
<1>6. Steady(k, Loop(R), a)
  BY <1>2, SteadyLoop
<1>7. Flows(k, U, a, a) /\ Flows(k, V, a, a)
  BY <1>2, <1>3, <1>5, <1>6, SteadyTogether, SteadyFlows
<1> HIDE DEF U, V
<1>8. /\ Flows(k, U \o NewField \o <<Return("field")>>, a, Over)
      /\ Flows(k, V \o NewField \o <<Return("field")>>, a, Over)
  BY <1>7, Solves
<1> QED
  BY <1>8 DEF Sound, overhang_solve, printability_solve, buildtime_solve, U, V, R, I

LEMMA MarineSolversSound ==
    ASSUME NEW k, Plain(k)
    PROVE  Sound(k, hydrostatic_solve) /\ Sound(k, hull_collapse_solve) /\ Sound(k, corrosion_solve)
<1> DEFINE a == Free(NoHandler)
           I == <<Refuse("INTERNAL")>>
           R == <<Refuse("INVALID")>>
           B == <<Refuse("INVALID"), Refuse("INVALID")>>
           T == <<Throws>>
           U == NeedsMesh \o I \o resolve_build_direction \o T \o read_depth_factors
           V == NeedsMesh \o R \o T \o B
           W == NeedsMesh \o corrosion_evaluate
<1>1. /\ Steady(k, NeedsMesh, a) /\ Steady(k, I, a) /\ Steady(k, R, a) /\ Steady(k, B, a)
      /\ Steady(k, T, a) /\ Steady(k, resolve_build_direction, a)
  BY Unhandled, SharedRuns, Codes DEF resolve_build_direction
<1>2. Steady(k, <<Throws>>, Free(Catch("OUT_OF_MEMORY")))
  BY SharedRuns, Codes DEF Catch
<1>3. Flows(k, read_depth_factors, a, a)
  BY <1>2, InnerTry DEF read_depth_factors
<1> HIDE DEF I, R, B, T
<1>4. Steady(k, corrosion_evaluate, a)
  <2>1. Steady(k, T \o Maybe(B), a)
    BY <1>1, SteadyMaybe, SteadyTogether
  <2> QED
    BY <2>1 DEF corrosion_evaluate, T, B
<1>5. Flows(k, NeedsMesh \o I \o resolve_build_direction \o T, a, a)
  BY <1>1, SteadyTogether, SteadyFlows
<1>6. Flows(k, U, a, a)
  BY <1>3, <1>5, FlowsTogether
<1>7. Flows(k, V, a, a) /\ Flows(k, W, a, a)
  BY <1>1, <1>4, SteadyTogether, SteadyFlows
<1> HIDE DEF U, V, W
<1>8. /\ Flows(k, U \o NewField \o <<Return("field")>>, a, Over)
      /\ Flows(k, V \o NewField \o <<Return("field")>>, a, Over)
      /\ Flows(k, W \o NewField \o <<Return("field")>>, a, Over)
  BY <1>6, <1>7, Solves
<1> QED
  BY <1>8 DEF Sound, hydrostatic_solve, hull_collapse_solve, corrosion_solve, U, V, W, I, R,
              B, T

(* The reference solvers and post-processors. *)
LEMMA ReferenceSolversSound ==
    ASSUME NEW k, Plain(k)
    PROVE  /\ Sound(k, heat_solve) /\ Sound(k, elasticity_solve)
           /\ Sound(k, modal_solve) /\ Sound(k, cfd_solve)
           /\ Sound(k, scalar_magnitude_compute)
<1> DEFINE a == Free(NoHandler)
           R == <<Refuse("INVALID")>>
           T == <<Throws>>
           S == NeedsMesh \o T
           U == NeedsMesh \o FlatNodes
           V == NeedsMesh \o FlatNodes \o R
           W == <<Refuse("INVALID"), Refuse("INVALID"), Refuse("INVALID"), Refuse("INTERNAL")>>
<1>1. Steady(k, NeedsMesh, a) /\ Steady(k, FlatNodes, a) /\ Steady(k, R, a) /\ Steady(k, T, a)
  BY Unhandled, SharedRuns, Codes
<1>2. W \in Seq(Tests(k, a))
  BY FreeTests, Codes
<1>3. Steady(k, W, a)
  BY <1>2, FreeSteady
<1> HIDE DEF R, W, T
<1>4. Flows(k, S, a, a) /\ Flows(k, U, a, a) /\ Flows(k, V, a, a) /\ Flows(k, W, a, a)
  BY <1>1, <1>3, SteadyTogether, SteadyFlows
<1> HIDE DEF S, U, V
<1>5. /\ Flows(k, S \o NewField \o <<Return("field")>>, a, Over)
      /\ Flows(k, U \o NewField \o <<Return("field")>>, a, Over)
      /\ Flows(k, V \o NewField \o <<Return("field")>>, a, Over)
      /\ Flows(k, W \o NewField \o <<Return("field")>>, a, Over)
  BY <1>4, Solves
<1> QED
  BY <1>5 DEF Sound, heat_solve, elasticity_solve, modal_solve, cfd_solve,
              scalar_magnitude_compute, S, U, V, W, R, T

LEMMA MeshQualitySound ==
    ASSUME NEW k, Plain(k), "field" \in Unguarded(k)
    PROVE  Sound(k, mesh_quality_compute)
<1> DEFINE a == Free(NoHandler)
           b == With({"field"}, NoHandler)
           P == NeedsMesh \o FlatNodes
           T == <<Throws>>
           Q == T \o CellNodesWith("field")
           Y == <<Return("field")>>
<1>1. Steady(k, NeedsMesh, a) /\ Steady(k, FlatNodes, a)
  BY SharedRuns
<1>2. Flows(k, P, a, a)
  BY <1>1, SteadyTogether, SteadyFlows
<1>3. "field" \in Resources
  BY DEF Resources
<1>4. Steady(k, T, b) /\ Steady(k, CellNodesWith("field"), b)
  BY <1>3, Unhandled, HeldRuns
<1>5. Flows(k, Y, b, Over) /\ Flows(k, NewField, a, b)
  BY <1>3, ReturnFlows, NewFieldFlows DEF Plain
<1> HIDE DEF P, T, Y
<1>6. Steady(k, Q, b)
  BY <1>4, SteadyTogether
<1> HIDE DEF Q
<1>7. Flows(k, T, b, b) /\ Flows(k, Loop(Maybe(Q)), b, b)
  BY <1>4, <1>6, SteadyMaybe, SteadyLoop, SteadyFlows
<1>8. Flows(k, P \o NewField \o T \o Loop(Maybe(Q)) \o Y, a, Over)
  BY <1>2, <1>5, <1>7, FlowsTogether
<1> QED
  BY <1>8 DEF Sound, mesh_quality_compute, P, Q, T, Y

LEMMA FenicsSound ==
    ASSUME NEW k, Plain(k)
    PROVE  Sound(k, fenicsx_solve)
<1> DEFINE a == Free(NoHandler)
           R == <<Refuse("INVALID")>>
           B == <<Refuse("INVALID"), Refuse("INVALID")>>
           F == <<Refuse("NOT_IMPLEMENTED"), Refuse("FORWARDED")>>
           I == <<Refuse("INTERNAL")>>
           T == <<Throws>>
           P == B \o build_ingest_buffers
           Q == P \o assemble_poisson \o I
<1>1. /\ Steady(k, R, a) /\ Steady(k, B, a) /\ Steady(k, F, a) /\ Steady(k, I, a)
      /\ Steady(k, T, a) /\ Steady(k, FlatNodes, a)
  BY Unhandled, SharedRuns, Codes
<1> HIDE DEF R, B, F, I, T
<1>2. Steady(k, R \o FlatNodes \o T \o Loop(F), a)
  BY <1>1, SteadyLoop, SteadyTogether
<1>3. Steady(k, build_ingest_buffers, a)
  BY <1>2 DEF build_ingest_buffers, R, F, T
<1>4. Flows(k, P, a, a) /\ Flows(k, I, a, a)
  BY <1>1, <1>3, SteadyTogether, SteadyFlows
<1>5. Steady(k, <<Throws>>, Free(Catch("PLUGIN_REJECTED")))
  BY SharedRuns, Codes DEF Catch
<1>6. Flows(k, assemble_poisson, a, a)
  BY <1>5, InnerTry DEF assemble_poisson
<1> HIDE DEF P
<1>7. Flows(k, Q, a, a)
  BY <1>4, <1>6, FlowsTogether
<1> HIDE DEF Q
<1>8. Flows(k, Q \o NewField \o <<Return("field")>>, a, Over)
  BY <1>7, Solves
<1> QED
  BY <1>8 DEF Sound, fenicsx_solve, P, Q, B, I

LEMMA FemSound ==
    ASSUME NEW k, Plain(k)
    PROVE  Sound(k, fem_solve)
<1> DEFINE a == Free(NoHandler)
           R == <<Refuse("INVALID")>>
           B == <<Refuse("INVALID"), Refuse("INVALID")>>
           N == <<Refuse("NOT_IMPLEMENTED"), Refuse("INTERNAL")>>
           A == <<Refuse("FORWARDED"), Refuse("INVALID"), Refuse("INTERNAL")>>
           F == <<Refuse("FORWARDED")>>
           T == <<Throws>>
           W == fem_pattern \o fem_assembly \o fem_tractions \o fem_fixes \o T
           Y == <<Return("field")>>
<1>1. /\ Steady(k, R, a) /\ Steady(k, B, a) /\ Steady(k, N, a) /\ Steady(k, A, a)
      /\ Steady(k, F, a) /\ Steady(k, NeedsMesh, a) /\ Steady(k, FlatNodes, a)
      /\ Steady(k, CellNodes, a) /\ Steady(k, T, a)
  BY Unhandled, SharedRuns, Codes
<1> HIDE DEF R, B, N, A, F, T
<1>2. /\ Steady(k, N \o CellNodes, a) /\ Steady(k, Loop(F), a) /\ Steady(k, Loop(A), a)
  BY <1>1, SteadyLoop, SteadyTogether
<1>3. Steady(k, Loop(N \o CellNodes), a) /\ Steady(k, Loop(B \o Loop(F)), a)
      /\ Steady(k, Loop(R \o Loop(F)), a)
  BY <1>1, <1>2, SteadyLoop, SteadyTogether
<1>4. /\ Steady(k, NeedsMesh \o FlatNodes \o B \o T \o Loop(N \o CellNodes), a)
      /\ Steady(k, T \o Loop(A), a)
  BY <1>1, <1>2, <1>3, SteadyTogether
<1>5. Steady(k, R \o Loop(R \o Loop(F)) \o R, a)
  BY <1>1, <1>3, SteadyTogether
<1>6. Steady(k, fem_pattern, a) /\ Steady(k, fem_assembly, a)
  BY <1>4 DEF fem_pattern, fem_assembly, B, N, A, T
<1>7. Steady(k, fem_tractions, a) /\ Steady(k, fem_fixes, a)
  BY <1>3, <1>5 DEF fem_tractions, fem_fixes, B, R, F
<1>8. Flows(k, W, a, a)
  BY <1>1, <1>6, <1>7, SteadyTogether, SteadyFlows
<1>9. Flows(k, NewField, a, With({"field"}, NoHandler)) /\ Flows(k, Y, With({"field"}, NoHandler), Over)
  BY ReturnFlows, NewFieldFlows DEF Plain, Resources
<1> HIDE DEF W, Y
<1>10. Flows(k, W \o (NewField \o Y), a, Over)
  BY <1>8, <1>9, FlowsTogether
<1> QED
  BY <1>10 DEF Sound, fem_solve, fem_emit, W, T, Y

LEMMA ReferenceMeshersSound ==
    ASSUME NEW k, Plain(k), "mesh" \in Unguarded(k)
    PROVE  Sound(k, hello_mesh) /\ Sound(k, grid_mesh)
<1> DEFINE a == Free(NoHandler)
           b == With({"mesh"}, NoHandler)
           R == <<Refuse("INVALID")>>
           X == <<Abandon("mesh", "FORWARDED")>>
           Y == <<Return("mesh")>>
           P == <<Refuse("INVALID"), Refuse("INVALID"), Refuse("FORWARDED"), Refuse("INVALID")>>
<1>1. "mesh" \in Resources
  BY DEF Resources
<1>2. Flows(k, R, a, a) /\ Flows(k, X, b, b) /\ Flows(k, Y, b, Over)
  BY <1>1, SharedRuns, HeldRuns, SteadyFlows, ReturnFlows, Codes DEF Plain
<1>3. Flows(k, NewMesh, a, b)
  BY Unhandled, NewMeshFlows
<1>4. P \in Seq(Tests(k, a))
  BY FreeTests, Codes
<1>5. Flows(k, P, a, a)
  BY <1>4, FreeSteady, SteadyFlows
<1>6. X \o Y = <<Abandon("mesh", "FORWARDED"), Return("mesh")>>
  BY Halves
<1> HIDE DEF R, X, Y, P
<1>7. Flows(k, R \o NewMesh \o (X \o Y), a, Over)
  BY <1>2, <1>3, FlowsTogether
<1>8. Flows(k, P \o NewMesh \o Y, a, Over)
  BY <1>5, Meshes DEF Y
<1> QED
  BY <1>6, <1>7, <1>8 DEF Sound, hello_mesh, grid_mesh, R, P, Y

LEMMA LayeredMesherSound ==
    ASSUME NEW k, Plain(k), "mesh" \in Unguarded(k)
    PROVE  Sound(k, am_layered_mesh)
<1> DEFINE a == Free(NoHandler)
           b == With({"mesh"}, NoHandler)
           P == <<Refuse("INVALID"), Refuse("NOT_IMPLEMENTED"), Refuse("INTERNAL"),
                  Refuse("INVALID")>>
           T == <<Throws>>
           X == <<Abandon("mesh", "INTERNAL")>>
           Y == <<Return("mesh")>>
<1>1. "mesh" \in Resources
  BY DEF Resources
<1>2. P \in Seq(Tests(k, a))
  BY FreeTests, Codes
<1>3. Flows(k, P, a, a) /\ Flows(k, NewMesh, a, b)
  BY <1>2, FreeSteady, SteadyFlows, Unhandled, NewMeshFlows
<1>4. Flows(k, Y, b, Over) /\ Steady(k, X, b) /\ Steady(k, T, b)
  BY <1>1, Unhandled, ReturnFlows, HeldRuns, Codes DEF Plain
<1> HIDE DEF P, T, X, Y
<1>5. Steady(k, Loop(X), b)
  BY <1>4, SteadyLoop
<1>6. Flows(k, Loop(T \o X \o Loop(X)), b, b)
  BY <1>4, <1>5, SteadyTogether, SteadyLoop, SteadyFlows
<1>7. Flows(k, P \o NewMesh \o Loop(T \o X \o Loop(X)) \o Y, a, Over)
  BY <1>3, <1>4, <1>6, FlowsTogether
<1> QED
  BY <1>7 DEF Sound, am_layered_mesh, P, T, X, Y

LEMMA NineSteps ==
    ASSUME NEW s1, NEW s2, NEW s3, NEW s4, NEW s5, NEW s6, NEW s7, NEW s8, NEW s9
    PROVE  <<s1, s2, s3, s4, s5, s6, s7, s8, s9>>
               = ((<<s1>> \o <<s2, s3>>) \o <<s4, s5>>) \o (<<s6, s7>> \o <<s8, s9>>)
<1>1. <<s1, s2, s3>> = <<s1>> \o <<s2, s3>>
  OBVIOUS
<1>2. <<s1, s2, s3, s4, s5>> = <<s1, s2, s3>> \o <<s4, s5>>
  OBVIOUS
<1>3. <<s6, s7, s8, s9>> = <<s6, s7>> \o <<s8, s9>>
  OBVIOUS
<1>4. <<s1, s2, s3, s4, s5, s6, s7, s8, s9>> = <<s1, s2, s3, s4, s5>> \o <<s6, s7, s8, s9>>
  OBVIOUS
<1> QED
  BY <1>1, <1>2, <1>3, <1>4

(* Gmsh may throw while the mesh is held: the handler removes the model, the *)
(* mesh is lost.                                                             *)
LEMMA GmshSound ==
    ASSUME NEW k, Plain(k), "mesh" \in Unguarded(k)
    PROVE  Sound(k, gmsh_mesh)
<1> DEFINE g == "gmsh_model"
           m == "mesh"
           e == "PLUGIN_REJECTED"
           h == [what |-> g, code |-> e]
           a == Free(h)
           b == With({g}, h)
           c == With({g, m}, h)
           d == With({m}, h)
           T == <<Throws>>
           A == <<Acquire(g, e)>>
           X == <<Abandon(g, e)>>
           E == <<AcquireElse(m, g, "OUT_OF_MEMORY")>>
           L == <<Release(g)>>
           Y == <<Return(m)>>
           R == <<Refuse("INVALID"), Refuse("INVALID"), Refuse("INVALID"), Throws>>
           body == <<Throws, Acquire(g, e), Throws, Abandon(g, e), Throws,
                     AcquireElse(m, g, "OUT_OF_MEMORY"), Throws, Release(g), Return(m)>>
<1>1. /\ g \in Resources /\ m \in Resources /\ e \in Errors /\ h.what = g /\ h.code = e
      /\ g # m /\ m \in Unguarded(k)
  BY Codes DEF Resources
<1>2. /\ Throws.op = "throws"
      /\ AcquireElse(m, g, "OUT_OF_MEMORY").op = "acquire_else"
      /\ AcquireElse(m, g, "OUT_OF_MEMORY").what[1] = m
      /\ AcquireElse(m, g, "OUT_OF_MEMORY").what[2] = g
      /\ AcquireElse(m, g, "OUT_OF_MEMORY").code = "OUT_OF_MEMORY"
      /\ Release(g).op = "release" /\ Release(g).what = g
  BY DEF Throws, AcquireElse, Release
<1>3. Flows(k, R, Free(NoHandler), Free(NoHandler))
  <2>1. R \in Seq(Tests(k, Free(NoHandler)))
    BY Unhandled, FreeTests, Codes
  <2> QED
    BY <2>1, FreeSteady, SteadyFlows
<1>4. /\ Free(NoHandler).held = {} /\ Free(NoHandler).files = {"old"} /\ IsPoint(Free(NoHandler))
      /\ a = Point({}, [what |-> g, code |-> e], {"old"})
      /\ Over.held = {} /\ Over.files = {} /\ Over = Point({}, NoHandler, {})
  BY Points DEF Free, With, Over
<1>5. gmsh_mesh = R \o TryFreeing(g, e, body)
  BY DEF gmsh_mesh
<1>6. body = ((T \o (A \o T)) \o (X \o T)) \o ((E \o T) \o (L \o Y))
  BY NineSteps, Halves
<1> HIDE DEF g, m, e, h, body
<1>7. /\ a.held = {} /\ b.held = {g} /\ c.held = {g, m} /\ d.held = {m}
      /\ a.handler = h /\ b.handler = h /\ c.handler = h /\ d.handler = h
      /\ a.files = {"old"} /\ b.files = {"old"} /\ c.files = {"old"} /\ d.files = {"old"}
      /\ IsPoint(a) /\ IsPoint(b) /\ IsPoint(c) /\ IsPoint(d)
  <2>1. {g} \subseteq Resources /\ {m} \subseteq Resources /\ {g, m} \subseteq Resources
    BY <1>1
  <2>2. \A x : /\ With(x, h).held = x /\ With(x, h).handler = h /\ With(x, h).files = {"old"}
               /\ x \subseteq Resources => IsPoint(With(x, h))
    BY Points DEF With
  <2>3. a = With({}, h) /\ {} \subseteq Resources
    BY DEF Free
  <2> HIDE DEF a
  <2> QED
    BY <2>1, <2>2, <2>3
<1>8. /\ c = Point({g} \cup {m}, h, {"old"}) /\ d = Point({g, m} \ {g}, h, {"old"})
  <2>1. {g} \cup {m} = {g, m} /\ {g, m} \ {g} = {m}
    BY <1>1
  <2> QED
    BY <2>1 DEF With
<1>9. Flows(k, A, a, b) /\ Flows(k, X, b, b) /\ Flows(k, Y, d, Over) /\ Flows(k, T, a, a)
  BY <1>1, AcquireFlows, HeldRuns, SharedRuns, SteadyFlows, ReturnFlows DEF Plain
<1> HIDE DEF a, b, c, d
<1>10. Flows(k, T, b, b)
  <2>1. Ends(k, {g} \ {g}, e, "work", {"old"})
    <3>1. {g} \ {g} = {} /\ e # "OK"
      BY <1>1, Codes
    <3>2. Ends(k, {}, e, "work", {"old"})
      BY <3>1, <1>1 DEF Ends
    <3> QED
      BY <3>1, <3>2
  <2>2. Moves(k, Throws, b, b)
    BY <2>1, <1>1, <1>2, <1>7 DEF Moves
  <2> QED
    BY <2>2, <1>7, OneStep
<1>11. Flows(k, E, b, c)
  <2>1. Ends(k, {g} \ {g}, "OUT_OF_MEMORY", "no", {"old"})
    BY Codes DEF Ends
  <2>2. Moves(k, AcquireElse(m, g, "OUT_OF_MEMORY"), b, c)
    BY <2>1, <1>2, <1>7, <1>8 DEF Moves
  <2> QED
    BY <2>2, <1>7, OneStep
<1>12. Flows(k, T, c, c)
  <2>1. Ends(k, {g, m} \ {g}, e, "work", {"old"})
    <3>1. {g, m} \ {g} = {m} /\ e # "OK"
      BY <1>1, Codes
    <3>2. Ends(k, {m}, e, "work", {"old"})
      BY <3>1, <1>1 DEF Ends
    <3> QED
      BY <3>1, <3>2
  <2>2. Moves(k, Throws, c, c)
    BY <2>1, <1>1, <1>2, <1>7 DEF Moves
  <2> QED
    BY <2>2, <1>7, OneStep
<1>13. Flows(k, L, c, d)
  <2>1. Moves(k, Release(g), c, d)
    BY <1>2, <1>7, <1>8 DEF Moves
  <2> QED
    BY <2>1, <1>7, OneStep
<1> HIDE DEF T, A, X, E, L, Y
<1>14. Flows(k, T \o (A \o T), a, b) /\ Flows(k, X \o T, b, b) /\ Flows(k, E \o T, b, c)
       /\ Flows(k, L \o Y, c, Over)
  BY <1>9, <1>10, <1>11, <1>12, <1>13, FlowsTogether
<1>15. Flows(k, ((T \o (A \o T)) \o (X \o T)) \o ((E \o T) \o (L \o Y)), a, Over)
  BY <1>14, FlowsTogether
<1>16. Flows(k, body, a, Over)
  BY <1>6, <1>15
<1>17. Flows(k, TryFreeing(g, e, body), Free(NoHandler), Over)
  <2>1. Flows(k, TryFreeing(g, e, body), Free(NoHandler), Point(Over.held, NoHandler, Over.files))
    BY <1>4, <1>16, TryFlows
  <2> QED
    BY <2>1, <1>4
<1> HIDE DEF R
<1>18. Flows(k, R \o TryFreeing(g, e, body), Free(NoHandler), Over)
  BY <1>3, <1>17, FlowsTogether
<1> QED
  BY <1>5, <1>18 DEF Sound

(* A failed OpenFOAM run leaves its case directory, and so does an exception; *)
(* the mesh tests and success remove it.                                      *)
LEMMA OpenfoamSound ==
    ASSUME NEW k, k \in ToSet(FoamSolvers), Plain(k)
    PROVE  Sound(k, openfoam_solve_impl)
<1> DEFINE n == NoHandler
           x == "casedir"
           f == "field"
           a == Free(n)
           b == With({x}, n)
           c == With({x, f}, n)
           d == With({f}, n)
           R == <<Refuse("INVALID"), Refuse("INVALID"), Throws, Refuse("PLUGIN_REJECTED"), Throws>>
           A == <<Acquire(x, "IO")>>
           T == <<Throws>>
           W == write_polymesh_from_mesh
           X == <<Abandon(x, "INVALID")>>
           V == <<Throws, Refuse("INTERNAL"), Refuse("TIMEOUT"), Refuse("PLUGIN_REJECTED"),
                  Refuse("PLUGIN_REJECTED")>>
           N == Acquire(f, "OUT_OF_MEMORY")
           B == Abandon(f, "INTERNAL")
           L == <<Release(x)>>
           Y == <<Return(f)>>
           Q == <<Refuse("INVALID"), Refuse("INVALID"), Throws, Refuse("PLUGIN_REJECTED"), Throws,
                  Acquire(x, "IO")>>
           Z == <<Release(x), Return(f)>>
<1>1. x \in Resources /\ f \in Resources /\ x # f
  BY DEF Resources
<1>2. \A e \in Errors : \A t : e \notin {"OK", "INVALID", "IO"} => Ends(k, {x}, e, t, {"old"})
  <2>1. {"old"} \subseteq {"old"} /\ {x} = {"casedir"}
    OBVIOUS
  <2> HIDE DEF x
  <2> QED
    BY <2>1 DEF Ends
<1>3. Q = R \o A
  OBVIOUS
<1>4. Z = L \o Y
  BY Halves
<1>5. NewField = <<N>> \o <<B>>
  BY Halves DEF NewField
<1>6. openfoam_solve_impl = Q \o T \o W \o V \o NewField \o Z
  BY DEF openfoam_solve_impl
<1>7. /\ Release(x).op = "release" /\ Release(x).what = x
      /\ N.op = "acquire" /\ N.what = f /\ N.code = "OUT_OF_MEMORY"
      /\ B.op = "abandon" /\ B.what = f /\ B.code = "INTERNAL"
  BY DEF Release, Acquire, Abandon
<1>8. /\ "OUT_OF_MEMORY" \notin {"OK", "INVALID", "IO"} /\ "INTERNAL" \notin {"OK", "INVALID", "IO"}
      /\ "TIMEOUT" \notin {"OK", "INVALID", "IO"} /\ "PLUGIN_REJECTED" \notin {"OK", "INVALID", "IO"}
      /\ "ESCAPED" \notin {"OK", "INVALID", "IO"}
  OBVIOUS
<1>9. Flows(k, R, a, a)
  <2>1. R \in Seq(Tests(k, a))
    BY Unhandled, FreeTests, Codes
  <2> QED
    BY <2>1, FreeSteady, SteadyFlows
<1> HIDE DEF x, f, N, B
<1>10. /\ b.held = {x} /\ c.held = {x, f} /\ d.held = {f}
       /\ b.handler = n /\ c.handler = n /\ d.handler = n
       /\ b.files = {"old"} /\ c.files = {"old"} /\ d.files = {"old"}
       /\ IsPoint(b) /\ IsPoint(c) /\ IsPoint(d)
  <2>1. {x} \subseteq Resources /\ {f} \subseteq Resources /\ {x, f} \subseteq Resources
    BY <1>1
  <2>2. \A s : /\ With(s, n).held = s /\ With(s, n).handler = n /\ With(s, n).files = {"old"}
               /\ s \subseteq Resources => IsPoint(With(s, n))
    BY Points DEF With
  <2> QED
    BY <2>1, <2>2
<1>11. c = Point({x} \cup {f}, n, {"old"}) /\ d = Point({x, f} \ {x}, n, {"old"})
  <2>1. {x} \cup {f} = {x, f} /\ {x, f} \ {x} = {f}
    BY <1>1
  <2> QED
    BY <2>1 DEF With
<1>12. Flows(k, A, a, b) /\ Flows(k, Y, d, Over) /\ Steady(k, X, b)
  BY <1>1, AcquireFlows, ReturnFlows, HeldRuns, Codes DEF Plain
<1> HIDE DEF a, b, c, d
<1>13. Throws \in Tests(k, b)
  <2>1. Throws.op = "throws"
    BY DEF Throws
  <2>2. Ends(k, {x} \ {n.what}, n.code, "work", {"old"})
    <3>1. n.code = "ESCAPED" /\ n.what = "none" /\ "none" \notin Resources
      BY DEF NoHandler, Resources
    <3>2. {x} \ {n.what} = {x}
      BY <1>1, <3>1
    <3> QED
      BY <3>1, <3>2, <1>2, <1>8, Codes
  <2>3. Moves(k, Throws, b, b)
    BY <2>1, <2>2, <1>10 DEF Moves
  <2>4. Throws \in TestSteps
    BY DEF TestSteps
  <2> QED
    BY <2>3, <2>4 DEF Tests
<1>14. Steady(k, V, b)
  <2>1. \A e \in Errors : e \notin {"OK", "INVALID", "IO"} => Refuse(e) \in Tests(k, b)
    <3>1. ASSUME NEW e \in Errors, e \notin {"OK", "INVALID", "IO"}
          PROVE  Refuse(e) \in Tests(k, b)
      <4>1. Refuse(e).op = "refuse" /\ Refuse(e).code = e
        BY DEF Refuse
      <4>2. Moves(k, Refuse(e), b, b)
        <5>1. Ends(k, b.held, e, "no", b.files)
          BY <1>2, <1>10, <3>1
        <5> QED
          BY <4>1, <5>1 DEF Moves
      <4>3. Refuse(e) \in TestSteps
        BY DEF TestSteps
      <4> QED
        BY <4>2, <4>3 DEF Tests
    <3> QED
      BY <3>1
  <2>2. V \in Seq(Tests(k, b))
    BY <1>8, <1>13, <2>1, Codes
  <2> QED
    BY <1>10, <2>2, TestsAreSteady
<1>15. Steady(k, T, b)
  <2>1. T \in Seq(Tests(k, b))
    BY <1>13
  <2> QED
    BY <1>10, <2>1, TestsAreSteady
<1>16. Steady(k, W, b)
  <2> HIDE DEF X, T
  <2>1. Steady(k, X \o Loop(T \o X) \o T, b)
    BY <1>12, <1>15, SteadyLoop, SteadyTogether
  <2> QED
    BY <2>1 DEF write_polymesh_from_mesh, X, T, x
<1>17. Flows(k, <<N>>, b, c)
  <2>1. Ends(k, {x}, "OUT_OF_MEMORY", "no", {"old"})
    BY <1>2, <1>8, Codes
  <2>2. Moves(k, N, b, c)
    BY <2>1, <1>7, <1>10, <1>11 DEF Moves
  <2> QED
    BY <2>2, <1>10, OneStep
<1>18. Flows(k, <<B>>, c, c)
  <2>1. Ends(k, {x, f} \ {f}, "INTERNAL", "no", {"old"})
    <3>1. {x, f} \ {f} = {x}
      BY <1>1
    <3> QED
      BY <3>1, <1>2, <1>8, Codes
  <2>2. Moves(k, B, c, c)
    BY <2>1, <1>7, <1>10 DEF Moves
  <2> QED
    BY <2>2, <1>10, OneStep
<1>19. Flows(k, L, c, d)
  <2>1. Moves(k, Release(x), c, d)
    BY <1>7, <1>10, <1>11 DEF Moves
  <2> QED
    BY <2>1, <1>10, OneStep
<1> HIDE DEF R, A, T, W, V, L, Y, Q, Z
<1>20. Flows(k, Q, a, b) /\ Flows(k, Z, c, Over) /\ Flows(k, NewField, b, c)
  BY <1>3, <1>4, <1>5, <1>9, <1>12, <1>17, <1>18, <1>19, FlowsTogether
<1>21. Flows(k, Q \o T \o W \o V \o NewField \o Z, a, Over)
  BY <1>14, <1>16, <1>20, <1>15, SteadyFlows, FlowsTogether
<1> QED
  BY <1>6, <1>21 DEF Sound, a

(* OpenCASCADE may throw while the geometry is held. *)
LEMMA CadReaderSound ==
    ASSUME NEW k, Plain(k), "geometry" \in Unguarded(k)
    PROVE  Sound(k, occt_read)
<1> DEFINE a == Free(NoHandler)
           b == With({"geometry"}, NoHandler)
           A == <<Acquire("geometry", "OUT_OF_MEMORY")>>
           Y == <<Return("geometry")>>
<1>1. "geometry" \in Resources
  BY DEF Resources
<1>2. read_step_or_iges \in Seq(Tests(k, a))
  BY Unhandled, FreeTests, Codes DEF read_step_or_iges
<1>3. Steady(k, NeedsOuts, a) /\ Steady(k, read_step_or_iges, a)
  BY <1>2, SharedRuns, FreeSteady
<1>4. Flows(k, NeedsOuts \o read_step_or_iges, a, a)
  BY <1>3, SteadyTogether, SteadyFlows
<1>5. Flows(k, A, a, b) /\ Flows(k, Y, b, Over)
  BY <1>1, AcquireFlows, ReturnFlows, Codes DEF Plain
<1>6. Flows(k, emit_geometry, b, b)
  BY <1>1, Unhandled, HeldRuns, SteadyFlows DEF emit_geometry
<1> HIDE DEF A, Y
<1>7. Flows(k, NeedsOuts \o read_step_or_iges \o A \o emit_geometry \o Y, a, Over)
  BY <1>4, <1>5, <1>6, FlowsTogether
<1> QED
  BY <1>7 DEF Sound, occt_read, A, Y

LEMMA SurfaceReadersSound ==
    ASSUME NEW k, Plain(k), "mesh" \in Unguarded(k)
    PROVE  Sound(k, obj_read) /\ Sound(k, stl_read)
<1> DEFINE a == Free(NoHandler)
           P == <<Throws, Refuse("NOT_FOUND"), Refuse("IO")>>
<1>1. P \in Seq(Tests(k, a))
  BY Unhandled, FreeTests, Codes
<1>2. Steady(k, NeedsOuts, a) /\ Steady(k, P, a)
  BY <1>1, SharedRuns, FreeSteady
<1> HIDE DEF P
<1>3. Flows(k, NeedsOuts \o P, a, a)
  BY <1>2, SteadyTogether, SteadyFlows
<1>4. Flows(k, NeedsOuts \o P \o NewMesh \o <<Return("mesh")>>, a, Over)
  BY <1>3, Meshes
<1> QED
  BY <1>4 DEF Sound, obj_read, stl_read, P

(* What is thrown while Blender's directory is there leaves it there. *)
LEMMA BlenderSound ==
    ASSUME NEW k, Plain(k), "workdir" \in Unguarded(k), "mesh" \in Unguarded(k)
    PROVE  Sound(k, blender_read)
<1> DEFINE x == "workdir"
           a == Free(NoHandler)
           b == With({x}, NoHandler)
           R == <<Throws, Refuse("PLUGIN_REJECTED"), Throws>>
           A == <<Acquire(x, "IO")>>
           RA == <<Throws, Refuse("PLUGIN_REJECTED"), Throws, Acquire(x, "IO")>>
           X == <<Throws, Abandon(x, "PLUGIN_REJECTED"), Abandon(x, "TIMEOUT"),
                  Throws, Abandon(x, "PLUGIN_REJECTED"), Abandon(x, "PLUGIN_REJECTED"),
                  Throws, Abandon(x, "PLUGIN_REJECTED"), Abandon(x, "IO"), Throws>>
           L == <<Release(x)>>
           I == <<Refuse("IO")>>
<1>1. x \in Resources
  BY DEF Resources
<1>2. R \in Seq(Tests(k, a))
  BY Unhandled, FreeTests, Codes
<1>3. Steady(k, NeedsOuts, a) /\ Steady(k, R, a) /\ Steady(k, I, a)
  BY <1>2, FreeSteady, SharedRuns, Codes
<1>4. Flows(k, A, a, b)
  BY <1>1, AcquireFlows, Codes
<1>5. X \in Seq(Tests(k, b)) /\ IsPoint(b)
  <2>1. /\ \A c \in Errors : Abandon(x, c) \in Tests(k, b)
        /\ Throws \in Tests(k, b) /\ IsPoint(b)
    BY <1>1, Unhandled, HeldTests
  <2> QED
    BY <2>1, Codes
<1>6. Flows(k, X, b, b)
  BY <1>5, TestsAreSteady, SteadyFlows
<1>7. Flows(k, L, b, a)
  <2>1. Release(x).op = "release" /\ Release(x).what = x
    BY DEF Release
  <2>2. b.held = {x} /\ b.handler = NoHandler /\ b.files = {"old"}
    BY Points DEF With
  <2>3. a = Point({x} \ {x}, NoHandler, {"old"})
    BY DEF Free, With
  <2>4. IsPoint(a)
    BY FreeTests
  <2> HIDE DEF a, b
  <2>5. Moves(k, Release(x), b, a)
    BY <2>1, <2>2, <2>3 DEF Moves
  <2> QED
    BY <1>5, <2>4, <2>5, OneStep
<1>8. RA = R \o A
  OBVIOUS
<1> HIDE DEF R, A, RA, X, L, I, b
<1>9. Flows(k, NeedsOuts \o (R \o A) \o X \o L \o I, a, a)
  BY <1>3, <1>4, <1>6, <1>7, SteadyFlows, FlowsTogether
<1>10. Flows(k, NeedsOuts \o RA \o X \o L \o I \o NewMesh \o <<Return("mesh")>>, a, Over)
  BY <1>8, <1>9, Meshes
<1> QED
  BY <1>10 DEF Sound, blender_read, RA, X, L, I

LEMMA LatticeSound ==
    ASSUME NEW k, Plain(k), "mesh" \in Unguarded(k)
    PROVE  Sound(k, lattice_read)
<1> DEFINE a == Free(NoHandler)
           b == With({"mesh"}, NoHandler)
           F == <<Throws, Refuse("NOT_FOUND")>>
           I == <<Throws, Refuse("IO")>>
           R == <<Refuse("INVALID"), Refuse("INVALID"), Refuse("INVALID"), Throws,
                  Refuse("INTERNAL"), Refuse("INVALID"), Refuse("INVALID")>>
           T == <<Throws>>
           X == <<Abandon("mesh", "FORWARDED")>>
           Y == <<Return("mesh")>>
<1>1. "mesh" \in Resources
  BY DEF Resources
<1>2. F \in Seq(Tests(k, a)) /\ I \in Seq(Tests(k, a)) /\ R \in Seq(Tests(k, a))
  BY Unhandled, FreeTests, Codes
<1>3. Steady(k, NeedsOuts, a) /\ Steady(k, F, a) /\ Steady(k, I, a) /\ Steady(k, R, a)
  BY <1>2, SharedRuns, FreeSteady
<1>4. Steady(k, X, b) /\ Steady(k, T, b) /\ Flows(k, Y, b, Over)
  BY <1>1, Unhandled, HeldRuns, ReturnFlows, Codes DEF Plain
<1>5. Flows(k, NewMesh, a, b)
  BY Unhandled, NewMeshFlows
<1> HIDE DEF F, I, R, T, X, Y
<1>6. Steady(k, F \o Loop(I), a)
  BY <1>3, SteadyLoop, SteadyTogether
<1>7. Steady(k, parse_spec_file, a)
  BY <1>6 DEF parse_spec_file, F, I
<1>8. Flows(k, NeedsOuts \o parse_spec_file \o R, a, a)
  BY <1>3, <1>7, SteadyTogether, SteadyFlows
<1>9. Flows(k, Loop(T \o X), b, b)
  BY <1>4, SteadyTogether, SteadyLoop, SteadyFlows
<1>10. Flows(k, NeedsOuts \o parse_spec_file \o R \o NewMesh \o Loop(T \o X) \o Y, a, Over)
  BY <1>4, <1>5, <1>8, <1>9, FlowsTogether
<1> QED
  BY <1>10 DEF Sound, lattice_read, R, T, X, Y

(* Once the file is open a write reports IO, and the stream may throw as it     *)
(* opens; written and flushed the file is new.                                 *)
LEMMA FileFlows ==
    ASSUME NEW k, NEW h, h.code \in Errors
    PROVE  /\ Flows(k, StreamTo, Free(h), Point({}, h, {"new"}))
           /\ Flows(k, PutTo, Free(h), Point({}, h, {"partial", "new"}))
           /\ Flows(k, <<OpenFile("IO")>>, Free(h), Point({}, h, {"partial"}))
           /\ Flows(k, <<OpenPlain("IO")>>, Free(h), Point({}, h, {"partial"}))
           /\ Flows(k, <<PutFile("IO")>>, Point({}, h, {"partial"}), Point({}, h, {"partial", "new"}))
           /\ Flows(k, <<PrintFile>>, Point({}, h, {"partial"}), Point({}, h, {"partial", "new"}))
<1> DEFINE a == Free(h)
           b == Point({}, h, {"partial"})
           c == Point({}, h, {"new"})
           d == Point({}, h, {"partial", "new"})
           O == OpenFile("IO")
           W == WriteFile("IO")
           P == PutFile("IO")
           N == OpenPlain("IO")
<1>1. /\ O.op = "open" /\ O.code = "IO" /\ O.what = "stream"
      /\ N.op = "open" /\ N.code = "IO" /\ N.what = "none" /\ W.op = "write" /\ W.code = "IO"
      /\ P.op = "put" /\ P.code = "IO" /\ PrintFile.op = "print"
  BY DEF OpenFile, OpenPlain, WriteFile, PutFile, PrintFile
<1>2. /\ \A f : Ends(k, {}, "IO", "no", f)
      /\ Ends(k, {}, h.code, "stream", {"partial"})
  BY Codes DEF Ends
<1>3. /\ a.held = {} /\ a.handler = h /\ a.files = {"old"} /\ IsPoint(a)
      /\ b.held = {} /\ b.handler = h /\ b.files = {"partial"} /\ IsPoint(b)
      /\ IsPoint(c) /\ IsPoint(d)
  BY Points DEF Free, With
<1>4. b = Point({}, h, {"partial"}) /\ c = Point({}, h, {"new"}) /\ d = Point({}, h, {"partial", "new"})
  OBVIOUS
<1>5. StreamTo = <<O>> \o <<W>> /\ PutTo = <<O>> \o <<P>>
  BY Halves DEF StreamTo, PutTo
<1> HIDE DEF a, b, c, d, O, W, P, N
<1>6. /\ Moves(k, O, a, b) /\ Moves(k, N, a, b) /\ Moves(k, W, b, c) /\ Moves(k, P, b, d)
      /\ Moves(k, PrintFile, b, d)
  <2>1. {} \ {h.what} = {}
    OBVIOUS
  <2>2. Moves(k, O, a, b)
    BY <2>1, <1>1, <1>2, <1>3, <1>4 DEF Moves
  <2>3. Moves(k, N, a, b)
    BY <1>1, <1>2, <1>3, <1>4 DEF Moves
  <2>4. Moves(k, W, b, c) /\ Moves(k, P, b, d) /\ Moves(k, PrintFile, b, d)
    BY <1>1, <1>2, <1>3, <1>4 DEF Moves
  <2> QED
    BY <2>2, <2>3, <2>4
<1>7. /\ Flows(k, <<O>>, a, b) /\ Flows(k, <<W>>, b, c) /\ Flows(k, <<P>>, b, d)
      /\ Flows(k, <<PrintFile>>, b, d) /\ Flows(k, <<N>>, a, b)
  BY <1>3, <1>6, OneStep
<1>8. Flows(k, <<O>> \o <<W>>, a, c) /\ Flows(k, <<O>> \o <<P>>, a, d)
  BY <1>7, FlowsTogether
<1> QED
  BY <1>5, <1>7, <1>8 DEF a, b, c, d, O, P, N

(* A writer hands nothing over; the report's success says the file is new. *)
LEMMA AnswerFlows ==
    ASSUME NEW k, NEW h, NEW f, f \subseteq {"old", "partial", "new"}, Plain(k) \/ f \subseteq {"new"}
    PROVE  Flows(k, <<Return("none")>>, Point({}, h, f), Over)
<1>1. Return("none").op = "return" /\ Return("none").what = "none"
  BY DEF Return
<1>2. Ends(k, {} \ {"none"}, "OK", "no", f)
  BY DEF Ends, Plain
<1>3. /\ Point({}, h, f).held = {} /\ Point({}, h, f).files = f /\ IsPoint(Point({}, h, f))
      /\ IsPoint(Over)
  <2>1. \A g : /\ Point({}, h, g).held = {} /\ Point({}, h, g).files = g
               /\ g \subseteq {"old", "partial", "new"} => IsPoint(Point({}, h, g))
    BY Points
  <2>2. IsPoint(Over)
    BY DEF Over, Point, IsPoint
  <2> QED
    BY <2>1, <2>2
<1>4. Moves(k, Return("none"), Point({}, h, f), Over)
  BY <1>1, <1>2, <1>3 DEF Moves
<1> QED
  BY <1>3, <1>4, OneStep

(* What is complete in memory is put on the disk at the end. *)
LEMMA Commits ==
    ASSUME NEW k, Plain(k), NEW h, h.code \in Errors, NEW P, Flows(k, P, Free(h), Free(h))
    PROVE  Flows(k, P \o PutTo \o <<Return("none")>>, Free(h), Over)
<1> DEFINE d == Point({}, h, {"partial", "new"})
           Y == <<Return("none")>>
<1>1. Flows(k, PutTo, Free(h), d) /\ Flows(k, Y, d, Over)
  BY FileFlows, AnswerFlows
<1> HIDE DEF d, Y
<1>2. Flows(k, P \o PutTo \o Y, Free(h), Over)
  BY <1>1, FlowsTogether
<1> QED
  BY <1>2 DEF Y

LEMMA ReportSound ==
    ASSUME NEW k
    PROVE  Sound(k, qualification_report_write)
<1> DEFINE a == Free(NoHandler)
           h == Catch("INTERNAL")
           b == Free(h)
           c == Point({}, h, {"new"})
           d == Point({}, NoHandler, {"new"})
           R == <<Refuse("INVALID")>>
           T == <<Throws>>
           Y == <<Return("none")>>
           P == R \o NeedsPath \o T \o R
           body == dossier_text \o StreamTo
<1>1. h.code \in Errors /\ h = [what |-> "none", code |-> "INTERNAL"]
  BY Codes DEF Catch
<1>2. Steady(k, R, a) /\ Steady(k, NeedsPath, a) /\ Steady(k, T, a)
  BY Unhandled, SharedRuns, Codes
<1>3. Steady(k, T, b)
  BY <1>1, SharedRuns
<1>4. /\ a.held = {} /\ a.files = {"old"} /\ IsPoint(a) /\ b = Point({}, h, {"old"})
      /\ c.held = {} /\ c.files = {"new"}
  BY Points DEF Free, With
<1>5. Flows(k, StreamTo, b, c) /\ Flows(k, Y, d, Over)
  BY <1>1, FileFlows, AnswerFlows
<1> HIDE DEF a, b, c, h, R, T, Y
<1>6. Flows(k, P, a, a)
  BY <1>2, SteadyTogether, SteadyFlows
<1>7. Steady(k, Maybe(T), b)
  BY <1>3, SteadyMaybe
<1>8. Steady(k, render_field_section, b)
  BY <1>7 DEF render_field_section, T
<1>9. Steady(k, T \o render_field_section \o T, b)
  BY <1>3, <1>8, SteadyTogether
<1>10. Flows(k, dossier_text, b, b)
  BY <1>9, SteadyFlows DEF dossier_text, T
<1>11. Flows(k, body, b, c)
  BY <1>5, <1>10, FlowsTogether
<1> HIDE DEF body
<1>12. Flows(k, body, Point(a.held, [what |-> "none", code |-> "INTERNAL"], a.files), c)
  BY <1>1, <1>4, <1>11
<1>13. Flows(k, TryFreeing("none", "INTERNAL", body), a, Point(c.held, NoHandler, c.files))
  BY <1>4, <1>12, TryFlows
<1>14. Flows(k, Try("INTERNAL", body), a, d)
  BY <1>4, <1>13 DEF Try
<1> HIDE DEF P, d
<1>15. Flows(k, P \o Try("INTERNAL", body) \o Y, a, Over)
  BY <1>5, <1>6, <1>14, FlowsTogether
<1> QED
  BY <1>15 DEF Sound, qualification_report_write, P, body, a, R, T, Y

(* The slicer's writers read the boundary first. *)
LEMMA ExtractSteady ==
    ASSUME NEW k, NEW h, h.code \in Errors
    PROVE  Steady(k, extract_boundary, Free(h))
<1> DEFINE a == Free(h)
           P == <<Refuse("INVALID"), Refuse("INVALID"), Refuse("INVALID"), Refuse("INTERNAL"), Throws>>
           R == <<Refuse("INVALID")>>
           Q == <<Throws>> \o CellNodes
<1>1. P \in Seq(Tests(k, a))
  BY FreeTests, Codes
<1>2. Steady(k, P, a)
  BY <1>1, FreeSteady
<1>3. Steady(k, CellNodes, a) /\ Steady(k, R, a) /\ Steady(k, <<Throws>>, a)
  BY SharedRuns, Codes
<1>4. Steady(k, Q, a)
  BY <1>3, SteadyTogether
<1> HIDE DEF P, Q, R
<1>5. Steady(k, P \o Loop(R) \o Loop(Q), a)
  BY <1>2, <1>3, <1>4, SteadyLoop, SteadyTogether
<1> QED
  BY <1>5 DEF extract_boundary, P, Q, R

LEMMA SlicerSound ==
    ASSUME NEW k, Plain(k)
    PROVE  Sound(k, gcode_write) /\ Sound(k, cli_write) /\ Sound(k, report_write)
<1> DEFINE h == Catch("OUT_OF_MEMORY")
           a == Free(h)
           R == <<Refuse("INVALID")>>
           N == <<Refuse("NOT_IMPLEMENTED")>>
           I == <<Refuse("INTERNAL")>>
           F == <<Refuse("FORWARDED")>>
           T == <<Throws>>
           U == require_path \o R \o extract_boundary \o Sliceable \o gcode_text
           V == require_path \o N \o frame_from_inputs \o extract_boundary
                    \o Sliceable \o R \o cli_text
           W == require_path \o R \o extract_boundary \o I
                    \o Loop(F) \o report_text \o report_field_section
           Y == <<Return("none")>>
<1>1. h.code \in Errors
  BY Codes DEF Catch
<1> HIDE DEF h
<1>2. /\ Steady(k, R, a) /\ Steady(k, N, a) /\ Steady(k, I, a) /\ Steady(k, F, a)
      /\ Steady(k, T, a) /\ Steady(k, require_path, a) /\ Steady(k, frame_from_inputs, a)
      /\ Steady(k, Sliceable, a) /\ Steady(k, gcode_text, a) /\ Steady(k, cli_text, a)
      /\ Steady(k, report_text, a)
  BY <1>1, SharedRuns, Codes DEF require_path, frame_from_inputs, Sliceable, gcode_text, cli_text,
                                 report_text
<1>3. Steady(k, extract_boundary, a)
  BY <1>1, ExtractSteady
<1> HIDE DEF R, N, I, F, T
<1>4. Steady(k, Maybe(T), a) /\ Steady(k, Loop(F), a)
  BY <1>2, SteadyMaybe, SteadyLoop
<1>5. Steady(k, report_field_section, a)
  BY <1>4 DEF report_field_section, T
<1>6. Flows(k, U, a, a) /\ Flows(k, V, a, a) /\ Flows(k, W, a, a)
  BY <1>2, <1>3, <1>4, <1>5, SteadyTogether, SteadyFlows
<1> HIDE DEF U, V, W
<1>7. /\ Flows(k, U \o PutTo \o Y, a, Over) /\ Flows(k, V \o PutTo \o Y, a, Over)
      /\ Flows(k, W \o PutTo \o Y, a, Over)
  BY <1>1, <1>6, Commits
<1>8. /\ Flows(k, gcode_write_impl, a, Over) /\ Flows(k, cli_write_impl, a, Over)
      /\ Flows(k, report_write_impl, a, Over)
  BY <1>7 DEF gcode_write_impl, cli_write_impl, report_write_impl, commit_file, U, V, W, R, N, I, F
<1> QED
  BY <1>8, WholeTry DEF Sound, gcode_write, cli_write, report_write, h

LEMMA TextWriterSound ==
    ASSUME NEW k, Plain(k)
    PROVE  Sound(k, hello_write)
<1> DEFINE a == Free(NoHandler)
           b == Point({}, NoHandler, {"partial"})
           d == Point({}, NoHandler, {"partial", "new"})
           R == <<Refuse("INVALID")>>
           O == <<OpenPlain("IO")>>
           P == <<PrintFile>>
           Y == <<Return("none")>>
<1>1. Steady(k, R, a) /\ Steady(k, NeedsPath, a)
  BY SharedRuns, Codes
<1>2. Flows(k, O, a, b) /\ Flows(k, P, b, d) /\ Flows(k, Y, d, Over)
  BY Unhandled, FileFlows, AnswerFlows
<1> HIDE DEF R, O, P, Y, b, d
<1>3. Flows(k, R \o NeedsPath, a, a)
  BY <1>1, SteadyTogether, SteadyFlows
<1>4. Flows(k, R \o NeedsPath \o O \o P \o Y, a, Over)
  BY <1>2, <1>3, FlowsTogether
<1> QED
  BY <1>4 DEF Sound, hello_write, R, O, P, Y

(* writer.vtu allocates once more when its file is open. *)
LEMMA VtuWriterSound ==
    ASSUME NEW k, k = "writer.vtu"
    PROVE  Sound(k, vtu_write)
<1> DEFINE a == Free(NoHandler)
           b == Point({}, NoHandler, {"partial"})
           d == Point({}, NoHandler, {"partial", "new"})
           R == <<Refuse("INVALID")>>
           F == <<Refuse("FORWARDED")>>
           T == <<Throws>>
           O == <<OpenFile("IO")>>
           P == <<PutFile("IO")>>
           Y == <<Return("none")>>
           V == R \o NeedsPath \o T \o Loop(F) \o Loop(R) \o Maybe(R)
<1>1. Steady(k, R, a) /\ Steady(k, F, a) /\ Steady(k, T, a) /\ Steady(k, NeedsPath, a)
  BY Unhandled, SharedRuns, Codes
<1>2. Flows(k, O, a, b) /\ Flows(k, P, b, d) /\ Flows(k, Y, d, Over)
  BY Unhandled, FileFlows, AnswerFlows DEF Plain
<1>3. Flows(k, T, b, b)
  <2>1. Throws.op = "throws"
    BY DEF Throws
  <2>2. b.held = {} /\ b.handler = NoHandler /\ b.files = {"partial"} /\ IsPoint(b)
    BY Points
  <2>3. Ends(k, {} \ {NoHandler.what}, NoHandler.code, "work", {"partial"})
    BY Unhandled, Codes DEF Ends
  <2> HIDE DEF b
  <2>4. Moves(k, Throws, b, b)
    BY <2>1, <2>2, <2>3 DEF Moves
  <2> QED
    BY <2>2, <2>4, OneStep
<1> HIDE DEF R, F, T, O, P, Y, b, d
<1>4. Steady(k, Loop(F), a) /\ Steady(k, Loop(R), a) /\ Steady(k, Maybe(R), a)
  BY <1>1, SteadyLoop, SteadyMaybe
<1>5. Flows(k, V, a, a)
  BY <1>1, <1>4, SteadyTogether, SteadyFlows
<1> HIDE DEF V
<1>6. Flows(k, V \o O \o T \o P \o Y, a, Over)
  BY <1>2, <1>3, <1>5, FlowsTogether
<1> QED
  BY <1>6 DEF Sound, vtu_write, V, R, F, T, O, P, Y

(* The capabilities of the OpenFOAM plugin. *)
LEMMA FoamNames ==
    ToSet(FoamSolvers) = {"solver.cfd.openfoam.simple", "solver.cfd.openfoam.pimple",
                          "solver.cfd.openfoam.inter"}
  BY DEF ToSet, FoamSolvers

(* Every program behind a capability is sound. *)
Capable ==
    {"solver.am.thermal.lpbf", "postproc.am.melt_pool",
     "solver.am.distortion.inherent_strain", "postproc.am.residual_stress",
     "solver.am.polymer.fff", "postproc.am.bond_strength", "solver.am.overhang",
     "solver.am.printability", "solver.am.buildtime", "mesher.am.layered",
     "solver.marine.hydrostatic", "solver.marine.hull_collapse", "solver.marine.corrosion",
     "writer.marine.qualification_report", "writer.am.gcode", "writer.am.cli",
     "writer.am.report", "mesher.tetra.hello", "mesher.tetra.grid", "writer.text-summary",
     "writer.vtu", "mesher.tetra.gmsh", "solver.heat.linear", "solver.elasticity.linear",
     "solver.modal.linear", "solver.cfd.simple", "postproc.scalar_magnitude",
     "postproc.mesh_quality", "solver.heat.fenicsx", "solver.elasticity.fem", "reader.obj",
     "reader.stl", "reader.step", "reader.iges", "reader.lattice", "reader.blend",
     "solver.cfd.openfoam.simple", "solver.cfd.openfoam.pimple",
     "solver.cfd.openfoam.inter"}

LEMMA ProgramsSound ==
    ASSUME NEW k \in Capable
    PROVE  Sound(k, Program(k))
<1>1. CASE k = "solver.am.thermal.lpbf"
  <2>1. Program(k) = am_thermal_solve
    BY <1>1 DEF Program
  <2>2. Plain(k) /\ "field" \in Unguarded(k)
    BY <1>1 DEF Plain, Unguarded
  <2> QED
    BY <2>1, <2>2, ThermalSound
<1>2. CASE k = "postproc.am.melt_pool"
  <2>1. Program(k) = melt_pool_compute
    BY <1>2 DEF Program
  <2>2. Plain(k) /\ "field" \in Unguarded(k)
    BY <1>2 DEF Plain, Unguarded
  <2> QED
    BY <2>1, <2>2, ThermalSound
<1>3. CASE k = "solver.am.distortion.inherent_strain"
  <2>1. Program(k) = distortion_solve
    BY <1>3 DEF Program
  <2>2. Plain(k)
    BY <1>3 DEF Plain
  <2> QED
    BY <2>1, <2>2, DistortionSound
<1>4. CASE k = "postproc.am.residual_stress"
  <2>1. Program(k) = residual_stress_compute
    BY <1>4 DEF Program
  <2>2. Plain(k) /\ "field" \in Unguarded(k)
    BY <1>4 DEF Plain, Unguarded
  <2> QED
    BY <2>1, <2>2, ResidualStressSound
<1>5. CASE k = "solver.am.polymer.fff"
  <2>1. Program(k) = polymer_fff_solve
    BY <1>5 DEF Program
  <2>2. Plain(k)
    BY <1>5 DEF Plain
  <2> QED
    BY <2>1, <2>2, PolymerSound
<1>6. CASE k = "postproc.am.bond_strength"
  <2>1. Program(k) = bond_strength_compute
    BY <1>6 DEF Program
  <2>2. Plain(k) /\ "field" \in Unguarded(k)
    BY <1>6 DEF Plain, Unguarded
  <2> QED
    BY <2>1, <2>2, BondStrengthSound
<1>7. CASE k = "solver.am.overhang"
  <2>1. Program(k) = overhang_solve
    BY <1>7 DEF Program
  <2>2. Plain(k)
    BY <1>7 DEF Plain
  <2> QED
    BY <2>1, <2>2, ManufacturabilitySound
<1>8. CASE k = "solver.am.printability"
  <2>1. Program(k) = printability_solve
    BY <1>8 DEF Program
  <2>2. Plain(k)
    BY <1>8 DEF Plain
  <2> QED
    BY <2>1, <2>2, ManufacturabilitySound
<1>9. CASE k = "solver.am.buildtime"
  <2>1. Program(k) = buildtime_solve
    BY <1>9 DEF Program
  <2>2. Plain(k)
    BY <1>9 DEF Plain
  <2> QED
    BY <2>1, <2>2, ManufacturabilitySound
<1>10. CASE k = "mesher.am.layered"
  <2>1. Program(k) = am_layered_mesh
    BY <1>10 DEF Program
  <2>2. Plain(k) /\ "mesh" \in Unguarded(k)
    BY <1>10 DEF Plain, Unguarded
  <2> QED
    BY <2>1, <2>2, LayeredMesherSound
<1>11. CASE k = "solver.marine.hydrostatic"
  <2>1. Program(k) = hydrostatic_solve
    BY <1>11 DEF Program
  <2>2. Plain(k)
    BY <1>11 DEF Plain
  <2> QED
    BY <2>1, <2>2, MarineSolversSound
<1>12. CASE k = "solver.marine.hull_collapse"
  <2>1. Program(k) = hull_collapse_solve
    BY <1>12 DEF Program
  <2>2. Plain(k)
    BY <1>12 DEF Plain
  <2> QED
    BY <2>1, <2>2, MarineSolversSound
<1>13. CASE k = "solver.marine.corrosion"
  <2>1. Program(k) = corrosion_solve
    BY <1>13 DEF Program
  <2>2. Plain(k)
    BY <1>13 DEF Plain
  <2> QED
    BY <2>1, <2>2, MarineSolversSound
<1>14. CASE k = "writer.marine.qualification_report"
  <2>1. Program(k) = qualification_report_write
    BY <1>14 DEF Program
  <2> QED
    BY <2>1, ReportSound
<1>15. CASE k = "writer.am.gcode"
  <2>1. Program(k) = gcode_write
    BY <1>15 DEF Program
  <2>2. Plain(k)
    BY <1>15 DEF Plain
  <2> QED
    BY <2>1, <2>2, SlicerSound
<1>16. CASE k = "writer.am.cli"
  <2>1. Program(k) = cli_write
    BY <1>16 DEF Program
  <2>2. Plain(k)
    BY <1>16 DEF Plain
  <2> QED
    BY <2>1, <2>2, SlicerSound
<1>17. CASE k = "writer.am.report"
  <2>1. Program(k) = report_write
    BY <1>17 DEF Program
  <2>2. Plain(k)
    BY <1>17 DEF Plain
  <2> QED
    BY <2>1, <2>2, SlicerSound
<1>18. CASE k = "mesher.tetra.hello"
  <2>1. Program(k) = hello_mesh
    BY <1>18 DEF Program
  <2>2. Plain(k) /\ "mesh" \in Unguarded(k)
    BY <1>18 DEF Plain, Unguarded
  <2> QED
    BY <2>1, <2>2, ReferenceMeshersSound
<1>19. CASE k = "mesher.tetra.grid"
  <2>1. Program(k) = grid_mesh
    BY <1>19 DEF Program
  <2>2. Plain(k) /\ "mesh" \in Unguarded(k)
    BY <1>19 DEF Plain, Unguarded
  <2> QED
    BY <2>1, <2>2, ReferenceMeshersSound
<1>20. CASE k = "writer.text-summary"
  <2>1. Program(k) = hello_write
    BY <1>20 DEF Program
  <2>2. Plain(k)
    BY <1>20 DEF Plain
  <2> QED
    BY <2>1, <2>2, TextWriterSound
<1>21. CASE k = "writer.vtu"
  <2>1. Program(k) = vtu_write
    BY <1>21 DEF Program
  <2> QED
    BY <1>21, <2>1, VtuWriterSound
<1>22. CASE k = "mesher.tetra.gmsh"
  <2>1. Program(k) = gmsh_mesh
    BY <1>22 DEF Program
  <2>2. Plain(k) /\ "mesh" \in Unguarded(k)
    BY <1>22 DEF Plain, Unguarded
  <2> QED
    BY <2>1, <2>2, GmshSound
<1>23. CASE k = "solver.heat.linear"
  <2>1. Program(k) = heat_solve
    BY <1>23 DEF Program
  <2>2. Plain(k)
    BY <1>23 DEF Plain
  <2> QED
    BY <2>1, <2>2, ReferenceSolversSound
<1>24. CASE k = "solver.elasticity.linear"
  <2>1. Program(k) = elasticity_solve
    BY <1>24 DEF Program
  <2>2. Plain(k)
    BY <1>24 DEF Plain
  <2> QED
    BY <2>1, <2>2, ReferenceSolversSound
<1>25. CASE k = "solver.modal.linear"
  <2>1. Program(k) = modal_solve
    BY <1>25 DEF Program
  <2>2. Plain(k)
    BY <1>25 DEF Plain
  <2> QED
    BY <2>1, <2>2, ReferenceSolversSound
<1>26. CASE k = "solver.cfd.simple"
  <2>1. Program(k) = cfd_solve
    BY <1>26 DEF Program
  <2>2. Plain(k)
    BY <1>26 DEF Plain
  <2> QED
    BY <2>1, <2>2, ReferenceSolversSound
<1>27. CASE k = "postproc.scalar_magnitude"
  <2>1. Program(k) = scalar_magnitude_compute
    BY <1>27 DEF Program
  <2>2. Plain(k)
    BY <1>27 DEF Plain
  <2> QED
    BY <2>1, <2>2, ReferenceSolversSound
<1>28. CASE k = "postproc.mesh_quality"
  <2>1. Program(k) = mesh_quality_compute
    BY <1>28 DEF Program
  <2>2. Plain(k) /\ "field" \in Unguarded(k)
    BY <1>28 DEF Plain, Unguarded
  <2> QED
    BY <2>1, <2>2, MeshQualitySound
<1>29. CASE k = "solver.heat.fenicsx"
  <2>1. Program(k) = fenicsx_solve
    BY <1>29 DEF Program
  <2>2. Plain(k)
    BY <1>29 DEF Plain
  <2> QED
    BY <2>1, <2>2, FenicsSound
<1>30. CASE k = "solver.elasticity.fem"
  <2>1. Program(k) = fem_solve
    BY <1>30 DEF Program
  <2>2. Plain(k)
    BY <1>30 DEF Plain
  <2> QED
    BY <2>1, <2>2, FemSound
<1>31. CASE k = "reader.obj"
  <2>1. Program(k) = obj_read
    BY <1>31 DEF Program
  <2>2. Plain(k) /\ "mesh" \in Unguarded(k)
    BY <1>31 DEF Plain, Unguarded
  <2> QED
    BY <2>1, <2>2, SurfaceReadersSound
<1>32. CASE k = "reader.stl"
  <2>1. Program(k) = stl_read
    BY <1>32 DEF Program
  <2>2. Plain(k) /\ "mesh" \in Unguarded(k)
    BY <1>32 DEF Plain, Unguarded
  <2> QED
    BY <2>1, <2>2, SurfaceReadersSound
<1>33. CASE k = "reader.step"
  <2>1. Program(k) = occt_read
    BY <1>33 DEF Program
  <2>2. Plain(k) /\ "geometry" \in Unguarded(k)
    BY <1>33 DEF Plain, Unguarded
  <2> QED
    BY <2>1, <2>2, CadReaderSound
<1>34. CASE k = "reader.iges"
  <2>1. Program(k) = occt_read
    BY <1>34 DEF Program
  <2>2. Plain(k) /\ "geometry" \in Unguarded(k)
    BY <1>34 DEF Plain, Unguarded
  <2> QED
    BY <2>1, <2>2, CadReaderSound
<1>35. CASE k = "reader.lattice"
  <2>1. Program(k) = lattice_read
    BY <1>35 DEF Program
  <2>2. Plain(k) /\ "mesh" \in Unguarded(k)
    BY <1>35 DEF Plain, Unguarded
  <2> QED
    BY <2>1, <2>2, LatticeSound
<1>36. CASE k = "reader.blend"
  <2>1. Program(k) = blender_read
    BY <1>36 DEF Program
  <2>2. Plain(k) /\ "workdir" \in Unguarded(k) /\ "mesh" \in Unguarded(k)
    BY <1>36 DEF Plain, Unguarded
  <2> QED
    BY <2>1, <2>2, BlenderSound
<1>37. CASE k = "solver.cfd.openfoam.simple"
  <2>1. Program(k) = simple_solve
    BY <1>37 DEF Program
  <2>2. k \in ToSet(FoamSolvers) /\ Plain(k)
    BY <1>37, FoamNames DEF Plain
  <2> QED
    BY <2>1, <2>2, OpenfoamSound DEF simple_solve
<1>38. CASE k = "solver.cfd.openfoam.pimple"
  <2>1. Program(k) = pimple_solve
    BY <1>38 DEF Program
  <2>2. k \in ToSet(FoamSolvers) /\ Plain(k)
    BY <1>38, FoamNames DEF Plain
  <2> QED
    BY <2>1, <2>2, OpenfoamSound DEF pimple_solve
<1>39. CASE k = "solver.cfd.openfoam.inter"
  <2>1. Program(k) = inter_solve
    BY <1>39 DEF Program
  <2>2. k \in ToSet(FoamSolvers) /\ Plain(k)
    BY <1>39, FoamNames DEF Plain
  <2> QED
    BY <2>1, <2>2, OpenfoamSound DEF inter_solve
<1> QED
  BY <1>1, <1>2, <1>3, <1>4, <1>5, <1>6, <1>7, <1>8, <1>9, <1>10, <1>11, <1>12, <1>13,
     <1>14, <1>15, <1>16, <1>17, <1>18, <1>19, <1>20, <1>21, <1>22, <1>23, <1>24, <1>25,
     <1>26, <1>27, <1>28, <1>29, <1>30, <1>31, <1>32, <1>33, <1>34, <1>35, <1>36, <1>37,
     <1>38, <1>39 DEF Capable

-----------------------------------------------------------------------------
(* What a plugin adds has a program. *)
LEMMA OrderedAreCapable ==
    ASSUME NEW caps \in Seq(Capable), NEW r, r \in InOrder(caps)
    PROVE  r.added \subseteq Capable
<1>1. ToSet(caps) \subseteq Capable
  <2>1. caps \in [1..Len(caps) -> Capable] /\ DOMAIN caps = 1..Len(caps)
    BY LenProperties
  <2> QED
    BY <2>1 DEF ToSet
<1>2. ASSUME NEW n \in 0..(Len(caps) - 1)
      PROVE  ToSet(SubSeq(caps, 1, n)) \subseteq Capable
  <2>1. /\ Len(caps) \in Nat /\ \A i \in 1..Len(caps) : caps[i] \in Capable
    BY LenProperties, ElementOfSeq
  <2>2. \A i \in 1..n : caps[i] \in Capable
    BY <2>1
  <2>3. n \in Int /\ 1 \in Int
    BY <2>1
  <2>4. SubSeq(caps, 1, n) \in Seq(Capable)
    BY <2>2, <2>3, SubSeqProperties
  <2>5. PICK part : part = SubSeq(caps, 1, n)
    OBVIOUS
  <2>6. part \in [1..Len(part) -> Capable] /\ DOMAIN part = 1..Len(part)
    BY <2>4, <2>5, LenProperties
  <2>7. ToSet(part) \subseteq Capable
    BY <2>6 DEF ToSet
  <2> QED
    BY <2>5, <2>7
<1>3. \/ r = [code |-> 0, added |-> ToSet(caps)]
      \/ r = [code |-> -1, added |-> {}]
      \/ \E n \in 0..(Len(caps) - 1) : r = [code |-> 1, added |-> ToSet(SubSeq(caps, 1, n))]
  BY DEF InOrder
<1> QED
  BY <1>1, <1>2, <1>3

LEMMA FoundAreCapable ==
    ASSUME NEW caps \in Seq(Capable), NEW r, r \in Found(caps)
    PROVE  r.added \subseteq Capable
<1>1. ToSet(caps) \subseteq Capable
  <2>1. caps \in [1..Len(caps) -> Capable] /\ DOMAIN caps = 1..Len(caps)
    BY LenProperties
  <2> QED
    BY <2>1 DEF ToSet
<1>2. \/ \E some \in SUBSET ToSet(caps) : r.added = some
      \/ r.added = {}
  BY DEF Found
<1> QED
  BY <1>1, <1>2

(* The registrations of all plugins. *)
LEMMA RegisteredAreCapable ==
    ASSUME NEW p \in Registrations, NEW r \in p
    PROVE  r.added \subseteq Capable
<1>1. CASE p = am_thermal_register
  <2>1. <<"solver.am.thermal.lpbf", "postproc.am.melt_pool">> \in Seq(Capable)
    BY DEF Capable
  <2> QED
    BY <1>1, <2>1, OrderedAreCapable DEF am_thermal_register
<1>2. CASE p = am_distortion_register
  <2>1. <<"solver.am.distortion.inherent_strain", "postproc.am.residual_stress">> \in Seq(Capable)
    BY DEF Capable
  <2> QED
    BY <1>2, <2>1, OrderedAreCapable DEF am_distortion_register
<1>3. CASE p = am_polymer_register
  <2>1. <<"solver.am.polymer.fff", "postproc.am.bond_strength">> \in Seq(Capable)
    BY DEF Capable
  <2> QED
    BY <1>3, <2>1, OrderedAreCapable DEF am_polymer_register
<1>4. CASE p = am_manufacturability_register
  <2>1. <<"solver.am.overhang", "solver.am.printability", "solver.am.buildtime">> \in Seq(Capable)
    BY DEF Capable
  <2> QED
    BY <1>4, <2>1, OrderedAreCapable DEF am_manufacturability_register
<1>5. CASE p = am_layered_mesher_register
  <2>1. <<"mesher.am.layered">> \in Seq(Capable)
    BY DEF Capable
  <2> QED
    BY <1>5, <2>1, OrderedAreCapable DEF am_layered_mesher_register
<1>6. CASE p = marine_register
  <2>1. <<"solver.marine.hydrostatic", "solver.marine.hull_collapse",
          "solver.marine.corrosion", "writer.marine.qualification_report">> \in Seq(Capable)
    BY DEF Capable
  <2> QED
    BY <1>6, <2>1, OrderedAreCapable DEF marine_register
<1>7. CASE p = am_slicer_register
  <2>1. <<"writer.am.gcode", "writer.am.cli", "writer.am.report">> \in Seq(Capable)
    BY DEF Capable
  <2> QED
    BY <1>7, <2>1, OrderedAreCapable DEF am_slicer_register
<1>8. CASE p = hello_mesher_register
  <2>1. <<"mesher.tetra.hello">> \in Seq(Capable)
    BY DEF Capable
  <2> QED
    BY <1>8, <2>1, OrderedAreCapable DEF hello_mesher_register
<1>9. CASE p = hello_writer_register
  <2>1. <<"writer.text-summary">> \in Seq(Capable)
    BY DEF Capable
  <2> QED
    BY <1>9, <2>1, OrderedAreCapable DEF hello_writer_register
<1>10. CASE p = grid_mesher_register
  <2>1. <<"mesher.tetra.grid">> \in Seq(Capable)
    BY DEF Capable
  <2> QED
    BY <1>10, <2>1, OrderedAreCapable DEF grid_mesher_register
<1>11. CASE p = gmsh_mesher_register
  <2>1. <<"mesher.tetra.gmsh">> \in Seq(Capable)
    BY DEF Capable
  <2> QED
    BY <1>11, <2>1, OrderedAreCapable DEF gmsh_mesher_register
<1>12. CASE p = heat_solver_register
  <2>1. <<"solver.heat.linear">> \in Seq(Capable)
    BY DEF Capable
  <2> QED
    BY <1>12, <2>1, OrderedAreCapable DEF heat_solver_register
<1>13. CASE p = elasticity_stub_register
  <2>1. <<"solver.elasticity.linear">> \in Seq(Capable)
    BY DEF Capable
  <2> QED
    BY <1>13, <2>1, OrderedAreCapable DEF elasticity_stub_register
<1>14. CASE p = modal_stub_register
  <2>1. <<"solver.modal.linear">> \in Seq(Capable)
    BY DEF Capable
  <2> QED
    BY <1>14, <2>1, OrderedAreCapable DEF modal_stub_register
<1>15. CASE p = cfd_stub_register
  <2>1. <<"solver.cfd.simple">> \in Seq(Capable)
    BY DEF Capable
  <2> QED
    BY <1>15, <2>1, OrderedAreCapable DEF cfd_stub_register
<1>16. CASE p = scalar_magnitude_register
  <2>1. <<"postproc.scalar_magnitude">> \in Seq(Capable)
    BY DEF Capable
  <2> QED
    BY <1>16, <2>1, OrderedAreCapable DEF scalar_magnitude_register
<1>17. CASE p = mesh_quality_register
  <2>1. <<"postproc.mesh_quality">> \in Seq(Capable)
    BY DEF Capable
  <2> QED
    BY <1>17, <2>1, OrderedAreCapable DEF mesh_quality_register
<1>18. CASE p = fenicsx_solver_register
  <2>1. <<"solver.heat.fenicsx">> \in Seq(Capable)
    BY DEF Capable
  <2> QED
    BY <1>18, <2>1, OrderedAreCapable DEF fenicsx_solver_register
<1>19. CASE p = fem_elasticity_register
  <2>1. <<"solver.elasticity.fem">> \in Seq(Capable)
    BY DEF Capable
  <2> QED
    BY <1>19, <2>1, OrderedAreCapable DEF fem_elasticity_register
<1>20. CASE p = occt_reader_register
  <2>1. <<"reader.step", "reader.iges">> \in Seq(Capable)
    BY DEF Capable
  <2> QED
    BY <1>20, <2>1, OrderedAreCapable DEF occt_reader_register
<1>21. CASE p = obj_reader_register
  <2>1. <<"reader.obj">> \in Seq(Capable)
    BY DEF Capable
  <2> QED
    BY <1>21, <2>1, OrderedAreCapable DEF obj_reader_register
<1>22. CASE p = stl_reader_register
  <2>1. <<"reader.stl">> \in Seq(Capable)
    BY DEF Capable
  <2> QED
    BY <1>22, <2>1, OrderedAreCapable DEF stl_reader_register
<1>23. CASE p = lattice_reader_register
  <2>1. <<"reader.lattice">> \in Seq(Capable)
    BY DEF Capable
  <2> QED
    BY <1>23, <2>1, OrderedAreCapable DEF lattice_reader_register
<1>24. CASE p = vtu_writer_register
  <2>1. <<"writer.vtu">> \in Seq(Capable)
    BY DEF Capable
  <2> QED
    BY <1>24, <2>1, OrderedAreCapable DEF vtu_writer_register
<1>25. CASE p = openfoam_solver_register
  <2>1. FoamSolvers \in Seq(Capable)
    BY DEF Capable, FoamSolvers
  <2> QED
    BY <1>25, <2>1, FoundAreCapable DEF openfoam_solver_register
<1>26. CASE p = blender_reader_register
  <2>1. <<"reader.blend">> \in Seq(Capable)
    BY DEF Capable
  <2>2. CASE r \in Found(<<"reader.blend">>)
    BY <2>1, <2>2, FoundAreCapable
  <2>3. CASE r = [code |-> 1, added |-> {}]
    BY <2>3
  <2> QED
    BY <1>26, <2>2, <2>3 DEF blender_reader_register
<1> QED
  BY <1>1, <1>2, <1>3, <1>4, <1>5, <1>6, <1>7, <1>8, <1>9, <1>10, <1>11, <1>12, <1>13,
     <1>14, <1>15, <1>16, <1>17, <1>18, <1>19, <1>20, <1>21, <1>22, <1>23, <1>24, <1>25,
     <1>26 DEF Registrations

-----------------------------------------------------------------------------
(* The calls follow the annotations of their programs. *)

\* The call is at a step, and things are as the annotation says.
Underway(A) ==
    /\ Annotated(call, Program(call), A)
    /\ A[Len(Program(call)) + 1] = Over
    /\ at \in 1..(Len(Program(call)) + 1)
    /\ held = A[at].held /\ handler = A[at].handler /\ file \in A[at].files

CallsInv ==
    /\ plugin \in Registrations
    /\ registered \in SUBSET UNION {r.added : r \in plugin}
    /\ call \in {"none"} \cup registered
    /\ held \subseteq Resources /\ out \in {"none"} \cup Resources
    /\ file \in {"old", "partial", "new"} /\ threw \in {"no", "work", "stream"}
    /\ call = "none" => at = 0 /\ held = {} /\ status = "none"
    /\ at # 0 => threw = "no" /\ status = "none" /\ \E A : Underway(A)
    /\ (at = 0 /\ call # "none") => Ends(call, held, status, threw, {file})

(* What can be called has a sound program. *)
LEMMA CalledAreSound ==
    ASSUME CallsInv, NEW k \in registered
    PROVE  k \in Capable /\ k # "none" /\ Sound(k, Program(k))
<1>1. PICK r \in plugin : k \in r.added
  BY DEF CallsInv
<1>2. k \in Capable
  BY <1>1, RegisteredAreCapable DEF CallsInv
<1>3. "none" \notin Capable
  BY DEF Capable
<1> QED
  BY <1>2, <1>3, ProgramsSound

(* A step that is not the last leads to the next point. *)
LEMMA Continues ==
    ASSUME CallsInv, at # 0, NEW A, Underway(A),
           NEW to \in 1..(Len(Program(call)) + 1), Continue(to),
           held' = A[to].held, handler' = A[to].handler, file' \in A[to].files
    PROVE  CallsInv'
<1>1. call' = call /\ at' = to /\ UNCHANGED <<plugin, registered, out, threw, status>>
  BY DEF Continue
<1>2. PICK k, P : k = call /\ P = Program(call)
  OBVIOUS
<1>3. k' = call' /\ P = Program(call')
  BY <1>1, <1>2
<1>4. Annotated(k, P, A) /\ A[Len(P) + 1] = Over /\ IsPoint(A[to])
  BY <1>2 DEF Underway, Annotated
<1>5. Underway(A)'
  BY <1>1, <1>2, <1>3, <1>4 DEF Underway
<1>6. to # 0 /\ at' # 0
  BY <1>1
<1>7. held' \subseteq Resources /\ file' \in {"old", "partial", "new"}
  BY <1>4 DEF IsPoint
<1>8. call # "none" /\ threw = "no" /\ status = "none"
  BY DEF CallsInv
<1>9. /\ plugin' \in Registrations
      /\ registered' \in SUBSET UNION {r.added : r \in plugin'}
      /\ call' \in {"none"} \cup registered'
      /\ out' \in {"none"} \cup Resources /\ threw' \in {"no", "work", "stream"}
  BY <1>1 DEF CallsInv
<1> QED
  BY <1>1, <1>5, <1>6, <1>7, <1>8, <1>9 DEF CallsInv

(* A step that ends the call leaves what it may. *)
LEMMA Stops ==
    ASSUME CallsInv, at # 0, NEW code, Finish(code), held' \subseteq held,
           file' \in {"old", "partial", "new"},
           threw' \in {"no", "work", "stream"}, out' \in {"none"} \cup Resources,
           Ends(call, held', code, threw', {file'})
    PROVE  CallsInv'
<1>1. call' = call /\ at' = 0 /\ status' = code /\ UNCHANGED <<plugin, registered>>
  BY DEF Finish
<1>2. call # "none"
  BY DEF CallsInv
<1>3. Ends(call', held', status', threw', {file'})
  BY <1>1
<1>4. held' \subseteq Resources /\ file' \in {"old", "partial", "new"}
  BY DEF CallsInv
<1>5. /\ plugin' \in Registrations
      /\ registered' \in SUBSET UNION {r.added : r \in plugin'}
      /\ call' \in {"none"} \cup registered'
  BY <1>1 DEF CallsInv
<1> QED
  BY <1>1, <1>2, <1>3, <1>4, <1>5 DEF CallsInv

(* Where the next step of a call may lead. *)
LEMMA NextStep ==
    ASSUME CallsInv, at # 0
    PROVE  \E A, s, i, n :
             /\ Underway(A) /\ i = at /\ s = Step /\ n = Len(Program(call)) + 1
             /\ A[i].held = held /\ A[i].handler = handler /\ file \in A[i].files
             /\ i \in 1..n /\ n \in Nat
             /\ i + 1 \in 1..n
             /\ \/ Moves(call, s, A[i], A[i + 1])
                \/ /\ A[i + 1] = A[i]
                   /\ \E j \in 1..n : /\ A[j] = A[i]
                                      /\ \/ s.op = "skip" /\ j = i + 1 + s.what
                                         \/ s.op = "again" /\ j = i - s.what
<1>1. PICK A : Underway(A)
  BY DEF CallsInv
<1>2. PICK k, P, i, s : k = call /\ P = Program(call) /\ i = at /\ s = Step
  OBVIOUS
<1>3. k \in registered
  BY <1>2 DEF CallsInv
<1>4. IsProgram(P)
  BY <1>2, <1>3, CalledAreSound, FlowPoints DEF Sound
<1>5. Len(P) \in Nat
  BY <1>4, LenProperties DEF IsProgram
<1>6. /\ i \in 1..(Len(P) + 1) /\ A[Len(P) + 1] = Over /\ Annotated(k, P, A)
      /\ A[i].held = held /\ A[i].handler = handler /\ file \in A[i].files
  BY <1>1, <1>2 DEF Underway
<1>7. Over.files = {}
  BY Points DEF Over
<1>8. i # Len(P) + 1
  BY <1>6, <1>7
<1>9. i \in 1..Len(P) /\ i + 1 \in 1..(Len(P) + 1) /\ s = P[i]
  BY <1>2, <1>5, <1>6, <1>8 DEF Step
<1>10. \/ Moves(k, s, A[i], A[i + 1])
       \/ A[i + 1] = A[i] /\ \E j \in Nat : JumpsTo(P, i, j) /\ A[j] = A[i]
  BY <1>6, <1>9 DEF Annotated
<1>11. ASSUME NEW j \in Nat, JumpsTo(P, i, j)
       PROVE  /\ j \in 1..(Len(P) + 1)
              /\ \/ s.op = "skip" /\ j = i + 1 + s.what
                 \/ s.op = "again" /\ j = i - s.what
  BY <1>5, <1>9, <1>11 DEF JumpsTo
<1>12. Len(P) + 1 \in Nat
  BY <1>5
<1>13. /\ Underway(A) /\ i = at /\ s = Step /\ Len(P) + 1 = Len(Program(call)) + 1
       /\ \/ Moves(call, s, A[i], A[i + 1])
          \/ /\ A[i + 1] = A[i]
             /\ \E j \in 1..(Len(P) + 1) : /\ A[j] = A[i]
                                           /\ \/ s.op = "skip" /\ j = i + 1 + s.what
                                              \/ s.op = "again" /\ j = i - s.what
  <2>1. ASSUME NEW j \in Nat, JumpsTo(P, i, j), A[j] = A[i]
        PROVE  \E l \in 1..(Len(P) + 1) : /\ A[l] = A[i]
                                          /\ \/ s.op = "skip" /\ l = i + 1 + s.what
                                             \/ s.op = "again" /\ l = i - s.what
    BY <2>1, <1>11
  <2> QED
    BY <1>1, <1>2, <1>10, <2>1
<1> QED
  BY <1>6, <1>9, <1>12, <1>13

(* Works and returns keep the invariant. *)
LEMMA WorksKeepInv ==
    ASSUME CallsInv, Works \/ DoReturn
    PROVE  CallsInv'
<1>1. at # 0
  BY DEF Works, DoReturn, Running, DoRefuse, DoAcquire, DoAcquireElse, DoAbandon, DoRelease,
         DoThrow, DoTry, DoEndTry, DoOpen, DoWrite, DoPut, DoPrint, DoSkip, DoAgain
<1>2. PICK A, s, i, n :
        /\ Underway(A) /\ i = at /\ s = Step /\ n = Len(Program(call)) + 1
        /\ A[i].held = held /\ A[i].handler = handler /\ file \in A[i].files
        /\ i \in 1..n /\ n \in Nat
        /\ i + 1 \in 1..n
        /\ \/ Moves(call, s, A[i], A[i + 1])
           \/ /\ A[i + 1] = A[i]
              /\ \E j \in 1..n : /\ A[j] = A[i]
                                 /\ \/ s.op = "skip" /\ j = i + 1 + s.what
                                    \/ s.op = "again" /\ j = i - s.what
  BY <1>1, NextStep
<1> DEFINE a == A[i]
           b == A[i + 1]
<1>3. /\ a.held = held /\ a.handler = handler /\ file \in a.files
      /\ threw = "no" /\ status = "none" /\ out \in {"none"} \cup Resources
  BY <1>1, <1>2 DEF CallsInv
<1>4. ASSUME Continue(i + 1), held' = b.held, handler' = b.handler, file' \in b.files
      PROVE  CallsInv'
  BY <1>1, <1>2, <1>4, Continues
<1>5. ASSUME Continue(i + 1), b = a, UNCHANGED <<held, file, handler>>
      PROVE  CallsInv'
  BY <1>3, <1>4, <1>5
<1>6. \A e : Step.code = e => s.code = e
  BY <1>2
<1> HIDE DEF a, b
<1>7. ASSUME NEW left, NEW code, NEW thrown, Ends(call, left, code, thrown, a.files)
      PROVE  Ends(call, left, code, thrown, {file})
  BY <1>3, <1>7 DEF Ends
<1>8. held \ {"none"} = held /\ held \subseteq Resources
  <2>1. held \subseteq Resources /\ "none" \notin Resources
    BY DEF CallsInv, Resources
  <2> QED
    BY <2>1
<1>9. ASSUME NEW x, Fail(s.code, x), UNCHANGED file,
             Ends(call, held \ {x}, s.code, "no", a.files)
      PROVE  CallsInv'
  <2>1. Finish(s.code) /\ held' = held \ {x} /\ out' = out /\ threw' = threw /\ file' = file
    BY <1>9 DEF Fail
  <2>2. Ends(call, held \ {x}, s.code, "no", {file})
    BY <1>7, <1>9
  <2>3. threw' = "no"
    BY <2>1, <1>3
  <2>4. Ends(call, held', s.code, threw', {file'})
    BY <2>1, <2>2, <2>3
  <2>5. file' \in {"old", "partial", "new"} /\ held' \subseteq held /\ threw' \in {"no", "work", "stream"} /\ out' \in {"none"} \cup Resources
    BY <2>1, <2>3, <1>3 DEF CallsInv
  <2> QED
    BY <2>1, <2>4, <2>5, <1>1, Stops
<1>10. ASSUME NEW from \in {"work", "stream"}, Throw(from),
              Ends(call, held \ {handler.what}, handler.code, from, {file'}),
              file' \in {"old", "partial", "new"}
       PROVE  CallsInv'
  <2>1. PICK code : code = handler.code
    OBVIOUS
  <2>2. Finish(code) /\ held' = held \ {handler.what} /\ threw' = from /\ out' = out
    BY <1>10, <2>1 DEF Throw
  <2>3. Ends(call, held', code, threw', {file'})
    BY <1>10, <2>1, <2>2
  <2>4. /\ held' \subseteq held /\ threw' \in {"no", "work", "stream"}
        /\ out' \in {"none"} \cup Resources
    BY <2>2, <1>3
  <2> QED
    BY <2>2, <2>3, <2>4, <1>1, <1>10, Stops
<1>11. \/ Moves(call, s, a, b)
       \/ b = a /\ s.op \in {"skip", "again"}
  BY <1>2 DEF a, b
<1>12. CASE DoRefuse
  <2>1. s.op = "refuse"
    BY <1>2, <1>12 DEF DoRefuse, Running
  <2>2. b = a /\ Ends(call, a.held, s.code, "no", a.files)
    BY <2>1, <1>11 DEF Moves
  <2>3. CASE Continue(at + 1) /\ UNCHANGED <<held, file, handler>>
    BY <2>2, <2>3, <1>2, <1>5
  <2>4. CASE Fail(Step.code, "none") /\ UNCHANGED file
    BY <2>2, <2>4, <1>2, <1>3, <1>8, <1>9
  <2> QED
    BY <2>3, <2>4, <1>12 DEF DoRefuse
<1>13. CASE DoAcquire
  <2>1. s.op = "acquire"
    BY <1>2, <1>13 DEF DoAcquire, Running
  <2>2. b = Point(a.held \cup {s.what}, a.handler, a.files) /\ Ends(call, a.held, s.code, "no", a.files)
    BY <2>1, <1>11 DEF Moves
  <2>3. CASE Continue(at + 1) /\ held' = held \cup {Step.what} /\ UNCHANGED <<file, handler>>
    BY <2>2, <2>3, <1>2, <1>3, <1>4, Points
  <2>4. CASE Fail(Step.code, "none") /\ UNCHANGED file
    BY <2>2, <2>4, <1>2, <1>3, <1>8, <1>9
  <2> QED
    BY <2>3, <2>4, <1>13 DEF DoAcquire
<1>14. CASE DoAcquireElse
  <2>1. s.op = "acquire_else"
    BY <1>2, <1>14 DEF DoAcquireElse, Running
  <2>2. /\ b = Point(a.held \cup {s.what[1]}, a.handler, a.files)
        /\ Ends(call, a.held \ {s.what[2]}, s.code, "no", a.files)
    BY <2>1, <1>11 DEF Moves
  <2>3. CASE Continue(at + 1) /\ held' = held \cup {Step.what[1]} /\ UNCHANGED <<file, handler>>
    BY <2>2, <2>3, <1>2, <1>3, <1>4, Points
  <2>4. CASE Fail(Step.code, Step.what[2]) /\ UNCHANGED file
    BY <2>2, <2>4, <1>2, <1>3, <1>9
  <2> QED
    BY <2>3, <2>4, <1>14 DEF DoAcquireElse
<1>15. CASE DoAbandon
  <2>1. s.op = "abandon"
    BY <1>2, <1>15 DEF DoAbandon, Running
  <2>2. b = a /\ Ends(call, a.held \ {s.what}, s.code, "no", a.files)
    BY <2>1, <1>11 DEF Moves
  <2>3. CASE Continue(at + 1) /\ UNCHANGED <<held, file, handler>>
    BY <2>2, <2>3, <1>2, <1>5
  <2>4. CASE Fail(Step.code, Step.what) /\ UNCHANGED file
    BY <2>2, <2>4, <1>2, <1>3, <1>9
  <2> QED
    BY <2>3, <2>4, <1>15 DEF DoAbandon
<1>16. CASE DoRelease
  <2>1. s.op = "release"
    BY <1>2, <1>16 DEF DoRelease, Running
  <2>2. b = Point(a.held \ {s.what}, a.handler, a.files)
    BY <2>1, <1>11 DEF Moves
  <2>3. Continue(at + 1) /\ held' = held \ {Step.what} /\ UNCHANGED <<file, handler>>
    BY <1>16 DEF DoRelease
  <2> QED
    BY <2>2, <2>3, <1>2, <1>3, <1>4, Points
<1>17. CASE DoReturn
  <2>1. s.op = "return"
    BY <1>2, <1>17 DEF DoReturn, Running
  <2>2. s.what \in Resources \cup {"none"} /\ Ends(call, a.held \ {s.what}, "OK", "no", a.files)
    BY <2>1, <1>11 DEF Moves
  <2>3. /\ Finish("OK") /\ out' = s.what /\ held' = held \ {s.what}
        /\ file' = file /\ threw' = threw
    BY <1>2, <1>17 DEF DoReturn
  <2>4. Ends(call, held \ {s.what}, "OK", "no", {file})
    BY <2>2, <1>3, <1>7
  <2>5. threw' = "no"
    BY <2>3, <1>3
  <2>6. Ends(call, held', "OK", threw', {file'})
    BY <2>3, <2>4, <2>5
  <2>7. file' \in {"old", "partial", "new"} /\ held' \subseteq held /\ threw' \in {"no", "work", "stream"} /\ out' \in {"none"} \cup Resources
    BY <2>2, <2>3, <2>5, <1>3 DEF CallsInv
  <2> QED
    BY <2>3, <2>6, <2>7, <1>1, Stops
<1>18. CASE DoThrow
  <2>1. s.op = "throws"
    BY <1>2, <1>18 DEF DoThrow, Running
  <2>2. b = a /\ Ends(call, a.held \ {a.handler.what}, a.handler.code, "work", a.files)
    BY <2>1, <1>11 DEF Moves
  <2>3. CASE Continue(at + 1) /\ UNCHANGED <<held, file, handler>>
    BY <2>2, <2>3, <1>2, <1>5
  <2>4. CASE Throw("work") /\ UNCHANGED file
    <3>1. Ends(call, held \ {handler.what}, handler.code, "work", {file})
      BY <2>2, <1>3, <1>7
    <3>2. file' = file /\ file' \in {"old", "partial", "new"}
      BY <2>4 DEF CallsInv
    <3> QED
      BY <2>4, <3>1, <3>2, <1>10
  <2> QED
    BY <2>3, <2>4, <1>18 DEF DoThrow
<1>19. CASE DoTry
  <2>1. s.op = "try"
    BY <1>2, <1>19 DEF DoTry, Running
  <2>2. b = Point(a.held, [what |-> s.what, code |-> s.code], a.files)
    BY <2>1, <1>11 DEF Moves
  <2>3. /\ Continue(at + 1) /\ handler' = [what |-> Step.what, code |-> Step.code]
        /\ UNCHANGED <<held, file>>
    BY <1>19 DEF DoTry
  <2> QED
    BY <2>2, <2>3, <1>2, <1>3, <1>4, Points
<1>20. CASE DoEndTry
  <2>1. s.op = "endtry"
    BY <1>2, <1>20 DEF DoEndTry, Running
  <2>2. b = Point(a.held, NoHandler, a.files)
    BY <2>1, <1>11 DEF Moves
  <2>3. Continue(at + 1) /\ handler' = NoHandler /\ UNCHANGED <<held, file>>
    BY <1>20 DEF DoEndTry
  <2> QED
    BY <2>2, <2>3, <1>2, <1>3, <1>4, Points
<1>21. CASE DoOpen
  <2>1. s.op = "open"
    BY <1>2, <1>21 DEF DoOpen, Running
  <2>2. /\ b = Point(a.held, a.handler, {"partial"}) /\ Ends(call, a.held, s.code, "no", a.files)
        /\ s.what = "stream" =>
             Ends(call, a.held \ {a.handler.what}, a.handler.code, "stream", {"partial"})
    BY <2>1, <1>11 DEF Moves
  <2>3. CASE Continue(at + 1) /\ file' = "partial" /\ UNCHANGED <<held, handler>>
    BY <2>2, <2>3, <1>2, <1>3, <1>4, Points
  <2>4. CASE Fail(Step.code, "none") /\ UNCHANGED file
    BY <2>2, <2>4, <1>2, <1>3, <1>8, <1>9
  <2>5. CASE Step.what = "stream" /\ Throw("stream") /\ file' = "partial"
    <3>1. Ends(call, held \ {handler.what}, handler.code, "stream", {"partial"})
      BY <2>2, <2>5, <1>2, <1>3
    <3> QED
      BY <2>5, <3>1, <1>10
  <2> QED
    BY <2>3, <2>4, <2>5, <1>21 DEF DoOpen
<1>22. CASE DoWrite
  <2>1. s.op = "write"
    BY <1>2, <1>22 DEF DoWrite, Running
  <2>2. b = Point(a.held, a.handler, {"new"}) /\ Ends(call, a.held, s.code, "no", a.files)
    BY <2>1, <1>11 DEF Moves
  <2>3. CASE Continue(at + 1) /\ file' = "new" /\ UNCHANGED <<held, handler>>
    BY <2>2, <2>3, <1>2, <1>3, <1>4, Points
  <2>4. CASE Fail(Step.code, "none") /\ UNCHANGED file
    BY <2>2, <2>4, <1>2, <1>3, <1>8, <1>9
  <2> QED
    BY <2>3, <2>4, <1>22 DEF DoWrite
<1>23. CASE DoPut
  <2>1. s.op = "put"
    BY <1>2, <1>23 DEF DoPut, Running
  <2>2. b = Point(a.held, a.handler, {"partial", "new"}) /\ Ends(call, a.held, s.code, "no", a.files)
    BY <2>1, <1>11 DEF Moves
  <2>3. CASE Continue(at + 1) /\ file' \in {"partial", "new"} /\ UNCHANGED <<held, handler>>
    BY <2>2, <2>3, <1>2, <1>3, <1>4, Points
  <2>4. CASE Fail(Step.code, "none") /\ UNCHANGED file
    BY <2>2, <2>4, <1>2, <1>3, <1>8, <1>9
  <2> QED
    BY <2>3, <2>4, <1>23 DEF DoPut
<1>24. CASE DoPrint
  <2>1. s.op = "print"
    BY <1>2, <1>24 DEF DoPrint, Running
  <2>2. b = Point(a.held, a.handler, {"partial", "new"})
    BY <2>1, <1>11 DEF Moves
  <2>3. Continue(at + 1) /\ file' \in {"partial", "new"} /\ UNCHANGED <<held, handler>>
    BY <1>24 DEF DoPrint
  <2> QED
    BY <2>2, <2>3, <1>2, <1>3, <1>4, Points
<1>25. CASE DoSkip
  <2>1. s.op = "skip"
    BY <1>2, <1>25 DEF DoSkip, Running
  <2>2. ~ Moves(call, s, a, b)
    BY <2>1 DEF Moves
  <2>3. b = a
    BY <2>2, <1>11
  <2>4. PICK j \in 1..n : A[j] = a /\ j = i + 1 + s.what
    BY <2>1, <2>2, <1>2 DEF a, b
  <2>5. UNCHANGED <<held, file, handler>>
    BY <1>25 DEF DoSkip
  <2>6. CASE Continue(at + 1)
    BY <2>3, <2>5, <2>6, <1>2, <1>5
  <2>7. CASE Continue(at + 1 + Step.what)
    <3>1. Continue(j)
      BY <2>4, <2>7, <1>2
    <3>2. held' = A[j].held /\ handler' = A[j].handler /\ file' \in A[j].files
      BY <2>4, <2>5, <1>3
    <3>3. Underway(A) /\ j \in 1..(Len(Program(call)) + 1)
      BY <1>2
    <3> QED
      BY <3>1, <3>2, <3>3, <1>1, Continues
  <2> QED
    BY <2>6, <2>7, <1>25 DEF DoSkip
<1>26. CASE DoAgain
  <2>1. s.op = "again"
    BY <1>2, <1>26 DEF DoAgain, Running
  <2>2. ~ Moves(call, s, a, b)
    BY <2>1 DEF Moves
  <2>3. b = a
    BY <2>2, <1>11
  <2>4. PICK j \in 1..n : A[j] = a /\ j = i - s.what
    BY <2>1, <2>2, <1>2 DEF a, b
  <2>5. UNCHANGED <<held, file, handler>>
    BY <1>26 DEF DoAgain
  <2>6. CASE Continue(at + 1)
    BY <2>3, <2>5, <2>6, <1>2, <1>5
  <2>7. CASE Continue(at - Step.what)
    <3>1. Continue(j)
      BY <2>4, <2>7, <1>2
    <3>2. held' = A[j].held /\ handler' = A[j].handler /\ file' \in A[j].files
      BY <2>4, <2>5, <1>3
    <3>3. Underway(A) /\ j \in 1..(Len(Program(call)) + 1)
      BY <1>2
    <3> QED
      BY <3>1, <3>2, <3>3, <1>1, Continues
  <2> QED
    BY <2>6, <2>7, <1>26 DEF DoAgain
<1> QED
  BY <1>12, <1>13, <1>14, <1>15, <1>16, <1>17, <1>18, <1>19, <1>20, <1>21, <1>22, <1>23, <1>24, <1>25, <1>26 DEF Works

(* A call starts at the first point of its program. *)
LEMMA CallKeepsInv ==
    ASSUME CallsInv, NEW k \in registered, Call(k)
    PROVE  CallsInv'
<1>1. k # "none" /\ Sound(k, Program(k))
  BY CalledAreSound
<1>2. /\ at = 0 /\ call' = k /\ at' = 1 /\ held' = {} /\ out' = "none" /\ file' = "old"
      /\ handler' = NoHandler /\ threw' = "no" /\ status' = "none"
      /\ UNCHANGED <<plugin, registered>>
  BY DEF Call
<1>3. PICK P : P = Program(k)
  OBVIOUS
<1>4. PICK A : Annotated(k, P, A) /\ A[1] = Free(NoHandler) /\ A[Len(P) + 1] = Over
  BY <1>1, <1>3 DEF Sound, Flows
<1>5. IsProgram(P)
  BY <1>1, <1>3 DEF Sound, Flows
<1>6. 1 \in 1..(Len(P) + 1)
  <2>1. Len(P) \in Nat
    BY <1>5, LenProperties DEF IsProgram
  <2> QED
    BY <2>1
<1>7. Free(NoHandler).held = {} /\ Free(NoHandler).handler = NoHandler /\ Free(NoHandler).files = {"old"}
  BY Points DEF Free, With
<1>8. Program(call') = P
  BY <1>2, <1>3
<1>9. Underway(A)'
  BY <1>2, <1>4, <1>6, <1>7, <1>8 DEF Underway
<1>10. /\ plugin' \in Registrations /\ registered' \in SUBSET UNION {r.added : r \in plugin'}
       /\ call' \in {"none"} \cup registered' /\ held' \subseteq Resources
       /\ out' \in {"none"} \cup Resources /\ file' \in {"old", "partial", "new"}
       /\ threw' \in {"no", "work", "stream"}
  BY <1>2 DEF CallsInv
<1> QED
  BY <1>1, <1>2, <1>9, <1>10 DEF CallsInv

(* What is registered stays, unless nothing is. *)
LEMMA LoadKeepsInv ==
    ASSUME CallsInv, Load
    PROVE  CallsInv'
<1>1. /\ registered = {} /\ registered' \in SUBSET UNION {r.added : r \in plugin}
      /\ UNCHANGED <<plugin, call, at, held, out, file, handler, threw, status>>
  BY DEF Load
<1>2. call = "none" /\ at = 0
  BY <1>1 DEF CallsInv
<1>3. /\ plugin' \in Registrations /\ registered' \in SUBSET UNION {r.added : r \in plugin'}
      /\ call' \in {"none"} \cup registered' /\ held' \subseteq Resources
      /\ out' \in {"none"} \cup Resources /\ file' \in {"old", "partial", "new"}
      /\ threw' \in {"no", "work", "stream"}
  BY <1>1, <1>2 DEF CallsInv
<1>4. call' = "none" /\ at' = 0 /\ held' = {} /\ status' = "none"
  BY <1>1, <1>2 DEF CallsInv
<1> QED
  BY <1>3, <1>4 DEF CallsInv

LEMMA CallsStutter ==
    ASSUME CallsInv, UNCHANGED callVars
    PROVE  CallsInv'
<1>1. /\ plugin' = plugin /\ registered' = registered /\ call' = call /\ at' = at
      /\ held' = held /\ out' = out /\ file' = file /\ handler' = handler
      /\ threw' = threw /\ status' = status
  BY DEF callVars
<1>2. \A A : Underway(A) => Underway(A)'
  <2>1. ASSUME NEW A, Underway(A)
        PROVE  Underway(A)'
    <3>1. Program(call') = Program(call)
      BY <1>1
    <3> QED
      BY <1>1, <2>1, <3>1 DEF Underway
  <2> QED
    BY <2>1
<1>3. at # 0 => \E A : Underway(A)'
  BY <1>2 DEF CallsInv
<1>4. (at = 0 /\ call # "none") => Ends(call', held', status', threw', {file'})
  BY <1>1 DEF CallsInv
<1> QED
  BY <1>1, <1>3, <1>4 DEF CallsInv

(* The annotations are followed, whatever fails. *)
LEMMA CallsFollow ==
    CallsSpec => []CallsInv
<1>1. CallsInit => CallsInv
  <2> SUFFICES ASSUME CallsInit
               PROVE  CallsInv
    OBVIOUS
  <2> QED
    BY DEF CallsInit, CallsInv
<1>2. CallsInv /\ [CallsNext]_callVars => CallsInv'
  <2> SUFFICES ASSUME CallsInv, [CallsNext]_callVars
               PROVE  CallsInv'
    OBVIOUS
  <2>1. CASE Load
    BY <2>1, LoadKeepsInv
  <2>2. CASE Starts
    BY <2>2, CallKeepsInv DEF Starts
  <2>3. CASE Works \/ DoReturn
    BY <2>3, WorksKeepInv
  <2>4. CASE UNCHANGED callVars
    BY <2>4, CallsStutter
  <2> QED
    BY <2>1, <2>2, <2>3, <2>4 DEF CallsNext
<1> QED
  BY <1>1, <1>2, PTL DEF CallsSpec

(* The types of a call's state; a step that runs is a step of its program. *)
THEOREM CallTypes ==
    CallsSpec => []CallsTypeOK
<1>1. CallsInv => CallsTypeOK
  <2> SUFFICES ASSUME CallsInv
               PROVE  CallsTypeOK
    OBVIOUS
  <2>1. CASE at = 0
    <3>1. CASE call = "none"
      BY <2>1, <3>1 DEF CallsInv, CallsTypeOK
    <3>2. CASE call # "none"
      <4>1. PICK P : P = Program(call) /\ IsProgram(P)
        <5>1. call \in registered
          BY <3>2 DEF CallsInv
        <5> QED
          BY <5>1, CalledAreSound DEF Sound, Flows
      <4>2. Len(P) \in Nat
        BY <4>1, LenProperties DEF IsProgram
      <4> QED
        BY <2>1, <3>2, <4>1, <4>2 DEF CallsInv, CallsTypeOK
    <3> QED
      BY <3>1, <3>2
  <2>2. CASE at # 0
    <3>1. PICK i, n : i = at /\ n = Len(Program(call)) + 1 /\ i \in 1..n /\ i + 1 \in 1..n /\ n \in Nat
      BY <2>2, NextStep
    <3>2. PICK l : l = Len(Program(call))
      OBVIOUS
    <3>3. call \in registered /\ call # "none"
      BY <2>2 DEF CallsInv
    <3>4. l \in Nat
      <4>1. PICK P : P = Program(call) /\ IsProgram(P)
        BY <3>3, CalledAreSound DEF Sound, Flows
      <4> QED
        BY <3>2, <4>1, LenProperties DEF IsProgram
    <3>5. i \in 0..l
      BY <3>1, <3>2, <3>4
    <3>6. at \in 0..(IF call = "none" THEN 0 ELSE Len(Program(call)))
      BY <3>1, <3>2, <3>3, <3>5
    <3> QED
      BY <2>2, <3>6 DEF CallsInv, CallsTypeOK
  <2> QED
    BY <2>1, <2>2
<1> QED
  BY <1>1, CallsFollow, PTL

(* Whatever test, allocation or write fails, in whatever iteration, and        *)
(* whatever throws, a call that has returned holds nothing but what a failed   *)
(* OpenFOAM run leaves or an exception loses.                                  *)
THEOREM NothingIsLeaked ==
    CallsSpec => []NothingLeaks
<1>1. CallsInv => NothingLeaks
  <2> SUFFICES ASSUME CallsInv, at = 0, held # {}
               PROVE  \/ /\ held = {"casedir"} /\ call \in ToSet(FoamSolvers)
                         /\ status \notin {"OK", "INVALID", "IO"}
                      \/ threw = "work" /\ \E x \in Unguarded(call) : held = {x}
    BY DEF NothingLeaks
  <2>1. Ends(call, held, status, threw, {file})
    BY DEF CallsInv
  <2> QED
    BY <2>1 DEF Ends
<1> QED
  BY <1>1, CallsFollow, PTL

(* A call that answers neither OK nor IO has left its file alone, unless        *)
(* writer.vtu or the opening of a stream threw; the qualification report that   *)
(* was delivered is on the disk in full.                                        *)
THEOREM OldFilesAreKept ==
    CallsSpec => []RefusalsKeepTheFile
<1>1. CallsInv => RefusalsKeepTheFile
  <2> SUFFICES ASSUME CallsInv
               PROVE  RefusalsKeepTheFile
    OBVIOUS
  <2>1. ASSUME at = 0, status \notin {"none", "OK", "IO"}
        PROVE  file = "old" \/ threw = "stream" \/ (threw = "work" /\ call = "writer.vtu")
    <3>1. Ends(call, held, status, threw, {file})
      BY <2>1 DEF CallsInv
    <3>2. {file} \subseteq {"old"} \/ threw = "stream" \/ (threw = "work" /\ call = "writer.vtu")
      BY <2>1, <3>1 DEF Ends
    <3> QED
      BY <3>2
  <2>2. ASSUME call = "writer.marine.qualification_report", status = "OK"
        PROVE  file = "new"
    <3>1. at = 0 /\ call # "none"
      BY <2>2 DEF CallsInv
    <3>2. Ends(call, held, status, threw, {file})
      BY <3>1 DEF CallsInv
    <3>3. {file} \subseteq {"new"}
      BY <2>2, <3>2 DEF Ends
    <3> QED
      BY <3>3
  <2> QED
    BY <2>1, <2>2 DEF RefusalsKeepTheFile
<1> QED
  BY <1>1, CallsFollow, PTL
=============================================================================
