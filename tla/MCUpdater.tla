----------------------------- MODULE MCUpdater -----------------------------
(***************************************************************************)
(* Small instances of Updater: four versions, of which the first is the    *)
(* running binary's, a plain manifest for each, and one manifest for every *)
(* field the gate looks at; and the machines they are tried on.            *)
(***************************************************************************)
EXTENDS Updater

MCVersions == 1..4
MCInstants == 1..2

Plain(v) == [version |-> v, min_previous |-> Empty, expires |-> Empty,
             artifact |-> TRUE]

PlainManifests == {Plain(v) : v \in MCVersions}

FewManifests == {Plain(v) : v \in 1..3}

MCManifests ==
    PlainManifests
    \cup {[Plain(4) EXCEPT !.min_previous = 3], [Plain(3) EXCEPT !.expires = 2],
          [Plain(4) EXCEPT !.expires = Malformed],
          [Plain(4) EXCEPT !.artifact = FALSE]}

(* One command at a time where any file operation may fail, and say so.    *)
Careful == [faults |-> {"io"}, manifests |-> MCManifests, overrides |-> {},
            max_log |-> 4]

(* The process may die anywhere; the log and the state file may not be     *)
(* written.                                                                *)
Crashing == [faults |-> {"crash", "io", "log", "save"},
             manifests |-> PlainManifests, overrides |-> {}, max_log |-> 2]

(* A full disk and failing renames, but removals that work, and an         *)
(* operator who overrides the current version.                             *)
Tearing == [faults |-> {"crash", "full", "rename"},
            manifests |-> FewManifests, overrides |-> {1, Malformed},
            max_log |-> 2]

(* Nothing fails.                                                          *)
Sound == [faults |-> {}, manifests |-> PlainManifests, overrides |-> {},
          max_log |-> 4]

MCMachines == {Careful, Crashing, Tearing}
SoundMachine == {Sound}
============================================================================
