----------------------------- MODULE PluginSteps -----------------------------
(***************************************************************************)
(* The vocabulary in which the entry points of the example plugins are     *)
(* written down.  An entry point is a C function called by the host through*)
(* a vtable; what matters to the host is the order of its tests, of the    *)
(* resources it takes and gives back, and of its effects on the file       *)
(* system.  Each is one step of a program, a sequence of steps; arithmetic *)
(* between two steps is left out.  PluginCalls.tla gives the steps their   *)
(* meaning.                                                                *)
(***************************************************************************)
EXTENDS Sequences, Naturals

\* if (...) return souxmar_status_error(code, ...);
Refuse(code) == [op |-> "refuse", what |-> "none", code |-> code]

\* x = souxmar_*_new(...); if (!x) return code;   (also a directory, a session)
Acquire(x, code) == [op |-> "acquire", what |-> x, code |-> code]

\* x = ...; if (!x) { free(y); return code; }
AcquireElse(x, y, code) == [op |-> "acquire_else", what |-> <<x, y>>, code |-> code]

\* if (...) { souxmar_*_free(x); return code; }
Abandon(x, code) == [op |-> "abandon", what |-> x, code |-> code]

\* souxmar_*_free(x), remove_all(x), finalize()
Release(x) == [op |-> "release", what |-> x, code |-> "OK"]

\* *out = x; return ok   (and a writer's plain return ok: x = "none")
Return(x) == [op |-> "return", what |-> x, code |-> "OK"]

\* Work that may throw: an allocation, a call of the C++ library.  Without a
\* handler in the function the exception leaves it.
Throws == [op |-> "throws", what |-> "none", code |-> "OK"]

\* try { ... } catch (...) { free(x); return code; }
TryFreeing(x, code, body) ==
    <<[op |-> "try", what |-> x, code |-> code]>> \o body
        \o <<[op |-> "endtry", what |-> "none", code |-> "OK"]>>

\* try { ... } catch (...) { return code; }
Try(code, body) == TryFreeing("none", code, body)

\* std::ofstream file(path, trunc): the old content is gone, and the stream may
\* then find no memory for its buffer.
OpenFile(code) == [op |-> "open", what |-> "stream", code |-> code]

\* fopen(path, "w").
OpenPlain(code) == [op |-> "open", what |-> "none", code |-> code]

\* Writing and flushing; a failure leaves what was written.
WriteFile(code) == [op |-> "write", what |-> "none", code |-> code]

\* sink.write() and a test of good(), without a flush: what is still in the
\* buffer may be lost when the stream closes.
PutFile(code) == [op |-> "put", what |-> "none", code |-> code]

\* fprintf without a test: a failure goes unnoticed.
PrintFile == [op |-> "print", what |-> "none", code |-> "OK"]

\* The next n steps depend on the inputs and may not be reached.
Maybe(body) == <<[op |-> "skip", what |-> Len(body), code |-> "OK"]>> \o body

\* for (...) { body }: none, one or more times.
Loop(body) == Maybe(body \o <<[op |-> "again", what |-> Len(body), code |-> "OK"]>>)

-----------------------------------------------------------------------------
\* Runs of steps many entry points share.

\* souxmar_mesh_cell_nodes fails and its status is handed on; or it names a
\* node the mesh does not have.
CellNodes == <<Refuse("FORWARDED"), Refuse("INTERNAL")>>

\* The same while x is held.
CellNodesWith(x) == <<Abandon(x, "FORWARDED"), Abandon(x, "INTERNAL")>>

\* The null tests on the mesh and on the out parameter, and souxmar_mesh_num_*.
NeedsMesh == <<Refuse("INVALID"), Refuse("INVALID"), Refuse("INVALID")>>

\* souxmar_field_new, then the size test on its buffer.
NewField == <<Acquire("field", "OUT_OF_MEMORY"), Abandon("field", "INTERNAL")>>

\* souxmar_mesh_new; as cells are added the host may find no memory for a copy of
\* their nodes, and throws.
NewMesh == <<Acquire("mesh", "OUT_OF_MEMORY"), Throws>>

\* A writer's tests on its inputs: a map, a `path` string, not empty.
NeedsPath == <<Refuse("INVALID"), Refuse("INVALID"), Refuse("INVALID")>>

\* Open, write, flush.
StreamTo == <<OpenFile("IO"), WriteFile("IO")>>

\* Open and write.
PutTo == <<OpenFile("IO"), PutFile("IO")>>
=============================================================================
