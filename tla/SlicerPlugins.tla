---------------------------- MODULE SlicerPlugins ----------------------------
(***************************************************************************)
(* The three writers of am-slicer (src/examples/plugins/am-slicer), as     *)
(* programs of PluginSteps.  A toolpath, a layer file or a report is       *)
(* complete in memory before its file is opened, and an allocation that    *)
(* fails becomes a status: with the old file kept while the text is built, *)
(* with the file emptied when it is the stream's own.  What is written is  *)
(* computed by Slicing.tla.                                                *)
(***************************************************************************)
EXTENDS PluginSteps

\* The inputs are a map with a `path`, not empty.
require_path == NeedsPath

\* A build direction of length zero.
frame_from_inputs == <<Refuse("INVALID")>>

\* Truncates, writes, tests good(); the stream is closed on return.
commit_file == PutTo

\* mesh, out, no nodes, coordinates; a node that is not finite; the nodes of
\* each cell, read twice.
extract_boundary ==
    <<Refuse("INVALID"), Refuse("INVALID"), Refuse("INVALID"), Refuse("INTERNAL"), Throws>>
        \o Loop(<<Refuse("INVALID")>>) \o Loop(<<Throws>> \o CellNodes)

\* No facets; no extent along the build direction.
Sliceable == <<Refuse("INVALID"), Refuse("INVALID")>>

\* The header, the slices and the moves grow one string in memory.
gcode_text == <<Throws>>

gcode_write_impl ==
    require_path \o <<Refuse("INVALID")>> \o extract_boundary \o Sliceable \o gcode_text
        \o commit_file \o <<Return("none")>>

cli_text == <<Throws>>

\* Binary files are not implemented; more layers than the budget are refused,
\* where the G-code writer stops at its budget with a warning.
cli_write_impl ==
    require_path \o <<Refuse("NOT_IMPLEMENTED")>> \o frame_from_inputs \o extract_boundary
        \o Sliceable \o <<Refuse("INVALID")>> \o cli_text \o commit_file \o <<Return("none")>>

\* The six sections of the report; the fifth depends on the field, and a field
\* it cannot read is reported, not refused.
report_text == <<Throws>>

report_field_section == Maybe(<<Throws>>)

\* A mesh without facets is reported, not refused.
report_write_impl ==
    require_path \o <<Refuse("INVALID")>> \o extract_boundary \o <<Refuse("INTERNAL")>>
        \o Loop(<<Refuse("FORWARDED")>>) \o report_text \o report_field_section
        \o commit_file \o <<Return("none")>>

\* bad_alloc becomes OUT_OF_MEMORY, anything else INTERNAL.
gcode_write == Try("OUT_OF_MEMORY", gcode_write_impl)

cli_write == Try("OUT_OF_MEMORY", cli_write_impl)

report_write == Try("OUT_OF_MEMORY", report_write_impl)
=============================================================================
