--------------------------- MODULE PluginManifest ---------------------------
(***************************************************************************)
(* souxmar-plugin.toml: what parse_manifest accepts and which rejection    *)
(* code it reports (src/src/plugin-host/manifest.cpp).                     *)
(*                                                                         *)
(* A document is abstracted to what the parser tells apart: a string field *)
(* is "ok", "missing", "wrong_type" or "malformed" (fails its shape test), *)
(* a capability is "ok", "not_string" or "bad_namespace".  The parser      *)
(* reports the FIRST defect it meets, so a verdict is the first failing    *)
(* check of a sequence of checks; the order is the order of the source.    *)
(***************************************************************************)
EXTENDS Integers, Checks

CONSTANT AbiWidth    \* bits kept of plugin.abi (32 in the code; smaller in TLC)

ASSUME AbiWidthAssumption == AbiWidth \in Nat \ {0, 1}

StringField == {"ok", "missing", "wrong_type", "malformed"}
Threading   == {"reentrant", "single-threaded", "internal-parallel"}

get_required_string(v) ==
    <<Check(v = "missing", "missing_field"), Check(v = "wrong_type", "wrong_type")>>

plugin_id_looks_valid(v) == v # "malformed"

version_looks_valid(v) == v # "malformed"

is_allowed_capability(c) == c # "bad_namespace"

CapabilityChecks(items) ==
    FlattenSeq([i \in DOMAIN items |->
                  <<Check(items[i] = "not_string", "wrong_type"),
                    Check(~is_allowed_capability(items[i]), "invalid_capability_namespace")>>])

threading_from_string(v) == IF v \in Threading THEN v ELSE "none"

\* The int64 of the document is stored in an int32.
StoredAbi(v) == v % (2 ^ AbiWidth)

parse_manifest(doc) ==
    FirstFailure(
         <<Check(~doc.toml, "toml_syntax")>>
      \o get_required_string(doc.id) \o get_required_string(doc.name)
      \o get_required_string(doc.version) \o get_required_string(doc.license)
      \o <<Check(~plugin_id_looks_valid(doc.id), "invalid_plugin_id"),
           Check(~version_looks_valid(doc.version), "invalid_version"),
           Check(doc.abi.given = "wrong_type", "wrong_type"),
           Check(doc.abi.given = "missing", "missing_field")>>
      \o get_required_string(doc.binary)
      \o get_required_string(doc.provides)
      \o CapabilityChecks(doc.items)
      \o <<Check(doc.items = <<>>, "empty_capabilities"),
           Check(doc.threading = "wrong_type", "wrong_type"),
           Check(doc.threading # "absent" /\ threading_from_string(doc.threading) = "none",
                 "unknown_threading"),
           Check(doc.minor = "wrong_type", "wrong_type"),
           Check(doc.tags \in {"wrong_type", "bad_item"}, "wrong_type"),
           Check(StoredAbi(doc.abi.v) # 1, "abi_unsupported")>>)

parse_manifest_file(file) ==
    IF ~file.readable THEN "file_io" ELSE parse_manifest(file.doc)

\* The threading model of an accepted manifest: absent means single-threaded.
DeclaredThreading(doc) ==
    IF doc.threading = "absent" THEN "single-threaded" ELSE doc.threading
=============================================================================
