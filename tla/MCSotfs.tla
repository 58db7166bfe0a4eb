------------------------------ MODULE MCSotfs ------------------------------
(***************************************************************************)
(* The namespace of Sotfs, for TLC.                                        *)
(***************************************************************************)
EXTENDS MonitorProperties, SotfsRefinement

NamespaceCalls == {"create_file", "mkdir", "rmdir", "link", "unlink", "rename"}

TreeCalls(h) == NamespaceCalls \cup {"symlink"}

SmallTargets == {<<"/", "x">>}
=============================================================================
