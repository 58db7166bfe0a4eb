------------------------------- MODULE MCGtxn -------------------------------
(***************************************************************************)
(* Small instances of Gtxn for TLC.                                        *)
(***************************************************************************)
EXTENDS Gtxn

TreeCalls(h) == {"create_file", "mkdir", "rmdir", "unlink", "rename"}

XattrCalls(h) == {"create_file", "unlink", "setxattr"}
=============================================================================
