------------------------------ MODULE MCDaemon ------------------------------
(***************************************************************************)
(* Small instances of Daemon for TLC.                                      *)
(***************************************************************************)
EXTENDS Daemon

MountCalls(h) == {"create_file", "mkdir", "unlink", "rmdir", "link", "symlink",
               "rename", "setattr", "write_data", "setxattr", "removexattr"}

CreateCalls(h) == {"create_file", "mkdir", "unlink"}

\* Mode, owner and size at once: a directory refuses the size half-way.
SomeAttrs == {[mode |-> Modes, uid |-> {1}, gid |-> {}, size |-> {0}]}

OneByte    == {<<0, <<1>>>>}
ShortPaths == {<<"a">>}
=============================================================================
