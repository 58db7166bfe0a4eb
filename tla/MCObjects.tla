----------------------------- MODULE MCObjects -----------------------------
(***************************************************************************)
(* What objects carry besides their names, for TLC: attributes, quotas,    *)
(* ACLs and capabilities, contents and blocks, the log.  Each behaviour is *)
(* that of one of five users of the file system, who makes the calls one   *)
(* of these groups needs; their state spaces add up where one user of      *)
(* everything would multiply them.                                         *)
(***************************************************************************)
EXTENDS MonitorProperties

\* Who calls, told from what the calls of that user leave as it is: the log is
\* on; else the domain of the context, the mode and the owner of the root.
User(h) ==
  LET root == h.inodes[RootInode]
  IN IF h.prov_log.on THEN "audited"
     ELSE IF h.cap_ctx.domain_id = 1 THEN "permissions"
     ELSE IF root.mode = "ro" THEN "quotas"
     ELSE IF root.uid = 1 THEN "contents" ELSE "attributes"

UserCalls(h) ==
  CASE User(h) = "attributes" ->
         {"create_file", "mkdir", "symlink", "unlink", "rmdir",
          "setxattr", "removexattr", "setacl", "write_data"}
    [] User(h) = "quotas" ->
         {"create_file", "mkdir", "link", "unlink", "rmdir", "rename", "set_quota"}
    [] User(h) = "permissions" ->
         {"create_file", "mkdir", "unlink", "rmdir",
          "setacl", "chmod", "chown", "set_cap_ctx"}
    [] User(h) = "contents" ->
         {"create_file", "link", "unlink", "rename",
          "write_data", "truncate", "write_block"}
    [] User(h) = "audited" ->
         {"create_file", "mkdir", "symlink", "unlink", "rmdir", "link", "rename",
          "set_cap_ctx"}

Entry(tag, perms) == [tag |-> tag, perms |-> perms]

OneAcl == <<Entry("UserObj", {"READ"})>>

\* An owner with rights, a group that a mask clamps, and an empty list.
SmallAcls == {
  <<Entry("UserObj", {"READ", "WRITE"}), Entry("Group", {"READ", "WRITE"}),
    Entry("Mask", {"READ"})>>,
  <<Entry("Mask", {}), Entry("User", {"WRITE"}), Entry("Other", {"READ"})>>,
  <<>>, OneAcl}

\* At the start, and at the end or behind a hole.
SmallWrites == {<<0, <<1>>>>, <<2, <<3>>>>}

SmallTargets == {<<"/", "x">>}

\* The ids a user issues: inodes, edges, and each of the other kinds.
Small(h, inodes, edges, others) ==
  /\ h.next_inode - 1 <= inodes
  /\ h.next_edge - 1 <= edges
  /\ \A n \in {h.next_cap, h.next_block, h.next_xattr} : n - 1 <= others

OneOwner(h) ==
  \A i \in DOMAIN h.inodes :
    LET r == h.inodes[RootInode]
    IN h.inodes[i].uid = r.uid /\ h.inodes[i].mode = r.mode

\* Two domains take turns at the log, one with the capability of an ACL on the
\* root and one without any.
Bounded(h) ==
  CASE User(h) = "attributes" ->
         /\ Small(h, 3, 6, 2) /\ OneOwner(h)
         /\ \A i \in DOMAIN h.acls : h.acls[i] = OneAcl
         /\ \A i \in DOMAIN h.file_data : Len(h.file_data[i]) <= 1
    [] User(h) = "quotas" -> Small(h, 3, 9, 0) /\ OneOwner(h)
    [] User(h) = "permissions" ->
         /\ Small(h, 2, 7, 4)
         /\ \A i \in DOMAIN h.acls : h.acls[i] # OneAcl
    [] User(h) = "contents" -> Small(h, 3, 6, 2) /\ OneOwner(h)
    [] User(h) = "audited" ->
         /\ Small(h, 3, 8, 1) /\ OneOwner(h)
         /\ Len(h.prov_log.entries) <= 5
         /\ h.cap_ctx.cap_id = h.cap_ctx.domain_id

WithinBounds == Bounded(g)

UserStays == User(g') = User(g)

RootAcl == <<Entry("UserObj", {"READ", "WRITE"})>>

\* The log of the last user is switched on at the start, as the daemon does.
UserInit ==
  \/ g \in {new_graph("rw", 0), new_graph("rw", 1), new_graph("ro", 0),
           [new_graph("rw", 0) EXCEPT !.cap_ctx.domain_id = 1]}
  \/ g = setacl([new_graph("rw", 0) EXCEPT !.prov_log.on = TRUE], RootInode, RootAcl)

UserSpec == UserInit /\ [][Next]_g
=============================================================================
