------------------------------ MODULE SotfsOps ------------------------------
(***************************************************************************)
(* The POSIX operations as graph rewriting rules (sotfs-ops/src/lib.rs).   *)
(* For an operation op there is op_ok, the conjunction of the conditions   *)
(* the code checks before it changes anything, and op, the graph it leaves *)
(* when they hold: every call it makes included, down to the quota walk    *)
(* and the provenance entry.  A call whose conditions fail returns an      *)
(* error and leaves the graph as it was; rename, which runs other          *)
(* operations half-way, says itself what a failure leaves behind.          *)
(***************************************************************************)
EXTENDS TypeGraph

-----------------------------------------------------------------------------
(***************************************************************************)
(* Quotas: one walk over ".." from the directory of the change to the      *)
(* root.  A limit of 0 is no limit.                                        *)
(***************************************************************************)
\* Only the quota of the directory itself is tested.
check_quota_here_only(g, d) ==
  d \in DOMAIN g.quotas =>
    g.quotas[d].limit = 0 \/ g.quotas[d].usage < g.quotas[d].limit

check_quota_inode(g, d) ==
  \A q \in DOMAIN g.quotas : on_parent_chain(g, d, q) =>
    g.quotas[q].limit = 0 \/ g.quotas[q].usage < g.quotas[q].limit

\* Only the quota of the directory itself is charged, not its ancestors'.
update_quota_here_only(g, d, delta) ==
  IF d \notin DOMAIN g.quotas THEN g
  ELSE [g EXCEPT !.quotas[d].usage = @ + delta]

\* saturating_add (2^64 is out of reach) and saturating_sub.
charge(quota, delta) ==
  [quota EXCEPT !.usage = IF @ + delta < 0 THEN 0 ELSE @ + delta]

update_quota(g, d, delta) ==
  [g EXCEPT !.quotas =
     [q \in DOMAIN g.quotas |->
        IF on_parent_chain(g, d, q) THEN charge(g.quotas[q], delta)
                                    ELSE g.quotas[q]]]

\* A fresh Quota: the usage starts at 0, whatever the subtree holds.
set_quota_ok(g, d) == require_cap(g, "GRANT") /\ d \in DOMAIN g.dirs

set_quota(g, d, limit) ==
  [g EXCEPT !.quotas = Put(@, d, [limit |-> limit, usage |-> 0])]

-----------------------------------------------------------------------------
(***************************************************************************)
(* CREATE, SYMLINK, MKDIR.                                                 *)
(***************************************************************************)
new_entry_ok(g, d, n) ==
  /\ require_cap(g, "WRITE")
  /\ n \in Names
  /\ resolve_name(g, d, n) = None
  /\ d \in DOMAIN g.dirs
  /\ check_quota_inode(g, d)

\* The lowest free inode id instead of a fresh one.
create_node_reusing_ids(g, d, n, inode) ==
  LET i  == First((1 .. g.next_inode) \ DOMAIN g.inodes)
      e  == g.next_edge
      g1 == [g EXCEPT !.next_inode = @ + 1, !.next_edge = e + 1]
  IN add_contains(insert_inode(g1, i, inode), e, d, i, n)

\* A fresh inode under a fresh entry edge.
create_node(g, d, n, inode) ==
  LET i  == g.next_inode
      e  == g.next_edge
      g1 == [g EXCEPT !.next_inode = i + 1, !.next_edge = e + 1]
  IN add_contains(insert_inode(g1, i, inode), e, d, i, n)

create_file(g, d, n, mode, who) ==
  record_prov(update_quota(create_node(g, d, n,
                NewInode("Regular", 1, mode, who, who, 0)), d, 1),
              "Create", g.next_inode)

\* The one mode of every symlink, 0o777: some member of Modes stands for it.
SymlinkMode == CHOOSE m \in Modes : TRUE

symlink(g, d, n, target, who) ==
  LET g1 == create_node(g, d, n,
              NewInode("Symlink", 1, SymlinkMode, who, who, Len(target)))
      g2 == [g1 EXCEPT !.symlink_targets = Put(@, g.next_inode, target)]
  IN record_prov(update_quota(g2, d, 1), "Symlink", g.next_inode)

\* An inode, a directory node and three edges: the entry, "." and "..".
mkdir_nodes(g, d, n, mode, who) ==
  LET i  == g.next_inode
      c  == g.next_dir
      e  == g.next_edge
      g1 == [g EXCEPT !.next_inode = i + 1, !.next_dir = c + 1,
                      !.next_edge = e + 3]
      g2 == insert_inode(g1, i, NewInode("Directory", 2, mode, who, who, 0))
      g3 == insert_dir(g2, c, i)
      g4 == add_contains(g3, e, d, i, n)
      g5 == add_contains(g4, e + 1, c, i, ".")
  IN add_contains(g5, e + 2, c, g.dirs[d], "..")

mkdir(g, d, n, mode, who) ==
  record_prov(update_quota(mkdir_nodes(g, d, n, mode, who), d, 1),
              "Mkdir", g.next_inode)

-----------------------------------------------------------------------------
(***************************************************************************)
(* RMDIR.                                                                  *)
(***************************************************************************)
rmdir_ok(g, d, n) ==
  LET i == resolve_name(g, d, n)
      c == dir_for_inode(g, i)
  IN /\ require_cap(g, "WRITE")
     /\ n \notin Dots
     /\ IsDirInode(g, i)
     /\ c # None
     /\ user_entries(g, c) = {}

rmdir_nodes(g, d, n) ==
  LET i  == resolve_name(g, d, n)
      c  == dir_for_inode(g, i)
      S  == {e \in entries(g, d) : g.edges[e].tgt = i /\ g.edges[e].name = n}
              \cup entries(g, c)
      g1 == remove_dir(remove_inode(drop_contains(g, S), i), c)
  IN [g1 EXCEPT !.dir_contains = Del(@, {c}),
                !.inode_incoming_contains = Del(@, {i})]

\* No xattr, ACL, grant or quota of the directory is looked at.
rmdir(g, d, n) ==
  record_prov(update_quota(rmdir_nodes(g, d, n), d, -1),
              "Rmdir", resolve_name(g, d, n))

-----------------------------------------------------------------------------
(***************************************************************************)
(* LINK, UNLINK.                                                           *)
(***************************************************************************)
\* Directories may be linked too.
link_any_ok(g, d, n, i) ==
  /\ require_cap(g, "WRITE")
  /\ n \notin Dots
  /\ resolve_name(g, d, n) = None
  /\ i \in DOMAIN g.inodes
  /\ g.inodes[i].link_count < LINK_MAX

\* The directory is not checked to exist, nor the name to be well formed.
link_ok(g, d, n, i) ==
  /\ require_cap(g, "WRITE")
  /\ n \notin Dots
  /\ resolve_name(g, d, n) = None
  /\ i \in DOMAIN g.inodes
  /\ g.inodes[i].vtype # "Directory"
  /\ g.inodes[i].link_count < LINK_MAX

link_nodes(g, d, n, i) ==
  LET e  == g.next_edge
      g1 == add_contains([g EXCEPT !.next_edge = e + 1], e, d, i, n)
  IN [g1 EXCEPT !.inodes[i].link_count = @ + 1]

link(g, d, n, i) == record_prov(link_nodes(g, d, n, i), "Link", i)

\* The entry is found by a scan of the directory, not through the index.
unlink_ok(g, d, n) ==
  LET e == scan_name(g, d, n)
  IN /\ require_cap(g, "WRITE")
     /\ n \notin Dots
     /\ d \in DOMAIN g.dir_contains
     /\ e # None
     /\ g.edges[e].tgt \in DOMAIN g.inodes
     /\ g.inodes[g.edges[e].tgt].vtype # "Directory"

\* The PointsTo edges of inode i go, and the blocks nothing points to.
release_blocks(g, i) ==
  LET P == {e \in SetAt(g.inode_points_to, i) \cap DOMAIN g.edges :
              g.edges[e].kind = "PointsTo"}
      left(b) == g.blocks[b] - Cardinality({e \in P : g.edges[e].tgt = b})
      hit  == {g.edges[e].tgt : e \in P}
      keep == {b \in DOMAIN g.blocks : b \in hit => left(b) > 0}
  IN [remove_edge(g, P) EXCEPT
        !.inode_points_to = Del(@, {i}),
        !.blocks = [b \in keep |-> left(b)]]

\* The inode goes, its blocks stay.
collect_inode_only(g, i) ==
  [remove_inode(g, i) EXCEPT !.inode_incoming_contains = Del(@, {i})]

\* The last link is gone: the inode goes with its blocks.  Its xattrs, ACL,
\* grants, file data and symlink target stay behind.
collect_inode(g, i) ==
  [remove_inode(release_blocks(g, i), i) EXCEPT
     !.inode_incoming_contains = Del(@, {i})]

unlink_nodes(g, d, n) ==
  LET e  == scan_name(g, d, n)
      i  == g.edges[e].tgt
      g1 == [drop_contains(g, {e}) EXCEPT !.inodes[i].link_count = @ - 1]
  IN IF g1.inodes[i].link_count = 0
     THEN update_quota(collect_inode(g1, i), d, -1) ELSE g1

unlink(g, d, n) ==
  record_prov(unlink_nodes(g, d, n), "Unlink", g.edges[scan_name(g, d, n)].tgt)

-----------------------------------------------------------------------------
(***************************************************************************)
(* RENAME.  Its parts return the graph together with whether they          *)
(* succeeded, because it may fail after it has replaced the destination.   *)
(***************************************************************************)
Done(g) == [ok |-> TRUE,  graph |-> g]
Fail(g) == [ok |-> FALSE, graph |-> g]

\* The destination goes without an entry in the log.
replace_silently(g, d, n) ==
  LET i == resolve_name(g, d, n)
  IN IF i = None THEN Done(g)
     ELSE IF IsDirInode(g, i)
          THEN IF rmdir_ok(g, d, n) THEN Done(rmdir_nodes(g, d, n)) ELSE Fail(g)
          ELSE IF unlink_ok(g, d, n) THEN Done(unlink_nodes(g, d, n)) ELSE Fail(g)

\* An existing destination is removed first, as its type demands.
replace_destination(g, d, n) ==
  LET i == resolve_name(g, d, n)
  IN IF i = None THEN Done(g)
     ELSE IF IsDirInode(g, i)
          THEN IF rmdir_ok(g, d, n) THEN Done(rmdir(g, d, n)) ELSE Fail(g)
          ELSE IF unlink_ok(g, d, n) THEN Done(unlink(g, d, n)) ELSE Fail(g)

source_entries(g, d, i, n) ==
  {e \in entries(g, d) : g.edges[e].tgt = i /\ g.edges[e].name = n}

rename_same_dir(g, d, src, dst) ==
  LET i == resolve_name(g, d, src)
      r == replace_destination(g, d, dst)
      E == source_entries(r.graph, d, i, src)
  IN IF i = None THEN Fail(g)
     ELSE IF src = dst THEN Done(g)
     ELSE IF ~r.ok THEN Fail(g)
     ELSE IF E = {} THEN Fail(r.graph)
     ELSE Done(rename_contains_edge(r.graph, First(E), dst))

\* Only the entry's own directory counts, not the directories below it.
would_create_self_loop(g, i, d) == IsDirInode(g, i) /\ dir_for_inode(g, i) = d

\* GC-RENAME-2: the destination is the moved directory or lies below it.
would_create_cycle(g, i, d) ==
  /\ IsDirInode(g, i)
  /\ dir_for_inode(g, i) # None
  /\ is_ancestor(g, dir_for_inode(g, i), d)

\* The id of the fresh edge is read off the counter but not taken.
move_entry_id_not_taken(g, e, d, n) ==
  add_contains(drop_contains(g, {e}), g.next_edge, d, g.edges[e].tgt, n)

\* The entry edge is removed and a fresh one is made in directory d.
move_entry(g, e, d, n) ==
  LET i  == g.edges[e].tgt
      e2 == g.next_edge
      g1 == [drop_contains(g, {e}) EXCEPT !.next_edge = e2 + 1]
  IN add_contains(g1, e2, d, i, n)

\* The ".." edge of a moved directory is redirected to its new parent.
move_dotdot(g, i, d) ==
  LET c == dir_for_inode(g, i)
      D == {e \in entries(g, c) : g.edges[e].name = ".."}
      e == First(D)
  IN IF IsDirInode(g, i) /\ c # None /\ d \in DOMAIN g.dirs /\ D # {}
     THEN [g EXCEPT !.edges[e].tgt = g.dirs[d],
                    !.inode_incoming_contains =
                       IndexAdd([k \in DOMAIN @ |-> IF k = g.edges[e].tgt
                                                     THEN @[k] \ {e} ELSE @[k]],
                                g.dirs[d], e)]
     ELSE g

\* The destination is replaced before the cycle check.
rename_cross_dir_replace_first(g, sd, src, dd, dst) ==
  LET i == resolve_name(g, sd, src)
      r == replace_destination(g, dd, dst)
      E == source_entries(r.graph, sd, i, src)
  IN IF i = None THEN Fail(g)
     ELSE IF ~r.ok THEN Fail(g)
     ELSE IF would_create_cycle(r.graph, i, dd) THEN Fail(r.graph)
     ELSE IF E = {} THEN Fail(r.graph)
     ELSE Done(move_dotdot(move_entry(r.graph, First(E), dd, dst), i, dd))

\* The cycle is found when the entry has been moved.
rename_cross_dir_check_last(g, sd, src, dd, dst) ==
  LET i == resolve_name(g, sd, src)
      r == replace_destination(g, dd, dst)
      E == source_entries(r.graph, sd, i, src)
  IN IF i = None THEN Fail(g)
     ELSE IF ~r.ok THEN Fail(g)
     ELSE IF E = {} THEN Fail(r.graph)
     ELSE IF would_create_cycle(g, i, dd)
          THEN Fail(move_entry(r.graph, First(E), dd, dst))
     ELSE Done(move_dotdot(move_entry(r.graph, First(E), dd, dst), i, dd))

rename_cross_dir(g, sd, src, dd, dst) ==
  LET i == resolve_name(g, sd, src)
      r == replace_destination(g, dd, dst)
      E == source_entries(r.graph, sd, i, src)
  IN IF i = None THEN Fail(g)
     ELSE IF would_create_cycle(g, i, dd) THEN Fail(g)
     ELSE IF ~r.ok THEN Fail(g)
     ELSE IF E = {} THEN Fail(r.graph)
     ELSE Done(move_dotdot(move_entry(r.graph, First(E), dd, dst), i, dd))

rename(g, sd, src, dd, dst) ==
  LET r == IF sd = dd THEN rename_same_dir(g, sd, src, dst)
                      ELSE rename_cross_dir(g, sd, src, dd, dst)
  IN IF ~require_cap(g, "WRITE") \/ {src, dst} \cap Dots # {} THEN Fail(g)
     ELSE IF ~r.ok THEN r
     ELSE Done(record_prov(r.graph, "Rename", resolve_name(r.graph, dd, dst)))

-----------------------------------------------------------------------------
(***************************************************************************)
(* File contents and attributes.                                           *)
(***************************************************************************)
\* Any inode will do, a directory too; nothing is recorded in the log.
write_block_ok(g, i) == require_cap(g, "WRITE") /\ i \in DOMAIN g.inodes

write_block(g, i) ==
  LET b  == g.next_block
      e  == g.next_edge
      g1 == [g EXCEPT !.next_block = b + 1, !.next_edge = e + 1,
                      !.blocks = insert_at(@, b, 1, NODE_CAPACITY),
                      !.inode_points_to = IndexAdd(@, i, e)]
  IN insert_edge(g1, e, OtherEdge("PointsTo", i, b))

regular_ok(g, i) ==
  /\ require_cap(g, "WRITE")
  /\ i \in DOMAIN g.inodes
  /\ g.inodes[i].vtype = "Regular"

FileBytes(g, i) == IF i \in DOMAIN g.file_data THEN g.file_data[i] ELSE <<>>

\* Vec::resize(n, 0)
Resized(buf, n) == [k \in 1..n |-> IF k <= Len(buf) THEN buf[k] ELSE 0]

SetBytes(g, i, buf) ==
  [g EXCEPT !.file_data = Put(@, i, buf), !.inodes[i].size = Len(buf)]

\* The buffer is cut to the end of the write even if it was longer.
write_data_cutting(g, i, offset, data) ==
  LET end == offset + Len(data)
      ext == Resized(FileBytes(g, i), end)
      new == [k \in 1..end |-> IF k > offset THEN data[k - offset] ELSE ext[k]]
  IN record_prov(SetBytes(g, i, new), "Write", i)

\* The buffer grows to the end of the write; the hole in front is zeroed.
write_data(g, i, offset, data) ==
  LET buf == FileBytes(g, i)
      end == offset + Len(data)
      ext == IF Len(buf) < end THEN Resized(buf, end) ELSE buf
      new == [k \in 1..Len(ext) |-> IF k \in offset + 1 .. end
                                    THEN data[k - offset] ELSE ext[k]]
  IN record_prov(SetBytes(g, i, new), "Write", i)

truncate(g, i, n) ==
  record_prov(SetBytes(g, i, Resized(FileBytes(g, i), n)), "Truncate", i)

attr_ok(g, i) == require_cap(g, "GRANT") /\ i \in DOMAIN g.inodes

chmod(g, i, mode) ==
  record_prov([g EXCEPT !.inodes[i].mode = mode], "Chmod", i)

chown(g, i, uid, gid) ==
  record_prov([g EXCEPT !.inodes[i].uid = uid, !.inodes[i].gid = gid],
              "Chown", i)

-----------------------------------------------------------------------------
(***************************************************************************)
(* Extended attributes.  A key stands for the (namespace, name) pair.      *)
(***************************************************************************)
xattrs_with_key(g, i, key) ==
  {x \in SetAt(g.inode_xattrs, i) \cap DOMAIN g.xattrs : g.xattrs[x].key = key}

setxattr_ok(g, i) == require_cap(g, "WRITE") /\ i \in DOMAIN g.inodes

new_xattr(g, i, key, value) ==
  LET x  == g.next_xattr
      e  == g.next_edge
      g1 == [g EXCEPT !.next_xattr = x + 1, !.next_edge = e + 1,
                      !.xattrs = Put(@, x, [key |-> key, value |-> value]),
                      !.inode_xattrs = IndexAdd(@, i, x)]
  IN record_prov(insert_edge(g1, e, OtherEdge("HasXattr", i, x)), "Setxattr", i)

\* An existing key is updated in place, and that update is not recorded.
setxattr(g, i, key, value) ==
  LET old == xattrs_with_key(g, i, key)
  IN IF old # {} THEN [g EXCEPT !.xattrs[First(old)].value = value]
     ELSE new_xattr(g, i, key, value)

removexattr_ok(g, i, key) ==
  /\ require_cap(g, "WRITE")
  /\ i \in DOMAIN g.inodes
  /\ xattrs_with_key(g, i, key) # {}

\* The attribute goes, its HasXattr edge stays.
removexattr_keep_edge(g, i, key) ==
  LET x == First(xattrs_with_key(g, i, key))
  IN record_prov([g EXCEPT !.xattrs = Del(@, {x}),
                           !.inode_xattrs[i] = @ \ {x}], "Removexattr", i)

removexattr(g, i, key) ==
  LET x  == First(xattrs_with_key(g, i, key))
      E  == {e \in DOMAIN g.edges : g.edges[e] = OtherEdge("HasXattr", i, x)}
      g1 == [g EXCEPT !.xattrs = Del(@, {x}), !.inode_xattrs[i] = @ \ {x}]
  IN record_prov(IF E = {} THEN g1 ELSE remove_edge(g1, {First(E)}),
                 "Removexattr", i)

-----------------------------------------------------------------------------
(***************************************************************************)
(* ACLs.  An ACL is a sequence of entries; whom an entry is for plays no   *)
(* part in what it grants.                                                 *)
(***************************************************************************)
AclTags   == {"UserObj", "User", "GroupObj", "Group", "Mask", "Other"}
AclRights == {"READ", "WRITE", "EXECUTE"}
AclEntry  == [tag : AclTags, perms : SUBSET AclRights]

Masked == {"User", "Group", "GroupObj"}

\* perms_to_rights, clamped by the first Mask entry where POSIX.1e says so.
effective_rights(acl, entry) ==
  LET masks == {k \in DOMAIN acl : acl[k].tag = "Mask"}
  IN IF entry.tag \in Masked /\ masks # {}
     THEN entry.perms \cap acl[First(masks)].perms ELSE entry.perms

\* The entries that get a capability, and the one that gets the n-th.
granted(acl) == {k \in DOMAIN acl : /\ acl[k].tag # "Mask"
                                   /\ effective_rights(acl, acl[k]) # {}}

nth_granted(acl, n) ==
  CHOOSE k \in granted(acl) : Cardinality({j \in granted(acl) : j < k}) = n

\* The grants of the earlier ACL stay when a new one is set.
keep_grants(g, i) == g

\* The caps and Grants edges of an earlier ACL of inode i go.
purge_grants(g, i) ==
  LET E == {e \in DOMAIN g.edges :
              g.edges[e].kind = "Grants" /\ g.edges[e].tgt = i}
      C == {g.edges[e].src : e \in E}
  IN [remove_edge(g, E) EXCEPT !.cap_grants = Del(@, C), !.caps = Del(@, C)]

\* One fresh cap and one Grants edge for each of them, in the ACL's order.
grant_all(g, i, acl) ==
  LET c    == g.next_cap
      e    == g.next_edge
      N    == Cardinality(granted(acl))
      caps == {x \in c .. c + N - 1 : x < NODE_CAPACITY}
      news == {x \in e .. e + N - 1 : x < EDGE_CAPACITY}
      rights(k) == effective_rights(acl, acl[k])
  IN [g EXCEPT
        !.next_cap = c + N,
        !.next_edge = e + N,
        !.caps = [x \in DOMAIN @ \cup caps |->
                    IF x \in caps THEN rights(nth_granted(acl, x - c)) ELSE @[x]],
        !.edges = [x \in DOMAIN @ \cup news |->
                    IF x \in news THEN OtherEdge("Grants", c + x - e, i)
                    ELSE @[x]],
        !.cap_grants = [x \in DOMAIN @ \cup (c .. c + N - 1) |->
                          IF x >= c THEN e + x - c ELSE @[x]]]

setacl(g, i, acl) ==
  LET g1 == [purge_grants(g, i) EXCEPT !.acls = Put(@, i, acl)]
  IN record_prov(grant_all(g1, i, acl), "SetAcl", i)

=============================================================================
