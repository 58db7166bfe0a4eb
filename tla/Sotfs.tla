------------------------------- MODULE Sotfs -------------------------------
(***************************************************************************)
(* The file system as a state machine: one graph, and the calls of         *)
(* sotfs-ops on it, one action each.  Calls are serialized: the FUSE       *)
(* daemon runs its callbacks one at a time, and every operation takes      *)
(* &mut TypeGraph.                                                         *)
(***************************************************************************)
EXTENDS SotfsOps

CONSTANTS
  Calls(_),         \* the operations the environment uses on a graph
  ResolvedHandles,  \* TRUE: callers look the DirId up for each call, as the
                    \* FUSE adapter does; FALSE: they may keep an old one
  Logging,          \* TRUE: enable_prov_log was called at startup
  XattrKeys, Values,    \* xattr keys and values
  Targets,          \* symlink targets
  Acls,             \* access control lists
  Writes,           \* write calls, as <<offset, data>>
  Sizes,            \* lengths for truncate
  Limits,           \* inode limits for set_quota
  MaxInode, MaxEdge, MaxAux, MaxLog  \* bounds: ids issued, log entries

ASSUME InputAssumption ==
  /\ Modes # {} /\ Users # {} /\ Logging \in BOOLEAN
  /\ \A w \in Writes : w[1] \in Nat /\ w[2] \in Seq(Nat)
  /\ Sizes \subseteq Nat /\ Limits \subseteq Nat
  /\ \A t \in Targets : Len(t) \in Nat
  /\ Acls \subseteq Seq(AclEntry)

VARIABLE g

-----------------------------------------------------------------------------
Init == g = [new_graph(CHOOSE m \in Modes : TRUE, CHOOSE u \in Users : TRUE)
               EXCEPT !.prov_log.on = Logging]

\* The bounds: how many ids of each kind a behaviour issues.
Within(h) ==
  /\ h.next_inode - 1 <= MaxInode
  /\ h.next_edge - 1 <= MaxEdge
  /\ \A n \in {h.next_cap, h.next_block, h.next_xattr} : n - 1 <= MaxAux
  /\ Len(h.prov_log.entries) <= MaxLog

Step(h) == Within(h) /\ g' = h

DirHandles == IF ResolvedHandles THEN DOMAIN g.dirs ELSE 1 .. g.next_dir - 1
InodeIds   == 1 .. g.next_inode - 1

CreateFile ==
  /\ "create_file" \in Calls(g)
  /\ \E d \in DirHandles, n \in AllNames, m \in Modes, u \in Users :
       new_entry_ok(g, d, n) /\ Step(create_file(g, d, n, m, u))

Symlink ==
  /\ "symlink" \in Calls(g)
  /\ \E d \in DirHandles, n \in AllNames, t \in Targets, u \in Users :
       new_entry_ok(g, d, n) /\ Step(symlink(g, d, n, t, u))

Mkdir ==
  /\ "mkdir" \in Calls(g)
  /\ \E d \in DirHandles, n \in AllNames, m \in Modes, u \in Users :
       new_entry_ok(g, d, n) /\ Step(mkdir(g, d, n, m, u))

Rmdir ==
  /\ "rmdir" \in Calls(g)
  /\ \E d \in DirHandles, n \in AllNames :
       rmdir_ok(g, d, n) /\ Step(rmdir(g, d, n))

Link ==
  /\ "link" \in Calls(g)
  /\ \E d \in DirHandles, n \in AllNames, i \in InodeIds :
       link_ok(g, d, n, i) /\ Step(link(g, d, n, i))

Unlink ==
  /\ "unlink" \in Calls(g)
  /\ \E d \in DirHandles, n \in AllNames :
       unlink_ok(g, d, n) /\ Step(unlink(g, d, n))

\* Whether or not it succeeds: rename says what a failure leaves.
Rename ==
  /\ "rename" \in Calls(g)
  /\ \E sd, dd \in DirHandles, src, dst \in AllNames :
       Step(rename(g, sd, src, dd, dst).graph)

WriteBlock ==
  /\ "write_block" \in Calls(g)
  /\ \E i \in InodeIds : write_block_ok(g, i) /\ Step(write_block(g, i))

WriteData ==
  /\ "write_data" \in Calls(g)
  /\ \E i \in InodeIds, w \in Writes :
       regular_ok(g, i) /\ Step(write_data(g, i, w[1], w[2]))

Truncate ==
  /\ "truncate" \in Calls(g)
  /\ \E i \in InodeIds, n \in Sizes :
       regular_ok(g, i) /\ Step(truncate(g, i, n))

Chmod ==
  /\ "chmod" \in Calls(g)
  /\ \E i \in InodeIds, m \in Modes : attr_ok(g, i) /\ Step(chmod(g, i, m))

\* A uid or gid that is not given is the one the inode has.
Chown ==
  /\ "chown" \in Calls(g)
  /\ \E i \in InodeIds, u, v \in Users : attr_ok(g, i) /\ Step(chown(g, i, u, v))

Setxattr ==
  /\ "setxattr" \in Calls(g)
  /\ \E i \in InodeIds, k \in XattrKeys, v \in Values :
       setxattr_ok(g, i) /\ Step(setxattr(g, i, k, v))

Removexattr ==
  /\ "removexattr" \in Calls(g)
  /\ \E i \in InodeIds, k \in XattrKeys :
       removexattr_ok(g, i, k) /\ Step(removexattr(g, i, k))

Setacl ==
  /\ "setacl" \in Calls(g)
  /\ \E i \in InodeIds, acl \in Acls : attr_ok(g, i) /\ Step(setacl(g, i, acl))

SetQuota ==
  /\ "set_quota" \in Calls(g)
  /\ \E d \in DirHandles, n \in Limits :
       set_quota_ok(g, d) /\ Step(set_quota(g, d, n))

\* The context of the calls that follow: a capability, live or not, or none.
SetCapCtx ==
  /\ "set_cap_ctx" \in Calls(g)
  /\ \E c \in 0 .. g.next_cap - 1, u \in Users :
       Step([g EXCEPT !.cap_ctx = [cap_id |-> c, domain_id |-> u]])

Next ==
  \/ CreateFile \/ Symlink \/ Mkdir \/ Rmdir \/ Link \/ Unlink \/ Rename
  \/ WriteBlock \/ WriteData \/ Truncate \/ Chmod \/ Chown
  \/ Setxattr \/ Removexattr \/ Setacl \/ SetQuota \/ SetCapCtx

Spec == Init /\ [][Next]_g

-----------------------------------------------------------------------------
(***************************************************************************)
(* The inductive invariant of the namespace: TypeOK and WellFormed(g).     *)
(***************************************************************************)
UserEdges(h) == {e \in ContainsEdges(h) : h.edges[e].name \notin Dots}

\* dir_contains[d] is the set of the entries of d.
ListingsExact(h) ==
  /\ \A e \in ContainsEdges(h) : e \in SetAt(h.dir_contains, h.edges[e].src)
  /\ \A d \in DOMAIN h.dir_contains : \A e \in h.dir_contains[d] :
       e \in ContainsEdges(h) /\ h.edges[e].src = d

\* inode_incoming_contains[i] is the set of the entries that lead to i.
IncomingExact(h) ==
  /\ \A e \in ContainsEdges(h) :
       e \in SetAt(h.inode_incoming_contains, h.edges[e].tgt)
  /\ \A i \in DOMAIN h.inode_incoming_contains :
       \A e \in h.inode_incoming_contains[i] :
         e \in ContainsEdges(h) /\ h.edges[e].tgt = i

NamesExact(h) ==
  /\ \A e \in ContainsEdges(h) :
       LET k == <<h.edges[e].src, h.edges[e].name>>
       IN k \in DOMAIN h.dir_name_idx /\ h.dir_name_idx[k] = e
  /\ \A k \in DOMAIN h.dir_name_idx :
       LET e == h.dir_name_idx[k]
       IN e \in ContainsEdges(h) /\ k = <<h.edges[e].src, h.edges[e].name>>

\* Directory nodes and Directory inodes correspond one to one.
DirsPaired(h) ==
  /\ RootDir \in DOMAIN h.dirs /\ h.dirs[RootDir] = RootInode
  /\ \A d \in DOMAIN h.dirs :
       /\ IsDirInode(h, h.dirs[d])
       /\ h.dirs[d] \in DOMAIN h.dir_for_inode_idx
       /\ h.dir_for_inode_idx[h.dirs[d]] = d
  /\ \A i \in DOMAIN h.dir_for_inode_idx :
       /\ h.dir_for_inode_idx[i] \in DOMAIN h.dirs
       /\ h.dirs[h.dir_for_inode_idx[i]] = i
  /\ \A i \in DOMAIN h.inodes :
       h.inodes[i].vtype = "Directory" => i \in DOMAIN h.dir_for_inode_idx

Endpoints(h) ==
  \A e \in ContainsEdges(h) : /\ h.edges[e].src \in DOMAIN h.dirs
                              /\ h.edges[e].tgt \in DOMAIN h.inodes

\* "." leads to the directory itself, ".." to the holder of its one entry.
DotEdges(h) ==
  /\ \A d \in DOMAIN h.dirs : <<d, ".">> \in DOMAIN h.dir_name_idx
  /\ \A d \in DOMAIN h.dirs :
       d # RootDir <=> <<d, "..">> \in DOMAIN h.dir_name_idx
  /\ \A e \in ContainsEdges(h) :
       h.edges[e].name = "." => h.edges[e].tgt = h.dirs[h.edges[e].src]
  /\ \A e \in ContainsEdges(h), f \in UserEdges(h) :
       h.edges[e].name = ".." /\ h.edges[f].tgt = h.dirs[h.edges[e].src]
         => h.edges[e].tgt = h.dirs[h.edges[f].src]

\* Every object but the root has a name, a directory no more than one.
Named(h) ==
  /\ \A i \in DOMAIN h.inodes \ {RootInode} :
       \E e \in UserEdges(h) : h.edges[e].tgt = i
  /\ \A e \in UserEdges(h) : h.edges[e].tgt # RootInode
  /\ \A e, f \in UserEdges(h) :
       h.edges[e].tgt = h.edges[f].tgt /\ IsDirInode(h, h.edges[e].tgt) => e = f

LinksTo(h, i) ==
  {e \in ContainsEdges(h) : h.edges[e].tgt = i /\ h.edges[e].name # ".."}

LinksCounted(h) ==
  /\ IsFiniteSet(DOMAIN h.edges)
  /\ \A i \in DOMAIN h.inodes :
       h.inodes[i].link_count = Cardinality(LinksTo(h, i))

WellFormed(h) ==
  /\ ListingsExact(h)
  /\ IncomingExact(h)
  /\ NamesExact(h)
  /\ DirsPaired(h)
  /\ Endpoints(h)
  /\ DotEdges(h)
  /\ Named(h)
  /\ LinksCounted(h)
  /\ check_no_dir_cycles(h)

-----------------------------------------------------------------------------
(***************************************************************************)
(* Properties of the namespace.                                            *)
(***************************************************************************)

Ids(h) == {h.next_inode, h.next_dir, h.next_cap, h.next_block, h.next_edge,
           h.next_xattr}

FieldsTyped(h) ==
  /\ IsGraph(h)
  /\ h.inodes \in [DOMAIN h.inodes -> Inode]
  /\ h.dirs \in [DOMAIN h.dirs -> Nat]
  /\ h.edges \in [DOMAIN h.edges -> Edge]
  /\ h.dir_contains \in [DOMAIN h.dir_contains -> SUBSET Nat]
  /\ h.inode_incoming_contains \in
       [DOMAIN h.inode_incoming_contains -> SUBSET Nat]
  /\ h.file_data \in [DOMAIN h.file_data -> Seq(Nat)]
  /\ h.dir_for_inode_idx \in [DOMAIN h.dir_for_inode_idx -> Nat]
  /\ Ids(h) \subseteq Nat \ {0}

IdsIssued(h) ==
  /\ DOMAIN h.inodes \subseteq 1 .. h.next_inode - 1
  /\ DOMAIN h.dirs \subseteq 1 .. h.next_dir - 1
  /\ DOMAIN h.edges \subseteq 1 .. h.next_edge - 1

\* Every pool and index holds values of its type, under ids that were issued:
\* an endpoint, a size or an index entry is never one that was not computed.
TypeOK == FieldsTyped(g) /\ IdsIssued(g)

\* The inductive invariant: what each operation of the namespace relies on
\* and re-establishes (indexes, pairing of directories and inodes, dot edges,
\* names, link counts, acyclicity), all of it together.
NamespaceWellFormed == WellFormed(g)

\* No object is lost: each directory can be reached from the root, and each
\* inode but the root's has a name in some directory.  And the walk over ".."
\* that check_quota_inode and update_quota make from any directory arrives at
\* the root: on a cycle their loops would never end.
NothingUnreachable ==
  /\ \A d \in DOMAIN g.dirs :
       is_ancestor(g, RootDir, d) /\ on_parent_chain(g, d, RootDir)
  /\ \A i \in DOMAIN g.inodes \ {RootInode} :
       \E d \in DOMAIN g.dirs : \E e \in user_entries(g, d) : g.edges[e].tgt = i

\* A rename that returns an error has changed nothing: the destination is not
\* already gone when the cycle check or the removal refuses.
RenameFailureIsAtomic ==
  \A r \in {rename(g, sd, src, dd, dst) : sd, dd \in DirHandles,
                                          src, dst \in AllNames} :
    r.ok \/ r.graph = g

\* Ids are never handed out twice: whatever an old holder (an open file, the
\* kernel's inode cache, a leftover xattr or ACL) knows under an id is never
\* taken for a newer object.
IdsNeverReused ==
  [][ /\ \A i \in DOMAIN g'.inodes \ DOMAIN g.inodes : i >= g.next_inode
      /\ \A d \in DOMAIN g'.dirs \ DOMAIN g.dirs : d >= g.next_dir
      /\ \A e \in DOMAIN g'.edges \ DOMAIN g.edges : e >= g.next_edge ]_g
=============================================================================
