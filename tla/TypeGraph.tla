----------------------------- MODULE TypeGraph -----------------------------
(***************************************************************************)
(* The typed metadata graph of sotFS (sotfs-graph/src/graph.rs and         *)
(* types.rs): its node pools, its edge pool, the secondary indexes that    *)
(* every operation maintains by hand, and the structural checks that       *)
(* check_invariants runs over them.                                        *)
(*                                                                         *)
(* A graph is a value (a record), so that an operation is a function from  *)
(* graphs to graphs: rename calls rmdir and unlink, a transaction keeps a  *)
(* clone, storage writes one, RCU holds two.                               *)
(***************************************************************************)
EXTENDS Integers, FiniteSets, Sequences

CONSTANTS
  Names,          \* file names a create, mkdir or symlink accepts
  BadNames,       \* names with '/' or NUL, or empty: create refuses them
  Modes,          \* permission words
  Users,          \* user and group ids
  LINK_MAX,       \* hard links one inode may have
  NODE_CAPACITY,  \* slots of each node arena; ids start at 1
  EDGE_CAPACITY   \* slots of the edge arena

Dots     == {".", ".."}
AllNames == Names \cup BadNames \cup Dots

ASSUME NameAssumption ==
  /\ Names \cap Dots = {}
  /\ BadNames \cap (Names \cup Dots) = {}

ASSUME CapacityAssumption ==
  /\ LINK_MAX \in Nat \ {0}
  /\ NODE_CAPACITY \in Nat \ {0, 1}
  /\ EDGE_CAPACITY \in Nat \ {0, 1}

None      == 0        \* ids start at 1: Option::None for every id type
RootDir   == 1
RootInode == 1
NoName    == "-"      \* the name of an edge that is not a Contains edge
NoLog     == [on |-> FALSE, entries |-> <<>>]   \* prov_log = None

RightSet   == {"READ", "WRITE", "EXECUTE", "GRANT", "REVOKE"}
VnodeTypes == {"Regular", "Directory", "Symlink"}
EdgeKinds  == {"Contains", "PointsTo", "HasXattr", "Grants"}

-----------------------------------------------------------------------------
(***************************************************************************)
(* Maps.  A BTreeMap or an arena is a function on the keys it holds.       *)
(***************************************************************************)
Put(f, k, v) == [x \in DOMAIN f \cup {k} |-> IF x = k THEN v ELSE f[x]]
Del(f, S)    == [x \in DOMAIN f \ S |-> f[x]]

\* map.get(k).unwrap_or_default() where the values are sets
SetAt(f, k) == IF k \in DOMAIN f THEN f[k] ELSE {}

\* map.entry(k).or_default().insert(e)
IndexAdd(f, k, e) == Put(f, k, SetAt(f, k) \cup {e})

Empty == [x \in {} |-> 0]

\* The first element of a BTreeSet of ids that a scan meets.
First(S) == CHOOSE x \in S : \A y \in S : x <= y

\* The elements of a BTreeSet of ids, as an iteration meets them.
InOrder(S) == [k \in 1 .. Cardinality(S) |->
                 CHOOSE x \in S : Cardinality({y \in S : y < x}) = k - 1]

-----------------------------------------------------------------------------
(***************************************************************************)
(* The graph.  Every field has the name it has in struct TypeGraph.  The   *)
(* pools transactions and versions and the maps cap_parent/cap_children    *)
(* are left out: no operation ever puts anything there.                    *)
(***************************************************************************)
GraphFields ==
  {"inodes", "dirs", "caps", "blocks", "edges", "dir_contains",
   "inode_incoming_contains", "inode_points_to", "cap_grants", "file_data",
   "xattrs", "inode_xattrs", "symlink_targets", "dir_for_inode_idx",
   "dir_name_idx", "acls", "quotas", "prov_log", "cap_ctx", "next_inode",
   "next_dir", "next_cap", "next_block", "next_edge", "next_xattr"}

IsGraph(g) == g = [f \in GraphFields |-> g[f]]

Inode == [vtype : VnodeTypes, link_count : Int, mode : Modes, uid : Users,
          gid : Users, size : Nat]
Edge  == [kind : EdgeKinds, src : Nat, tgt : Nat, name : AllNames \cup {NoName}]

NewInode(vtype, links, mode, uid, gid, size) ==
  [vtype |-> vtype, link_count |-> links, mode |-> mode, uid |-> uid,
   gid |-> gid, size |-> size]

ContainsEdge(d, i, n) ==
  [kind |-> "Contains", src |-> d, tgt |-> i, name |-> n]
OtherEdge(kind, s, t) ==
  [kind |-> kind, src |-> s, tgt |-> t, name |-> NoName]

AnonymousCtx == [cap_id |-> None, domain_id |-> 0]

\* CREATE-ROOT: the root directory holds only "." (no ".."), so its inode
\* has one link.
new_graph(mode, owner) ==
  [inodes |-> [i \in {RootInode} |->
                 NewInode("Directory", 1, mode, owner, owner, 0)],
   dirs   |-> [d \in {RootDir} |-> RootInode],
   caps   |-> Empty,
   blocks |-> Empty,
   edges  |-> [e \in {1} |-> ContainsEdge(RootDir, RootInode, ".")],
   dir_contains            |-> [d \in {RootDir} |-> {1}],
   inode_incoming_contains |-> [i \in {RootInode} |-> {1}],
   inode_points_to   |-> Empty,
   cap_grants        |-> Empty,
   file_data         |-> Empty,
   xattrs            |-> Empty,
   inode_xattrs      |-> Empty,
   symlink_targets   |-> Empty,
   dir_for_inode_idx |-> [i \in {RootInode} |-> RootDir],
   dir_name_idx      |-> [k \in {<<RootDir, ".">>} |-> 1],
   acls     |-> Empty,
   quotas   |-> Empty,
   prov_log |-> NoLog,
   cap_ctx  |-> AnonymousCtx,
   next_inode |-> 2, next_dir |-> 2, next_cap |-> 1, next_block |-> 1,
   next_edge  |-> 2, next_xattr |-> 1]

-----------------------------------------------------------------------------
(***************************************************************************)
(* Arena-backed helpers.  insert_at refuses an occupied slot and a slot    *)
(* past the capacity, and its callers ignore the refusal.                  *)
(***************************************************************************)
insert_at(pool, id, v, capacity) ==
  IF id < capacity /\ id \notin DOMAIN pool THEN Put(pool, id, v) ELSE pool

insert_inode(g, i, inode) ==
  [g EXCEPT !.inodes = insert_at(@, i, inode, NODE_CAPACITY)]

insert_dir(g, d, i) ==
  [g EXCEPT !.dirs = insert_at(@, d, i, NODE_CAPACITY),
            !.dir_for_inode_idx = Put(@, i, d)]

\* The reverse-index entry goes only when a directory was really removed.
remove_dir(g, d) ==
  IF d \notin DOMAIN g.dirs THEN g
  ELSE [g EXCEPT !.dirs = Del(@, {d}),
                 !.dir_for_inode_idx = Del(@, {g.dirs[d]})]

remove_inode(g, i) == [g EXCEPT !.inodes = Del(@, {i})]

insert_edge(g, e, edge) ==
  [g EXCEPT !.edges = insert_at(@, e, edge, EDGE_CAPACITY),
            !.dir_name_idx = IF edge.kind = "Contains"
                             THEN Put(@, <<edge.src, edge.name>>, e) ELSE @]

Keys(g, S) == {<<g.edges[e].src, g.edges[e].name>> :
                 e \in {x \in S : g.edges[x].kind = "Contains"}}

\* Removal of the edges S that exist; a Contains edge leaves the name index.
remove_edge(g, S) ==
  [g EXCEPT !.edges = Del(@, S),
            !.dir_name_idx = Del(@, Keys(g, S \cap DOMAIN g.edges))]

rename_contains_edge(g, e, new_name) ==
  LET edge == g.edges[e]
  IN IF edge.name = new_name THEN g
     ELSE [g EXCEPT !.edges[e].name = new_name,
                    !.dir_name_idx = Put(Del(@, {<<edge.src, edge.name>>}),
                                         <<edge.src, new_name>>, e)]

(***************************************************************************)
(* The insertion of a directory entry and its removal, with both indexes:  *)
(* the statements every namespace operation repeats.                       *)
(***************************************************************************)
add_contains(g, e, d, i, n) ==
  [insert_edge(g, e, ContainsEdge(d, i, n)) EXCEPT
     !.dir_contains = IndexAdd(@, d, e),
     !.inode_incoming_contains = IndexAdd(@, i, e)]

\* The entries leave the target's incoming index but not the directory's set.
drop_contains_keep_listing(g, S) ==
  [remove_edge(g, S) EXCEPT
     !.inode_incoming_contains =
        [i \in DOMAIN @ |-> @[i] \ {e \in S : g.edges[e].tgt = i}]]

drop_contains(g, S) ==
  [remove_edge(g, S) EXCEPT
     !.dir_contains =
        [d \in DOMAIN @ |-> @[d] \ {e \in S : g.edges[e].src = d}],
     !.inode_incoming_contains =
        [i \in DOMAIN @ |-> @[i] \ {e \in S : g.edges[e].tgt = i}]]

-----------------------------------------------------------------------------
(***************************************************************************)
(* Lookups.                                                                *)
(***************************************************************************)
ContainsEdges(g) == {e \in DOMAIN g.edges : g.edges[e].kind = "Contains"}

\* The entries of a directory, through dir_contains and the edge pool.
entries(g, d) == SetAt(g.dir_contains, d) \cap ContainsEdges(g)

user_entries(g, d) == {e \in entries(g, d) : g.edges[e].name \notin Dots}

\* Linear scan of dir_contains[d] for a name.
scan_name(g, d, n) ==
  LET hits == {e \in entries(g, d) : g.edges[e].name = n}
  IN IF hits = {} THEN None ELSE First(hits)

\* Hot path through the index; the scan only while the index is empty.
lookup_name(g, d, n) ==
  IF DOMAIN g.dir_name_idx = {} THEN scan_name(g, d, n)
  ELSE IF <<d, n>> \in DOMAIN g.dir_name_idx
       THEN g.dir_name_idx[<<d, n>>] ELSE None

resolve_name(g, d, n) ==
  LET e == lookup_name(g, d, n)
  IN IF e \in ContainsEdges(g) THEN g.edges[e].tgt ELSE None

dir_for_inode(g, i) ==
  IF i \in DOMAIN g.dir_for_inode_idx THEN g.dir_for_inode_idx[i] ELSE None

parent_dir(g, d) == dir_for_inode(g, resolve_name(g, d, ".."))

\* Entries are inserted in ascending edge order: the last one stays.
rebuild_dir_name_idx(g) ==
  LET keys == UNION {{<<d, g.edges[e].name>> : e \in entries(g, d)} :
                       d \in DOMAIN g.dir_contains}
      named(k) == {e \in entries(g, k[1]) : g.edges[e].name = k[2]}
  IN [g EXCEPT !.dir_name_idx =
        [k \in keys |-> CHOOSE e \in named(k) : \A f \in named(k) : f <= e]]

IsDirInode(g, i) == i \in DOMAIN g.inodes /\ g.inodes[i].vtype = "Directory"

(***************************************************************************)
(* Directory reachability.  The code walks (a DFS with a visited set, a    *)
(* loop over ".."); here the set a walk visits is the least closed set     *)
(* that holds its start.                                                   *)
(***************************************************************************)
child_dirs(g, d) ==
  {dir_for_inode(g, g.edges[e].tgt) :
     e \in {x \in user_entries(g, d) :
              /\ IsDirInode(g, g.edges[x].tgt)
              /\ dir_for_inode(g, g.edges[x].tgt) # None}}

DownClosed(g, S) == \A x \in S : child_dirs(g, x) \subseteq S

is_ancestor(g, a, d) ==
  \A S \in SUBSET (DOMAIN g.dirs \cup {a, d}) :
    a \in S /\ DownClosed(g, S) => d \in S

UpClosed(g, S) == \A x \in S : parent_dir(g, x) \in S \cup {None}

\* x is visited by the walk from d over ".." to the root.
on_parent_chain(g, d, x) ==
  \A S \in SUBSET (DOMAIN g.dirs \cup {d}) : d \in S /\ UpClosed(g, S) => x \in S

-----------------------------------------------------------------------------
(***************************************************************************)
(* Admission and provenance.                                               *)
(***************************************************************************)
\* The capability has to exist, whatever its rights.
require_cap_live(g, needed) ==
  g.cap_ctx.cap_id \in DOMAIN g.caps \cup {None}

\* No capability in the context is the anonymous path, which may do anything.
require_cap(g, needed) ==
  \/ g.cap_ctx.cap_id = None
  \/ /\ g.cap_ctx.cap_id \in DOMAIN g.caps
     /\ needed \in g.caps[g.cap_ctx.cap_id]

\* The live context is discarded: every entry says (None, 0).
record_prov_anonymous(g, op, i) ==
  IF ~g.prov_log.on THEN g
  ELSE [g EXCEPT !.prov_log.entries =
          Append(@, [op |-> op, inode |-> i, cap |-> None, domain |-> 0])]

record_prov(g, op, i) ==
  IF ~g.prov_log.on THEN g
  ELSE [g EXCEPT !.prov_log.entries =
          Append(@, [op |-> op, inode |-> i, cap |-> g.cap_ctx.cap_id,
                     domain |-> g.cap_ctx.domain_id])]

-----------------------------------------------------------------------------
(***************************************************************************)
(* check_invariants, one operator per check.                               *)
(***************************************************************************)
incoming(g, i) == SetAt(g.inode_incoming_contains, i) \cap ContainsEdges(g)

check_link_count_consistency(g) ==
  \A i \in DOMAIN g.inodes :
    g.inodes[i].link_count =
      Cardinality({e \in incoming(g, i) : g.edges[e].name # ".."})

check_unique_names(g) ==
  \A d \in DOMAIN g.dir_contains : \A e, f \in entries(g, d) :
    g.edges[e].name = g.edges[f].name => e = f

check_dir_self_ref(g) ==
  \A d \in DOMAIN g.dirs : \E e \in entries(g, d) :
    g.edges[e].name = "." /\ g.edges[e].tgt = g.dirs[d]

check_no_hard_link_to_dir(g) ==
  \A i \in DOMAIN g.inodes : g.inodes[i].vtype = "Directory" =>
    \A e, f \in {x \in incoming(g, i) : g.edges[x].name \notin Dots} : e = f

\* Edge::src_node and Edge::tgt_node: the pool an endpoint is looked up in.
\* tgt_node sends the target of a PointsTo edge, a block id, to the inodes.
src_pool(g, kind) ==
  CASE kind = "Contains" -> DOMAIN g.dirs
    [] kind = "Grants"   -> DOMAIN g.caps
    [] OTHER             -> DOMAIN g.inodes

tgt_pool(g, kind) ==
  IF kind = "HasXattr" THEN DOMAIN g.xattrs ELSE DOMAIN g.inodes

\* The nodes themselves, as (pool, id).
src_node(x) ==
  <<CASE x.kind = "Contains" -> "dirs" [] x.kind = "Grants" -> "caps"
      [] OTHER -> "inodes", x.src>>

tgt_node(x) == <<IF x.kind = "HasXattr" THEN "xattrs" ELSE "inodes", x.tgt>>

check_no_dangling_edges(g) ==
  \A e \in DOMAIN g.edges : /\ g.edges[e].src \in src_pool(g, g.edges[e].kind)
                            /\ g.edges[e].tgt \in tgt_pool(g, g.edges[e].kind)

check_block_refcount(g) ==
  \A b \in DOMAIN g.blocks :
    g.blocks[b] = Cardinality({e \in DOMAIN g.edges :
                      g.edges[e].kind = "PointsTo" /\ g.edges[e].tgt = b})

\* No set of directories in which each one has a child in the set.
check_no_dir_cycles(g) ==
  \A S \in SUBSET (DOMAIN g.dirs) :
    S # {} => \E x \in S : child_dirs(g, x) \cap S = {}

check_dir_name_idx_consistency(g) ==
  /\ \A d \in DOMAIN g.dir_contains : \A e \in entries(g, d) :
       /\ g.edges[e].src = d
       /\ <<d, g.edges[e].name>> \in DOMAIN g.dir_name_idx
       /\ g.dir_name_idx[<<d, g.edges[e].name>>] = e
  /\ \A k \in DOMAIN g.dir_name_idx :
       /\ g.dir_name_idx[k] \in ContainsEdges(g)
       /\ g.edges[g.dir_name_idx[k]].src = k[1]
       /\ g.edges[g.dir_name_idx[k]].name = k[2]

\* check_cap_monotonicity is omitted: cap_parent is always empty.
check_invariants(g) ==
  /\ check_link_count_consistency(g)
  /\ check_unique_names(g)
  /\ check_dir_self_ref(g)
  /\ check_no_dangling_edges(g)
  /\ check_block_refcount(g)
  /\ check_no_dir_cycles(g)
  /\ check_no_hard_link_to_dir(g)
  /\ check_dir_name_idx_consistency(g)
=============================================================================
