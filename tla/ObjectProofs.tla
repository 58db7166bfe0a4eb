---------------------------- MODULE ObjectProofs ----------------------------
(***************************************************************************)
(* Proofs about what objects carry besides their names: extended           *)
(* attributes, ACLs and capabilities, contents, quotas, the log.           *)
(* First the frame: which of these an operation leaves alone.              *)
(***************************************************************************)
EXTENDS SotfsProperties, NamespaceProofs

-----------------------------------------------------------------------------
(***************************************************************************)
(* Frames.  A step from k to h leaves the fields A and the edges of the    *)
(* kinds K alone.                                                          *)
(***************************************************************************)
SameEdges(k, h, kind) ==
  /\ EdgesOf(h, kind) = EdgesOf(k, kind)
  /\ \A e \in EdgesOf(k, kind) : h.edges[e] = k.edges[e]

Leaves(k, h, A, K) ==
  /\ IsGraph(h)
  /\ \A f \in A : h[f] = k[f]
  /\ \A c \in K : SameEdges(k, h, c)

\* What the operations on entries have nothing to do with.
Carried == {"caps", "cap_grants", "acls", "next_cap", "xattrs", "inode_xattrs",
            "next_xattr", "file_data", "symlink_targets", "cap_ctx", "prov_log"}
CarriedKinds == {"HasXattr", "Grants"}

Beside(k, h) == Leaves(k, h, Carried, CarriedKinds)

\* Only write_block, and the removal of the last name, touch blocks.
Blocked == {"blocks", "inode_points_to", "next_block"}
SteadyFields == Carried \cup Blocked
SteadyKinds  == CarriedKinds \cup {"PointsTo"}

Steady(k, h)     == Leaves(k, h, SteadyFields, SteadyKinds)
SameBlocks(k, h) == Leaves(k, h, Blocked, {"PointsTo"})

LEMMA LeavesTrans ==
  ASSUME NEW k, NEW m, NEW h, NEW A, NEW K, Leaves(k, m, A, K), Leaves(m, h, A, K)
  PROVE  Leaves(k, h, A, K)
BY DEF Leaves, SameEdges

LEMMA LeavesFewer ==
  ASSUME NEW k, NEW h, NEW A, NEW K, NEW B \in SUBSET A, NEW L \in SUBSET K,
         Leaves(k, h, A, K)
  PROVE  Leaves(k, h, B, L)
BY DEF Leaves

\* Whatever the other fields become, when the edges stay.
LEMMA LeavesIf ==
  ASSUME NEW k, NEW h, NEW F, NEW A, NEW K, SameExcept(k, h, F),
         A \subseteq GraphFields \ F, h.edges = k.edges
  PROVE  Leaves(k, h, A, K)
BY DEF Leaves, SameEdges, EdgesOf, SameExcept

LEMMA SteadyBeside ==
  ASSUME NEW k, NEW h, Steady(k, h)
  PROVE  Beside(k, h) /\ SameBlocks(k, h)
BY DEF Steady, Leaves, Beside, SameBlocks, SteadyFields, SteadyKinds

LEMMA SameBlocksTrans ==
  ASSUME NEW k, NEW m, NEW h, SameBlocks(k, m), SameBlocks(m, h)
  PROVE  SameBlocks(k, h)
BY LeavesTrans DEF SameBlocks

LEMMA BesideTrans ==
  ASSUME NEW k, NEW m, NEW h, Beside(k, m), Beside(m, h)
  PROVE  Beside(k, h)
BY LeavesTrans DEF Beside

LEMMA BesideIsGraph ==
  ASSUME NEW k, NEW h, Beside(k, h)
  PROVE  IsGraph(h)
BY DEF Beside, Leaves

LEMMA SteadyTrans ==
  ASSUME NEW k, NEW m, NEW h, Steady(k, m), Steady(m, h)
  PROVE  Steady(k, h)
BY LeavesTrans DEF Steady

LEMMA SteadyRefl ==
  ASSUME NEW k, IsGraph(k)
  PROVE  Steady(k, k)
BY DEF Steady, Leaves, SameEdges

LEMMA SteadyIf ==
  ASSUME NEW k, NEW h, NEW F, SameExcept(k, h, F), F \cap SteadyFields = {},
         h.edges = k.edges
  PROVE  Steady(k, h)
BY LeavesIf DEF Steady, SteadyFields, Carried, Blocked, GraphFields

\* The fields of the tree and all edges but those of the carried kinds.
TreeFields == {"inodes", "dirs", "edges", "dir_contains", "dir_for_inode_idx",
               "inode_incoming_contains", "dir_name_idx", "inode_points_to",
               "blocks", "quotas", "next_inode", "next_dir", "next_edge"}

\* The same without what blocks have.
EntryFields == TreeFields \ Blocked

LEMMA BesideEdges ==
  ASSUME NEW k, NEW h, SameExcept(k, h, TreeFields),
         \A c \in CarriedKinds : SameEdges(k, h, c)
  PROVE  Beside(k, h)
BY DEF Beside, Leaves, SameExcept, Carried, TreeFields, GraphFields

LEMMA SteadyEdges ==
  ASSUME NEW k, NEW h, SameExcept(k, h, EntryFields),
         \A c \in SteadyKinds : SameEdges(k, h, c)
  PROVE  Steady(k, h)
BY DEF Steady, Leaves, SameExcept, SteadyFields, Carried, Blocked, EntryFields,
       TreeFields, GraphFields

-----------------------------------------------------------------------------
(***************************************************************************)
(* The helpers that the operations on entries are made of.                 *)
(***************************************************************************)
LEMMA InsertSteady ==
  ASSUME NEW k, IsGraph(k), NEW i, NEW v, NEW d
  PROVE  /\ Steady(k, insert_inode(k, i, v))
         /\ Steady(k, insert_dir(k, d, i))
         /\ Steady(k, remove_inode(k, i))
         /\ Steady(k, remove_dir(k, d))
<1>1. /\ SameExcept(k, insert_inode(k, i, v), {"inodes"})
      /\ insert_inode(k, i, v).edges = k.edges
  BY DEF insert_inode, SameExcept, IsGraph, GraphFields
<1>2. /\ SameExcept(k, insert_dir(k, d, i), {"dirs", "dir_for_inode_idx"})
      /\ insert_dir(k, d, i).edges = k.edges
  BY DEF insert_dir, SameExcept, IsGraph, GraphFields
<1>3. /\ SameExcept(k, remove_inode(k, i), {"inodes"})
      /\ remove_inode(k, i).edges = k.edges
  BY DEF remove_inode, SameExcept, IsGraph, GraphFields
<1>4. /\ SameExcept(k, remove_dir(k, d), {"dirs", "dir_for_inode_idx"})
      /\ remove_dir(k, d).edges = k.edges
  BY DEF remove_dir, SameExcept, IsGraph, GraphFields
<1>5. {"inodes"} \cap SteadyFields = {} /\ {"dirs", "dir_for_inode_idx"} \cap SteadyFields = {}
  BY DEF SteadyFields, Carried, Blocked
<1> QED BY <1>1, <1>2, <1>3, <1>4, <1>5, SteadyIf

LEMMA AddContainsSteady ==
  ASSUME NEW k, IsGraph(k), NEW e, NEW d, NEW i, NEW n
  PROVE  Steady(k, add_contains(k, e, d, i, n))
<1> DEFINE h == add_contains(k, e, d, i, n)
           P == insert_at(k.edges, e, ContainsEdge(d, i, n), EDGE_CAPACITY)
<1>1. \E x, y, z : h = [k EXCEPT !.edges = P, !.dir_name_idx = x,
                                 !.dir_contains = y, !.inode_incoming_contains = z]
  <2>1. \E x : insert_edge(k, e, ContainsEdge(d, i, n)) =
                 [k EXCEPT !.edges = P, !.dir_name_idx = x]
    BY DEF insert_edge
  <2>2. \E y, z : h = [insert_edge(k, e, ContainsEdge(d, i, n)) EXCEPT
                         !.dir_contains = y, !.inode_incoming_contains = z]
    BY DEF add_contains
  <2> HIDE DEF P, h
  <2> QED BY <2>1, <2>2 DEF IsGraph, GraphFields
<1>2. \A c \in SteadyKinds :
        /\ {x \in DOMAIN P : P[x].kind = c} = EdgesOf(k, c)
        /\ \A x \in EdgesOf(k, c) : P[x] = k.edges[x]
  BY DEF insert_at, Put, ContainsEdge, EdgesOf, SteadyKinds, CarriedKinds
<1> HIDE DEF P, h
<1>3. SameExcept(k, h, EntryFields) /\ h.edges = P
  BY <1>1 DEF SameExcept, IsGraph, GraphFields, EntryFields, TreeFields, Blocked
<1>4. \A c \in SteadyKinds : SameEdges(k, h, c)
  BY <1>2, <1>3 DEF SameEdges, EdgesOf
<1> QED BY <1>3, <1>4, SteadyEdges DEF h

\* Removal of edges of another kind.
LEMMA RemoveEdgesLeaves ==
  ASSUME NEW k, IsGraph(k), NEW S, NEW kind,
         \A e \in S : e \in DOMAIN k.edges => k.edges[e].kind # kind,
         NEW h, h.edges = Del(k.edges, S)
  PROVE  SameEdges(k, h, kind)
BY DEF SameEdges, EdgesOf, Del

LEMMA DropContainsSteady ==
  ASSUME NEW k, IsGraph(k), NEW S, S \subseteq ContainsEdges(k)
  PROVE  Steady(k, drop_contains(k, S))
<1> DEFINE h == drop_contains(k, S)
<1>1. /\ SameExcept(k, remove_edge(k, S), {"edges", "dir_name_idx"})
      /\ remove_edge(k, S).edges = Del(k.edges, S)
  BY DEF remove_edge, SameExcept, IsGraph, GraphFields
<1>2. \E y, z : h = [remove_edge(k, S) EXCEPT
                       !.dir_contains = y, !.inode_incoming_contains = z]
  BY DEF drop_contains
<1> HIDE DEF h
<1>3. SameExcept(k, h, EntryFields) /\ h.edges = Del(k.edges, S)
  BY <1>1, <1>2 DEF SameExcept, IsGraph, GraphFields, EntryFields, TreeFields, Blocked
<1>4. \A c \in SteadyKinds : \A e \in S : k.edges[e].kind # c
  BY DEF ContainsEdges, SteadyKinds, CarriedKinds
<1>5. \A c \in SteadyKinds : SameEdges(k, h, c)
  BY <1>3, <1>4, RemoveEdgesLeaves
<1> QED BY <1>3, <1>5, SteadyEdges DEF h

LEMMA ReleaseBlocksBeside ==
  ASSUME NEW k, IsGraph(k), NEW i
  PROVE  Beside(k, release_blocks(k, i)) /\ Beside(k, collect_inode(k, i))
<1> DEFINE P == {e \in SetAt(k.inode_points_to, i) \cap DOMAIN k.edges :
                   k.edges[e].kind = "PointsTo"}
           r == release_blocks(k, i)
           h == collect_inode(k, i)
<1>1. /\ SameExcept(k, remove_edge(k, P), {"edges", "dir_name_idx"})
      /\ remove_edge(k, P).edges = Del(k.edges, P)
  BY DEF remove_edge, SameExcept, IsGraph, GraphFields
<1>2. \E y, z : r = [remove_edge(k, P) EXCEPT !.inode_points_to = y, !.blocks = z]
  BY DEF release_blocks
<1>3. \E y, z : h = [r EXCEPT !.inodes = y, !.inode_incoming_contains = z]
  <2>1. \E z : h = [remove_inode(r, i) EXCEPT !.inode_incoming_contains = z]
    BY DEF collect_inode
  <2>2. \E y : remove_inode(r, i) = [r EXCEPT !.inodes = y]
    BY DEF remove_inode
  <2>3. IsGraph(r)
    BY <1>1, <1>2 DEF SameExcept, IsGraph, GraphFields
  <2> HIDE DEF r, h
  <2> QED BY <2>1, <2>2, <2>3 DEF IsGraph, GraphFields
<1>4. \A c \in CarriedKinds : \A e \in P : k.edges[e].kind # c
  BY DEF CarriedKinds
<1> HIDE DEF r, h, P
<1>5. SameExcept(k, r, TreeFields) /\ r.edges = Del(k.edges, P)
  BY <1>1, <1>2 DEF SameExcept, IsGraph, GraphFields, TreeFields
<1>6. SameExcept(k, h, TreeFields) /\ h.edges = Del(k.edges, P)
  BY <1>3, <1>5 DEF SameExcept, IsGraph, GraphFields, TreeFields
<1>7. \A c \in CarriedKinds : SameEdges(k, r, c) /\ SameEdges(k, h, c)
  BY <1>4, <1>5, <1>6, RemoveEdgesLeaves
<1> QED BY <1>5, <1>6, <1>7, BesideEdges DEF r, h

\* An entry edge is changed in place.
LEMMA EntryChangedSteady ==
  ASSUME NEW k, IsGraph(k), NEW e \in ContainsEdges(k), NEW P,
         DOMAIN P = DOMAIN k.edges, P[e].kind = "Contains",
         \A x \in DOMAIN P \ {e} : P[x] = k.edges[x],
         NEW h, SameExcept(k, h, EntryFields), h.edges = P
  PROVE  Steady(k, h)
<1>1. \A c \in SteadyKinds : SameEdges(k, h, c)
  BY DEF ContainsEdges, SteadyKinds, CarriedKinds, SameEdges, EdgesOf
<1> QED BY <1>1, SteadyEdges

LEMMA RenameContainsEdgeSteady ==
  ASSUME NEW k, FieldsTyped(k), NEW e \in ContainsEdges(k), NEW n
  PROVE  Steady(k, rename_contains_edge(k, e, n))
<1> DEFINE P == [k.edges EXCEPT ![e].name = n]
           h == rename_contains_edge(k, e, n)
<1>1. IsGraph(k) /\ e \in DOMAIN k.edges /\ k.edges[e].kind = "Contains"
  BY DEF FieldsTyped, ContainsEdges
<1>2. DOMAIN P = DOMAIN k.edges /\ P[e].kind = "Contains"
      /\ \A x \in DOMAIN P \ {e} : P[x] = k.edges[x]
  <2>1. k.edges[e] \in Edge
    BY <1>1 DEF FieldsTyped
  <2>2. [k.edges[e] EXCEPT !.name = n].kind = "Contains"
    BY <1>1, <2>1 DEF Edge
  <2> QED BY <1>1, <2>2
<1>3. h = k \/ \E x : h = [k EXCEPT !.edges = P, !.dir_name_idx = x]
  BY DEF rename_contains_edge
<1> HIDE DEF P, h
<1>4. CASE h = k
  BY <1>1, <1>4, SteadyRefl DEF h
<1>5. CASE \E x : h = [k EXCEPT !.edges = P, !.dir_name_idx = x]
  <2>1. SameExcept(k, h, EntryFields) /\ h.edges = P
    BY <1>1, <1>5 DEF SameExcept, IsGraph, GraphFields, EntryFields, TreeFields, Blocked
  <2> QED BY <1>1, <1>2, <2>1, EntryChangedSteady DEF h
<1> QED BY <1>3, <1>4, <1>5

LEMMA MoveDotdotSteady ==
  ASSUME NEW k, FieldsTyped(k), IdsIssued(k), NEW i, NEW d
  PROVE  Steady(k, move_dotdot(k, i, d))
<1> DEFINE c == dir_for_inode(k, i)
           D == {e \in entries(k, c) : k.edges[e].name = ".."}
           e == First(D)
           P == [k.edges EXCEPT ![e].tgt = k.dirs[d]]
           h == move_dotdot(k, i, d)
<1>1. IsGraph(k)
  BY DEF FieldsTyped
<1>2. h = k \/ (D # {} /\ \E x : h = [k EXCEPT !.edges = P, !.inode_incoming_contains = x])
  BY DEF move_dotdot
<1>3. ASSUME D # {}
      PROVE  /\ e \in ContainsEdges(k) /\ DOMAIN P = DOMAIN k.edges
             /\ P[e].kind = "Contains" /\ \A x \in DOMAIN P \ {e} : P[x] = k.edges[x]
  <2>1. D \subseteq ContainsEdges(k) /\ D \subseteq Nat
    BY EdgeIdsAreNat DEF entries, ContainsEdges
  <2> HIDE DEF D
  <2>2. e \in D
    BY <1>3, <2>1, FirstIn
  <2>3. e \in DOMAIN k.edges /\ k.edges[e].kind = "Contains" /\ e \in ContainsEdges(k)
    BY <2>1, <2>2 DEF ContainsEdges
  <2> HIDE DEF e
  <2>4. k.edges[e] \in Edge
    BY <2>3 DEF FieldsTyped
  <2>5. [k.edges[e] EXCEPT !.tgt = k.dirs[d]].kind = "Contains"
    BY <2>3, <2>4 DEF Edge
  <2> QED BY <2>3, <2>5
<1> HIDE DEF P, h, D, e
<1>4. CASE h = k
  BY <1>1, <1>4, SteadyRefl DEF h
<1>5. CASE D # {} /\ \E x : h = [k EXCEPT !.edges = P, !.inode_incoming_contains = x]
  <2>1. SameExcept(k, h, EntryFields) /\ h.edges = P
    BY <1>1, <1>5 DEF SameExcept, IsGraph, GraphFields, EntryFields, TreeFields, Blocked
  <2> QED BY <1>1, <1>3, <1>5, <2>1, EntryChangedSteady DEF h
<1> QED BY <1>2, <1>4, <1>5

-----------------------------------------------------------------------------
(***************************************************************************)
(* The operations on entries, up to the log: nothing that an object        *)
(* carries is touched.                                                     *)
(***************************************************************************)
LEMMA QuotaWalkSteady ==
  ASSUME NEW k, IsGraph(k), NEW d, NEW delta
  PROVE  Steady(k, update_quota(k, d, delta))
<1>1. /\ SameExcept(k, update_quota(k, d, delta), {"quotas"})
      /\ update_quota(k, d, delta).edges = k.edges
  BY DEF update_quota, SameExcept, IsGraph, GraphFields
<1>2. {"quotas"} \cap SteadyFields = {}
  BY DEF SteadyFields, Carried, Blocked
<1> QED BY <1>1, <1>2, SteadyIf

LEMMA CountersSteady ==
  ASSUME NEW k, IsGraph(k), NEW x, NEW y, NEW z
  PROVE  /\ Steady(k, [k EXCEPT !.next_inode = x, !.next_edge = y])
         /\ Steady(k, [k EXCEPT !.next_inode = x, !.next_dir = z, !.next_edge = y])
         /\ Steady(k, [k EXCEPT !.next_edge = y])
<1> DEFINE F == {"next_inode", "next_dir", "next_edge"}
<1>1. /\ SameExcept(k, [k EXCEPT !.next_inode = x, !.next_edge = y], F)
      /\ [k EXCEPT !.next_inode = x, !.next_edge = y].edges = k.edges
  BY DEF SameExcept, IsGraph, GraphFields
<1>2. /\ SameExcept(k, [k EXCEPT !.next_inode = x, !.next_dir = z, !.next_edge = y], F)
      /\ [k EXCEPT !.next_inode = x, !.next_dir = z, !.next_edge = y].edges = k.edges
  BY DEF SameExcept, IsGraph, GraphFields
<1>3. /\ SameExcept(k, [k EXCEPT !.next_edge = y], F)
      /\ [k EXCEPT !.next_edge = y].edges = k.edges
  BY DEF SameExcept, IsGraph, GraphFields
<1>4. F \cap SteadyFields = {}
  BY DEF SteadyFields, Carried, Blocked
<1> HIDE DEF F
<1> QED BY <1>1, <1>2, <1>3, <1>4, SteadyIf

LEMMA InodesSteady ==
  ASSUME NEW k, IsGraph(k), NEW h, \E x : h = [k EXCEPT !.inodes = x]
  PROVE  Steady(k, h)
<1>1. SameExcept(k, h, {"inodes"}) /\ h.edges = k.edges
  BY DEF SameExcept, IsGraph, GraphFields
<1>2. {"inodes"} \cap SteadyFields = {}
  BY DEF SteadyFields, Carried, Blocked
<1> QED BY <1>1, <1>2, SteadyIf

LEMMA SteadyIsGraph ==
  ASSUME NEW k, NEW h, Steady(k, h)
  PROVE  IsGraph(h)
BY DEF Steady, Leaves

LEMMA CreateNodeSteady ==
  ASSUME NEW k, IsGraph(k), NEW d, NEW n, NEW inode
  PROVE  Steady(k, create_node(k, d, n, inode))
<1> DEFINE i  == k.next_inode
           e  == k.next_edge
           m1 == [k EXCEPT !.next_inode = i + 1, !.next_edge = e + 1]
           m2 == insert_inode(m1, i, inode)
           h  == add_contains(m2, e, d, i, n)
<1>1. create_node(k, d, n, inode) = h
  BY DEF create_node
<1>2. Steady(k, m1)
  BY CountersSteady
<1> HIDE DEF m1
<1>3. Steady(m1, m2)
  BY <1>2, SteadyIsGraph, InsertSteady
<1> HIDE DEF m2
<1>4. Steady(m2, h)
  BY <1>3, SteadyIsGraph, AddContainsSteady
<1> HIDE DEF h
<1> QED BY <1>1, <1>2, <1>3, <1>4, SteadyTrans

LEMMA MkdirNodesSteady ==
  ASSUME NEW k, IsGraph(k), NEW d, NEW n, NEW mode, NEW u
  PROVE  Steady(k, mkdir_nodes(k, d, n, mode, u))
<1> DEFINE i  == k.next_inode
           c  == k.next_dir
           e  == k.next_edge
           m1 == [k EXCEPT !.next_inode = i + 1, !.next_dir = c + 1, !.next_edge = e + 3]
           m2 == insert_inode(m1, i, NewInode("Directory", 2, mode, u, u, 0))
           m3 == insert_dir(m2, c, i)
           m4 == add_contains(m3, e, d, i, n)
           m5 == add_contains(m4, e + 1, c, i, ".")
           h  == add_contains(m5, e + 2, c, k.dirs[d], "..")
<1>1. mkdir_nodes(k, d, n, mode, u) = h
  BY DEF mkdir_nodes
<1>2. Steady(k, m1)
  BY CountersSteady
<1> HIDE DEF m1
<1>3. Steady(m1, m2)
  BY <1>2, SteadyIsGraph, InsertSteady
<1> HIDE DEF m2
<1>4. Steady(m2, m3)
  BY <1>3, SteadyIsGraph, InsertSteady
<1> HIDE DEF m3
<1>5. Steady(m3, m4)
  BY <1>4, SteadyIsGraph, AddContainsSteady
<1> HIDE DEF m4
<1>6. Steady(m4, m5)
  BY <1>5, SteadyIsGraph, AddContainsSteady
<1> HIDE DEF m5
<1>7. Steady(m5, h)
  BY <1>6, SteadyIsGraph, AddContainsSteady
<1> HIDE DEF h
<1>8. Steady(k, m2) /\ Steady(k, m3)
  BY <1>2, <1>3, <1>4, SteadyTrans
<1>9. Steady(k, m4) /\ Steady(k, m5)
  BY <1>5, <1>6, <1>8, SteadyTrans
<1> QED BY <1>1, <1>7, <1>9, SteadyTrans

LEMMA RmdirNodesSteady ==
  ASSUME NEW k, IsGraph(k), NEW d, NEW n
  PROVE  Steady(k, rmdir_nodes(k, d, n))
<1> DEFINE i  == resolve_name(k, d, n)
           c  == dir_for_inode(k, i)
           S  == {e \in entries(k, d) : k.edges[e].tgt = i /\ k.edges[e].name = n}
                    \cup entries(k, c)
           m1 == drop_contains(k, S)
           m2 == remove_inode(m1, i)
           m3 == remove_dir(m2, c)
           h  == rmdir_nodes(k, d, n)
<1>1. \E x, y : h = [m3 EXCEPT !.dir_contains = x, !.inode_incoming_contains = y]
  BY DEF rmdir_nodes
<1>2. S \subseteq ContainsEdges(k)
  BY DEF entries
<1> HIDE DEF h, S
<1>3. Steady(k, m1)
  BY <1>2, DropContainsSteady
<1> HIDE DEF m1
<1>4. Steady(m1, m2)
  BY <1>3, SteadyIsGraph, InsertSteady
<1> HIDE DEF m2
<1>5. Steady(m2, m3)
  BY <1>4, SteadyIsGraph, InsertSteady
<1> HIDE DEF m3
<1>6. Steady(m3, h)
  <2>1. IsGraph(m3)
    BY <1>5, SteadyIsGraph
  <2>2. /\ SameExcept(m3, h, {"dir_contains", "inode_incoming_contains"})
        /\ h.edges = m3.edges
    BY <1>1, <2>1 DEF SameExcept, IsGraph, GraphFields
  <2>3. {"dir_contains", "inode_incoming_contains"} \cap SteadyFields = {}
    BY DEF SteadyFields, Carried, Blocked
  <2> QED BY <2>2, <2>3, SteadyIf
<1>7. Steady(k, h)
  BY <1>3, <1>4, <1>5, <1>6, SteadyTrans
<1> QED BY <1>7 DEF h

LEMMA LinkNodesSteady ==
  ASSUME NEW k, IsGraph(k), NEW d, NEW n, NEW i
  PROVE  Steady(k, link_nodes(k, d, n, i))
<1> DEFINE e  == k.next_edge
           m1 == [k EXCEPT !.next_edge = e + 1]
           m2 == add_contains(m1, e, d, i, n)
           h  == link_nodes(k, d, n, i)
<1>1. \E x : h = [m2 EXCEPT !.inodes = x]
  BY DEF link_nodes
<1>2. Steady(k, m1)
  BY CountersSteady
<1> HIDE DEF m1, h
<1>3. Steady(m1, m2)
  BY <1>2, SteadyIsGraph, AddContainsSteady
<1> HIDE DEF m2
<1>4. Steady(m2, h)
  BY <1>1, <1>3, SteadyIsGraph, InodesSteady
<1>5. Steady(k, h)
  BY <1>2, <1>3, <1>4, SteadyTrans
<1> QED BY <1>5 DEF h

LEMMA UnlinkNodesBeside ==
  ASSUME NEW k, Sound(k), NEW d, NEW n, scan_name(k, d, n) # None
  PROVE  Beside(k, unlink_nodes(k, d, n))
<1> DEFINE e  == scan_name(k, d, n)
           i  == k.edges[e].tgt
           m1 == drop_contains(k, {e})
           m2 == [m1 EXCEPT !.inodes[i].link_count = @ - 1]
           m3 == collect_inode(m2, i)
           h  == unlink_nodes(k, d, n)
<1>1. h = m2 \/ h = update_quota(m3, d, -1)
  BY DEF unlink_nodes
<1>2. \E x : m2 = [m1 EXCEPT !.inodes = x]
  OBVIOUS
<1>3. IsGraph(k) /\ {e} \subseteq ContainsEdges(k)
  BY SoundGraph, ScanFinds
<1> HIDE DEF h, m2, i, e
<1>4. Beside(k, m1)
  BY <1>3, DropContainsSteady, SteadyBeside
<1> HIDE DEF m1
<1>5. Beside(m1, m2)
  BY <1>2, <1>4, BesideIsGraph, InodesSteady, SteadyBeside
<1>6. Beside(m2, m3)
  BY <1>5, BesideIsGraph, ReleaseBlocksBeside
<1> HIDE DEF m3
<1>7. Beside(m3, update_quota(m3, d, -1))
  BY <1>6, BesideIsGraph, QuotaWalkSteady, SteadyBeside
<1>8. Beside(k, h)
  BY <1>1, <1>4, <1>5, <1>6, <1>7, BesideTrans
<1> QED BY <1>8 DEF h

LEMMA MoveEntrySteady ==
  ASSUME NEW k, IsGraph(k), NEW e \in ContainsEdges(k), NEW d, NEW n
  PROVE  Steady(k, move_entry(k, e, d, n))
<1> DEFINE m1 == drop_contains(k, {e})
           m2 == [m1 EXCEPT !.next_edge = k.next_edge + 1]
           h  == add_contains(m2, k.next_edge, d, k.edges[e].tgt, n)
<1>1. move_entry(k, e, d, n) = h
  BY DEF move_entry
<1>2. Steady(k, m1)
  BY DropContainsSteady
<1> HIDE DEF m1
<1>3. Steady(m1, m2)
  BY <1>2, SteadyIsGraph, CountersSteady
<1> HIDE DEF m2
<1>4. Steady(m2, h)
  BY <1>3, SteadyIsGraph, AddContainsSteady
<1> HIDE DEF h
<1> QED BY <1>1, <1>2, <1>3, <1>4, SteadyTrans

-----------------------------------------------------------------------------
(***************************************************************************)
(* The calls.                                                              *)
(***************************************************************************)
Unlogged == Carried \ {"prov_log"}
Silent == SteadyFields \ {"prov_log"}

LEMMA RecordLeaves ==
  ASSUME NEW k, IsGraph(k), NEW op, NEW i
  PROVE  /\ Leaves(k, record_prov(k, op, i), GraphFields \ {"prov_log"}, EdgeKinds)
         /\ Leaves(k, record_prov(k, op, i), Unlogged, CarriedKinds)
<1>1. /\ SameExcept(k, record_prov(k, op, i), {"prov_log"})
      /\ record_prov(k, op, i).edges = k.edges
  BY DEF record_prov, SameExcept, IsGraph, GraphFields
<1>2. Unlogged \subseteq GraphFields \ {"prov_log"}
  BY DEF Unlogged, Carried, GraphFields
<1> QED BY <1>1, <1>2, LeavesIf

LEMMA RecordSameBlocks ==
  ASSUME NEW k, IsGraph(k), NEW op, NEW i
  PROVE  SameBlocks(k, record_prov(k, op, i))
<1>1. /\ SameExcept(k, record_prov(k, op, i), {"prov_log"})
      /\ record_prov(k, op, i).edges = k.edges
  BY DEF record_prov, SameExcept, IsGraph, GraphFields
<1>2. Blocked \subseteq GraphFields \ {"prov_log"}
  BY DEF Blocked, GraphFields
<1> QED BY <1>1, <1>2, LeavesIf DEF SameBlocks

\* The step from k to h changes entries and then records itself.
Enters(k, h, op, i) == \E m : Beside(k, m) /\ h = record_prov(m, op, i)

LEMMA EntersLeaves ==
  ASSUME NEW k, NEW h, NEW op, NEW i, Enters(k, h, op, i)
  PROVE  Leaves(k, h, Unlogged, CarriedKinds)
<1>1. PICK m : Beside(k, m) /\ h = record_prov(m, op, i)
  BY DEF Enters
<1>2. Leaves(k, m, Unlogged, CarriedKinds)
  BY <1>1, LeavesFewer DEF Beside, Unlogged
<1>3. Leaves(m, h, Unlogged, CarriedKinds)
  BY <1>1, BesideIsGraph, RecordLeaves
<1> QED BY <1>2, <1>3, LeavesTrans

LEMMA EntryCallsEnter ==
  ASSUME NEW k, Sound(k), NEW d, NEW n, NEW mode, NEW u, NEW i
  PROVE  /\ Enters(k, create_file(k, d, n, mode, u), "Create", k.next_inode)
         /\ Enters(k, mkdir(k, d, n, mode, u), "Mkdir", k.next_inode)
         /\ Enters(k, rmdir(k, d, n), "Rmdir", resolve_name(k, d, n))
         /\ Enters(k, link(k, d, n, i), "Link", i)
         /\ unlink_ok(k, d, n) =>
              Enters(k, unlink(k, d, n), "Unlink", k.edges[scan_name(k, d, n)].tgt)
<1>1. IsGraph(k)
  BY SoundGraph
<1>2. ASSUME NEW m, Beside(k, m), NEW x
      PROVE  Beside(k, update_quota(m, d, x))
  BY <1>2, BesideIsGraph, QuotaWalkSteady, SteadyBeside, BesideTrans
<1>3. Enters(k, create_file(k, d, n, mode, u), "Create", k.next_inode)
  BY <1>1, <1>2, CreateNodeSteady, SteadyBeside DEF create_file, Enters
<1>4. Enters(k, mkdir(k, d, n, mode, u), "Mkdir", k.next_inode)
  BY <1>1, <1>2, MkdirNodesSteady, SteadyBeside DEF mkdir, Enters
<1>5. Enters(k, rmdir(k, d, n), "Rmdir", resolve_name(k, d, n))
  BY <1>1, <1>2, RmdirNodesSteady, SteadyBeside DEF rmdir, Enters
<1>6. Enters(k, link(k, d, n, i), "Link", i)
  BY <1>1, LinkNodesSteady, SteadyBeside DEF link, Enters
<1>7. unlink_ok(k, d, n) =>
        Enters(k, unlink(k, d, n), "Unlink", k.edges[scan_name(k, d, n)].tgt)
  BY UnlinkNodesBeside DEF unlink, Enters, unlink_ok
<1> QED BY <1>3, <1>4, <1>5, <1>6, <1>7

LEMMA SymlinkLeaves ==
  ASSUME NEW k, Sound(k), NEW d, NEW n, NEW t, NEW u
  PROVE  \E m : /\ Leaves(k, m, Carried \ {"symlink_targets"}, CarriedKinds)
                /\ m.symlink_targets = Put(k.symlink_targets, k.next_inode, t)
                /\ symlink(k, d, n, t, u) = record_prov(m, "Symlink", k.next_inode)
<1> DEFINE m1 == create_node(k, d, n, NewInode("Symlink", 1, SymlinkMode, u, u, Len(t)))
           m2 == [m1 EXCEPT !.symlink_targets = Put(@, k.next_inode, t)]
           m  == update_quota(m2, d, 1)
           A  == Carried \ {"symlink_targets"}
<1>1. Beside(k, m1)
  BY SoundGraph, CreateNodeSteady, SteadyBeside
<1>2. symlink(k, d, n, t, u) = record_prov(m, "Symlink", k.next_inode)
  BY DEF symlink
<1> HIDE DEF m1
<1>3. Leaves(k, m1, A, CarriedKinds) /\ IsGraph(m1)
      /\ m1.symlink_targets = k.symlink_targets
  BY <1>1, LeavesFewer DEF Beside, Leaves, Carried
<1>4. /\ SameExcept(m1, m2, {"symlink_targets"}) /\ m2.edges = m1.edges
      /\ m2.symlink_targets = Put(k.symlink_targets, k.next_inode, t)
  BY <1>3 DEF SameExcept, IsGraph, GraphFields
<1>5. A \subseteq GraphFields \ {"symlink_targets"}
  BY DEF Carried, GraphFields
<1>6. Leaves(m1, m2, A, CarriedKinds) /\ IsGraph(m2)
  BY <1>4, <1>5, LeavesIf DEF SameExcept
<1> HIDE DEF m2
<1>7. Beside(m2, m)
  BY <1>6, QuotaWalkSteady, SteadyBeside
<1> HIDE DEF m
<1>8. Leaves(m2, m, A, CarriedKinds) /\ m.symlink_targets = m2.symlink_targets
  BY <1>7, LeavesFewer DEF Beside, Leaves, Carried
<1>9. Leaves(k, m, A, CarriedKinds)
  BY <1>3, <1>6, <1>8, LeavesTrans
<1> QED BY <1>2, <1>4, <1>8, <1>9

LEMMA ReplaceEnters ==
  ASSUME NEW k, Sound(k), NEW d, NEW n,
         NEW r, r = replace_destination(k, d, n).graph
  PROVE  \/ r = k
         \/ /\ unlink_ok(k, d, n) /\ r = unlink(k, d, n)
            /\ Enters(k, r, "Unlink", k.edges[scan_name(k, d, n)].tgt)
         \/ /\ rmdir_ok(k, d, n) /\ r = rmdir(k, d, n)
            /\ Enters(k, r, "Rmdir", resolve_name(k, d, n))
<1>1. \/ r = k
      \/ r = rmdir(k, d, n) /\ rmdir_ok(k, d, n)
      \/ r = unlink(k, d, n) /\ unlink_ok(k, d, n)
  BY DEF replace_destination, Done, Fail
<1> QED BY <1>1, EntryCallsEnter

LEMMA SourceIsEntry ==
  ASSUME NEW k, FieldsTyped(k), IdsIssued(k), NEW d, NEW i, NEW n,
         source_entries(k, d, i, n) # {}
  PROVE  First(source_entries(k, d, i, n)) \in ContainsEdges(k)
<1> DEFINE E == source_entries(k, d, i, n)
<1>1. E \subseteq ContainsEdges(k) /\ E \subseteq Nat
  BY EdgeIdsAreNat DEF source_entries, entries, ContainsEdges
<1> HIDE DEF E
<1>2. E # {} => First(E) \in E
  BY <1>1, FirstIn
<1> QED BY <1>1, <1>2 DEF E

\* What a change of the wiring of directories touches.
Wiring == TreeFields \ {"inodes", "quotas"}

LEMMA WiringKeeps ==
  ASSUME NEW k, NEW h, SameExcept(k, h, Wiring)
  PROVE  IsGraph(h) /\ h.inodes = k.inodes
BY DEF SameExcept, Wiring, GraphFields

LEMMA WiringTrans ==
  ASSUME NEW k, NEW m, NEW h, NEW F, SameExcept(k, m, F), SameExcept(m, h, F)
  PROVE  SameExcept(k, h, F)
BY DEF SameExcept

LEMMA EdgeHelpersWire ==
  ASSUME NEW k, IsGraph(k), NEW e, NEW d, NEW i, NEW n, NEW S
  PROVE  /\ SameExcept(k, add_contains(k, e, d, i, n), Wiring)
         /\ SameExcept(k, drop_contains(k, S), Wiring)
         /\ SameExcept(k, rename_contains_edge(k, e, n), Wiring)
         /\ SameExcept(k, move_dotdot(k, i, d), Wiring)
<1>1. SameExcept(k, add_contains(k, e, d, i, n), Wiring)
  <2> DEFINE m == insert_edge(k, e, ContainsEdge(d, i, n))
             h == add_contains(k, e, d, i, n)
  <2>1. \E x, y : m = [k EXCEPT !.edges = x, !.dir_name_idx = y]
    BY DEF insert_edge
  <2>2. \E y, z : h = [m EXCEPT !.dir_contains = y, !.inode_incoming_contains = z]
    BY DEF add_contains
  <2> HIDE DEF m, h
  <2>3. SameExcept(k, m, Wiring)
    BY <2>1 DEF SameExcept, IsGraph, GraphFields, Wiring, TreeFields
  <2>4. SameExcept(m, h, Wiring)
    BY <2>2, <2>3 DEF SameExcept, IsGraph, GraphFields, Wiring, TreeFields
  <2>5. SameExcept(k, h, Wiring)
    BY <2>3, <2>4, WiringTrans
  <2> QED BY <2>5 DEF h
<1>2. SameExcept(k, drop_contains(k, S), Wiring)
  <2> DEFINE m == remove_edge(k, S)
             h == drop_contains(k, S)
  <2>1. \E x, y : m = [k EXCEPT !.edges = x, !.dir_name_idx = y]
    BY DEF remove_edge
  <2>2. \E y, z : h = [m EXCEPT !.dir_contains = y, !.inode_incoming_contains = z]
    BY DEF drop_contains
  <2> HIDE DEF m, h
  <2>3. SameExcept(k, m, Wiring)
    BY <2>1 DEF SameExcept, IsGraph, GraphFields, Wiring, TreeFields
  <2>4. SameExcept(m, h, Wiring)
    BY <2>2, <2>3 DEF SameExcept, IsGraph, GraphFields, Wiring, TreeFields
  <2>5. SameExcept(k, h, Wiring)
    BY <2>3, <2>4, WiringTrans
  <2> QED BY <2>5 DEF h
<1>3. SameExcept(k, rename_contains_edge(k, e, n), Wiring)
  <2> DEFINE h == rename_contains_edge(k, e, n)
  <2>1. h = k \/ \E x, y : h = [k EXCEPT !.edges = x, !.dir_name_idx = y]
    <3> DEFINE P == [k.edges EXCEPT ![e].name = n]
    <3>1. h = k \/ \E y : h = [k EXCEPT !.edges = P, !.dir_name_idx = y]
      BY DEF rename_contains_edge
    <3> HIDE DEF P, h
    <3> QED BY <3>1
  <2> HIDE DEF h
  <2>2. SameExcept(k, h, Wiring)
    BY <2>1 DEF SameExcept, IsGraph, GraphFields, Wiring, TreeFields
  <2> QED BY <2>2 DEF h
<1>4. SameExcept(k, move_dotdot(k, i, d), Wiring)
  <2> DEFINE h == move_dotdot(k, i, d)
  <2>1. h = k \/ \E x, y : h = [k EXCEPT !.edges = x, !.inode_incoming_contains = y]
    <3> DEFINE c == dir_for_inode(k, i)
               D == {x \in entries(k, c) : k.edges[x].name = ".."}
               P == [k.edges EXCEPT ![First(D)].tgt = k.dirs[d]]
    <3>1. h = k \/ \E y : h = [k EXCEPT !.edges = P, !.inode_incoming_contains = y]
      BY DEF move_dotdot
    <3> HIDE DEF P, h
    <3> QED BY <3>1
  <2> HIDE DEF h
  <2>2. SameExcept(k, h, Wiring)
    BY <2>1 DEF SameExcept, IsGraph, GraphFields, Wiring, TreeFields
  <2> QED BY <2>2 DEF h
<1> QED BY <1>1, <1>2, <1>3, <1>4

LEMMA NodeHelpersWire ==
  ASSUME NEW k, IsGraph(k), NEW d, NEW i, NEW x, NEW y, NEW z
  PROVE  /\ SameExcept(k, insert_dir(k, d, i), Wiring)
         /\ SameExcept(k, remove_dir(k, d), Wiring)
         /\ SameExcept(k, release_blocks(k, i), Wiring)
         /\ SameExcept(k, [k EXCEPT !.next_inode = x, !.next_edge = y], Wiring)
         /\ SameExcept(k, [k EXCEPT !.next_inode = x, !.next_dir = z, !.next_edge = y],
                       Wiring)
         /\ SameExcept(k, [k EXCEPT !.next_edge = y], Wiring)
         /\ SameExcept(k, [k EXCEPT !.dir_contains = x, !.inode_incoming_contains = y],
                       Wiring)
<1>1. SameExcept(k, insert_dir(k, d, i), Wiring)
  BY DEF insert_dir, SameExcept, IsGraph, GraphFields, Wiring, TreeFields
<1>2. SameExcept(k, remove_dir(k, d), Wiring)
  BY DEF remove_dir, SameExcept, IsGraph, GraphFields, Wiring, TreeFields
<1>3. SameExcept(k, release_blocks(k, i), Wiring)
  <2> DEFINE P == {e \in SetAt(k.inode_points_to, i) \cap DOMAIN k.edges :
                     k.edges[e].kind = "PointsTo"}
             m == remove_edge(k, P)
             h == release_blocks(k, i)
  <2>1. \E u, v : m = [k EXCEPT !.edges = u, !.dir_name_idx = v]
    BY DEF remove_edge
  <2>2. \E u, v : h = [m EXCEPT !.inode_points_to = u, !.blocks = v]
    BY DEF release_blocks
  <2> HIDE DEF m, h
  <2>3. SameExcept(k, m, Wiring)
    BY <2>1 DEF SameExcept, IsGraph, GraphFields, Wiring, TreeFields
  <2>4. SameExcept(m, h, Wiring)
    BY <2>2, <2>3 DEF SameExcept, IsGraph, GraphFields, Wiring, TreeFields
  <2>5. SameExcept(k, h, Wiring)
    BY <2>3, <2>4, WiringTrans
  <2> QED BY <2>5 DEF h
<1>4. /\ SameExcept(k, [k EXCEPT !.next_inode = x, !.next_edge = y], Wiring)
      /\ SameExcept(k, [k EXCEPT !.next_inode = x, !.next_dir = z, !.next_edge = y],
                    Wiring)
      /\ SameExcept(k, [k EXCEPT !.next_edge = y], Wiring)
      /\ SameExcept(k, [k EXCEPT !.dir_contains = x, !.inode_incoming_contains = y],
                    Wiring)
  BY DEF SameExcept, IsGraph, GraphFields, Wiring, TreeFields
<1> QED BY <1>1, <1>2, <1>3, <1>4

LEMMA MoveEntryWires ==
  ASSUME NEW k, IsGraph(k), NEW e, NEW d, NEW n
  PROVE  SameExcept(k, move_entry(k, e, d, n), Wiring)
<1> DEFINE m1 == drop_contains(k, {e})
           m2 == [m1 EXCEPT !.next_edge = k.next_edge + 1]
           h  == add_contains(m2, k.next_edge, d, k.edges[e].tgt, n)
<1>1. move_entry(k, e, d, n) = h
  BY DEF move_entry
<1>2. SameExcept(k, m1, Wiring) /\ IsGraph(m1)
  BY EdgeHelpersWire, WiringKeeps
<1> HIDE DEF m1
<1>3. SameExcept(m1, m2, Wiring) /\ IsGraph(m2)
  BY <1>2, NodeHelpersWire, WiringKeeps
<1> HIDE DEF m2
<1>4. SameExcept(m2, h, Wiring)
  BY <1>3, EdgeHelpersWire
<1> HIDE DEF h
<1> QED BY <1>1, <1>2, <1>3, <1>4, WiringTrans

\* A rename does nothing, or records a replacement and then itself.
LEMMA RenameEnters ==
  ASSUME NEW k, Sound(k), NEW sd \in DOMAIN k.dirs, NEW src \in AllNames,
         NEW dd \in DOMAIN k.dirs, NEW dst \in AllNames,
         NEW h, h = rename(k, sd, src, dd, dst).graph
  PROVE  \/ h = k
         \/ /\ require_cap(k, "WRITE")
            /\ \E r, j : /\ r = k \/ r = replace_destination(k, dd, dst).graph
                         /\ Enters(r, h, "Rename", j) /\ h.inodes = r.inodes
                         /\ SameBlocks(r, h)
<1> DEFINE p == IF sd = dd THEN rename_same_dir(k, sd, src, dst)
                           ELSE rename_cross_dir(k, sd, src, dd, dst)
           i == resolve_name(k, sd, src)
           r == replace_destination(k, dd, dst).graph
           E == source_entries(r, sd, i, src)
           m == move_entry(r, First(E), dd, dst)
<1>1. \/ h = k
      \/ /\ p.ok /\ require_cap(k, "WRITE")
         /\ \E j : h = record_prov(p.graph, "Rename", j)
  <2>1. ~rename(k, sd, src, dd, dst).ok => h = k
    BY RenameSound
  <2>2. rename(k, sd, src, dd, dst).ok =>
          /\ p.ok /\ require_cap(k, "WRITE")
          /\ h = record_prov(p.graph, "Rename", resolve_name(p.graph, dd, dst))
    BY DEF rename, Fail, Done
  <2> QED BY <2>1, <2>2
<1>0. ASSUME NEW r0, NEW m0, IsGraph(m0), Steady(r0, m0), NEW j
      PROVE  /\ record_prov(m0, "Rename", j).inodes = m0.inodes
             /\ SameBlocks(r0, record_prov(m0, "Rename", j)) /\ Beside(r0, m0)
  <2>1. record_prov(m0, "Rename", j).inodes = m0.inodes
    BY <1>0 DEF record_prov, IsGraph, GraphFields
  <2>2. SameBlocks(m0, record_prov(m0, "Rename", j))
    BY <1>0, RecordSameBlocks
  <2> QED BY <1>0, <2>1, <2>2, SteadyBeside, SameBlocksTrans
<1>2. CASE p.ok /\ sd = dd
  <2>1. \/ p.graph = k
        \/ E # {} /\ p.graph = rename_contains_edge(r, First(E), dst)
    BY <1>2 DEF rename_same_dir, Done, Fail
  <2>2. FieldsTyped(r) /\ IdsIssued(r)
    BY SoundGraph, ReplaceIssues, IssuesIds DEF Issues
  <2>3. CASE p.graph = k
    BY <1>0, <1>1, <2>3, SoundGraph, SteadyRefl DEF Enters
  <2>4. CASE E # {} /\ p.graph = rename_contains_edge(r, First(E), dst)
    <3>1. First(E) \in ContainsEdges(r)
      BY <2>2, <2>4, SourceIsEntry
    <3>2. Steady(r, p.graph)
      BY <2>2, <2>4, <3>1, RenameContainsEdgeSteady
    <3> HIDE DEF p, r, E
    <3>4. SameExcept(r, rename_contains_edge(r, First(E), dst), Wiring)
      BY <2>2, EdgeHelpersWire DEF FieldsTyped
    <3>3. IsGraph(p.graph) /\ p.graph.inodes = r.inodes
      BY <2>4, <3>4, WiringKeeps
    <3> QED BY <1>0, <1>1, <3>2, <3>3 DEF Enters, r
  <2> QED BY <2>1, <2>3, <2>4
<1>3. CASE p.ok /\ sd # dd
  <2>1. E # {} /\ p.graph = move_dotdot(m, i, dd)
    BY <1>3 DEF rename_cross_dir, Done, Fail
  <2>2. FieldsTyped(r) /\ IdsIssued(r) /\ dd \in Nat
    BY SoundGraph, ReplaceIssues, IssuesIds, EdgeIdsAreNat DEF Issues
  <2>3. First(E) \in ContainsEdges(r) /\ First(E) \in DOMAIN r.edges
    BY <2>1, <2>2, SourceIsEntry DEF ContainsEdges
  <2> HIDE DEF r, p, E
  <2>4. Steady(r, m)
    BY <2>2, <2>3, MoveEntrySteady DEF FieldsTyped
  <2>5. FieldsTyped(m) /\ IdsIssued(m)
    BY <2>2, <2>3, MoveEntryIssues, IssuesIds DEF Issues
  <2>8. m.inodes = r.inodes
    BY <2>2, MoveEntryWires, WiringKeeps DEF FieldsTyped, m
  <2> HIDE DEF m
  <2>6. Steady(m, p.graph)
    BY <2>1, <2>5, MoveDotdotSteady
  <2>7. Steady(r, p.graph)
    BY <2>4, <2>6, SteadyTrans
  <2>9. IsGraph(p.graph) /\ p.graph.inodes = r.inodes
    <3>1. SameExcept(m, move_dotdot(m, i, dd), Wiring)
      BY <2>5, EdgeHelpersWire DEF FieldsTyped
    <3> QED BY <2>1, <2>8, <3>1, WiringKeeps
  <2> QED BY <1>0, <1>1, <2>7, <2>9 DEF Enters, r
<1> QED BY <1>1, <1>2, <1>3

\* A field of its own changes, and the call is recorded.
LEMMA FieldsThenRecord ==
  ASSUME NEW k, IsGraph(k), NEW m, NEW F, SameExcept(k, m, F), m.edges = k.edges,
         NEW A, A \subseteq GraphFields \ (F \cup {"prov_log"}), NEW op, NEW i
  PROVE  Leaves(k, record_prov(m, op, i), A, EdgeKinds)
<1>1. Leaves(k, m, A, EdgeKinds) /\ IsGraph(m)
  BY LeavesIf DEF SameExcept
<1>2. Leaves(m, record_prov(m, op, i), A, EdgeKinds)
  BY <1>1, RecordLeaves, LeavesFewer
<1> QED BY <1>1, <1>2, LeavesTrans

LEMMA ContentCallsLeave ==
  ASSUME NEW k, IsGraph(k), NEW i, NEW offset, NEW data, NEW n, NEW u, NEW v
  PROVE  /\ Beside(k, write_block(k, i))
         /\ Leaves(k, write_data(k, i, offset, data), Unlogged \ {"file_data"}, EdgeKinds)
         /\ Leaves(k, truncate(k, i, n), Unlogged \ {"file_data"}, EdgeKinds)
         /\ Leaves(k, chmod(k, i, u), Unlogged, EdgeKinds)
         /\ Leaves(k, chown(k, i, u, v), Unlogged, EdgeKinds)
<1>1. Beside(k, write_block(k, i))
  <2> DEFINE b == k.next_block
             e == k.next_edge
             P == insert_at(k.edges, e, OtherEdge("PointsTo", i, b), EDGE_CAPACITY)
             m == [k EXCEPT !.next_block = b + 1, !.next_edge = e + 1,
                            !.blocks = insert_at(@, b, 1, NODE_CAPACITY),
                            !.inode_points_to = IndexAdd(@, i, e)]
             h == write_block(k, i)
             F == {"next_block", "next_edge", "blocks", "inode_points_to", "edges",
                   "dir_name_idx"}
  <2>1. h = insert_edge(m, e, OtherEdge("PointsTo", i, b))
    BY DEF write_block
  <2>2. SameExcept(k, m, F) /\ m.edges = k.edges
    BY DEF SameExcept, IsGraph, GraphFields
  <2> HIDE DEF m, h
  <2>3. SameExcept(m, h, {"edges", "dir_name_idx"}) /\ h.edges = P
    BY <2>1, <2>2 DEF insert_edge, SameExcept, IsGraph, GraphFields
  <2>4. SameExcept(k, h, F)
    BY <2>2, <2>3 DEF SameExcept
  <2>5. \A c \in CarriedKinds :
          /\ {x \in DOMAIN P : P[x].kind = c} = EdgesOf(k, c)
          /\ \A x \in EdgesOf(k, c) : P[x] = k.edges[x]
    BY DEF insert_at, Put, OtherEdge, EdgesOf, CarriedKinds
  <2> HIDE DEF P
  <2>6. \A c \in CarriedKinds : SameEdges(k, h, c)
    BY <2>3, <2>5 DEF SameEdges, EdgesOf
  <2> QED BY <2>4, <2>6 DEF h, Beside, Leaves, SameExcept, Carried, GraphFields
<1>2. ASSUME NEW buf
      PROVE  Leaves(k, record_prov(SetBytes(k, i, buf), "Write", i),
                    Unlogged \ {"file_data"}, EdgeKinds)
             /\ Leaves(k, record_prov(SetBytes(k, i, buf), "Truncate", i),
                       Unlogged \ {"file_data"}, EdgeKinds)
  <2>1. /\ SameExcept(k, SetBytes(k, i, buf), {"file_data", "inodes"})
        /\ SetBytes(k, i, buf).edges = k.edges
    BY DEF SetBytes, SameExcept, IsGraph, GraphFields
  <2>2. Unlogged \ {"file_data"} \subseteq
          GraphFields \ ({"file_data", "inodes"} \cup {"prov_log"})
    BY DEF Unlogged, Carried, GraphFields
  <2> QED BY <2>1, <2>2, FieldsThenRecord
<1>3. ASSUME NEW h, \E x : h = [k EXCEPT !.inodes = x]
      PROVE  /\ Leaves(k, record_prov(h, "Chmod", i), Unlogged, EdgeKinds)
             /\ Leaves(k, record_prov(h, "Chown", i), Unlogged, EdgeKinds)
  <2>1. SameExcept(k, h, {"inodes"}) /\ h.edges = k.edges
    BY <1>3 DEF SameExcept, IsGraph, GraphFields
  <2>2. Unlogged \subseteq GraphFields \ ({"inodes"} \cup {"prov_log"})
    BY DEF Unlogged, Carried, GraphFields
  <2> QED BY <2>1, <2>2, FieldsThenRecord
<1>4. Leaves(k, chmod(k, i, u), Unlogged, EdgeKinds)
  <2>1. \E x : [k EXCEPT !.inodes[i].mode = u] = [k EXCEPT !.inodes = x]
    OBVIOUS
  <2> QED BY <1>3, <2>1 DEF chmod
<1>5. Leaves(k, chown(k, i, u, v), Unlogged, EdgeKinds)
  <2>1. \E x : [k EXCEPT !.inodes[i].uid = u, !.inodes[i].gid = v] =
                 [k EXCEPT !.inodes = x]
    <3>1. IsGraph([k EXCEPT !.inodes[i].uid = u, !.inodes[i].gid = v])
      BY DEF IsGraph, GraphFields
    <3>2. [k EXCEPT !.inodes[i].uid = u, !.inodes[i].gid = v] =
            [k EXCEPT !.inodes = [k EXCEPT !.inodes[i].uid = u, !.inodes[i].gid = v].inodes]
      BY DEF IsGraph, GraphFields
    <3> QED BY <3>2
  <2> QED BY <1>3, <2>1 DEF chown
<1> QED BY <1>1, <1>2, <1>4, <1>5 DEF write_data, truncate

Attributes == {"xattrs", "inode_xattrs", "next_xattr"}
Permissions == {"caps", "cap_grants", "acls", "next_cap"}

LEMMA XattrCallsLeave ==
  ASSUME NEW k, Sound(k), NEW i, NEW key, NEW value
  PROVE  /\ Leaves(k, setxattr(k, i, key, value), Silent \ Attributes, {"Grants", "PointsTo"})
         /\ Leaves(k, removexattr(k, i, key), Silent \ Attributes, {"Grants", "PointsTo"})
<1> DEFINE A == Silent \ Attributes
           K == {"Grants", "PointsTo"}
<1>0. /\ IsGraph(k) /\ K \subseteq EdgeKinds /\ "HasXattr" \notin K
      /\ A \subseteq GraphFields \ (Attributes \cup {"prov_log", "edges", "dir_name_idx",
                                                  "next_edge"})
  BY SoundGraph DEF Silent, SteadyFields, Blocked, Attributes, Carried, GraphFields, EdgeKinds
<1> HIDE DEF A, K
<1>1. Leaves(k, new_xattr(k, i, key, value), A, K)
  <2> DEFINE x == k.next_xattr
             e == k.next_edge
             P == insert_at(k.edges, e, OtherEdge("HasXattr", i, x), EDGE_CAPACITY)
             m == [k EXCEPT !.next_xattr = x + 1, !.next_edge = e + 1,
                            !.xattrs = Put(@, x, [key |-> key, value |-> value]),
                            !.inode_xattrs = IndexAdd(@, i, x)]
             n == insert_edge(m, e, OtherEdge("HasXattr", i, x))
             F == Attributes \cup {"next_edge", "edges", "dir_name_idx"}
  <2>1. new_xattr(k, i, key, value) = record_prov(n, "Setxattr", i)
    BY DEF new_xattr
  <2>2. SameExcept(k, m, F) /\ m.edges = k.edges
    BY <1>0 DEF SameExcept, IsGraph, GraphFields, Attributes
  <2> HIDE DEF m
  <2>3. SameExcept(m, n, {"edges", "dir_name_idx"}) /\ n.edges = P
    BY <2>2 DEF insert_edge, SameExcept, IsGraph, GraphFields
  <2> HIDE DEF n
  <2>4. \A f \in A : n[f] = k[f]
    BY <1>0, <2>2, <2>3 DEF SameExcept
  <2>5. \A c \in K : /\ {z \in DOMAIN P : P[z].kind = c} = EdgesOf(k, c)
                     /\ \A z \in EdgesOf(k, c) : P[z] = k.edges[z]
    BY <1>0 DEF insert_at, Put, OtherEdge, EdgesOf
  <2> HIDE DEF P
  <2>6. \A c \in K : SameEdges(k, n, c)
    BY <2>3, <2>5 DEF SameEdges, EdgesOf
  <2>7. Leaves(k, n, A, K) /\ IsGraph(n)
    BY <2>3, <2>4, <2>6 DEF Leaves, SameExcept
  <2>8. Leaves(n, record_prov(n, "Setxattr", i), A, K)
    BY <1>0, <2>7, RecordLeaves, LeavesFewer
  <2> QED BY <2>1, <2>7, <2>8, LeavesTrans
<1>2. Leaves(k, setxattr(k, i, key, value), A, K)
  <2>1. \/ setxattr(k, i, key, value) = new_xattr(k, i, key, value)
        \/ \E x : setxattr(k, i, key, value) = [k EXCEPT !.xattrs = x]
    BY DEF setxattr
  <2>2. ASSUME NEW h, \E x : h = [k EXCEPT !.xattrs = x]
        PROVE  Leaves(k, h, A, K)
    <3>1. SameExcept(k, h, Attributes) /\ h.edges = k.edges
      BY <1>0, <2>2 DEF SameExcept, IsGraph, GraphFields, Attributes
    <3> QED BY <1>0, <3>1, LeavesIf
  <2> QED BY <1>1, <2>1, <2>2
<1>3. Leaves(k, removexattr(k, i, key), A, K)
  <2> DEFINE x == First(xattrs_with_key(k, i, key))
             E == {e \in DOMAIN k.edges : k.edges[e] = OtherEdge("HasXattr", i, x)}
             m == [k EXCEPT !.xattrs = Del(@, {x}), !.inode_xattrs[i] = @ \ {x}]
             n == IF E = {} THEN m ELSE remove_edge(m, {First(E)})
  <2>1. removexattr(k, i, key) = record_prov(n, "Removexattr", i)
    BY DEF removexattr
  <2>2. SameExcept(k, m, Attributes) /\ m.edges = k.edges
    BY <1>0 DEF SameExcept, IsGraph, GraphFields, Attributes
  <2>3. E # {} => First(E) \in E
    <3>1. E \subseteq Nat
      BY SoundGraph, EdgeIdsAreNat
    <3> HIDE DEF E
    <3> QED BY <3>1, FirstIn
  <2>4. E # {} => First(E) \in DOMAIN k.edges /\ k.edges[First(E)].kind = "HasXattr"
    BY <2>3 DEF OtherEdge
  <2> HIDE DEF m, E
  <2>5. Leaves(k, m, A, K) /\ IsGraph(m)
    BY <1>0, <2>2, LeavesIf DEF SameExcept
  <2>6. Leaves(m, n, A, K) /\ IsGraph(n)
    <3>1. CASE E = {}
      BY <2>5, <3>1 DEF Leaves, SameEdges
    <3>2. CASE E # {}
      <4>1. SameExcept(m, n, {"edges", "dir_name_idx"}) /\ n.edges = Del(m.edges, {First(E)})
        BY <2>5, <3>2 DEF remove_edge, SameExcept, IsGraph, GraphFields
      <4>2. \A c \in K : \A e \in {First(E)} : e \in DOMAIN m.edges => m.edges[e].kind # c
        BY <1>0, <2>2, <2>4, <3>2
      <4> HIDE DEF n
      <4>3. \A c \in K : SameEdges(m, n, c)
        BY <2>5, <4>1, <4>2, RemoveEdgesLeaves
      <4>4. \A f \in A : n[f] = m[f]
        BY <1>0, <4>1 DEF SameExcept
      <4> QED BY <4>1, <4>3, <4>4 DEF Leaves, SameExcept
    <3> QED BY <3>1, <3>2
  <2> HIDE DEF n
  <2>7. Leaves(n, record_prov(n, "Removexattr", i), A, K)
    BY <1>0, <2>6, RecordLeaves, LeavesFewer
  <2> QED BY <2>1, <2>5, <2>6, <2>7, LeavesTrans
<1> QED BY <1>2, <1>3 DEF A, K

\* The graph between the purge and the new grants, and after both.
Purged(k, i, acl) == [purge_grants(k, i) EXCEPT !.acls = Put(@, i, acl)]

GrantsTo(k, i) ==
  {e \in DOMAIN k.edges : k.edges[e].kind = "Grants" /\ k.edges[e].tgt = i}
Grantees(k, i) == {k.edges[e].src : e \in GrantsTo(k, i)}

LEMMA PurgeLeaves ==
  ASSUME NEW k, IsGraph(k), NEW i, NEW acl, NEW m, m = Purged(k, i, acl)
  PROVE  /\ SameExcept(k, m, {"edges", "dir_name_idx", "cap_grants", "caps", "acls"})
         /\ m.edges = Del(k.edges, GrantsTo(k, i))
         /\ m.cap_grants = Del(k.cap_grants, Grantees(k, i))
         /\ m.caps = Del(k.caps, Grantees(k, i)) /\ m.acls = Put(k.acls, i, acl)
<1> DEFINE E == GrantsTo(k, i)
           C == Grantees(k, i)
           r == remove_edge(k, E)
           p == [r EXCEPT !.cap_grants = Del(@, C), !.caps = Del(@, C)]
<1>1. p = purge_grants(k, i)
  BY DEF purge_grants, GrantsTo, Grantees
<1>2. SameExcept(k, r, {"edges", "dir_name_idx"}) /\ r.edges = Del(k.edges, E)
  BY DEF remove_edge, SameExcept, IsGraph, GraphFields
<1>3. r.cap_grants = k.cap_grants /\ r.caps = k.caps /\ r.acls = k.acls /\ IsGraph(r)
  BY <1>2 DEF SameExcept, GraphFields
<1> HIDE DEF r, E, C
<1>4. /\ SameExcept(r, p, {"cap_grants", "caps"}) /\ p.edges = r.edges
      /\ p.cap_grants = Del(r.cap_grants, C) /\ p.caps = Del(r.caps, C) /\ p.acls = r.acls
  BY <1>3 DEF SameExcept, IsGraph, GraphFields
<1> HIDE DEF p
<1>5. m = [p EXCEPT !.acls = Put(p.acls, i, acl)]
  BY <1>1 DEF Purged
<1>6. SameExcept(p, m, {"acls"}) /\ m.acls = Put(p.acls, i, acl) /\ m.edges = p.edges
      /\ m.cap_grants = p.cap_grants /\ m.caps = p.caps
  BY <1>4, <1>5 DEF SameExcept, IsGraph, GraphFields
<1>7. SameExcept(k, m, {"edges", "dir_name_idx", "cap_grants", "caps", "acls"})
  BY <1>2, <1>4, <1>6 DEF SameExcept
<1> QED BY <1>2, <1>3, <1>4, <1>6, <1>7 DEF E, C

LEMMA SetaclLeaves ==
  ASSUME NEW k, Sound(k), NEW i, NEW acl
  PROVE  Leaves(k, setacl(k, i, acl), Silent \ Permissions, {"HasXattr", "PointsTo"})
<1> DEFINE A == Silent \ Permissions
           K == {"HasXattr", "PointsTo"}
           F == {"edges", "dir_name_idx", "cap_grants", "caps", "acls", "next_cap", "next_edge"}
           m == Purged(k, i, acl)
           n == grant_all(m, i, acl)
<1>1. setacl(k, i, acl) = record_prov(n, "SetAcl", i)
  BY DEF setacl, Purged
<1>2. /\ IsGraph(k) /\ A \subseteq GraphFields \ F
      /\ A \subseteq GraphFields \ {"prov_log"}
      /\ K \subseteq EdgeKinds /\ "Grants" \notin K /\ FieldsTyped(k) /\ IdsIssued(k)
  BY SoundGraph DEF Silent, SteadyFields, Blocked, Permissions, Carried, GraphFields, EdgeKinds
<1> HIDE DEF A, K
<1> DEFINE D == GrantsTo(k, i)
<1>3. SameExcept(k, m, F) /\ m.edges = Del(k.edges, D) /\ m.next_edge = k.next_edge
  <2>1. /\ SameExcept(k, m, {"edges", "dir_name_idx", "cap_grants", "caps", "acls"})
        /\ m.edges = Del(k.edges, D)
    BY <1>2, PurgeLeaves
  <2> QED BY <2>1 DEF SameExcept, GraphFields
<1> HIDE DEF m
<1>4. \A c \in K : SameEdges(k, m, c)
  <2>1. \A c \in K : \A e \in D : e \in DOMAIN k.edges => k.edges[e].kind # c
    BY <1>2 DEF GrantsTo
  <2> HIDE DEF D
  <2> QED BY <1>2, <1>3, <2>1, RemoveEdgesLeaves
<1>5. SameExcept(m, n, F) /\ \A a \in K : SameEdges(m, n, a)
  <2> DEFINE c == m.next_cap
             e == m.next_edge
             N == Cardinality(granted(acl))
             news == {x \in e .. e + N - 1 : x < EDGE_CAPACITY}
             P == [x \in DOMAIN m.edges \cup news |->
                     IF x \in news THEN OtherEdge("Grants", c + x - e, i) ELSE m.edges[x]]
  <2>1. \E y, z, v, w : n = [m EXCEPT !.next_cap = v, !.next_edge = w, !.caps = y,
                                      !.edges = P, !.cap_grants = z]
    BY DEF grant_all
  <2>2. news \cap DOMAIN m.edges = {}
    <3>1. e \in Nat /\ DOMAIN m.edges \subseteq DOMAIN k.edges /\ e = k.next_edge
      BY <1>3, SoundGraph DEF Del
    <3>2. \A x \in news : x \in Nat /\ x >= k.next_edge
      BY <3>1
    <3> HIDE DEF news, e
    <3> QED BY <3>1, <3>2, SoundGraph
  <2> HIDE DEF news
  <2>3. \A a \in K : /\ {x \in DOMAIN P : P[x].kind = a} = EdgesOf(m, a)
                     /\ \A x \in EdgesOf(m, a) : P[x] = m.edges[x]
    BY <1>2, <2>2 DEF OtherEdge, EdgesOf
  <2> HIDE DEF P, n
  <2>4. SameExcept(m, n, F) /\ n.edges = P
    BY <1>3, <2>1 DEF SameExcept, IsGraph, GraphFields
  <2> QED BY <2>3, <2>4 DEF SameEdges, EdgesOf
<1> HIDE DEF n
<1>6. Leaves(k, n, A, K) /\ IsGraph(n)
  <2>1. \A f \in A : n[f] = k[f]
    BY <1>2, <1>3, <1>5 DEF SameExcept
  <2> QED BY <1>4, <1>5, <2>1 DEF Leaves, SameEdges, SameExcept
<1>7. Leaves(n, record_prov(n, "SetAcl", i), A, K)
  BY <1>2, <1>6, RecordLeaves, LeavesFewer
<1> QED BY <1>1, <1>6, <1>7, LeavesTrans DEF A, K

-----------------------------------------------------------------------------
(***************************************************************************)
(* Any step: who changes what.                                             *)
(***************************************************************************)
WhoChangesWhat ==
  /\ Setxattr \/ Removexattr \/ Leaves(g, g', Attributes, {"HasXattr"})
  /\ Setacl \/ Leaves(g, g', Permissions, {"Grants"})
  /\ WriteData \/ Truncate \/ Leaves(g, g', {"file_data"}, {})
  /\ Symlink \/ Leaves(g, g', {"symlink_targets"}, {})
  /\ SetCapCtx \/ Leaves(g, g', {"cap_ctx"}, {})

LEMMA LeavesAll ==
  ASSUME NEW k, NEW h, Leaves(k, h, Unlogged, CarriedKinds)
  PROVE  /\ Leaves(k, h, Attributes, {"HasXattr"})
         /\ Leaves(k, h, Permissions, {"Grants"})
         /\ Leaves(k, h, {"file_data"}, {}) /\ Leaves(k, h, {"symlink_targets"}, {})
         /\ Leaves(k, h, {"cap_ctx"}, {})
BY DEF Leaves, Unlogged, Carried, Attributes, Permissions, CarriedKinds

LEMMA NextLeaves ==
  ASSUME PoolsHaveRoom, SoundState, Next
  PROVE  WhoChangesWhat
<1>1. Sound(g) /\ IsGraph(g) /\ FieldsTyped(g) /\ DirHandles = DOMAIN g.dirs
  BY SoundGraph DEF SoundState, PoolsHaveRoom, DirHandles
<1>2. CASE Leaves(g, g', Unlogged, CarriedKinds)
  BY <1>2, LeavesAll DEF WhoChangesWhat
<1>3. CASE \E op, i : Enters(g, g', op, i)
  BY <1>2, <1>3, EntersLeaves
<1>4. CASE CreateFile \/ Mkdir \/ Rmdir \/ Link \/ Unlink
  <2>1. \E d, n, m, u, i : \/ g' = create_file(g, d, n, m, u)
                           \/ g' = mkdir(g, d, n, m, u)
                           \/ g' = rmdir(g, d, n)
                           \/ g' = link(g, d, n, i)
                           \/ g' = unlink(g, d, n) /\ unlink_ok(g, d, n)
    BY <1>4 DEF CreateFile, Mkdir, Rmdir, Link, Unlink, Step
  <2> QED BY <1>1, <1>3, <2>1, EntryCallsEnter
<1>5. CASE Symlink
  <2>1. PICK d, n, t, u : g' = symlink(g, d, n, t, u)
    BY <1>5 DEF Symlink, Step
  <2>2. PICK m : /\ Leaves(g, m, Carried \ {"symlink_targets"}, CarriedKinds)
                 /\ g' = record_prov(m, "Symlink", g.next_inode)
    BY <1>1, <2>1, SymlinkLeaves
  <2> DEFINE A == Unlogged \ {"symlink_targets"}
  <2>3. Leaves(g, m, A, CarriedKinds) /\ IsGraph(m)
    BY <2>2 DEF Leaves, Unlogged
  <2>4. Leaves(m, g', A, CarriedKinds)
    BY <2>2, <2>3, RecordLeaves, LeavesFewer
  <2>5. Leaves(g, g', A, CarriedKinds)
    BY <2>3, <2>4, LeavesTrans
  <2> QED BY <1>5, <2>5 DEF WhoChangesWhat, Leaves, Unlogged, Carried, Attributes,
                             Permissions, CarriedKinds
<1>6. CASE Rename
  <2>1. PICK sd \in DOMAIN g.dirs, dd \in DOMAIN g.dirs,
             src \in AllNames, dst \in AllNames :
          g' = rename(g, sd, src, dd, dst).graph
    BY <1>1, <1>6 DEF Rename, Step
  <2>2. \/ g' = g
        \/ \E r, j : /\ r = g \/ r = replace_destination(g, dd, dst).graph
                     /\ Enters(r, g', "Rename", j)
    BY <1>1, <2>1, RenameEnters
  <2>3. ASSUME NEW r, r = g \/ r = replace_destination(g, dd, dst).graph
        PROVE  Leaves(g, r, Unlogged, CarriedKinds)
    <3>1. r = g \/ \E op, i : Enters(g, r, op, i)
      BY <1>1, <2>3, ReplaceEnters
    <3> QED BY <1>1, <3>1, EntersLeaves DEF Leaves, SameEdges
  <2>4. Leaves(g, g', Unlogged, CarriedKinds)
    BY <2>2, <2>3, EntersLeaves, LeavesTrans
  <2> QED BY <1>2, <2>4
<1>7. CASE WriteBlock \/ Chmod \/ Chown
  <2>1. \E i, u, v : \/ g' = write_block(g, i)
                     \/ g' = chmod(g, i, u)
                     \/ g' = chown(g, i, u, v)
    BY <1>7 DEF WriteBlock, Chmod, Chown, Step
  <2>2. \/ Beside(g, g')
        \/ Leaves(g, g', Unlogged, EdgeKinds)
    BY <1>1, <2>1, ContentCallsLeave
  <2>3. Leaves(g, g', Unlogged, CarriedKinds)
    BY <2>2 DEF Beside, Leaves, Unlogged, CarriedKinds, EdgeKinds
  <2> QED BY <1>2, <2>3
<1>8. CASE WriteData \/ Truncate
  <2>1. \E i, o, w, n : g' = write_data(g, i, o, w) \/ g' = truncate(g, i, n)
    BY <1>8 DEF WriteData, Truncate, Step
  <2>2. Leaves(g, g', Unlogged \ {"file_data"}, EdgeKinds)
    BY <1>1, <2>1, ContentCallsLeave
  <2> QED BY <1>8, <2>2 DEF WhoChangesWhat, Leaves, Unlogged, Carried, Attributes,
                             Permissions, EdgeKinds
<1>9. CASE Setxattr \/ Removexattr
  <2>1. \E i, k, v : g' = setxattr(g, i, k, v) \/ g' = removexattr(g, i, k)
    BY <1>9 DEF Setxattr, Removexattr, Step
  <2>2. Leaves(g, g', Silent \ Attributes, {"Grants", "PointsTo"})
    BY <1>1, <2>1, XattrCallsLeave
  <2> QED BY <1>9, <2>2 DEF WhoChangesWhat, Leaves, Silent, SteadyFields, Carried,
                             Attributes, Permissions
<1>10. CASE Setacl
  <2>1. \E i, acl : g' = setacl(g, i, acl)
    BY <1>10 DEF Setacl, Step
  <2>2. Leaves(g, g', Silent \ Permissions, {"HasXattr", "PointsTo"})
    BY <1>1, <2>1, SetaclLeaves
  <2> QED BY <1>10, <2>2 DEF WhoChangesWhat, Leaves, Silent, SteadyFields, Carried,
                              Attributes, Permissions
<1>11. CASE SetQuota
  <2>1. \E x : g' = [g EXCEPT !.quotas = x]
    BY <1>11 DEF SetQuota, Step, set_quota
  <2>2. SameExcept(g, g', {"quotas"}) /\ g'.edges = g.edges
    BY <1>1, <2>1 DEF SameExcept, IsGraph, GraphFields
  <2>3. Unlogged \subseteq GraphFields \ {"quotas"}
    BY DEF Unlogged, Carried, GraphFields
  <2> QED BY <1>2, <2>2, <2>3, LeavesIf
<1>12. CASE SetCapCtx
  <2>1. \E x : g' = [g EXCEPT !.cap_ctx = x]
    BY <1>12 DEF SetCapCtx, Step
  <2>2. SameExcept(g, g', {"cap_ctx"}) /\ g'.edges = g.edges
    BY <1>1, <2>1 DEF SameExcept, IsGraph, GraphFields
  <2>3. Unlogged \ {"cap_ctx"} \subseteq GraphFields \ {"cap_ctx"}
    BY DEF Unlogged, Carried, GraphFields
  <2>4. Leaves(g, g', Unlogged \ {"cap_ctx"}, CarriedKinds)
    BY <2>2, <2>3, LeavesIf
  <2> QED BY <1>12, <2>4 DEF WhoChangesWhat, Leaves, Unlogged, Carried, Attributes,
                              Permissions, CarriedKinds
<1> QED BY <1>4, <1>5, <1>6, <1>7, <1>8, <1>9, <1>10, <1>11, <1>12 DEF Next

-----------------------------------------------------------------------------
(***************************************************************************)
(* Extended attributes.                                                    *)
(***************************************************************************)

\* The inductive invariant: the attributes are typed and their ids issued, the
\* sets of inode_xattrs part them among their owners, and the HasXattr edges
\* are the pairs of an owner and one of its attributes.
XattrsExact(k) ==
  /\ k.xattrs \in [DOMAIN k.xattrs -> [key : XattrKeys, value : Values]]
  /\ DOMAIN k.xattrs \subseteq 1 .. k.next_xattr - 1
  /\ \A i \in DOMAIN k.inode_xattrs : k.inode_xattrs[i] \subseteq DOMAIN k.xattrs
  /\ \A x \in DOMAIN k.xattrs : \E i \in DOMAIN k.inode_xattrs : x \in k.inode_xattrs[i]
  /\ \A i, j \in DOMAIN k.inode_xattrs : \A x \in k.inode_xattrs[i] :
       x \in k.inode_xattrs[j] => i = j
  /\ \A i \in DOMAIN k.inode_xattrs : \A x \in k.inode_xattrs[i] :
       \E e \in EdgesOf(k, "HasXattr") : k.edges[e] = OtherEdge("HasXattr", i, x)
  /\ \A e \in EdgesOf(k, "HasXattr") :
       /\ k.edges[e].src \in DOMAIN k.inode_xattrs
       /\ k.edges[e].tgt \in k.inode_xattrs[k.edges[e].src]
  /\ \A e, f \in EdgesOf(k, "HasXattr") : k.edges[e].tgt = k.edges[f].tgt => e = f
  /\ \A i \in DOMAIN k.inode_xattrs : \A x, y \in k.inode_xattrs[i] :
       k.xattrs[x].key = k.xattrs[y].key => x = y

LEMMA XattrsExactSame ==
  ASSUME NEW k, XattrsExact(k), NEW h, Leaves(k, h, Attributes, {"HasXattr"})
  PROVE  XattrsExact(h)
<1>1. /\ h.xattrs = k.xattrs /\ h.inode_xattrs = k.inode_xattrs
      /\ h.next_xattr = k.next_xattr
      /\ EdgesOf(h, "HasXattr") = EdgesOf(k, "HasXattr")
      /\ \A e \in EdgesOf(k, "HasXattr") : h.edges[e] = k.edges[e]
  BY DEF Leaves, Attributes, SameEdges
<1> QED BY <1>1 DEF XattrsExact

LEMMA RecordXattrsExact ==
  ASSUME NEW k, IsGraph(k), XattrsExact(k), NEW op, NEW i
  PROVE  XattrsExact(record_prov(k, op, i))
<1>1. Leaves(k, record_prov(k, op, i), Attributes, {"HasXattr"})
  BY RecordLeaves DEF Leaves, Attributes, Unlogged, Carried, CarriedKinds
<1> QED BY <1>1, XattrsExactSame

LEMMA NewXattrTakes ==
  ASSUME NEW k, IsGraph(k), NEW i, NEW key, NEW value
  PROVE  new_xattr(k, i, key, value).next_edge = k.next_edge + 1
<1> DEFINE m == [k EXCEPT !.next_xattr = k.next_xattr + 1, !.next_edge = k.next_edge + 1,
                          !.xattrs = Put(@, k.next_xattr, [key |-> key, value |-> value]),
                          !.inode_xattrs = IndexAdd(@, i, k.next_xattr)]
           n == insert_edge(m, k.next_edge, OtherEdge("HasXattr", i, k.next_xattr))
<1>1. new_xattr(k, i, key, value) = record_prov(n, "Setxattr", i)
  BY DEF new_xattr
<1>2. IsGraph(m) /\ m.next_edge = k.next_edge + 1
  BY DEF IsGraph, GraphFields
<1> HIDE DEF m
<1>3. IsGraph(n) /\ n.next_edge = k.next_edge + 1
  BY <1>2 DEF insert_edge, IsGraph, GraphFields
<1> HIDE DEF n
<1>4. record_prov(n, "Setxattr", i).next_edge = n.next_edge
  BY <1>3, HelpersTakeNothing DEF TakesNothing, SameIds
<1> QED BY <1>1, <1>3, <1>4

LEMMA NewXattrExact ==
  ASSUME NEW k, Sound(k), XattrsExact(k), NEW i, NEW key \in XattrKeys,
         NEW value \in Values, xattrs_with_key(k, i, key) = {},
         k.next_edge < EDGE_CAPACITY
  PROVE  XattrsExact(new_xattr(k, i, key, value))
<1> DEFINE x == k.next_xattr
           e == k.next_edge
           v == [key |-> key, value |-> value]
           m == [k EXCEPT !.next_xattr = x + 1, !.next_edge = e + 1,
                          !.xattrs = Put(@, x, v),
                          !.inode_xattrs = IndexAdd(@, i, x)]
           n == insert_edge(m, e, OtherEdge("HasXattr", i, x))
<1>1. new_xattr(k, i, key, value) = record_prov(n, "Setxattr", i)
  BY DEF new_xattr
<1>2. IsGraph(k) /\ x \in Nat \ {0} /\ e \notin DOMAIN k.edges
  BY SoundGraph DEF FieldsTyped, Ids
<1>3. /\ IsGraph(m) /\ m.edges = k.edges /\ m.next_xattr = x + 1
      /\ m.xattrs = Put(k.xattrs, x, v) /\ m.inode_xattrs = IndexAdd(k.inode_xattrs, i, x)
  BY <1>2 DEF IsGraph, GraphFields
<1> HIDE DEF m
<1>4. /\ IsGraph(n) /\ n.edges = Put(k.edges, e, OtherEdge("HasXattr", i, x))
      /\ n.next_xattr = x + 1 /\ n.xattrs = Put(k.xattrs, x, v)
      /\ n.inode_xattrs = IndexAdd(k.inode_xattrs, i, x)
  BY <1>2, <1>3 DEF insert_edge, insert_at, IsGraph, GraphFields
<1> HIDE DEF n
<1>5. x \notin DOMAIN k.xattrs
  BY <1>2 DEF XattrsExact
<1>6. /\ DOMAIN n.xattrs = DOMAIN k.xattrs \cup {x} /\ n.xattrs[x] = v
      /\ \A y \in DOMAIN k.xattrs : n.xattrs[y] = k.xattrs[y]
  BY <1>4, <1>5 DEF Put
<1>7. /\ DOMAIN n.inode_xattrs = DOMAIN k.inode_xattrs \cup {i}
      /\ n.inode_xattrs[i] = SetAt(k.inode_xattrs, i) \cup {x}
      /\ \A j \in DOMAIN k.inode_xattrs \ {i} : n.inode_xattrs[j] = k.inode_xattrs[j]
  BY <1>4 DEF IndexAdd, Put
<1>8. /\ EdgesOf(n, "HasXattr") = EdgesOf(k, "HasXattr") \cup {e}
      /\ n.edges[e] = OtherEdge("HasXattr", i, x) /\ e \notin EdgesOf(k, "HasXattr")
      /\ \A f \in EdgesOf(k, "HasXattr") : n.edges[f] = k.edges[f]
  BY <1>2, <1>4 DEF Put, EdgesOf, OtherEdge
<1>9. n.edges[e].src = i /\ n.edges[e].tgt = x
  BY <1>8 DEF OtherEdge
<1>10. /\ \A y \in SetAt(k.inode_xattrs, i) :
            i \in DOMAIN k.inode_xattrs /\ y \in k.inode_xattrs[i] /\ y # x
                /\ k.xattrs[y].key # key
       /\ i \in DOMAIN k.inode_xattrs => SetAt(k.inode_xattrs, i) = k.inode_xattrs[i]
  BY <1>5 DEF SetAt, XattrsExact, xattrs_with_key
<1>11. /\ n.xattrs \in [DOMAIN n.xattrs -> [key : XattrKeys, value : Values]]
       /\ DOMAIN n.xattrs \subseteq 1 .. n.next_xattr - 1
  <2>1. v \in [key : XattrKeys, value : Values]
    OBVIOUS
  <2> HIDE DEF v
  <2>2. n.xattrs \in [DOMAIN n.xattrs -> [key : XattrKeys, value : Values]]
    BY <1>4, <1>6, <2>1 DEF XattrsExact, Put
  <2> QED BY <1>2, <1>4, <1>6, <2>2 DEF XattrsExact
<1>12. \A j \in DOMAIN n.inode_xattrs : \A y \in n.inode_xattrs[j] :
         \/ y = x /\ j = i
         \/ j \in DOMAIN k.inode_xattrs /\ y \in k.inode_xattrs[j] /\ y # x
  BY <1>5, <1>7, <1>10 DEF XattrsExact
<1>13. \A j \in DOMAIN k.inode_xattrs : \A y \in k.inode_xattrs[j] :
         j \in DOMAIN n.inode_xattrs /\ y \in n.inode_xattrs[j]
  BY <1>7, <1>10
<1>14. /\ \A j \in DOMAIN n.inode_xattrs : n.inode_xattrs[j] \subseteq DOMAIN n.xattrs
       /\ \A y \in DOMAIN n.xattrs : \E j \in DOMAIN n.inode_xattrs : y \in n.inode_xattrs[j]
       /\ \A j, l \in DOMAIN n.inode_xattrs : \A y \in n.inode_xattrs[j] :
            y \in n.inode_xattrs[l] => j = l
  <2>1. \A j \in DOMAIN n.inode_xattrs : n.inode_xattrs[j] \subseteq DOMAIN n.xattrs
    BY <1>6, <1>12 DEF XattrsExact
  <2>2. \A y \in DOMAIN n.xattrs : \E j \in DOMAIN n.inode_xattrs : y \in n.inode_xattrs[j]
    BY <1>6, <1>7, <1>13 DEF XattrsExact
  <2>3. \A j, l \in DOMAIN n.inode_xattrs : \A y \in n.inode_xattrs[j] :
          y \in n.inode_xattrs[l] => j = l
    BY <1>12 DEF XattrsExact
  <2> QED BY <2>1, <2>2, <2>3
<1>15. \A j \in DOMAIN n.inode_xattrs : \A y \in n.inode_xattrs[j] :
         \E f \in EdgesOf(n, "HasXattr") : n.edges[f] = OtherEdge("HasXattr", j, y)
  BY <1>8, <1>12 DEF XattrsExact
<1>16. \A f \in EdgesOf(n, "HasXattr") :
         /\ n.edges[f].src \in DOMAIN n.inode_xattrs
         /\ n.edges[f].tgt \in n.inode_xattrs[n.edges[f].src]
  BY <1>7, <1>8, <1>9, <1>13 DEF XattrsExact
<1>17. \A f, f2 \in EdgesOf(n, "HasXattr") : n.edges[f].tgt = n.edges[f2].tgt => f = f2
  <2>1. \A f \in EdgesOf(k, "HasXattr") : k.edges[f].tgt # x
    BY <1>5 DEF XattrsExact
  <2> QED BY <1>8, <1>9, <2>1 DEF XattrsExact
<1>18. \A j \in DOMAIN n.inode_xattrs : \A y, z \in n.inode_xattrs[j] :
         n.xattrs[y].key = n.xattrs[z].key => y = z
  <2>1. n.xattrs[x].key = key
    BY <1>6
  <2>2. \A j \in DOMAIN k.inode_xattrs : \A y \in k.inode_xattrs[j] :
          /\ n.xattrs[y] = k.xattrs[y]
          /\ j = i => k.xattrs[y].key # key
    BY <1>6, <1>10 DEF XattrsExact
  <2> QED BY <1>12, <2>1, <2>2 DEF XattrsExact
<1>19. XattrsExact(n)
  BY <1>11, <1>14, <1>15, <1>16, <1>17, <1>18 DEF XattrsExact
<1> QED BY <1>1, <1>4, <1>19, RecordXattrsExact

LEMMA XattrIds ==
  ASSUME NEW k, Sound(k), XattrsExact(k), NEW i, NEW key
  PROVE  /\ xattrs_with_key(k, i, key) \subseteq Nat
         /\ \A x \in xattrs_with_key(k, i, key) :
              /\ i \in DOMAIN k.inode_xattrs /\ x \in k.inode_xattrs[i]
              /\ x \in DOMAIN k.xattrs /\ k.xattrs[x].key = key
<1>1. k.next_xattr \in Nat
  BY SoundGraph DEF FieldsTyped, Ids
<1> QED BY <1>1 DEF XattrsExact, xattrs_with_key, SetAt

LEMMA SetxattrExact ==
  ASSUME NEW k, Sound(k), XattrsExact(k), NEW i, NEW key \in XattrKeys,
         NEW value \in Values,
         xattrs_with_key(k, i, key) = {} => k.next_edge < EDGE_CAPACITY
  PROVE  XattrsExact(setxattr(k, i, key, value))
<1> DEFINE old == xattrs_with_key(k, i, key)
           x == First(old)
           P == [k.xattrs EXCEPT ![x].value = value]
           h == setxattr(k, i, key, value)
<1>1. CASE old = {}
  BY <1>1, NewXattrExact DEF setxattr
<1>2. CASE old # {}
  <2>1. h = [k EXCEPT !.xattrs = P]
    BY <1>2 DEF setxattr
  <2>2. x \in DOMAIN k.xattrs
    <3>1. old \subseteq Nat /\ \A y \in old : y \in DOMAIN k.xattrs
      BY XattrIds
    <3> HIDE DEF old
    <3> QED BY <1>2, <3>1, FirstIn
  <2> HIDE DEF x, h
  <2>3. /\ P \in [DOMAIN P -> [key : XattrKeys, value : Values]]
        /\ DOMAIN P = DOMAIN k.xattrs
        /\ \A y \in DOMAIN k.xattrs : P[y].key = k.xattrs[y].key
    <3>1. \A y \in DOMAIN k.xattrs : k.xattrs[y] \in [key : XattrKeys, value : Values]
      BY DEF XattrsExact
    <3>2. /\ [k.xattrs[x] EXCEPT !.value = value] \in [key : XattrKeys, value : Values]
          /\ [k.xattrs[x] EXCEPT !.value = value].key = k.xattrs[x].key
      BY <2>2, <3>1
    <3> QED BY <2>2, <3>1, <3>2
  <2> HIDE DEF P
  <2>4. /\ h.xattrs = P /\ h.inode_xattrs = k.inode_xattrs
        /\ h.next_xattr = k.next_xattr /\ h.edges = k.edges
    BY <2>1, SoundGraph DEF IsGraph, GraphFields
  <2>5. EdgesOf(h, "HasXattr") = EdgesOf(k, "HasXattr")
    BY <2>4 DEF EdgesOf
  <2>6. XattrsExact(h)
    BY <2>3, <2>4, <2>5 DEF XattrsExact
  <2> QED BY <2>6 DEF h
<1> QED BY <1>1, <1>2

\* An attribute x of inode i goes with its edge e.
LEMMA XattrGone ==
  ASSUME NEW k, XattrsExact(k), NEW i \in DOMAIN k.inode_xattrs,
         NEW x \in k.inode_xattrs[i],
         NEW e \in EdgesOf(k, "HasXattr"), k.edges[e] = OtherEdge("HasXattr", i, x),
         NEW n, n.xattrs = Del(k.xattrs, {x}), n.next_xattr = k.next_xattr,
         DOMAIN n.inode_xattrs = DOMAIN k.inode_xattrs,
         \A j \in DOMAIN k.inode_xattrs : n.inode_xattrs[j] = k.inode_xattrs[j] \ {x},
         n.edges = Del(k.edges, {e})
  PROVE  XattrsExact(n)
<1>1. /\ DOMAIN n.xattrs = DOMAIN k.xattrs \ {x}
      /\ \A y \in DOMAIN k.xattrs \ {x} : n.xattrs[y] = k.xattrs[y]
  BY DEF Del
<1>2. /\ DOMAIN n.inode_xattrs = DOMAIN k.inode_xattrs
      /\ \A j \in DOMAIN k.inode_xattrs : n.inode_xattrs[j] = k.inode_xattrs[j] \ {x}
  OBVIOUS
<1>3. /\ EdgesOf(n, "HasXattr") = EdgesOf(k, "HasXattr") \ {e}
      /\ \A f \in EdgesOf(n, "HasXattr") : n.edges[f] = k.edges[f]
  BY DEF Del, EdgesOf
<1>4. \A j \in DOMAIN n.inode_xattrs : \A y :
        y \in n.inode_xattrs[j] <=> y \in k.inode_xattrs[j] /\ y # x
  BY <1>2 DEF XattrsExact
<1>5. /\ n.xattrs \in [DOMAIN n.xattrs -> [key : XattrKeys, value : Values]]
      /\ DOMAIN n.xattrs \subseteq 1 .. n.next_xattr - 1
  BY <1>1 DEF XattrsExact, Del
<1>6. /\ \A j \in DOMAIN n.inode_xattrs : n.inode_xattrs[j] \subseteq DOMAIN n.xattrs
      /\ \A y \in DOMAIN n.xattrs : \E j \in DOMAIN n.inode_xattrs : y \in n.inode_xattrs[j]
      /\ \A j, l \in DOMAIN n.inode_xattrs : \A y \in n.inode_xattrs[j] :
           y \in n.inode_xattrs[l] => j = l
  <2>1. \A j \in DOMAIN k.inode_xattrs : k.inode_xattrs[j] \subseteq DOMAIN k.xattrs
    BY DEF XattrsExact
  <2>2. \A y \in DOMAIN k.xattrs : \E j \in DOMAIN k.inode_xattrs : y \in k.inode_xattrs[j]
    BY DEF XattrsExact
  <2>3. \A j, l \in DOMAIN k.inode_xattrs : \A y \in k.inode_xattrs[j] :
          y \in k.inode_xattrs[l] => j = l
    BY DEF XattrsExact
  <2>4. \A j \in DOMAIN n.inode_xattrs : n.inode_xattrs[j] \subseteq DOMAIN n.xattrs
    BY <1>1, <1>2, <1>4, <2>1
  <2>5. \A y \in DOMAIN n.xattrs : \E j \in DOMAIN n.inode_xattrs : y \in n.inode_xattrs[j]
    BY <1>1, <1>2, <1>4, <2>2
  <2>6. \A j, l \in DOMAIN n.inode_xattrs : \A y \in n.inode_xattrs[j] :
          y \in n.inode_xattrs[l] => j = l
    BY <1>2, <1>4, <2>3
  <2> QED BY <2>4, <2>5, <2>6
<1>7. \A j \in DOMAIN n.inode_xattrs : \A y \in n.inode_xattrs[j] :
        \E f \in EdgesOf(n, "HasXattr") : n.edges[f] = OtherEdge("HasXattr", j, y)
  <2> SUFFICES ASSUME NEW j \in DOMAIN n.inode_xattrs, NEW y \in n.inode_xattrs[j]
               PROVE  \E f \in EdgesOf(n, "HasXattr") : n.edges[f] = OtherEdge("HasXattr", j, y)
    OBVIOUS
  <2>1. j \in DOMAIN k.inode_xattrs /\ y \in k.inode_xattrs[j] /\ y # x
    BY <1>2, <1>4
  <2>2. PICK f \in EdgesOf(k, "HasXattr") : k.edges[f] = OtherEdge("HasXattr", j, y)
    BY <2>1 DEF XattrsExact
  <2>3. f # e
    BY <2>1, <2>2 DEF OtherEdge
  <2> QED BY <1>3, <2>2, <2>3
<1>8. k.edges[e].src = i /\ k.edges[e].tgt = x
  BY DEF OtherEdge
<1>9. \A f \in EdgesOf(n, "HasXattr") :
        /\ n.edges[f].src \in DOMAIN n.inode_xattrs
        /\ n.edges[f].tgt \in n.inode_xattrs[n.edges[f].src]
  <2> SUFFICES ASSUME NEW f \in EdgesOf(n, "HasXattr")
               PROVE  /\ n.edges[f].src \in DOMAIN n.inode_xattrs
                      /\ n.edges[f].tgt \in n.inode_xattrs[n.edges[f].src]
    OBVIOUS
  <2>1. f \in EdgesOf(k, "HasXattr") /\ f # e /\ n.edges[f] = k.edges[f]
    BY <1>3
  <2>2. /\ k.edges[f].src \in DOMAIN k.inode_xattrs
        /\ k.edges[f].tgt \in k.inode_xattrs[k.edges[f].src]
    BY <2>1 DEF XattrsExact
  <2>3. k.edges[f].tgt # x
    <3>1. \A a, b \in EdgesOf(k, "HasXattr") : k.edges[a].tgt = k.edges[b].tgt => a = b
      BY DEF XattrsExact
    <3> QED BY <1>8, <2>1, <3>1
  <2> QED BY <1>2, <1>4, <2>1, <2>2, <2>3
<1>10. \A f, f2 \in EdgesOf(n, "HasXattr") : n.edges[f].tgt = n.edges[f2].tgt => f = f2
  BY <1>3 DEF XattrsExact
<1>11. \A j \in DOMAIN n.inode_xattrs : \A y, z \in n.inode_xattrs[j] :
         n.xattrs[y].key = n.xattrs[z].key => y = z
  <2>1. \A j \in DOMAIN n.inode_xattrs : \A y \in n.inode_xattrs[j] :
          j \in DOMAIN k.inode_xattrs /\ y \in k.inode_xattrs[j] /\ n.xattrs[y] = k.xattrs[y]
    <3>1. \A j \in DOMAIN k.inode_xattrs : k.inode_xattrs[j] \subseteq DOMAIN k.xattrs
      BY DEF XattrsExact
    <3> QED BY <1>1, <1>2, <1>4, <3>1
  <2>2. \A j \in DOMAIN k.inode_xattrs : \A y, z \in k.inode_xattrs[j] :
          k.xattrs[y].key = k.xattrs[z].key => y = z
    BY DEF XattrsExact
  <2> SUFFICES ASSUME NEW j \in DOMAIN n.inode_xattrs, NEW y \in n.inode_xattrs[j],
                      NEW z \in n.inode_xattrs[j], n.xattrs[y].key = n.xattrs[z].key
               PROVE  y = z
    OBVIOUS
  <2>3. /\ j \in DOMAIN k.inode_xattrs /\ y \in k.inode_xattrs[j]
        /\ z \in k.inode_xattrs[j]
        /\ n.xattrs[y] = k.xattrs[y] /\ n.xattrs[z] = k.xattrs[z]
    BY <2>1
  <2>4. k.xattrs[y].key = k.xattrs[z].key
    BY <2>3
  <2> QED BY <2>2, <2>3, <2>4
<1> QED BY <1>5, <1>6, <1>7, <1>9, <1>10, <1>11 DEF XattrsExact

LEMMA RemovexattrExact ==
  ASSUME NEW k, Sound(k), XattrsExact(k), NEW i, NEW key,
         xattrs_with_key(k, i, key) # {}
  PROVE  XattrsExact(removexattr(k, i, key))
<1> DEFINE x == First(xattrs_with_key(k, i, key))
           E == {e \in DOMAIN k.edges : k.edges[e] = OtherEdge("HasXattr", i, x)}
           P == [k.inode_xattrs EXCEPT ![i] = k.inode_xattrs[i] \ {x}]
           m == [k EXCEPT !.xattrs = Del(@, {x}), !.inode_xattrs[i] = @ \ {x}]
           n == remove_edge(m, {First(E)})
<1>1. x \in xattrs_with_key(k, i, key)
  BY XattrIds, FirstIn
<1> HIDE DEF x
<1>2. /\ i \in DOMAIN k.inode_xattrs /\ x \in k.inode_xattrs[i]
  BY <1>1, XattrIds
<1>3. E # {} /\ E \subseteq Nat /\ E \subseteq EdgesOf(k, "HasXattr")
  <2>1. \E e \in EdgesOf(k, "HasXattr") : k.edges[e] = OtherEdge("HasXattr", i, x)
    BY <1>2 DEF XattrsExact
  <2>2. E \subseteq Nat
    BY SoundGraph, EdgeIdsAreNat
  <2> QED BY <2>1, <2>2 DEF EdgesOf, OtherEdge
<1>4. removexattr(k, i, key) = record_prov(n, "Removexattr", i)
  BY <1>3 DEF removexattr, x
<1>5. First(E) \in E
  <2> HIDE DEF E
  <2> QED BY <1>3, FirstIn
<1>6. First(E) \in EdgesOf(k, "HasXattr") /\ k.edges[First(E)] = OtherEdge("HasXattr", i, x)
  BY <1>3, <1>5
<1> HIDE DEF E
<1>7. /\ IsGraph(m) /\ m.edges = k.edges /\ m.next_xattr = k.next_xattr
      /\ m.xattrs = Del(k.xattrs, {x}) /\ m.inode_xattrs = P
  <2>1. m = [k EXCEPT !.xattrs = Del(k.xattrs, {x}), !.inode_xattrs = P]
    BY SoundGraph DEF IsGraph, GraphFields
  <2>2. IsGraph(k)
    BY SoundGraph
  <2> HIDE DEF P, m
  <2> DEFINE D == Del(k.xattrs, {x})
  <2>3. m = [k EXCEPT !.xattrs = D, !.inode_xattrs = P]
    BY <2>1
  <2> HIDE DEF D
  <2>4. IsGraph(m) /\ m.edges = k.edges /\ m.next_xattr = k.next_xattr
    BY <2>2, <2>3 DEF IsGraph, GraphFields
  <2>5. m.xattrs = D /\ m.inode_xattrs = P
    BY <2>2, <2>3 DEF IsGraph, GraphFields
  <2> QED BY <2>4, <2>5 DEF D
<1> HIDE DEF m
<1>8. /\ IsGraph(n) /\ n.edges = Del(k.edges, {First(E)}) /\ n.next_xattr = k.next_xattr
      /\ n.xattrs = Del(k.xattrs, {x}) /\ n.inode_xattrs = P
  <2> HIDE DEF P
  <2> QED BY <1>7 DEF remove_edge, IsGraph, GraphFields
<1>10. /\ DOMAIN P = DOMAIN k.inode_xattrs
       /\ \A j \in DOMAIN k.inode_xattrs : P[j] = k.inode_xattrs[j] \ {x}
  <2>1. \A j \in DOMAIN k.inode_xattrs \ {i} : x \notin k.inode_xattrs[j]
    <3>1. \A j, l \in DOMAIN k.inode_xattrs : \A y \in k.inode_xattrs[j] :
            y \in k.inode_xattrs[l] => j = l
      BY DEF XattrsExact
    <3> QED BY <1>2, <3>1
  <2>2. \A j \in DOMAIN k.inode_xattrs : j # i => k.inode_xattrs[j] = k.inode_xattrs[j] \ {x}
    BY <2>1
  <2> QED BY <1>2, <2>2
<1> HIDE DEF P
<1> HIDE DEF n
<1>9. XattrsExact(n)
  BY <1>2, <1>6, <1>8, <1>10, XattrGone, ZenonT(30)
<1> QED BY <1>4, <1>8, <1>9, RecordXattrsExact

LEMMA NextXattrsExact ==
  ASSUME PoolsHaveRoom, SoundState, XattrsExact(g), Next
  PROVE  XattrsExact(g')
<1>1. Sound(g) /\ IsGraph(g) /\ SoundState' /\ g.next_edge \in Nat
  BY SoundGraph, NextSound DEF SoundState
<1>2. CASE Leaves(g, g', Attributes, {"HasXattr"})
  BY <1>2, XattrsExactSame
<1>3. CASE Setxattr
  <2>1. PICK i \in InodeIds, key \in XattrKeys, v \in Values :
          g' = setxattr(g, i, key, v) /\ Within(g')
    BY <1>3 DEF Setxattr, Step
  <2>2. ASSUME xattrs_with_key(g, i, key) = {}
        PROVE  g.next_edge < EDGE_CAPACITY
    <3>1. g' = new_xattr(g, i, key, v)
      BY <2>1, <2>2 DEF setxattr
    <3>2. g'.next_edge = g.next_edge + 1
      BY <1>1, <3>1, NewXattrTakes
    <3>3. g'.next_edge <= EDGE_CAPACITY
      <4>1. g'.next_inode \in Int /\ g'.next_edge \in Int
        BY <1>1, SoundGraph DEF SoundState
      <4> QED BY <2>1, <4>1, RoomFor
    <3> QED BY <1>1, <3>2, <3>3, CapacityAssumption
  <2> QED BY <1>1, <2>1, <2>2, SetxattrExact
<1>4. CASE Removexattr
  <2>1. PICK i, key : removexattr_ok(g, i, key) /\ g' = removexattr(g, i, key)
    BY <1>4 DEF Removexattr, Step
  <2> QED BY <1>1, <2>1, RemovexattrExact DEF removexattr_ok
<1> QED BY <1>2, <1>3, <1>4, NextLeaves DEF WhoChangesWhat

LEMMA ExactIsBacked ==
  ASSUME XattrsExact(g)
  PROVE  XattrsBackedByEdges
<1> DEFINE owned == {p \in (DOMAIN g.inode_xattrs) \X (DOMAIN g.xattrs) :
                       p[2] \in g.inode_xattrs[p[1]]}
           linked(e) == <<g.edges[e].src, g.edges[e].tgt>>
<1>1. \A i \in DOMAIN g.inode_xattrs : g.inode_xattrs[i] \subseteq DOMAIN g.xattrs
  BY DEF XattrsExact
<1>2. \A i, x : <<i, x>> \in owned <=> i \in DOMAIN g.inode_xattrs /\ x \in g.inode_xattrs[i]
  BY <1>1
<1>3. {linked(e) : e \in EdgesOf(g, "HasXattr")} \subseteq owned
  BY <1>2 DEF XattrsExact
<1>4. owned \subseteq {linked(e) : e \in EdgesOf(g, "HasXattr")}
  <2> SUFFICES ASSUME NEW p \in owned PROVE \E e \in EdgesOf(g, "HasXattr") : p = linked(e)
    OBVIOUS
  <2>1. p = <<p[1], p[2]>> /\ p[1] \in DOMAIN g.inode_xattrs /\ p[2] \in g.inode_xattrs[p[1]]
    OBVIOUS
  <2>2. PICK e \in EdgesOf(g, "HasXattr") : g.edges[e] = OtherEdge("HasXattr", p[1], p[2])
    BY <2>1 DEF XattrsExact
  <2>3. g.edges[e].src = p[1] /\ g.edges[e].tgt = p[2]
    BY <2>2 DEF OtherEdge
  <2> QED BY <2>1, <2>3
<1>5. \A e, f \in EdgesOf(g, "HasXattr") : linked(e) = linked(f) => e = f
  BY DEF XattrsExact
<1>6. \A x \in DOMAIN g.xattrs : \E p \in owned : p[2] = x
  <2> SUFFICES ASSUME NEW x \in DOMAIN g.xattrs PROVE \E p \in owned : p[2] = x
    OBVIOUS
  <2>1. PICK i \in DOMAIN g.inode_xattrs : x \in g.inode_xattrs[i]
    BY DEF XattrsExact
  <2>2. <<i, x>> \in owned
    BY <2>1, <1>2
  <2> QED BY <2>2
<1>7. \A p, q \in owned : p[2] = q[2] => p = q
  BY DEF XattrsExact
<1>8. \A i \in DOMAIN g.inode_xattrs, k \in XattrKeys :
        Cardinality(xattrs_with_key(g, i, k)) <= 1
  <2> SUFFICES ASSUME NEW i \in DOMAIN g.inode_xattrs, NEW k \in XattrKeys
               PROVE  Cardinality(xattrs_with_key(g, i, k)) <= 1
    OBVIOUS
  <2> DEFINE S == xattrs_with_key(g, i, k)
  <2>1. \A x, y \in S : x = y
    BY DEF xattrs_with_key, SetAt, XattrsExact
  <2> HIDE DEF S
  <2>2. CASE S = {}
    BY <2>2, FS_EmptySet DEF S
  <2>3. CASE S # {}
    <3>1. PICK x \in S : TRUE
      BY <2>3
    <3>2. S = {x}
      BY <2>1, <3>1
    <3> QED BY <3>2, FS_Singleton DEF S
  <2> QED BY <2>2, <2>3
<1> HIDE DEF owned, linked
<1>9. {linked(e) : e \in EdgesOf(g, "HasXattr")} = owned
  BY <1>3, <1>4
<1> USE DEF owned, linked
<1> QED BY <1>1, <1>5, <1>6, <1>7, <1>8, <1>9 DEF XattrsBackedByEdges

LEMMA InitXattrsExact ==
  ASSUME Init
  PROVE  XattrsExact(g)
<1>1. /\ g.xattrs = Empty /\ g.inode_xattrs = Empty /\ g.next_xattr = 1
      /\ EdgesOf(g, "HasXattr") = {}
  BY DEF Init, new_graph, EdgesOf, ContainsEdge
<1>2. DOMAIN Empty = {}
  BY DEF Empty
<1> QED BY <1>1, <1>2 DEF XattrsExact

\* Attributes, their owners and their edges stay one relation whatever is set,
\* replaced and removed, on live inodes and on those unlink has collected: no
\* edge dangles, no attribute is orphaned or shared, and getxattr never has two
\* values to choose from.
THEOREM XattrsAreBacked ==
  ASSUME PoolsHaveRoom
  PROVE  Spec => []XattrsBackedByEdges
<1>1. Init => XattrsExact(g)
  BY InitXattrsExact
<1>2. SoundState /\ XattrsExact(g) /\ [Next]_g => XattrsExact(g)'
  <2> SUFFICES ASSUME SoundState, XattrsExact(g), [Next]_g PROVE XattrsExact(g')
    OBVIOUS
  <2>1. CASE Next
    BY <2>1, NextXattrsExact
  <2>2. CASE UNCHANGED g
    BY <2>2
  <2> QED BY <2>1, <2>2
<1>3. XattrsExact(g) => XattrsBackedByEdges
  BY ExactIsBacked
<1> QED BY <1>1, <1>2, <1>3, SoundAlways, PTL DEF Spec

-----------------------------------------------------------------------------
(***************************************************************************)
(* Owners and quotas: no call that moves entries makes a quota, and none   *)
(* gives an inode that was there another mode, owner, type or size.        *)
(***************************************************************************)
Described == {"mode", "uid", "gid", "vtype", "size"}

OwnedAlike(k, h, i) ==
  /\ i \in DOMAIN k.inodes
  /\ \A f \in Described : h.inodes[i][f] = k.inodes[i][f]

\* From k to h, at most the inodes N are made or go, and nobody is charged.
Owners(k, h, N) ==
  /\ h.quotas = k.quotas
  /\ DOMAIN k.inodes \ N \subseteq DOMAIN h.inodes
  /\ \A i \in DOMAIN h.inodes \ N : OwnedAlike(k, h, i)

\* The same when quotas are charged.
Alike(k, h, N) ==
  /\ DOMAIN h.quotas = DOMAIN k.quotas
  /\ \A i \in DOMAIN h.inodes \ N : OwnedAlike(k, h, i)

\* From k to h, the quotas on the walk up from directory d in r move by v.
Charged(k, r, h, d, v) ==
  h.quotas = [q \in DOMAIN k.quotas |-> IF on_parent_chain(r, d, q)
                                        THEN charge(k.quotas[q], v) ELSE k.quotas[q]]

\* One inode goes, and the walk up from d is credited with it.
Removal(k, h, d) ==
  /\ \E j \in DOMAIN k.inodes : DOMAIN h.inodes = DOMAIN k.inodes \ {j}
  /\ Charged(k, h, h, d, -1) /\ Alike(k, h, {})

LEMMA RecordKeeps ==
  ASSUME NEW k, IsGraph(k), NEW op, NEW i, NEW f \in GraphFields \ {"prov_log"}
  PROVE  record_prov(k, op, i)[f] = k[f]
BY DEF record_prov, IsGraph, GraphFields

LEMMA OwnersTrans ==
  ASSUME NEW k, NEW m, NEW h, NEW N, Owners(k, m, N), Owners(m, h, N)
  PROVE  Owners(k, h, N)
BY DEF Owners, OwnedAlike

LEMMA OwnersIf ==
  ASSUME NEW k, NEW h, NEW N, h.inodes = k.inodes, h.quotas = k.quotas
  PROVE  Owners(k, h, N)
BY DEF Owners, OwnedAlike

\* The walk up reads no more than these fields.
LEMMA ChainsSame ==
  ASSUME NEW k, NEW h, h.dirs = k.dirs, h.edges = k.edges,
         h.dir_name_idx = k.dir_name_idx, h.dir_for_inode_idx = k.dir_for_inode_idx,
         h.dir_contains = k.dir_contains, NEW d, NEW q
  PROVE  on_parent_chain(h, d, q) <=> on_parent_chain(k, d, q)
<1> ContainsEdges(h) = ContainsEdges(k)
  BY DEF ContainsEdges
<1>1. \A x, n : scan_name(h, x, n) = scan_name(k, x, n)
  BY DEF scan_name, entries
<1>2. \A x, n : resolve_name(h, x, n) = resolve_name(k, x, n)
  BY <1>1 DEF resolve_name, lookup_name
<1>3. \A i : dir_for_inode(h, i) = dir_for_inode(k, i)
  BY DEF dir_for_inode
<1>4. \A x : parent_dir(h, x) = parent_dir(k, x)
  BY <1>2, <1>3 DEF parent_dir
<1>5. \A S : UpClosed(h, S) <=> UpClosed(k, S)
  BY <1>4 DEF UpClosed
<1> QED BY <1>5 DEF on_parent_chain

\* A call ends with the charge and the log.
LEMMA ChargeIs ==
  ASSUME NEW k, NEW m, IsGraph(m), m.quotas = k.quotas, NEW d, NEW v, NEW op, NEW i,
         NEW h, \/ h = update_quota(m, d, v)
                \/ h = record_prov(update_quota(m, d, v), op, i)
  PROVE  IsGraph(h) /\ Charged(k, h, h, d, v) /\ h.inodes = m.inodes
<1> DEFINE Q == [q \in DOMAIN m.quotas |-> IF on_parent_chain(m, d, q)
                                           THEN charge(m.quotas[q], v) ELSE m.quotas[q]]
           u == update_quota(m, d, v)
<1>1. u = [m EXCEPT !.quotas = Q]
  BY DEF update_quota
<1> HIDE DEF Q, u
<1>2. /\ IsGraph(u) /\ u.quotas = Q /\ u.inodes = m.inodes /\ u.dirs = m.dirs
      /\ u.edges = m.edges /\ u.dir_name_idx = m.dir_name_idx
      /\ u.dir_for_inode_idx = m.dir_for_inode_idx /\ u.dir_contains = m.dir_contains
  BY <1>1 DEF IsGraph, GraphFields
<1>3. h = u \/ h = record_prov(u, op, i)
  BY DEF u
<1>4. IsGraph(h)
  BY <1>2, <1>3 DEF record_prov, IsGraph, GraphFields
<1>5. /\ h.quotas = Q /\ h.inodes = m.inodes /\ h.dirs = m.dirs
      /\ h.edges = m.edges /\ h.dir_name_idx = m.dir_name_idx
      /\ h.dir_for_inode_idx = m.dir_for_inode_idx /\ h.dir_contains = m.dir_contains
  BY <1>2, <1>3, RecordKeeps DEF GraphFields
<1>6. \A q : on_parent_chain(h, d, q) <=> on_parent_chain(m, d, q)
  BY <1>5, ChainsSame
<1> QED BY <1>4, <1>5, <1>6 DEF Charged, Q

LEMMA WiringOwners ==
  ASSUME NEW k, NEW h, NEW N, SameExcept(k, h, Wiring)
  PROVE  Owners(k, h, N) /\ IsGraph(h) /\ h.inodes = k.inodes
<1>1. h.inodes = k.inodes /\ h.quotas = k.quotas
  BY DEF SameExcept, Wiring, GraphFields
<1> QED BY <1>1, OwnersIf DEF SameExcept

LEMMA InodeHelpersOwn ==
  ASSUME NEW k, IsGraph(k), NEW N, NEW i \in N, NEW v
  PROVE  /\ Owners(k, insert_inode(k, i, v), N)
         /\ Owners(k, remove_inode(k, i), N)
         /\ IsGraph(insert_inode(k, i, v)) /\ IsGraph(remove_inode(k, i))
         /\ DOMAIN remove_inode(k, i).inodes = DOMAIN k.inodes \ {i}
<1>1. IsGraph(insert_inode(k, i, v)) /\ IsGraph(remove_inode(k, i))
  BY DEF insert_inode, remove_inode, IsGraph, GraphFields
<1>2. /\ insert_inode(k, i, v).inodes = insert_at(k.inodes, i, v, NODE_CAPACITY)
      /\ insert_inode(k, i, v).quotas = k.quotas
      /\ remove_inode(k, i).inodes = Del(k.inodes, {i})
      /\ remove_inode(k, i).quotas = k.quotas
  BY DEF insert_inode, remove_inode, IsGraph, GraphFields
<1>3. /\ \A j \in DOMAIN insert_at(k.inodes, i, v, NODE_CAPACITY) \ N :
           /\ j \in DOMAIN k.inodes
           /\ insert_at(k.inodes, i, v, NODE_CAPACITY)[j] = k.inodes[j]
      /\ DOMAIN k.inodes \subseteq DOMAIN insert_at(k.inodes, i, v, NODE_CAPACITY)
      /\ DOMAIN Del(k.inodes, {i}) = DOMAIN k.inodes \ {i}
      /\ \A j \in DOMAIN Del(k.inodes, {i}) : Del(k.inodes, {i})[j] = k.inodes[j]
  BY DEF insert_at, Put, Del
<1>4. Owners(k, insert_inode(k, i, v), N)
  BY <1>2, <1>3 DEF Owners, OwnedAlike
<1>5. Owners(k, remove_inode(k, i), N)
  BY <1>2, <1>3 DEF Owners, OwnedAlike
<1> QED BY <1>1, <1>2, <1>3, <1>4, <1>5

LEMMA CreateNodeOwners ==
  ASSUME NEW k, IsGraph(k), NEW d, NEW n, NEW inode
  PROVE  /\ Owners(k, create_node(k, d, n, inode), {k.next_inode})
         /\ IsGraph(create_node(k, d, n, inode))
<1> DEFINE i  == k.next_inode
           e  == k.next_edge
           N  == {k.next_inode}
           m1 == [k EXCEPT !.next_inode = i + 1, !.next_edge = e + 1]
           m2 == insert_inode(m1, i, inode)
           h  == add_contains(m2, e, d, i, n)
<1>1. create_node(k, d, n, inode) = h
  BY DEF create_node
<1>2. Owners(k, m1, N) /\ IsGraph(m1)
  BY NodeHelpersWire, WiringOwners
<1> HIDE DEF m1
<1>3. Owners(m1, m2, N) /\ IsGraph(m2)
  BY <1>2, InodeHelpersOwn
<1> HIDE DEF m2
<1>4. Owners(m2, h, N) /\ IsGraph(h)
  BY <1>3, EdgeHelpersWire, WiringOwners
<1> HIDE DEF h, N
<1>5. Owners(k, h, N)
  BY <1>2, <1>3, <1>4, OwnersTrans
<1> QED BY <1>1, <1>4, <1>5 DEF N

LEMMA MkdirNodesOwners ==
  ASSUME NEW k, IsGraph(k), NEW d, NEW n, NEW mode, NEW u
  PROVE  /\ Owners(k, mkdir_nodes(k, d, n, mode, u), {k.next_inode})
         /\ IsGraph(mkdir_nodes(k, d, n, mode, u))
<1> DEFINE i  == k.next_inode
           c  == k.next_dir
           e  == k.next_edge
           N  == {k.next_inode}
           m1 == [k EXCEPT !.next_inode = i + 1, !.next_dir = c + 1, !.next_edge = e + 3]
           m2 == insert_inode(m1, i, NewInode("Directory", 2, mode, u, u, 0))
           m3 == insert_dir(m2, c, i)
           m4 == add_contains(m3, e, d, i, n)
           m5 == add_contains(m4, e + 1, c, i, ".")
           h  == add_contains(m5, e + 2, c, k.dirs[d], "..")
<1>1. mkdir_nodes(k, d, n, mode, u) = h
  BY DEF mkdir_nodes
<1>2. Owners(k, m1, N) /\ IsGraph(m1)
  <2>1. SameExcept(k, m1, Wiring)
    BY NodeHelpersWire
  <2> HIDE DEF m1
  <2> QED BY <2>1, WiringOwners
<1> HIDE DEF m1
<1>3. Owners(m1, m2, N) /\ IsGraph(m2)
  BY <1>2, InodeHelpersOwn
<1> HIDE DEF m2
<1>4. Owners(m2, m3, N) /\ IsGraph(m3)
  BY <1>3, NodeHelpersWire, WiringOwners, ZenonT(30)
<1> HIDE DEF m3
<1>5. Owners(m3, m4, N) /\ IsGraph(m4)
  BY <1>4, EdgeHelpersWire, WiringOwners
<1> HIDE DEF m4
<1>6. Owners(m4, m5, N) /\ IsGraph(m5)
  BY <1>5, EdgeHelpersWire, WiringOwners
<1> HIDE DEF m5
<1>7. Owners(m5, h, N) /\ IsGraph(h)
  BY <1>6, EdgeHelpersWire, WiringOwners
<1> HIDE DEF h, N
<1>8. Owners(k, m2, N) /\ Owners(k, m3, N)
  BY <1>2, <1>3, <1>4, OwnersTrans
<1>9. Owners(k, m4, N) /\ Owners(k, m5, N)
  BY <1>5, <1>6, <1>8, OwnersTrans
<1>10. Owners(k, h, N)
  BY <1>7, <1>9, OwnersTrans
<1> QED BY <1>1, <1>7, <1>10 DEF N

LEMMA RmdirNodesOwners ==
  ASSUME NEW k, IsGraph(k), NEW d, NEW n, NEW h, h = rmdir_nodes(k, d, n)
  PROVE  /\ Owners(k, h, {resolve_name(k, d, n)}) /\ IsGraph(h)
         /\ resolve_name(k, d, n) \notin DOMAIN h.inodes
<1> DEFINE i  == resolve_name(k, d, n)
           N  == {i}
           c  == dir_for_inode(k, i)
           S  == {e \in entries(k, d) : k.edges[e].tgt = i /\ k.edges[e].name = n}
                    \cup entries(k, c)
           m1 == drop_contains(k, S)
           m2 == remove_inode(m1, i)
           m3 == remove_dir(m2, c)
<1>1. \E x, y : h = [m3 EXCEPT !.dir_contains = x, !.inode_incoming_contains = y]
  BY DEF rmdir_nodes
<1>0. i \in N
  OBVIOUS
<1> HIDE DEF S, N, i
<1>2. Owners(k, m1, N) /\ IsGraph(m1)
  BY EdgeHelpersWire, WiringOwners
<1> HIDE DEF m1
<1>3. Owners(m1, m2, N) /\ IsGraph(m2) /\ i \notin DOMAIN m2.inodes
  BY <1>0, <1>2, InodeHelpersOwn
<1> HIDE DEF m2
<1>4. Owners(m2, m3, N) /\ IsGraph(m3) /\ m3.inodes = m2.inodes
  BY <1>3, NodeHelpersWire, WiringOwners
<1> HIDE DEF m3
<1>5. Owners(m3, h, N) /\ IsGraph(h) /\ h.inodes = m3.inodes
  BY <1>1, <1>4, NodeHelpersWire, WiringOwners
<1>6. Owners(k, h, N)
  BY <1>2, <1>3, <1>4, <1>5, OwnersTrans
<1> QED BY <1>3, <1>4, <1>5, <1>6 DEF N, i

\* A link more or less.
LEMMA CountedOwners ==
  ASSUME NEW k, FieldsTyped(k), NEW m, IsGraph(m), m.inodes = k.inodes, NEW i, NEW h,
         \E c : h = [m EXCEPT !.inodes[i].link_count = c], NEW N
  PROVE  Owners(m, h, N) /\ IsGraph(h)
<1>1. PICK c : h = [m EXCEPT !.inodes[i].link_count = c]
  OBVIOUS
<1> DEFINE P == [m.inodes EXCEPT ![i].link_count = c]
<1>2. \A j \in DOMAIN k.inodes : k.inodes[j] \in Inode
  BY DEF FieldsTyped
<1>3. DOMAIN P = DOMAIN m.inodes
      /\ \A j \in DOMAIN P : \A f \in Described : P[j][f] = m.inodes[j][f]
  BY <1>2 DEF Inode, Described
<1>4. h = [m EXCEPT !.inodes = P]
  BY <1>1
<1> HIDE DEF P
<1>5. IsGraph(h) /\ h.inodes = P /\ h.quotas = m.quotas
  BY <1>4 DEF IsGraph, GraphFields
<1> QED BY <1>3, <1>5 DEF Owners, OwnedAlike

LEMMA LinkNodesOwners ==
  ASSUME NEW k, FieldsTyped(k), NEW d, NEW n, NEW i, NEW N
  PROVE  Owners(k, link_nodes(k, d, n, i), N) /\ IsGraph(link_nodes(k, d, n, i))
<1> DEFINE e  == k.next_edge
           m1 == [k EXCEPT !.next_edge = e + 1]
           m2 == add_contains(m1, e, d, i, n)
           h  == link_nodes(k, d, n, i)
<1>0. IsGraph(k)
  BY DEF FieldsTyped
<1>1. \E c : h = [m2 EXCEPT !.inodes[i].link_count = c]
  BY DEF link_nodes
<1>2. Owners(k, m1, N) /\ IsGraph(m1) /\ m1.inodes = k.inodes
  BY <1>0, NodeHelpersWire, WiringOwners
<1> HIDE DEF m1, h
<1>3. Owners(m1, m2, N) /\ IsGraph(m2) /\ m2.inodes = k.inodes
  BY <1>2, EdgeHelpersWire, WiringOwners
<1> HIDE DEF m2
<1>4. Owners(m2, h, N) /\ IsGraph(h)
  BY <1>1, <1>3, CountedOwners
<1>5. Owners(k, h, N)
  BY <1>2, <1>3, <1>4, OwnersTrans
<1> QED BY <1>4, <1>5 DEF h

LEMMA GoneIsRemoval ==
  ASSUME NEW k, NEW m, NEW i \in DOMAIN k.inodes, Owners(k, m, {i}),
         NEW d, NEW h, Charged(k, h, h, d, -1), h.inodes = m.inodes, i \notin DOMAIN h.inodes
  PROVE  Removal(k, h, d)
<1>1. DOMAIN h.inodes = DOMAIN k.inodes \ {i}
  BY DEF Owners, OwnedAlike
<1>2. Alike(k, h, {})
  BY DEF Owners, OwnedAlike, Alike, Charged
<1> QED BY <1>1, <1>2 DEF Removal

LEMMA UnlinkNodesOwners ==
  ASSUME NEW k, FieldsTyped(k), NEW d, NEW n, unlink_ok(k, d, n),
         NEW h, h = unlink_nodes(k, d, n)
  PROVE  IsGraph(h) /\ (Owners(k, h, {}) \/ Removal(k, h, d))
<1> DEFINE e  == scan_name(k, d, n)
           i  == k.edges[e].tgt
           N  == {i}
           m1 == drop_contains(k, {e})
           m2 == [m1 EXCEPT !.inodes[i].link_count = @ - 1]
           m3 == release_blocks(m2, i)
           m4 == remove_inode(m3, i)
           m5 == collect_inode(m2, i)
<1>0. IsGraph(k) /\ i \in DOMAIN k.inodes /\ i \in N
  BY DEF FieldsTyped, unlink_ok
<1>1. h = m2 \/ h = update_quota(m5, d, -1)
  BY DEF unlink_nodes
<1>2. \E c : m2 = [m1 EXCEPT !.inodes[i].link_count = c]
  OBVIOUS
<1>3. \E x : m5 = [m4 EXCEPT !.inode_incoming_contains = x]
  BY DEF collect_inode
<1> HIDE DEF i, e, N
<1>4. \A M : Owners(k, m1, M) /\ IsGraph(m1) /\ m1.inodes = k.inodes
  BY <1>0, EdgeHelpersWire, WiringOwners
<1> HIDE DEF m1, m2
<1>5. \A M : Owners(m1, m2, M) /\ IsGraph(m2)
  BY <1>2, <1>4, CountedOwners
<1>6. \A M : Owners(k, m2, M)
  BY <1>4, <1>5, OwnersTrans
<1> HIDE DEF m3
<1>7. Owners(m2, m3, N) /\ IsGraph(m3) /\ m3.inodes = m2.inodes
  BY <1>5, NodeHelpersWire, WiringOwners DEF m3
<1> HIDE DEF m4, m5
<1>8. Owners(m3, m4, N) /\ IsGraph(m4) /\ i \notin DOMAIN m4.inodes
  BY <1>0, <1>7, InodeHelpersOwn DEF m4
<1>9. Owners(m4, m5, N) /\ IsGraph(m5) /\ m5.inodes = m4.inodes
  <2>1. SameExcept(m4, m5, Wiring)
    BY <1>3, <1>8 DEF SameExcept, IsGraph, GraphFields, Wiring, TreeFields
  <2> QED BY <2>1, WiringOwners
<1>10. Owners(k, m5, N)
  <2>1. Owners(k, m3, N)
    BY <1>6, <1>7, OwnersTrans
  <2>2. Owners(k, m4, N)
    BY <1>8, <2>1, OwnersTrans
  <2> QED BY <1>9, <2>2, OwnersTrans
<1>11. CASE h = m2
  BY <1>5, <1>6, <1>11
<1>12. CASE h = update_quota(m5, d, -1)
  <2>1. m5.quotas = k.quotas
    BY <1>10 DEF Owners
  <2>2. IsGraph(h) /\ Charged(k, h, h, d, -1) /\ h.inodes = m5.inodes
    BY <1>9, <1>12, <2>1, ChargeIs
  <2> QED BY <1>0, <1>8, <1>9, <1>10, <2>2, GoneIsRemoval DEF N
<1> QED BY <1>1, <1>11, <1>12

LEMMA MoveEntryOwners ==
  ASSUME NEW k, IsGraph(k), NEW e, NEW d, NEW n, NEW N
  PROVE  Owners(k, move_entry(k, e, d, n), N) /\ IsGraph(move_entry(k, e, d, n))
BY MoveEntryWires, WiringOwners

LEMMA RecordOwners ==
  ASSUME NEW k, IsGraph(k), NEW op, NEW i, NEW N
  PROVE  Owners(k, record_prov(k, op, i), N) /\ IsGraph(record_prov(k, op, i))
<1>1. /\ record_prov(k, op, i).inodes = k.inodes /\ record_prov(k, op, i).quotas = k.quotas
      /\ IsGraph(record_prov(k, op, i))
  BY DEF record_prov, IsGraph, GraphFields
<1> QED BY <1>1, OwnersIf

\* The calls that make an object, and those that do not.
LEMMA MakersOwn ==
  ASSUME NEW k, IsGraph(k), NEW d, NEW n, NEW mode, NEW u, NEW t,
         NEW h \in {create_file(k, d, n, mode, u), mkdir(k, d, n, mode, u),
                    symlink(k, d, n, t, u)}
  PROVE  Alike(k, h, {k.next_inode}) /\ Charged(k, h, h, d, 1)
<1> DEFINE N == {k.next_inode}
<1>1. ASSUME NEW m, IsGraph(m), Owners(k, m, N),
             \E op : h = record_prov(update_quota(m, d, 1), op, k.next_inode)
      PROVE  Alike(k, h, N) /\ Charged(k, h, h, d, 1)
  <2>1. m.quotas = k.quotas
    BY <1>1 DEF Owners
  <2>2. Charged(k, h, h, d, 1) /\ h.inodes = m.inodes
    BY <1>1, <2>1, ChargeIs
  <2> QED BY <1>1, <2>2 DEF Owners, OwnedAlike, Alike, Charged
<1>2. CASE h = create_file(k, d, n, mode, u)
  BY <1>1, <1>2, CreateNodeOwners DEF create_file
<1>3. CASE h = mkdir(k, d, n, mode, u)
  BY <1>1, <1>3, MkdirNodesOwners DEF mkdir
<1>4. CASE h = symlink(k, d, n, t, u)
  <2> DEFINE m1 == create_node(k, d, n, NewInode("Symlink", 1, SymlinkMode, u, u, Len(t)))
             m2 == [m1 EXCEPT !.symlink_targets = Put(@, k.next_inode, t)]
  <2>1. h = record_prov(update_quota(m2, d, 1), "Symlink", k.next_inode)
    BY <1>4 DEF symlink
  <2>2. Owners(k, m1, N) /\ IsGraph(m1)
    BY CreateNodeOwners
  <2> HIDE DEF m1
  <2>3. m2.inodes = m1.inodes /\ m2.quotas = m1.quotas /\ IsGraph(m2)
    BY <2>2 DEF IsGraph, GraphFields
  <2> HIDE DEF m2
  <2>4. Owners(k, m2, N)
    BY <2>2, <2>3, OwnersIf, OwnersTrans
  <2> QED BY <1>1, <2>1, <2>3, <2>4
<1> QED BY <1>2, <1>3, <1>4

LEMMA MoversOwn ==
  ASSUME NEW k, FieldsTyped(k), NEW d, NEW n, NEW i, NEW h,
         \/ h = rmdir(k, d, n) /\ rmdir_ok(k, d, n)
         \/ h = unlink(k, d, n) /\ unlink_ok(k, d, n)
         \/ h = link(k, d, n, i)
  PROVE  IsGraph(h) /\ (Owners(k, h, {}) \/ Removal(k, h, d))
<1>0. IsGraph(k)
  BY DEF FieldsTyped
<1>1. CASE h = rmdir(k, d, n) /\ rmdir_ok(k, d, n)
  <2> DEFINE j == resolve_name(k, d, n)
             m == rmdir_nodes(k, d, n)
  <2>1. Owners(k, m, {j}) /\ IsGraph(m) /\ j \notin DOMAIN m.inodes
    BY <1>0, RmdirNodesOwners
  <2>2. h = record_prov(update_quota(m, d, -1), "Rmdir", j) /\ j \in DOMAIN k.inodes
    BY <1>1 DEF rmdir, rmdir_ok, IsDirInode
  <2> HIDE DEF m, j
  <2>3. m.quotas = k.quotas
    BY <2>1 DEF Owners
  <2>4. IsGraph(h) /\ Charged(k, h, h, d, -1) /\ h.inodes = m.inodes
    BY <2>1, <2>2, <2>3, ChargeIs
  <2> QED BY <2>1, <2>2, <2>4, GoneIsRemoval
<1>2. CASE h = unlink(k, d, n) /\ unlink_ok(k, d, n)
  <2> DEFINE m == unlink_nodes(k, d, n)
  <2>1. IsGraph(m) /\ (Owners(k, m, {}) \/ Removal(k, m, d))
    BY <1>2, UnlinkNodesOwners
  <2>2. \E j : h = record_prov(m, "Unlink", j)
    BY <1>2 DEF unlink
  <2> HIDE DEF m
  <2>3. Owners(m, h, {}) /\ IsGraph(h)
    BY <2>1, <2>2, RecordOwners
  <2>4. h.inodes = m.inodes /\ h.quotas = m.quotas /\ h.dirs = m.dirs /\ h.edges = m.edges
        /\ h.dir_name_idx = m.dir_name_idx /\ h.dir_for_inode_idx = m.dir_for_inode_idx
        /\ h.dir_contains = m.dir_contains
    BY <2>1, <2>2, RecordKeeps DEF GraphFields
  <2>5. \A q : on_parent_chain(h, d, q) <=> on_parent_chain(m, d, q)
    BY <2>4, ChainsSame
  <2>6. Removal(k, m, d) => Removal(k, h, d)
    BY <2>4, <2>5 DEF Removal, Charged, Alike, OwnedAlike
  <2> QED BY <2>1, <2>3, <2>6, OwnersTrans
<1>3. CASE h = link(k, d, n, i)
  BY <1>3, LinkNodesOwners, RecordOwners, OwnersTrans DEF link
<1> QED BY <1>1, <1>2, <1>3

LEMMA RenameOwns ==
  ASSUME NEW k, FieldsTyped(k), NEW sd, NEW src, NEW dd, NEW dst,
         NEW h, h = rename(k, sd, src, dd, dst).graph
  PROVE  \/ Owners(k, h, {})
         \/ LET r == replace_destination(k, dd, dst).graph
            IN Removal(k, r, dd) /\ Owners(r, h, {}) /\ replace_destination(k, dd, dst).ok
<1> DEFINE a == replace_destination(k, dd, dst)
           r == a.graph
           i == resolve_name(k, sd, src)
           E == source_entries(r, sd, i, src)
           m == move_entry(r, First(E), dd, dst)
           p == IF sd = dd THEN rename_same_dir(k, sd, src, dst)
                           ELSE rename_cross_dir(k, sd, src, dd, dst)
<1>1. Owners(k, k, {}) /\ IsGraph(k)
  BY OwnersIf DEF FieldsTyped
<1>2. /\ IsGraph(r) /\ (Owners(k, r, {}) \/ Removal(k, r, dd))
      /\ a.ok \/ r = k
  <2>1. \/ r = k
        \/ r = rmdir(k, dd, dst) /\ rmdir_ok(k, dd, dst) /\ a.ok
        \/ r = unlink(k, dd, dst) /\ unlink_ok(k, dd, dst) /\ a.ok
    BY DEF replace_destination, Done, Fail
  <2> HIDE DEF a
  <2>2. CASE r = k
    BY <1>1, <2>2
  <2>3. CASE r # k
    BY <2>1, <2>3, MoversOwn
  <2> QED BY <2>2, <2>3
<1>3. p.graph \in {k, r, rename_contains_edge(r, First(E), dst), move_dotdot(m, i, dd)}
  <2>1. CASE sd = dd
    BY <2>1 DEF rename_same_dir, Done, Fail
  <2>2. CASE sd # dd
    BY <2>2 DEF rename_cross_dir, Done, Fail
  <2> QED BY <2>1, <2>2
<1>4. h = k \/ h = p.graph \/ \E j : h = record_prov(p.graph, "Rename", j)
  BY DEF rename, Done, Fail
<1> HIDE DEF a, E, p
<1>5. /\ Owners(r, rename_contains_edge(r, First(E), dst), {})
      /\ IsGraph(rename_contains_edge(r, First(E), dst))
  BY <1>2, EdgeHelpersWire, WiringOwners
<1>6. Owners(r, m, {}) /\ IsGraph(m)
  BY <1>2, MoveEntryOwners
<1> HIDE DEF m, i
<1>7. Owners(r, move_dotdot(m, i, dd), {}) /\ IsGraph(move_dotdot(m, i, dd))
  BY <1>6, EdgeHelpersWire, WiringOwners, OwnersTrans
<1>8. (p.graph = k \/ Owners(r, p.graph, {})) /\ IsGraph(p.graph)
  <2>1. Owners(r, r, {})
    BY OwnersIf
  <2> QED BY <1>1, <1>2, <1>3, <1>5, <1>7, <2>1
<1>9. Owners(k, h, {}) \/ Owners(r, h, {})
  BY <1>1, <1>4, <1>8, RecordOwners, OwnersTrans
<1>10. \/ Owners(k, h, {})
       \/ Removal(k, r, dd) /\ Owners(r, h, {}) /\ a.ok
  <2>1. CASE Owners(k, r, {})
    BY <1>9, <2>1, OwnersTrans
  <2>2. CASE r # k /\ Removal(k, r, dd)
    BY <1>2, <1>9, <2>2
  <2> QED BY <1>1, <1>2, <2>1, <2>2
<1> QED BY <1>10 DEF a

LEMMA InsertEdgeOwns ==
  ASSUME NEW k, IsGraph(k), NEW e, NEW edge, NEW h, h = insert_edge(k, e, edge)
  PROVE  IsGraph(h) /\ h.inodes = k.inodes /\ h.quotas = k.quotas
<1>1. \E x, y : h = [k EXCEPT !.edges = x, !.dir_name_idx = y]
  BY DEF insert_edge
<1> QED BY <1>1 DEF IsGraph, GraphFields

LEMMA CarriersOwn ==
  ASSUME NEW k, FieldsTyped(k), NEW i, NEW key, NEW v, NEW acl,
         NEW h \in {write_block(k, i), setxattr(k, i, key, v), removexattr(k, i, key),
                    setacl(k, i, acl)}
  PROVE  h.inodes = k.inodes /\ h.quotas = k.quotas
<1>0. IsGraph(k)
  BY DEF FieldsTyped
<1>1. ASSUME NEW m, IsGraph(m), m.inodes = k.inodes, m.quotas = k.quotas, NEW op
      PROVE  /\ record_prov(m, op, i).inodes = k.inodes
             /\ record_prov(m, op, i).quotas = k.quotas
  BY <1>1, RecordKeeps DEF GraphFields
<1>2. CASE h = write_block(k, i)
  <2> DEFINE b == k.next_block
             e == k.next_edge
             m == [k EXCEPT !.next_block = b + 1, !.next_edge = e + 1,
                            !.blocks = insert_at(@, b, 1, NODE_CAPACITY),
                            !.inode_points_to = IndexAdd(@, i, e)]
  <2>1. h = insert_edge(m, e, OtherEdge("PointsTo", i, b))
    BY <1>2 DEF write_block
  <2>2. IsGraph(m) /\ m.inodes = k.inodes /\ m.quotas = k.quotas
    BY <1>0 DEF IsGraph, GraphFields
  <2> HIDE DEF m
  <2>3. IsGraph(h) /\ h.inodes = k.inodes /\ h.quotas = k.quotas
    BY <2>1, <2>2, InsertEdgeOwns
  <2> QED BY <2>3
<1>3. CASE h = setxattr(k, i, key, v)
  <2>1. CASE h = new_xattr(k, i, key, v)
    <3> DEFINE x == k.next_xattr
               e == k.next_edge
               m == [k EXCEPT !.next_xattr = x + 1, !.next_edge = e + 1,
                              !.xattrs = Put(@, x, [key |-> key, value |-> v]),
                              !.inode_xattrs = IndexAdd(@, i, x)]
               n2 == insert_edge(m, e, OtherEdge("HasXattr", i, x))
    <3>1. h = record_prov(n2, "Setxattr", i)
      BY <2>1 DEF new_xattr
    <3>2. IsGraph(m) /\ m.inodes = k.inodes /\ m.quotas = k.quotas
      BY <1>0 DEF IsGraph, GraphFields
    <3> HIDE DEF m
    <3>3. IsGraph(n2) /\ n2.inodes = k.inodes /\ n2.quotas = k.quotas
      BY <3>2, InsertEdgeOwns
    <3> HIDE DEF n2
    <3> QED BY <1>1, <3>1, <3>3
  <2>2. CASE \E x : h = [k EXCEPT !.xattrs = x]
    <3>1. IsGraph(h) /\ h.inodes = k.inodes /\ h.quotas = k.quotas
      BY <1>0, <2>2 DEF IsGraph, GraphFields
    <3> QED BY <1>1, <3>1
  <2> QED BY <1>3, <2>1, <2>2 DEF setxattr
<1>4. CASE h = removexattr(k, i, key)
  <2> DEFINE x == First(xattrs_with_key(k, i, key))
             E == {e \in DOMAIN k.edges : k.edges[e] = OtherEdge("HasXattr", i, x)}
             m == [k EXCEPT !.xattrs = Del(@, {x}), !.inode_xattrs[i] = @ \ {x}]
             n2 == IF E = {} THEN m ELSE remove_edge(m, {First(E)})
  <2>1. h = record_prov(n2, "Removexattr", i)
    BY <1>4 DEF removexattr
  <2>2. IsGraph(m) /\ m.inodes = k.inodes /\ m.quotas = k.quotas
    BY <1>0 DEF IsGraph, GraphFields
  <2> HIDE DEF m, E
  <2>3. IsGraph(n2) /\ n2.inodes = k.inodes /\ n2.quotas = k.quotas
    BY <2>2 DEF remove_edge, IsGraph, GraphFields
  <2> QED BY <1>1, <2>1, <2>3
<1>5. CASE h = setacl(k, i, acl)
  <2> DEFINE m == Purged(k, i, acl)
             n2 == grant_all(m, i, acl)
  <2>1. h = record_prov(n2, "SetAcl", i)
    BY <1>5 DEF setacl, Purged
  <2>2. IsGraph(m) /\ m.inodes = k.inodes /\ m.quotas = k.quotas
    BY <1>0, PurgeLeaves DEF SameExcept, GraphFields
  <2> HIDE DEF m
  <2>3. IsGraph(n2) /\ n2.inodes = k.inodes /\ n2.quotas = k.quotas
    BY <2>2 DEF grant_all, IsGraph, GraphFields
  <2> QED BY <1>1, <2>1, <2>3
<1> QED BY <1>2, <1>3, <1>4, <1>5

\* What write_data and truncate set, besides the log.
HasBytes(k, h, i, buf) ==
  /\ h.file_data = Put(k.file_data, i, buf) /\ h.quotas = k.quotas
  /\ h.inodes = [k.inodes EXCEPT ![i].size = Len(buf)]

LEMMA BytesSet ==
  ASSUME NEW k, IsGraph(k), NEW i, NEW buf, NEW op,
         NEW h, h = record_prov(SetBytes(k, i, buf), op, i)
  PROVE  HasBytes(k, h, i, buf)
<1> DEFINE P == [k.inodes EXCEPT ![i].size = Len(buf)]
           D == Put(k.file_data, i, buf)
           m == SetBytes(k, i, buf)
<1>1. m = [k EXCEPT !.file_data = D, !.inodes = P]
  BY DEF SetBytes, IsGraph, GraphFields
<1> HIDE DEF P, D, m
<1>2. IsGraph(m) /\ m.file_data = D /\ m.inodes = P /\ m.quotas = k.quotas
  BY <1>1 DEF IsGraph, GraphFields
<1>3. h.file_data = D /\ h.inodes = P /\ h.quotas = k.quotas
  BY <1>2, RecordKeeps DEF m, GraphFields
<1> QED BY <1>3 DEF D, P, HasBytes

\* The bytes of i become buf, and a shorter buf is a prefix of what was there.
Rewrites(k, h, i, buf) ==
  /\ HasBytes(k, h, i, buf)
  /\ Len(buf) < Len(FileBytes(k, i)) => buf = SubSeq(FileBytes(k, i), 1, Len(buf))

LEMMA TruncateRewrites ==
  ASSUME NEW k, FieldsTyped(k), NEW i, NEW n \in Nat
  PROVE  Rewrites(k, truncate(k, i, n), i, Resized(FileBytes(k, i), n))
<1> DEFINE old == FileBytes(k, i)
           buf == Resized(old, n)
<1>1. old \in Seq(Nat) /\ buf \in Seq(Nat) /\ Len(buf) = n
  BY BytesTyped, ResizedTyped
<1>2. ASSUME n < Len(old) PROVE buf = SubSeq(old, 1, n)
  <2>1. buf = [x \in 1 .. n |-> old[x]]
    BY <1>1, <1>2 DEF Resized
  <2> HIDE DEF old, buf
  <2>2. SubSeq(old, 1, n) = [x \in 1 .. n |-> old[x]]
    BY <1>1, <1>2
  <2> QED BY <2>1, <2>2
<1> HIDE DEF buf
<1>3. Len(buf) < Len(old) => buf = SubSeq(old, 1, Len(buf))
  BY <1>1, <1>2
<1> DEFINE h == truncate(k, i, n)
<1>4. h = record_prov(SetBytes(k, i, buf), "Truncate", i) /\ IsGraph(k)
  BY DEF truncate, buf, FieldsTyped
<1> HIDE DEF h, old
<1>5. HasBytes(k, h, i, buf)
  BY <1>4, BytesSet
<1>6. Rewrites(k, h, i, buf)
  BY <1>3, <1>5 DEF Rewrites, old
<1> QED BY <1>6 DEF h, buf, old

LEMMA WriteDataRewrites ==
  ASSUME NEW k, FieldsTyped(k), NEW i, NEW offset \in Nat, NEW data \in Seq(Nat)
  PROVE  \E buf : Rewrites(k, write_data(k, i, offset, data), i, buf)
<1> DEFINE old == FileBytes(k, i)
           end == offset + Len(data)
           ext == IF Len(old) < end THEN Resized(old, end) ELSE old
           new == [x \in 1..Len(ext) |-> IF x \in offset + 1 .. end
                                         THEN data[x - offset] ELSE ext[x]]
<1>0. old \in Seq(Nat) /\ end \in Nat
  BY BytesTyped
<1> HIDE DEF old, end
<1>1. /\ old \in Seq(Nat) /\ Resized(old, end) \in Seq(Nat)
      /\ Len(Resized(old, end)) = end /\ end \in Nat
  BY <1>0, ResizedTyped
<1>2. Len(ext) \in Nat /\ Len(ext) >= Len(old)
  BY <1>1
<1> HIDE DEF ext
<1>3. Len(new) = Len(ext)
  BY <1>2
<1> DEFINE h == write_data(k, i, offset, data)
<1>4. h = record_prov(SetBytes(k, i, new), "Write", i) /\ IsGraph(k)
  BY DEF write_data, FieldsTyped, ext, old, end
<1> HIDE DEF new
<1>5. ~(Len(new) < Len(old))
  BY <1>1, <1>2, <1>3
<1> HIDE DEF h
<1>6. HasBytes(k, h, i, new)
  BY <1>4, BytesSet
<1>7. Rewrites(k, h, i, new)
  BY <1>5, <1>6 DEF Rewrites, old
<1> QED BY <1>7 DEF h

LEMMA NextBytes ==
  ASSUME SoundState, WriteData \/ Truncate
  PROVE  \E i \in DOMAIN g.inodes : \E buf : Rewrites(g, g', i, buf)
<1>1. FieldsTyped(g)
  BY SoundGraph DEF SoundState
<1>2. CASE WriteData
  <2>1. PICK i \in DOMAIN g.inodes, w \in Writes : g' = write_data(g, i, w[1], w[2])
    BY <1>2 DEF WriteData, regular_ok, Step
  <2>2. w[1] \in Nat /\ w[2] \in Seq(Nat)
    BY InputAssumption
  <2> QED BY <1>1, <2>1, <2>2, WriteDataRewrites
<1>3. CASE Truncate
  <2>1. PICK i \in DOMAIN g.inodes, n \in Sizes : g' = truncate(g, i, n)
    BY <1>3 DEF Truncate, regular_ok, Step
  <2> QED BY <1>1, <2>1, TruncateRewrites, InputAssumption
<1> QED BY <1>2, <1>3

\* Only chmod and chown give an inode another mode or owner, only write_data
\* and truncate another size, only set_quota makes a quota, and only the calls
\* that create make an inode.
LEMMA NextOwners ==
  ASSUME SoundState, Next
  PROVE  \/ Chmod \/ Chown \/ SetQuota \/ WriteData \/ Truncate
         \/ /\ Alike(g, g', {g.next_inode})
            /\ CreateFile \/ Symlink \/ Mkdir \/ Alike(g, g', {})
<1>1. IsGraph(g) /\ FieldsTyped(g)
  BY SoundGraph DEF SoundState
<1>a. ASSUME Owners(g, g', {}) \/ \E d : Removal(g, g', d)
      PROVE  Alike(g, g', {g.next_inode}) /\ Alike(g, g', {})
  BY <1>a DEF Owners, Removal, Alike
<1>2. CASE CreateFile \/ Symlink \/ Mkdir
  <2>1. \E d, n, m, u, t : g' \in {create_file(g, d, n, m, u), mkdir(g, d, n, m, u),
                                   symlink(g, d, n, t, u)}
    BY <1>2 DEF CreateFile, Symlink, Mkdir, Step
  <2> QED BY <1>1, <1>2, <2>1, MakersOwn
<1>3. CASE Rmdir \/ Link \/ Unlink
  <2>1. \E d, n, i : \/ g' = rmdir(g, d, n) /\ rmdir_ok(g, d, n)
                     \/ g' = unlink(g, d, n) /\ unlink_ok(g, d, n)
                     \/ g' = link(g, d, n, i)
    BY <1>3 DEF Rmdir, Link, Unlink, Step
  <2> QED BY <1>1, <1>a, <2>1, MoversOwn
<1>4. CASE Rename
  <2>1. \E sd, src, dd, dst : g' = rename(g, sd, src, dd, dst).graph
    BY <1>4 DEF Rename, Step
  <2>2. \/ Owners(g, g', {})
        \/ \E r, d : Removal(g, r, d) /\ Owners(r, g', {})
    BY <1>1, <2>1, RenameOwns
  <2>3. ASSUME NEW r, NEW d, Removal(g, r, d), Owners(r, g', {})
        PROVE  Alike(g, g', {g.next_inode}) /\ Alike(g, g', {})
    BY <2>3 DEF Removal, Owners, OwnedAlike, Alike
  <2> QED BY <1>a, <2>2, <2>3
<1>5. CASE WriteBlock \/ Setxattr \/ Removexattr \/ Setacl
  <2>1. \E i, key, v, acl :
          g' \in {write_block(g, i), setxattr(g, i, key, v), removexattr(g, i, key),
                  setacl(g, i, acl)}
    BY <1>5 DEF WriteBlock, Setxattr, Removexattr, Setacl, Step
  <2> QED BY <1>1, <1>a, <2>1, CarriersOwn, OwnersIf
<1>6. CASE SetCapCtx
  <2>1. \E x : g' = [g EXCEPT !.cap_ctx = x]
    BY <1>6 DEF SetCapCtx, Step
  <2>2. g'.inodes = g.inodes /\ g'.quotas = g.quotas
    BY <1>1, <2>1 DEF IsGraph, GraphFields
  <2> QED BY <1>a, <2>2, OwnersIf
<1> QED BY <1>2, <1>3, <1>4, <1>5, <1>6 DEF Next

-----------------------------------------------------------------------------
(***************************************************************************)
(* What the calls that set something leave.                                *)
(***************************************************************************)
\* The caps and edges that the N grants of an ACL of i take in the purged graph m.
NewCaps(m, N)   == {x \in m.next_cap .. m.next_cap + N - 1 : x < NODE_CAPACITY}
NewGrants(m, N) == {x \in m.next_edge .. m.next_edge + N - 1 : x < EDGE_CAPACITY}

WithCaps(m, acl, N) ==
  [x \in DOMAIN m.caps \cup NewCaps(m, N) |->
     IF x \in NewCaps(m, N)
     THEN effective_rights(acl, acl[nth_granted(acl, x - m.next_cap)]) ELSE m.caps[x]]

WithGrants(m, i, N) ==
  [x \in DOMAIN m.edges \cup NewGrants(m, N) |->
     IF x \in NewGrants(m, N)
     THEN OtherEdge("Grants", m.next_cap + x - m.next_edge, i) ELSE m.edges[x]]

WithIndex(m, N) ==
  [x \in DOMAIN m.cap_grants \cup (m.next_cap .. m.next_cap + N - 1) |->
     IF x >= m.next_cap THEN m.next_edge + x - m.next_cap ELSE m.cap_grants[x]]

LEMMA GrantAllIs ==
  ASSUME NEW m, IsGraph(m), NEW i, NEW acl, NEW h, h = grant_all(m, i, acl),
         NEW N, N = Cardinality(granted(acl))
  PROVE  /\ IsGraph(h) /\ h.acls = m.acls
         /\ h.next_cap = m.next_cap + N /\ h.next_edge = m.next_edge + N
         /\ h.caps = WithCaps(m, acl, N) /\ h.edges = WithGrants(m, i, N)
         /\ h.cap_grants = WithIndex(m, N)
<1>1. h = [m EXCEPT !.next_cap = m.next_cap + N, !.next_edge = m.next_edge + N,
                    !.caps = WithCaps(m, acl, N), !.edges = WithGrants(m, i, N),
                    !.cap_grants = WithIndex(m, N)]
  BY DEF grant_all, WithCaps, WithGrants, WithIndex, NewCaps, NewGrants
<1> QED BY <1>1 DEF IsGraph, GraphFields

LEMMA SetaclGrants ==
  ASSUME NEW k, IsGraph(k), NEW i, NEW acl, NEW h, h = setacl(k, i, acl)
  PROVE  /\ h.acls = Put(k.acls, i, acl)
         /\ \A e \in EdgesOf(h, "Grants") :
              \/ h.edges[e].tgt = i
              \/ e \in EdgesOf(k, "Grants") /\ h.edges[e] = k.edges[e]
<1> DEFINE m == Purged(k, i, acl)
           n == grant_all(m, i, acl)
           N == Cardinality(granted(acl))
           Q == WithGrants(m, i, N)
<1>1. h = record_prov(n, "SetAcl", i)
  BY DEF setacl, Purged
<1>2. /\ IsGraph(m) /\ m.edges = Del(k.edges, GrantsTo(k, i)) /\ m.acls = Put(k.acls, i, acl)
  BY PurgeLeaves DEF SameExcept
<1> HIDE DEF m, N
<1>3. IsGraph(n) /\ n.edges = Q /\ n.acls = m.acls
  BY <1>2, GrantAllIs DEF N
<1> HIDE DEF n
<1>4. h.edges = Q /\ h.acls = m.acls
  BY <1>1, <1>3, RecordKeeps DEF GraphFields
<1>5. \A x \in DOMAIN Q : Q[x].tgt = i \/ (x \in DOMAIN k.edges /\ Q[x] = k.edges[x])
  BY <1>2 DEF WithGrants, OtherEdge, Del
<1> HIDE DEF Q
<1> QED BY <1>2, <1>4, <1>5 DEF EdgesOf

LEMMA XattrOwners ==
  ASSUME NEW k, IsGraph(k), NEW i, NEW key, NEW v
  PROVE  /\ DOMAIN setxattr(k, i, key, v).inode_xattrs \subseteq DOMAIN k.inode_xattrs \cup {i}
         /\ DOMAIN removexattr(k, i, key).inode_xattrs = DOMAIN k.inode_xattrs
<1>1. ASSUME NEW h, h = setxattr(k, i, key, v)
      PROVE  DOMAIN h.inode_xattrs \subseteq DOMAIN k.inode_xattrs \cup {i}
  <2>1. CASE h = new_xattr(k, i, key, v)
    <3> DEFINE x == k.next_xattr
               e == k.next_edge
               D == IndexAdd(k.inode_xattrs, i, x)
               X == Put(k.xattrs, x, [key |-> key, value |-> v])
               m == [k EXCEPT !.next_xattr = x + 1, !.next_edge = e + 1,
                              !.xattrs = X, !.inode_xattrs = D]
               n == insert_edge(m, e, OtherEdge("HasXattr", i, x))
    <3>1. h = record_prov(n, "Setxattr", i)
      BY <2>1 DEF new_xattr
    <3>2. DOMAIN D = DOMAIN k.inode_xattrs \cup {i}
      BY DEF IndexAdd, Put
    <3> HIDE DEF D, X
    <3>3. IsGraph(m) /\ m.inode_xattrs = D
      BY DEF IsGraph, GraphFields
    <3> HIDE DEF m
    <3>4. IsGraph(n) /\ n.inode_xattrs = D
      <4>1. \E u, w : n = [m EXCEPT !.edges = u, !.dir_name_idx = w]
        BY DEF insert_edge
      <4> QED BY <3>3, <4>1 DEF IsGraph, GraphFields
    <3> HIDE DEF n
    <3>5. h.inode_xattrs = D
      BY <3>1, <3>4, RecordKeeps DEF GraphFields
    <3> QED BY <3>2, <3>5
  <2>2. CASE \E x : h = [k EXCEPT !.xattrs = x]
    BY <2>2 DEF IsGraph, GraphFields
  <2> QED BY <1>1, <2>1, <2>2 DEF setxattr
<1>2. ASSUME NEW h, h = removexattr(k, i, key)
      PROVE  DOMAIN h.inode_xattrs = DOMAIN k.inode_xattrs
  <2> DEFINE x == First(xattrs_with_key(k, i, key))
             E == {e \in DOMAIN k.edges : k.edges[e] = OtherEdge("HasXattr", i, x)}
             P == [k.inode_xattrs EXCEPT ![i] = k.inode_xattrs[i] \ {x}]
             X == Del(k.xattrs, {x})
             m == [k EXCEPT !.xattrs = Del(@, {x}), !.inode_xattrs[i] = @ \ {x}]
             n == IF E = {} THEN m ELSE remove_edge(m, {First(E)})
  <2>1. h = record_prov(n, "Removexattr", i)
    BY <1>2 DEF removexattr
  <2>2. m = [k EXCEPT !.xattrs = X, !.inode_xattrs = P]
    BY DEF IsGraph, GraphFields
  <2>3. DOMAIN P = DOMAIN k.inode_xattrs
    OBVIOUS
  <2> HIDE DEF P, X, m, E
  <2>4. IsGraph(m) /\ m.inode_xattrs = P
    BY <2>2 DEF IsGraph, GraphFields
  <2>5. IsGraph(n) /\ n.inode_xattrs = P
    BY <2>4 DEF remove_edge, IsGraph, GraphFields
  <2> HIDE DEF n
  <2>6. h.inode_xattrs = P
    BY <2>1, <2>5, RecordKeeps DEF GraphFields
  <2> QED BY <2>3, <2>6
<1> QED BY <1>1, <1>2

-----------------------------------------------------------------------------
(***************************************************************************)
(* What is left behind under an id.                                        *)
(***************************************************************************)
\* The inductive invariant: whatever is kept under an inode or a directory,
\* live or gone, is under an id that was issued.
LeftoversIssued(k) ==
  /\ \A i \in DOMAIN k.inode_xattrs : i < k.next_inode
  /\ \A i \in DOMAIN k.acls : i < k.next_inode
  /\ \A i \in DOMAIN k.file_data : i < k.next_inode
  /\ \A i \in DOMAIN k.symlink_targets : i < k.next_inode
  /\ \A e \in EdgesOf(k, "Grants") : k.edges[e].tgt < k.next_inode
  /\ \A d \in DOMAIN k.quotas : d < k.next_dir
  /\ \A i \in DOMAIN k.inode_xattrs \cup DOMAIN k.acls \cup DOMAIN k.file_data
              \cup DOMAIN k.symlink_targets \cup DOMAIN k.quotas : i \in Int

LEMMA NextLeftovers ==
  ASSUME PoolsHaveRoom, SoundState, LeftoversIssued(g), Next
  PROVE  LeftoversIssued(g')
<1>1. /\ IsGraph(g) /\ FieldsTyped(g) /\ IdsIssued(g) /\ FieldsTyped(g')
      /\ g.next_inode \in Nat /\ g'.next_inode \in Nat /\ g'.next_inode >= g.next_inode
      /\ g.next_dir \in Nat /\ g'.next_dir \in Nat /\ g'.next_dir >= g.next_dir
  <2>1. Sound(g) /\ TypeOK
    BY DEF SoundState, Sound, TypeOK
  <2>2. Issues(g, g')
    BY <2>1, NextIssues
  <2> QED BY <2>1, <2>2, SoundGraph DEF Issues, FieldsTyped, Ids
<1>2. WhoChangesWhat
  BY NextLeaves
<1>3. \A i \in DOMAIN g.inodes : i \in Nat /\ i < g.next_inode
  BY <1>1 DEF IdsIssued
<1>4. \A e \in DOMAIN g'.edges : g'.edges[e].tgt \in Nat
  BY <1>1 DEF FieldsTyped, Edge
<1>5. \A i \in DOMAIN g'.inode_xattrs : i \in Int /\ i < g'.next_inode
  <2>1. CASE Setxattr \/ Removexattr
    <3>1. PICK i, key, v : /\ i \in DOMAIN g.inodes
                           /\ g' = setxattr(g, i, key, v) \/ g' = removexattr(g, i, key)
      BY <2>1 DEF Setxattr, Removexattr, setxattr_ok, removexattr_ok, Step
    <3>2. DOMAIN g'.inode_xattrs \subseteq DOMAIN g.inode_xattrs \cup {i}
      BY <1>1, <3>1, XattrOwners
    <3> QED BY <1>1, <1>3, <3>1, <3>2 DEF LeftoversIssued
  <2>2. CASE Leaves(g, g', Attributes, {"HasXattr"})
    <3>1. g'.inode_xattrs = g.inode_xattrs
      BY <2>2 DEF Leaves, Attributes
    <3> QED BY <1>1, <3>1 DEF LeftoversIssued
  <2> QED BY <1>2, <2>1, <2>2 DEF WhoChangesWhat
<1>6. /\ \A i \in DOMAIN g'.acls : i \in Int /\ i < g'.next_inode
      /\ \A e \in EdgesOf(g', "Grants") : g'.edges[e].tgt < g'.next_inode
  <2>1. CASE Setacl
    <3>1. PICK i, acl : i \in DOMAIN g.inodes /\ g' = setacl(g, i, acl)
      BY <2>1 DEF Setacl, attr_ok, Step
    <3>2. /\ g'.acls = Put(g.acls, i, acl)
          /\ \A e \in EdgesOf(g', "Grants") :
               \/ g'.edges[e].tgt = i
               \/ e \in EdgesOf(g, "Grants") /\ g'.edges[e] = g.edges[e]
      BY <1>1, <3>1, SetaclGrants
    <3>3. DOMAIN g'.acls = DOMAIN g.acls \cup {i}
      BY <3>2 DEF Put
    <3>4. \A j \in DOMAIN g'.acls : j \in Int /\ j < g'.next_inode
      BY <1>1, <1>3, <3>1, <3>3 DEF LeftoversIssued
    <3>5. ASSUME NEW e \in EdgesOf(g', "Grants")
          PROVE  g'.edges[e].tgt < g'.next_inode
      <4>1. g'.edges[e].tgt \in Nat
        BY <1>4 DEF EdgesOf
      <4>2. CASE g'.edges[e].tgt = i
        BY <1>1, <1>3, <3>1, <4>1, <4>2
      <4>3. CASE e \in EdgesOf(g, "Grants") /\ g'.edges[e] = g.edges[e]
        BY <1>1, <4>1, <4>3 DEF LeftoversIssued
      <4> QED BY <3>2, <4>2, <4>3
    <3> QED BY <3>4, <3>5
  <2>2. CASE Leaves(g, g', Permissions, {"Grants"})
    <3>1. g'.acls = g.acls /\ EdgesOf(g', "Grants") = EdgesOf(g, "Grants")
          /\ \A e \in EdgesOf(g, "Grants") : g'.edges[e] = g.edges[e]
      BY <2>2 DEF Leaves, Permissions, SameEdges
    <3>2. \A e \in EdgesOf(g', "Grants") : g'.edges[e].tgt \in Nat
      BY <1>4 DEF EdgesOf
    <3> QED BY <1>1, <3>1, <3>2 DEF LeftoversIssued
  <2> QED BY <1>2, <2>1, <2>2 DEF WhoChangesWhat
<1>7. \A i \in DOMAIN g'.file_data : i \in Int /\ i < g'.next_inode
  <2>1. CASE WriteData \/ Truncate
    <3>1. PICK i \in DOMAIN g.inodes : \E buf : Rewrites(g, g', i, buf)
      BY <2>1, NextBytes
    <3>2. \E buf : g'.file_data = Put(g.file_data, i, buf)
      BY <3>1 DEF Rewrites, HasBytes
    <3>3. DOMAIN g'.file_data = DOMAIN g.file_data \cup {i}
      BY <3>2 DEF Put
    <3> QED BY <1>1, <1>3, <3>1, <3>3 DEF LeftoversIssued
  <2>2. CASE Leaves(g, g', {"file_data"}, {})
    <3>1. g'.file_data = g.file_data
      BY <2>2 DEF Leaves
    <3> QED BY <1>1, <3>1 DEF LeftoversIssued
  <2> QED BY <1>2, <2>1, <2>2 DEF WhoChangesWhat
<1>8. \A i \in DOMAIN g'.symlink_targets : i \in Int /\ i < g'.next_inode
  <2>1. CASE Symlink
    <3>1. PICK d, n, t, u : g' = symlink(g, d, n, t, u)
      BY <2>1 DEF Symlink, Step
    <3>2. PICK m : /\ Leaves(g, m, Carried \ {"symlink_targets"}, CarriedKinds)
                   /\ m.symlink_targets = Put(g.symlink_targets, g.next_inode, t)
                   /\ g' = record_prov(m, "Symlink", g.next_inode)
      BY <3>1, SymlinkLeaves DEF SoundState
    <3>3. g'.symlink_targets = Put(g.symlink_targets, g.next_inode, t)
      BY <3>2, RecordKeeps DEF Leaves, GraphFields
    <3>4. DOMAIN g'.symlink_targets = DOMAIN g.symlink_targets \cup {g.next_inode}
      BY <3>3 DEF Put
    <3>5. g'.next_inode = g.next_inode + 1
      BY <1>1, <3>1, SymlinkTakes
    <3> QED BY <1>1, <3>4, <3>5 DEF LeftoversIssued
  <2>2. CASE Leaves(g, g', {"symlink_targets"}, {})
    <3>1. g'.symlink_targets = g.symlink_targets
      BY <2>2 DEF Leaves
    <3> QED BY <1>1, <3>1 DEF LeftoversIssued
  <2> QED BY <1>2, <2>1, <2>2 DEF WhoChangesWhat
<1>9. \A d \in DOMAIN g'.quotas : d \in Int /\ d < g'.next_dir
  <2>1. CASE SetQuota
    <3>1. PICK d, n : d \in DOMAIN g.dirs /\ g' = set_quota(g, d, n)
      BY <2>1 DEF SetQuota, set_quota_ok, Step
    <3>2. DOMAIN g'.quotas = DOMAIN g.quotas \cup {d}
      BY <1>1, <3>1 DEF set_quota, Put, IsGraph, GraphFields
    <3>3. d \in Nat /\ d < g.next_dir
      BY <1>1, <3>1 DEF IdsIssued
    <3> QED BY <1>1, <3>2, <3>3 DEF LeftoversIssued
  <2>2. CASE Chmod \/ Chown
    <3>1. \E m, op, i, x : g' = record_prov([g EXCEPT !.inodes = x], op, i)
      <4>1. PICK i, m, u, v : g' = chmod(g, i, m) \/ g' = chown(g, i, u, v)
        BY <2>2 DEF Chmod, Chown, Step
      <4>2. CASE g' = chmod(g, i, m)
        BY <4>2 DEF chmod
      <4>3. CASE g' = chown(g, i, u, v)
        <5> DEFINE h == [g EXCEPT !.inodes[i].uid = u, !.inodes[i].gid = v]
        <5>1. h = [g EXCEPT !.inodes = h.inodes]
          BY <1>1 DEF IsGraph, GraphFields
        <5> QED BY <4>3, <5>1 DEF chown
      <4> QED BY <4>1, <4>2, <4>3
    <3>2. PICK op, i, x : g' = record_prov([g EXCEPT !.inodes = x], op, i)
      BY <3>1
    <3>3. IsGraph([g EXCEPT !.inodes = x]) /\ [g EXCEPT !.inodes = x].quotas = g.quotas
      BY <1>1 DEF IsGraph, GraphFields
    <3> DEFINE m == [g EXCEPT !.inodes = x]
    <3>5. IsGraph(m) /\ m.quotas = g.quotas /\ g' = record_prov(m, op, i)
      BY <3>2, <3>3
    <3> HIDE DEF m
    <3>4. g'.quotas = g.quotas
      BY <3>5, RecordKeeps DEF GraphFields
    <3> QED BY <1>1, <3>4 DEF LeftoversIssued
  <2>3. CASE Alike(g, g', {g.next_inode})
    <3>1. DOMAIN g'.quotas = DOMAIN g.quotas
      BY <2>3 DEF Alike
    <3> QED BY <1>1, <3>1 DEF LeftoversIssued
  <2>4. CASE WriteData \/ Truncate
    <3>1. g'.quotas = g.quotas
      BY <2>4, NextBytes DEF Rewrites, HasBytes
    <3> QED BY <1>1, <3>1 DEF LeftoversIssued
  <2> QED BY <2>1, <2>2, <2>3, <2>4, NextOwners
<1> QED BY <1>5, <1>6, <1>7, <1>8, <1>9 DEF LeftoversIssued

LEMMA InitLeftovers ==
  ASSUME Init
  PROVE  LeftoversIssued(g)
<1>1. /\ g.inode_xattrs = Empty /\ g.acls = Empty /\ g.file_data = Empty
      /\ g.symlink_targets = Empty /\ g.quotas = Empty /\ EdgesOf(g, "Grants") = {}
  BY DEF Init, new_graph, EdgesOf, ContainsEdge
<1>2. DOMAIN Empty = {}
  BY DEF Empty
<1> QED BY <1>1, <1>2 DEF LeftoversIssued

\* An inode or a directory that is created finds nothing under its id: not the
\* attributes, the ACL, the grants, the contents, the symlink target or the
\* quota that unlink and rmdir left behind when an earlier object went.
THEOREM ObjectsStartClean ==
  ASSUME PoolsHaveRoom
  PROVE  Spec => NewObjectsStartClean
<1> DEFINE Clean ==
      /\ \A i \in DOMAIN g'.inodes \ DOMAIN g.inodes :
           /\ i \notin DOMAIN g.inode_xattrs \cup DOMAIN g.acls
           /\ i \notin DOMAIN g.file_data \cup DOMAIN g.symlink_targets
           /\ \A e \in EdgesOf(g, "Grants") : g.edges[e].tgt # i
      /\ \A d \in DOMAIN g'.dirs \ DOMAIN g.dirs : d \notin DOMAIN g.quotas
<1>1. Init => LeftoversIssued(g)
  BY InitLeftovers
<1>2. SoundState /\ LeftoversIssued(g) /\ [Next]_g => LeftoversIssued(g)'
  <2> SUFFICES ASSUME SoundState, LeftoversIssued(g), [Next]_g PROVE LeftoversIssued(g')
    OBVIOUS
  <2>1. CASE Next
    BY <2>1, NextLeftovers
  <2>2. CASE UNCHANGED g
    BY <2>2
  <2> QED BY <2>1, <2>2
<1>3. SoundState /\ LeftoversIssued(g) /\ [Next]_g => [Clean]_g
  <2> SUFFICES ASSUME SoundState, LeftoversIssued(g), Next PROVE Clean
    OBVIOUS
  <2>1. Issues(g, g') /\ FieldsTyped(g) /\ IdsIssued(g)
    <3>1. TypeOK
      BY DEF SoundState, Sound, TypeOK
    <3> QED BY <3>1, NextIssues DEF TypeOK
  <2>2. g.next_inode \in Nat /\ g.next_dir \in Nat /\ g'.next_inode \in Nat
        /\ g'.next_dir \in Nat
    BY <2>1 DEF Issues, FieldsTyped, Ids
  <2>3. \A i \in DOMAIN g'.inodes \ DOMAIN g.inodes : i \in Int /\ i >= g.next_inode
    BY <2>1, <2>2 DEF Issues
  <2>4. \A d \in DOMAIN g'.dirs \ DOMAIN g.dirs : d \in Int /\ d >= g.next_dir
    BY <2>1, <2>2 DEF Issues
  <2>5. \A d \in DOMAIN g'.dirs \ DOMAIN g.dirs : d \notin DOMAIN g.quotas
    BY <2>2, <2>4 DEF LeftoversIssued
  <2>6. ASSUME NEW i \in DOMAIN g'.inodes \ DOMAIN g.inodes
        PROVE  /\ i \notin DOMAIN g.inode_xattrs \cup DOMAIN g.acls
               /\ i \notin DOMAIN g.file_data \cup DOMAIN g.symlink_targets
               /\ \A e \in EdgesOf(g, "Grants") : g.edges[e].tgt # i
    <3>1. i \in Int /\ ~(i < g.next_inode)
      BY <2>2, <2>3
    <3> QED BY <3>1 DEF LeftoversIssued
  <2> QED BY <2>5, <2>6
<1> HIDE DEF Clean
<1>4. Spec => [][Clean]_g
  BY <1>1, <1>2, <1>3, SoundAlways, PTL DEF Spec
<1> QED BY <1>4 DEF Clean, NewObjectsStartClean

-----------------------------------------------------------------------------
(***************************************************************************)
(* ACLs and capabilities.                                                  *)
(***************************************************************************)
\* Where k comes in the order of S, from 0.
Rank(S, k) == Cardinality({j \in S : j < k})

LEMMA RankGrows ==
  ASSUME NEW S, S \subseteq Int, IsFiniteSet(S), NEW k \in S
  PROVE  /\ Rank(S, k) \in 0 .. Cardinality(S) - 1
         /\ \A l \in S : k < l => Rank(S, k) < Rank(S, l)
<1> DEFINE T == {j \in S : j < k}
<1>1. /\ IsFiniteSet(T) /\ Cardinality(T) \in Nat
      /\ IsFiniteSet(T \cup {k}) /\ Cardinality(T \cup {k}) = Cardinality(T) + 1
  <2>1. T \subseteq S /\ k \notin T
    BY DEF T
  <2> HIDE DEF T
  <2>2. IsFiniteSet(T)
    BY <2>1, FS_Subset
  <2> QED BY <2>1, <2>2, FS_CardinalityType, FS_AddElement
<1>2. ASSUME NEW U, U \subseteq S, T \cup {k} \subseteq U
      PROVE  Cardinality(U) \in Nat /\ Cardinality(T) + 1 <= Cardinality(U)
  <2> HIDE DEF T
  <2>1. IsFiniteSet(U)
    BY <1>2, FS_Subset
  <2> QED BY <1>1, <1>2, <2>1, FS_Subset, FS_CardinalityType
<1>3. Cardinality(T) + 1 <= Cardinality(S) /\ Cardinality(S) \in Nat
  <2>1. T \cup {k} \subseteq S
    OBVIOUS
  <2> HIDE DEF T
  <2> QED BY <1>2, <2>1
<1>4. ASSUME NEW l \in S, k < l
      PROVE  Rank(S, k) < Rank(S, l)
  <2> DEFINE U == {j \in S : j < l}
  <2>1. T \cup {k} \subseteq U /\ U \subseteq S
    <3>1. \A j \in S : j \in Int
      OBVIOUS
    <3>2. \A j \in S : j < k => j < l
      BY <1>4, <3>1
    <3> QED BY <1>4, <3>2
  <2> HIDE DEF T, U
  <2>2. Cardinality(U) \in Nat /\ Cardinality(T) + 1 <= Cardinality(U)
    BY <1>2, <2>1
  <2>3. Cardinality(T) < Cardinality(U)
    BY <1>1, <2>2
  <2> QED BY <2>3 DEF T, U, Rank
<1> HIDE DEF T
<1>5. Cardinality(T) \in 0 .. Cardinality(S) - 1
  BY <1>1, <1>3
<1> QED BY <1>4, <1>5 DEF T, Rank

\* Each place is taken, by one element.
LEMMA RankIsBijective ==
  ASSUME NEW S, S \subseteq Int, IsFiniteSet(S)
  PROVE  /\ Cardinality(S) \in Nat
         /\ \A k \in S : Rank(S, k) \in 0 .. Cardinality(S) - 1
         /\ \A k, l \in S : Rank(S, k) = Rank(S, l) => k = l
         /\ \A n \in 0 .. Cardinality(S) - 1 : \E k \in S : Rank(S, k) = n
<1> DEFINE N == Cardinality(S)
           T == 0 .. N - 1
           f == [k \in S |-> Rank(S, k)]
<1>1. N \in Nat
  BY FS_CardinalityType
<1>2. \A k \in S : Rank(S, k) \in T
  BY RankGrows
<1>3. \A k, l \in S : Rank(S, k) = Rank(S, l) => k = l
  <2>0. \A j \in S : j \in Int
    OBVIOUS
  <2>1. SUFFICES ASSUME NEW k \in S, NEW l \in S, k < l
                 PROVE  Rank(S, k) # Rank(S, l)
    BY <2>0
  <2>2. Rank(S, k) \in Int /\ Rank(S, l) \in Int
    BY <1>1, <1>2
  <2>3. Rank(S, k) < Rank(S, l)
    BY <2>1, RankGrows
  <2> QED BY <2>2, <2>3
<1>4. IsFiniteSet(T) /\ Cardinality(T) = N
  <2>1. 0 \in Int /\ N - 1 \in Int
    BY <1>1
  <2> HIDE DEF N
  <2> QED BY <1>1, <2>1, FS_Interval
<1>5. f \in Injection(S, T)
  <2>1. f \in [S -> T] /\ \A a, b \in S : f[a] = f[b] => a = b
    BY <1>2, <1>3
  <2> HIDE DEF f, T
  <2> QED BY <2>1 DEF Injection, IsInjective
<1>6. f \in Surjection(S, T)
  <2> HIDE DEF f, T
  <2> QED BY <1>4, <1>5, FS_Injection
<1>7. \A n \in T : \E k \in S : f[k] = n
  <2> HIDE DEF f, T
  <2> QED BY <1>6 DEF Surjection
<1> QED BY <1>1, <1>2, <1>3, <1>7

\* nth_granted goes through the granted entries in their order.
LEMMA NthGranted ==
  ASSUME NEW acl \in Acls
  PROVE  /\ granted(acl) \subseteq Nat /\ IsFiniteSet(granted(acl))
         /\ \A j \in granted(acl) : nth_granted(acl, Rank(granted(acl), j)) = j
         /\ \A n \in 0 .. Cardinality(granted(acl)) - 1 :
              /\ nth_granted(acl, n) \in granted(acl)
              /\ Rank(granted(acl), nth_granted(acl, n)) = n
<1> DEFINE S == granted(acl)
<1>1. DOMAIN acl \subseteq Nat
  BY InputAssumption
<1>2. S \subseteq Nat /\ IsFiniteSet(S)
  BY <1>1, AclsAreFinite, FS_Subset DEF granted
<1>3. \A n : nth_granted(acl, n) = CHOOSE k \in S : Rank(S, k) = n
  BY DEF nth_granted, Rank
<1> HIDE DEF S
<1>4. S \subseteq Int
  BY <1>2
<1> DEFINE T == 0 .. Cardinality(S) - 1
<1>b. /\ \A k \in S : Rank(S, k) \in T
      /\ \A k, l \in S : Rank(S, k) = Rank(S, l) => k = l
      /\ \A n \in T : \E k \in S : Rank(S, k) = n
  BY <1>2, <1>4, RankIsBijective
<1> HIDE DEF T
<1>5. \A n \in T : nth_granted(acl, n) \in S /\ Rank(S, nth_granted(acl, n)) = n
  BY <1>3, <1>b
<1>6. \A j \in S : nth_granted(acl, Rank(S, j)) = j
  BY <1>5, <1>b
<1> QED BY <1>2, <1>5, <1>6 DEF S, T

LEMMA RightsOfAcl ==
  ASSUME NEW acl \in Acls, NEW k \in granted(acl)
  PROVE  effective_rights(acl, acl[k]) \in SUBSET AclRights
<1>1. acl \in Seq(AclEntry) /\ k \in DOMAIN acl
  BY InputAssumption DEF granted
<1>2. acl[k] \in AclEntry
  BY <1>1
<1>3. acl[k].perms \in SUBSET AclRights
  BY <1>2 DEF AclEntry
<1> QED BY <1>3 DEF effective_rights

Granting(k, i, r) == {e \in EdgesOf(k, "Grants") :
                        k.edges[e].tgt = i /\ k.caps[k.edges[e].src] = r}
Entitled(acl, r)  == {j \in granted(acl) : effective_rights(acl, acl[j]) = r}

\* Caps and Grants edges belong to each other, one to one.
GrantsPaired(k) ==
  /\ DOMAIN k.cap_grants = DOMAIN k.caps
  /\ \A c \in DOMAIN k.caps : /\ k.cap_grants[c] \in EdgesOf(k, "Grants")
                              /\ k.edges[k.cap_grants[c]].src = c
  /\ \A e \in EdgesOf(k, "Grants") : /\ k.edges[e].src \in DOMAIN k.caps
                                     /\ k.cap_grants[k.edges[e].src] = e

\* Caps have issued ids, and no rights but those an ACL can give.
CapsIssued(k) ==
  \A c \in DOMAIN k.caps : /\ c \in Int /\ c < k.next_cap
                           /\ k.caps[c] \in SUBSET AclRights

\* There is a cap for each entry of an ACL that is entitled to one.
AclsServed(k) ==
  /\ \A e \in EdgesOf(k, "Grants") : k.edges[e].tgt \in DOMAIN k.acls
  /\ \A i \in DOMAIN k.acls, r \in SUBSET AclRights :
       r # {} => Cardinality(Granting(k, i, r)) = Cardinality(Entitled(k.acls[i], r))

\* The inductive invariant.
GrantsExact(k) == GrantsPaired(k) /\ CapsIssued(k) /\ AclsServed(k)

LEMMA GrantsExactSame ==
  ASSUME NEW k, NEW h, GrantsExact(k), Leaves(k, h, Permissions, {"Grants"})
  PROVE  GrantsExact(h)
<1>1. /\ h.caps = k.caps /\ h.cap_grants = k.cap_grants /\ h.acls = k.acls
      /\ h.next_cap = k.next_cap
      /\ EdgesOf(h, "Grants") = EdgesOf(k, "Grants")
      /\ \A e \in EdgesOf(k, "Grants") : h.edges[e] = k.edges[e]
  BY DEF Leaves, Permissions, SameEdges
<1>2. \A i, r : Granting(h, i, r) = Granting(k, i, r)
  BY <1>1 DEF Granting
<1> QED BY <1>1, <1>2 DEF GrantsExact, GrantsPaired, CapsIssued, AclsServed

LEMMA PurgeExact ==
  ASSUME NEW k, IsGraph(k), GrantsPaired(k), CapsIssued(k), NEW i, NEW acl,
         NEW m, m = Purged(k, i, acl)
  PROVE  /\ GrantsPaired(m) /\ CapsIssued(m)
         /\ EdgesOf(m, "Grants") = EdgesOf(k, "Grants") \ GrantsTo(k, i)
         /\ \A e \in EdgesOf(m, "Grants") :
              /\ m.edges[e] = k.edges[e] /\ m.edges[e].tgt # i
              /\ m.caps[m.edges[e].src] = k.caps[m.edges[e].src]
<1> DEFINE G == EdgesOf(k, "Grants")
           T == GrantsTo(k, i)
           C == Grantees(k, i)
<1>1. /\ m.edges = Del(k.edges, T) /\ m.next_cap = k.next_cap
      /\ m.cap_grants = Del(k.cap_grants, C) /\ m.caps = Del(k.caps, C)
  <2>1. /\ SameExcept(k, m, {"edges", "dir_name_idx", "cap_grants", "caps", "acls"})
        /\ m.edges = Del(k.edges, T)
        /\ m.cap_grants = Del(k.cap_grants, C) /\ m.caps = Del(k.caps, C)
    BY PurgeLeaves
  <2> QED BY <2>1 DEF SameExcept, GraphFields
<1>2. /\ T = {e \in G : k.edges[e].tgt = i} /\ C = {k.edges[e].src : e \in T}
  BY DEF GrantsTo, Grantees, EdgesOf
<1> HIDE DEF T, C
<1>3. EdgesOf(m, "Grants") = G \ T /\ \A e \in G \ T : m.edges[e] = k.edges[e]
  BY <1>1 DEF EdgesOf, Del
<1> HIDE DEF G
<1>4. \A e \in G : k.edges[e].src \in DOMAIN k.caps /\ k.cap_grants[k.edges[e].src] = e
  BY DEF GrantsPaired, G
<1>5. \A e \in G : k.edges[e].src \in C <=> e \in T
  BY <1>2, <1>4
<1>6. /\ DOMAIN m.caps = DOMAIN k.caps \ C /\ DOMAIN m.cap_grants = DOMAIN k.cap_grants \ C
      /\ \A c \in DOMAIN k.caps \ C : m.caps[c] = k.caps[c]
      /\ \A c \in DOMAIN k.cap_grants \ C : m.cap_grants[c] = k.cap_grants[c]
  BY <1>1 DEF Del
<1>7. /\ DOMAIN k.cap_grants = DOMAIN k.caps
      /\ \A c \in DOMAIN k.caps : k.cap_grants[c] \in G /\ k.edges[k.cap_grants[c]].src = c
  BY DEF GrantsPaired, G
<1>8. \A e \in G \ T : /\ k.edges[e].src \in DOMAIN m.caps
                       /\ m.cap_grants[k.edges[e].src] = e
                       /\ m.caps[k.edges[e].src] = k.caps[k.edges[e].src]
  BY <1>4, <1>5, <1>6, <1>7
<1>9. \A c \in DOMAIN m.caps : m.cap_grants[c] \in G \ T /\ k.edges[m.cap_grants[c]].src = c
  BY <1>5, <1>6, <1>7
<1>10. GrantsPaired(m)
  BY <1>3, <1>6, <1>7, <1>8, <1>9 DEF GrantsPaired
<1>11. CapsIssued(m)
  BY <1>1, <1>6 DEF CapsIssued
<1> QED BY <1>2, <1>3, <1>8, <1>10, <1>11 DEF G, T

\* h has N caps and edges more than m, for the entries of acl in their order.
Granted(m, h, i, acl, N) ==
  /\ DOMAIN h.caps = DOMAIN m.caps \cup (m.next_cap .. m.next_cap + N - 1)
  /\ \A c \in DOMAIN m.caps : h.caps[c] = m.caps[c]
  /\ EdgesOf(h, "Grants") =
       EdgesOf(m, "Grants") \cup (m.next_edge .. m.next_edge + N - 1)
  /\ \A e \in EdgesOf(m, "Grants") : h.edges[e] = m.edges[e]
  /\ \A n \in 0 .. N - 1 :
       /\ h.edges[m.next_edge + n] = OtherEdge("Grants", m.next_cap + n, i)
       /\ h.caps[m.next_cap + n] = effective_rights(acl, acl[nth_granted(acl, n)])

\* Slots for all of them: cap and edge n of the new ones belong to each other.
LEMMA GrantsAdded ==
  ASSUME NEW m, GrantsPaired(m), NEW i, NEW acl, NEW N \in Nat,
         m.next_cap \in Nat, m.next_edge \in Nat,
         m.next_cap + N <= NODE_CAPACITY, m.next_edge + N <= EDGE_CAPACITY,
         \A c \in DOMAIN m.caps : c \in Int /\ c < m.next_cap,
         \A e \in DOMAIN m.edges : e \in Int /\ e < m.next_edge,
         NEW h, h.caps = WithCaps(m, acl, N), h.edges = WithGrants(m, i, N),
         h.cap_grants = WithIndex(m, N)
  PROVE  GrantsPaired(h) /\ Granted(m, h, i, acl, N)
<1> DEFINE c0 == m.next_cap
           e0 == m.next_edge
           NC == c0 .. c0 + N - 1
           NE == e0 .. e0 + N - 1
           G  == EdgesOf(m, "Grants")
           H  == EdgesOf(h, "Grants")
           Rights(n) == effective_rights(acl, acl[nth_granted(acl, n)])
<1>1. NewCaps(m, N) = NC /\ NewGrants(m, N) = NE
  BY CapacityAssumption DEF NewCaps, NewGrants
<1>2. /\ h.caps = [x \in DOMAIN m.caps \cup NC |-> IF x \in NC THEN Rights(x - c0) ELSE m.caps[x]]
      /\ h.edges = [x \in DOMAIN m.edges \cup NE |->
                      IF x \in NE THEN OtherEdge("Grants", c0 + x - e0, i) ELSE m.edges[x]]
      /\ h.cap_grants = [x \in DOMAIN m.cap_grants \cup NC |->
                           IF x >= c0 THEN e0 + x - c0 ELSE m.cap_grants[x]]
  BY <1>1 DEF WithCaps, WithGrants, WithIndex
<1> HIDE DEF Rights
<1>3. /\ \A n \in 0 .. N - 1 : /\ c0 + n \in NC /\ e0 + n \in NE
                               /\ (c0 + n) - c0 = n
                               /\ c0 + (e0 + n) - e0 = c0 + n /\ e0 + (c0 + n) - c0 = e0 + n
                               /\ c0 + n >= c0
      /\ \A x \in NC : x \in Int /\ x - c0 \in 0 .. N - 1 /\ c0 + (x - c0) = x
      /\ \A x \in NE : x \in Int /\ x - e0 \in 0 .. N - 1 /\ e0 + (x - e0) = x
      /\ \A x \in DOMAIN m.caps : x \notin NC /\ ~(x >= c0)
      /\ \A x \in DOMAIN m.edges : x \notin NE
  OBVIOUS
<1> HIDE DEF NC, NE, c0, e0
<1>4. /\ DOMAIN m.cap_grants = DOMAIN m.caps
      /\ \A c \in DOMAIN m.caps : m.cap_grants[c] \in G /\ m.edges[m.cap_grants[c]].src = c
      /\ \A e \in G : m.edges[e].src \in DOMAIN m.caps /\ m.cap_grants[m.edges[e].src] = e
      /\ \A e : e \in G <=> e \in DOMAIN m.edges /\ m.edges[e].kind = "Grants"
  BY DEF GrantsPaired, EdgesOf
<1>5. /\ DOMAIN h.caps = DOMAIN m.caps \cup NC /\ DOMAIN h.cap_grants = DOMAIN m.caps \cup NC
      /\ \A c \in DOMAIN m.caps : h.caps[c] = m.caps[c] /\ h.cap_grants[c] = m.cap_grants[c]
      /\ \A n \in 0 .. N - 1 : h.caps[c0 + n] = Rights(n) /\ h.cap_grants[c0 + n] = e0 + n
  BY <1>2, <1>3, <1>4
<1>6. /\ DOMAIN h.edges = DOMAIN m.edges \cup NE
      /\ \A e \in DOMAIN m.edges : h.edges[e] = m.edges[e]
      /\ \A n \in 0 .. N - 1 : h.edges[e0 + n] = OtherEdge("Grants", c0 + n, i)
  BY <1>2, <1>3
<1>7. \A n \in 0 .. N - 1 : h.edges[e0 + n].kind = "Grants" /\ h.edges[e0 + n].src = c0 + n
  <2>1. \A c : /\ OtherEdge("Grants", c, i).kind = "Grants"
               /\ OtherEdge("Grants", c, i).src = c
    BY DEF OtherEdge
  <2> QED BY <1>6, <2>1
<1>8. H = G \cup NE
  <2>1. \A e : e \in H <=> e \in DOMAIN h.edges /\ h.edges[e].kind = "Grants"
    BY DEF EdgesOf
  <2> HIDE DEF H, G
  <2>2. \A e \in NE : e \in H
    BY <1>3, <1>6, <1>7, <2>1
  <2>3. \A e \in DOMAIN m.edges : e \in H <=> e \in G
    BY <1>4, <1>6, <2>1
  <2>4. H \subseteq DOMAIN m.edges \cup NE /\ G \subseteq DOMAIN m.edges
    BY <1>4, <1>6, <2>1
  <2> QED BY <2>2, <2>3, <2>4
<1> HIDE DEF H, G
<1>9. \A c \in DOMAIN h.caps : h.cap_grants[c] \in H /\ h.edges[h.cap_grants[c]].src = c
  <2>1. \A c \in DOMAIN m.caps : h.cap_grants[c] \in H /\ h.edges[h.cap_grants[c]].src = c
    BY <1>4, <1>5, <1>6, <1>8
  <2>2. \A n \in 0 .. N - 1 : h.cap_grants[c0 + n] \in H /\ h.edges[h.cap_grants[c0 + n]].src = c0 + n
    BY <1>3, <1>5, <1>7, <1>8
  <2> QED BY <1>3, <1>5, <2>1, <2>2
<1>10. \A e \in H : h.edges[e].src \in DOMAIN h.caps /\ h.cap_grants[h.edges[e].src] = e
  <2>1. \A e \in G : h.edges[e].src \in DOMAIN h.caps /\ h.cap_grants[h.edges[e].src] = e
    BY <1>4, <1>5, <1>6
  <2>2. \A n \in 0 .. N - 1 : /\ h.edges[e0 + n].src \in DOMAIN h.caps
                              /\ h.cap_grants[h.edges[e0 + n].src] = e0 + n
    BY <1>3, <1>5, <1>7
  <2> QED BY <1>3, <1>8, <2>1, <2>2
<1>11. GrantsPaired(h)
  BY <1>5, <1>9, <1>10 DEF GrantsPaired, H
<1>12. \A e \in G : h.edges[e] = m.edges[e]
  BY <1>4, <1>6
<1> QED BY <1>5, <1>6, <1>8, <1>11, <1>12 DEF c0, e0, NC, NE, G, H, Rights, Granted

LEMMA SetaclExact ==
  ASSUME NEW k, Sound(k), GrantsExact(k), NEW i, NEW acl \in Acls,
         NEW h, h = setacl(k, i, acl),
         h.next_cap <= NODE_CAPACITY, h.next_edge <= EDGE_CAPACITY
  PROVE  GrantsExact(h)
<1> DEFINE m == Purged(k, i, acl)
           n == grant_all(m, i, acl)
           S == granted(acl)
           N == Cardinality(S)
           c0 == k.next_cap
           e0 == k.next_edge
           Rights(j) == effective_rights(acl, acl[j])
<1>1. h = record_prov(n, "SetAcl", i)
  BY DEF setacl, Purged
<1>2. /\ IsGraph(k) /\ c0 \in Nat /\ e0 \in Nat
      /\ \A e \in DOMAIN k.edges : e \in Int /\ e < e0
  <2>1. FieldsTyped(k) /\ IdsIssued(k) /\ IsGraph(k)
    BY SoundGraph
  <2>2. c0 \in Nat /\ e0 \in Nat
    BY <2>1 DEF FieldsTyped, Ids
  <2> QED BY <2>1, <2>2 DEF IdsIssued
<1>3. GrantsPaired(k) /\ CapsIssued(k) /\ AclsServed(k)
  BY DEF GrantsExact
<1>4. /\ IsGraph(m) /\ m.next_cap = c0 /\ m.next_edge = e0
      /\ DOMAIN m.edges \subseteq DOMAIN k.edges /\ m.acls = Put(k.acls, i, acl)
  <2>1. /\ SameExcept(k, m, {"edges", "dir_name_idx", "cap_grants", "caps", "acls"})
        /\ m.edges = Del(k.edges, GrantsTo(k, i)) /\ m.acls = Put(k.acls, i, acl)
    BY <1>2, PurgeLeaves
  <2> QED BY <2>1 DEF SameExcept, GraphFields, Del
<1>5. /\ GrantsPaired(m) /\ CapsIssued(m)
      /\ EdgesOf(m, "Grants") = EdgesOf(k, "Grants") \ GrantsTo(k, i)
      /\ \A e \in EdgesOf(m, "Grants") :
           /\ m.edges[e] = k.edges[e] /\ m.edges[e].tgt # i
           /\ m.caps[m.edges[e].src] = k.caps[m.edges[e].src]
  BY <1>2, <1>3, PurgeExact
<1>6. /\ N \in Nat /\ S \subseteq Nat /\ S \subseteq Int /\ IsFiniteSet(S)
  BY NthGranted, FS_CardinalityType
<1> HIDE DEF m, N
<1>7. /\ IsGraph(n) /\ n.acls = m.acls /\ n.next_cap = c0 + N /\ n.next_edge = e0 + N
      /\ n.caps = WithCaps(m, acl, N) /\ n.edges = WithGrants(m, i, N)
      /\ n.cap_grants = WithIndex(m, N)
  BY <1>4, GrantAllIs DEF N
<1> HIDE DEF n
<1>8. /\ h.acls = m.acls /\ h.next_cap = c0 + N /\ h.next_edge = e0 + N
      /\ h.caps = WithCaps(m, acl, N) /\ h.edges = WithGrants(m, i, N)
      /\ h.cap_grants = WithIndex(m, N)
  BY <1>1, <1>7, RecordKeeps DEF GraphFields
<1> DEFINE G == EdgesOf(m, "Grants")
           H == EdgesOf(h, "Grants")
<1>9. /\ GrantsPaired(h)
      /\ DOMAIN h.caps = DOMAIN m.caps \cup (c0 .. c0 + N - 1)
      /\ \A c \in DOMAIN m.caps : h.caps[c] = m.caps[c]
      /\ H = G \cup (e0 .. e0 + N - 1)
      /\ \A e \in G : h.edges[e] = m.edges[e]
      /\ \A x \in 0 .. N - 1 : /\ h.edges[e0 + x] = OtherEdge("Grants", c0 + x, i)
                               /\ h.caps[c0 + x] = Rights(nth_granted(acl, x))
  <2>1. /\ \A c \in DOMAIN m.caps : c \in Int /\ c < m.next_cap
        /\ \A e \in DOMAIN m.edges : e \in Int /\ e < m.next_edge
        /\ m.next_cap \in Nat /\ m.next_edge \in Nat
    BY <1>2, <1>4, <1>5 DEF CapsIssued
  <2>2. m.next_cap + N <= NODE_CAPACITY /\ m.next_edge + N <= EDGE_CAPACITY
    BY <1>4, <1>8
  <2>3. GrantsPaired(h) /\ Granted(m, h, i, acl, N)
    BY <1>5, <1>6, <1>8, <2>1, <2>2, GrantsAdded
  <2> QED BY <1>4, <2>3 DEF Granted
<1> HIDE DEF c0, e0, S, G, H
<1>10. /\ \A x \in 0 .. N - 1 : nth_granted(acl, x) \in S /\ Rank(S, nth_granted(acl, x)) = x
       /\ \A j \in S : nth_granted(acl, Rank(S, j)) = j
  BY NthGranted DEF S, N
<1>11. \A j \in S : Rights(j) \in SUBSET AclRights
  BY RightsOfAcl DEF S
<1> HIDE DEF Rights
<1>12. CapsIssued(h)
  <2>1. \A c \in DOMAIN m.caps : c \in Int /\ c < c0 /\ m.caps[c] \in SUBSET AclRights
    BY <1>4, <1>5 DEF CapsIssued
  <2>2. \A c \in c0 .. c0 + N - 1 : c \in Int /\ c < c0 + N /\ c - c0 \in 0 .. N - 1
                                    /\ c0 + (c - c0) = c
    BY <1>2, <1>6
  <2>3. \A c \in c0 .. c0 + N - 1 : h.caps[c] \in SUBSET AclRights
    BY <1>9, <1>10, <1>11, <2>2
  <2>4. \A c \in DOMAIN m.caps : c < c0 + N
    BY <1>2, <1>6, <2>1
  <2> QED BY <1>8, <1>9, <2>1, <2>2, <2>3, <2>4 DEF CapsIssued
<1>13. \A e \in G : /\ h.edges[e] = k.edges[e] /\ h.edges[e].tgt # i
                    /\ h.caps[h.edges[e].src] = k.caps[k.edges[e].src]
  <2>1. \A e \in G : m.edges[e].src \in DOMAIN m.caps
    BY <1>5 DEF GrantsPaired, G
  <2> QED BY <1>5, <1>9, <2>1 DEF G
<1>14. /\ \A x \in 0 .. N - 1 : /\ e0 + x \in H /\ h.edges[e0 + x].tgt = i
                                /\ h.caps[h.edges[e0 + x].src] = Rights(nth_granted(acl, x))
       /\ \A e \in H \ G : e - e0 \in 0 .. N - 1 /\ e0 + (e - e0) = e
  <2>1. \A c : OtherEdge("Grants", c, i).tgt = i /\ OtherEdge("Grants", c, i).src = c
    BY DEF OtherEdge
  <2>2. /\ \A x \in 0 .. N - 1 : e0 + x \in e0 .. e0 + N - 1
        /\ \A e \in e0 .. e0 + N - 1 : e - e0 \in 0 .. N - 1 /\ e0 + (e - e0) = e
    BY <1>2, <1>6
  <2> QED BY <1>9, <2>1, <2>2
<1>15. \A e \in H : h.edges[e].tgt \in DOMAIN h.acls
  <2>1. DOMAIN h.acls = DOMAIN k.acls \cup {i}
    BY <1>4, <1>8 DEF Put
  <2>2. \A e \in G : k.edges[e].tgt \in DOMAIN k.acls
    BY <1>3, <1>5 DEF AclsServed, G
  <2> QED BY <1>13, <1>14, <2>1, <2>2
<1>16. ASSUME NEW j \in DOMAIN h.acls, j # i, NEW r \in SUBSET AclRights, r # {}
       PROVE  Cardinality(Granting(h, j, r)) = Cardinality(Entitled(h.acls[j], r))
  <2>1. j \in DOMAIN k.acls /\ h.acls[j] = k.acls[j]
    BY <1>4, <1>8, <1>16 DEF Put
  <2>2. Granting(h, j, r) = {e \in H : h.edges[e].tgt = j /\ h.caps[h.edges[e].src] = r}
    BY DEF Granting, H
  <2>3. Granting(h, j, r) = {e \in G : k.edges[e].tgt = j /\ k.caps[k.edges[e].src] = r}
    BY <1>9, <1>13, <1>14, <1>16, <2>2
  <2>4. Granting(k, j, r) = {e \in G : k.edges[e].tgt = j /\ k.caps[k.edges[e].src] = r}
    BY <1>5, <1>16 DEF Granting, G, EdgesOf, GrantsTo
  <2> QED BY <1>3, <1>16, <2>1, <2>3, <2>4 DEF AclsServed
<1>17. ASSUME NEW r
       PROVE  Cardinality(Granting(h, i, r)) = Cardinality(Entitled(acl, r))
  <2> DEFINE A == Entitled(acl, r)
             B == Granting(h, i, r)
             f == [j \in A |-> e0 + Rank(S, j)]
  <2>1. \A j : j \in A <=> j \in S /\ Rights(j) = r
    BY DEF Entitled, S, Rights
  <2>2. \A e : e \in B <=> e \in H /\ h.edges[e].tgt = i /\ h.caps[h.edges[e].src] = r
    BY DEF Granting, H
  <2>3. IsFiniteSet(A)
    <3>1. A \subseteq S
      BY <2>1
    <3> HIDE DEF A
    <3> QED BY <1>6, <3>1, FS_Subset
  <2> HIDE DEF A, B
  <2>4. \A j \in S : Rank(S, j) \in 0 .. N - 1
    BY <1>6, RankIsBijective DEF N, S
  <2>5. \A j \in A : e0 + Rank(S, j) \in B
    BY <1>10, <1>14, <2>1, <2>2, <2>4
  <2>6. \A e \in B : \E j \in A : e0 + Rank(S, j) = e
    <3>1. SUFFICES ASSUME NEW e \in B
                   PROVE  \E j \in A : e0 + Rank(S, j) = e
      OBVIOUS
    <3>2. e \in H \ G
      BY <1>13, <2>2
    <3> DEFINE x == e - e0
    <3>3. x \in 0 .. N - 1 /\ e0 + x = e
      BY <1>14, <3>2
    <3> HIDE DEF x
    <3>4. nth_granted(acl, x) \in S /\ Rank(S, nth_granted(acl, x)) = x
      BY <1>10, <3>3
    <3>5. Rights(nth_granted(acl, x)) = r
      BY <1>14, <2>2, <3>3
    <3> QED BY <2>1, <3>3, <3>4, <3>5
  <2>7. \A j, l \in A : e0 + Rank(S, j) = e0 + Rank(S, l) => j = l
    <3>1. \A j, l \in S : e0 + Rank(S, j) = e0 + Rank(S, l) => Rank(S, j) = Rank(S, l)
      BY <1>2, <1>6, <2>4
    <3>2. \A j, l \in S : Rank(S, j) = Rank(S, l) => j = l
      BY <1>10
    <3> QED BY <2>1, <3>1, <3>2
  <2>8. f \in Bijection(A, B)
    <3>1. /\ f \in [A -> B] /\ \A j, l \in A : f[j] = f[l] => j = l
          /\ \A e \in B : \E j \in A : f[j] = e
      BY <2>5, <2>6, <2>7
    <3> HIDE DEF f
    <3> QED BY <3>1 DEF Bijection, Injection, Surjection, IsInjective
  <2> HIDE DEF f
  <2>9. ExistsBijection(A, B)
    BY <2>8 DEF ExistsBijection
  <2>10. Cardinality(B) = Cardinality(A)
    BY <2>3, <2>9, FS_Bijection
  <2> QED BY <2>10 DEF A, B
<1>18. i \in DOMAIN h.acls /\ h.acls[i] = acl
  BY <1>4, <1>8 DEF Put
<1>19. AclsServed(h)
  <2>1. \A j \in DOMAIN h.acls, r \in SUBSET AclRights :
          r # {} => Cardinality(Granting(h, j, r)) = Cardinality(Entitled(h.acls[j], r))
    BY <1>16, <1>17, <1>18
  <2> QED BY <1>15, <2>1 DEF AclsServed, H
<1> QED BY <1>9, <1>12, <1>19 DEF GrantsExact

\* The pool of the caps has room too.
CapsHaveRoom == PoolsHaveRoom /\ MaxAux \in Int /\ MaxAux < NODE_CAPACITY

LEMMA NextGrantsExact ==
  ASSUME CapsHaveRoom, SoundState, GrantsExact(g), Next
  PROVE  GrantsExact(g')
<1>1. PoolsHaveRoom /\ Sound(g) /\ Sound(g')
  <2>1. PoolsHaveRoom
    BY DEF CapsHaveRoom
  <2>2. SoundState'
    BY <2>1, NextSound
  <2> QED BY <2>1, <2>2 DEF SoundState
<1>2. CASE Leaves(g, g', Permissions, {"Grants"})
  BY <1>2, GrantsExactSame
<1>3. CASE Setacl
  <2>1. PICK i \in InodeIds, acl \in Acls : Within(g') /\ g' = setacl(g, i, acl)
    BY <1>3 DEF Setacl, Step
  <2>2. g'.next_cap \in Nat /\ g'.next_inode \in Nat /\ g'.next_edge \in Nat
    <3>1. FieldsTyped(g')
      BY <1>1, SoundGraph
    <3> QED BY <3>1 DEF FieldsTyped, Ids
  <2>3. g'.next_edge <= EDGE_CAPACITY
    <3>1. g'.next_inode \in Int /\ g'.next_edge \in Int
      BY <2>2
    <3> QED BY <1>1, <2>1, <3>1, RoomFor
  <2>4. g'.next_cap <= NODE_CAPACITY
    BY <2>1, <2>2, CapacityAssumption DEF CapsHaveRoom, Within
  <2> QED BY <1>1, <2>1, <2>3, <2>4, SetaclExact
<1> QED BY <1>1, <1>2, <1>3, NextLeaves DEF WhoChangesWhat

LEMMA ExactGrantsMatch == GrantsExact(g) => GrantsMatchAcls
BY DEF GrantsExact, GrantsPaired, AclsServed, Granting, Entitled, GrantsMatchAcls

LEMMA InitGrantsExact == Init => GrantsExact(g)
<1> DEFINE k == new_graph(CHOOSE m \in Modes : TRUE, CHOOSE u \in Users : TRUE)
<1>1. SUFFICES ASSUME Init PROVE GrantsExact(g)
  OBVIOUS
<1>2. /\ g.caps = Empty /\ g.cap_grants = Empty /\ g.acls = Empty
      /\ g.edges = [e \in {1} |-> ContainsEdge(1, 1, ".")]
  BY <1>1 DEF Init, new_graph, RootDir, RootInode
<1>3. EdgesOf(g, "Grants") = {}
  BY <1>2 DEF EdgesOf, ContainsEdge
<1> QED BY <1>2, <1>3 DEF GrantsExact, GrantsPaired, CapsIssued, AclsServed, Empty

\* The doc of setacl, for every list of ACLs and whatever calls come between:
\* each entry with rights left after the mask has one capability with one
\* Grants edge to the inode, and none is left of an ACL that was replaced.
THEOREM AclsAreServed ==
  ASSUME CapsHaveRoom
  PROVE  Spec => []GrantsMatchAcls
<1>0. PoolsHaveRoom
  BY DEF CapsHaveRoom
<1>1. Spec => []SoundState
  BY <1>0, SoundAlways
<1>2. Init => GrantsExact(g)
  BY InitGrantsExact
<1>3. SoundState /\ GrantsExact(g) /\ [Next]_g => GrantsExact(g)'
  <2>1. CASE UNCHANGED g
    BY <2>1
  <2> QED BY <2>1, NextGrantsExact
<1>4. Spec => []GrantsExact(g)
  BY <1>1, <1>2, <1>3, PTL DEF Spec
<1> QED BY <1>4, ExactGrantsMatch, PTL

-----------------------------------------------------------------------------
(***************************************************************************)
(* The context of a call.                                                  *)
(***************************************************************************)
\* GRANT and, under a cap that is revoked or cannot write, WRITE is refused.
LEMMA ContextRefuses ==
  ASSUME GrantsExact(g), g.cap_ctx.cap_id # None
  PROVE  /\ ~require_cap(g, "GRANT")
         /\ g.cap_ctx.cap_id \notin DOMAIN g.caps => ~require_cap(g, "WRITE")
         /\ "WRITE" \notin g.caps[g.cap_ctx.cap_id] => ~require_cap(g, "WRITE")
<1>1. \A c \in DOMAIN g.caps : g.caps[c] \subseteq {"READ", "WRITE", "EXECUTE"}
  BY DEF GrantsExact, CapsIssued, AclRights
<1>2. "GRANT" \notin {"READ", "WRITE", "EXECUTE"}
  OBVIOUS
<1> QED BY <1>1, <1>2 DEF require_cap

\* What is left to a caller without GRANT, and to one without WRITE too.
LEMMA CallsNeedRights ==
  ASSUME Next
  PROVE  /\ Chmod \/ Chown \/ Setacl \/ SetQuota => require_cap(g, "GRANT")
         /\ \/ require_cap(g, "WRITE")
            \/ require_cap(g, "GRANT")
            \/ g' = g
            \/ SetCapCtx
<1>1. Chmod \/ Chown \/ Setacl \/ SetQuota => require_cap(g, "GRANT")
  BY DEF Chmod, Chown, Setacl, SetQuota, attr_ok, set_quota_ok
<1>2. CreateFile \/ Symlink \/ Mkdir \/ Rmdir \/ Link \/ Unlink => require_cap(g, "WRITE")
  BY DEF CreateFile, Symlink, Mkdir, Rmdir, Link, Unlink, new_entry_ok, rmdir_ok, link_ok,
         unlink_ok
<1>3. WriteBlock \/ WriteData \/ Truncate \/ Setxattr \/ Removexattr => require_cap(g, "WRITE")
  BY DEF WriteBlock, WriteData, Truncate, Setxattr, Removexattr, write_block_ok, regular_ok,
         setxattr_ok, removexattr_ok
<1>4. Rename => require_cap(g, "WRITE") \/ g' = g
  BY DEF Rename, Step, rename, Fail
<1> QED BY <1>1, <1>2, <1>3, <1>4 DEF Next

\* Nobody widens a capability by using it: an ACL, a mode, an owner or a quota
\* changes only outside of any capability; and a context whose capability was
\* revoked since it was set changes nothing.
THEOREM ContextConfines ==
  ASSUME CapsHaveRoom
  PROVE  Spec => ConfinedByContext
<1> DEFINE c == g.cap_ctx.cap_id
           mute == c \notin DOMAIN g.caps \/ "WRITE" \notin g.caps[c]
           Confined ==
             c # None =>
               /\ g'.acls = g.acls /\ g'.caps = g.caps
               /\ DOMAIN g'.quotas = DOMAIN g.quotas
               /\ \A i \in DOMAIN g.inodes \cap DOMAIN g'.inodes :
                    \A f \in {"mode", "uid", "gid"} : g'.inodes[i][f] = g.inodes[i][f]
               /\ mute => g' = [g EXCEPT !.cap_ctx = g'.cap_ctx]
<1>0. PoolsHaveRoom
  BY DEF CapsHaveRoom
<1>1. Spec => []SoundState
  BY <1>0, SoundAlways
<1>2. SoundState /\ GrantsExact(g) /\ [Next]_g => GrantsExact(g)'
  BY NextGrantsExact
<1>3. SoundState /\ GrantsExact(g) /\ [Next]_g => [Confined]_g
  <2> SUFFICES ASSUME SoundState, GrantsExact(g), Next, c # None
               PROVE  /\ g'.acls = g.acls /\ g'.caps = g.caps
                      /\ DOMAIN g'.quotas = DOMAIN g.quotas
                      /\ \A i \in DOMAIN g.inodes \cap DOMAIN g'.inodes :
                           \A f \in {"mode", "uid", "gid"} :
                             g'.inodes[i][f] = g.inodes[i][f]
                      /\ mute => g' = [g EXCEPT !.cap_ctx = g'.cap_ctx]
    OBVIOUS
  <2>1. ~require_cap(g, "GRANT") /\ (mute => ~require_cap(g, "WRITE"))
    BY ContextRefuses
  <2>2. ~(Chmod \/ Chown \/ Setacl \/ SetQuota)
    BY <2>1, CallsNeedRights
  <2>3. Leaves(g, g', Permissions, {"Grants"})
    BY <1>0, <2>2, NextLeaves DEF WhoChangesWhat
  <2>4. g'.acls = g.acls /\ g'.caps = g.caps
    BY <2>3 DEF Leaves, Permissions
  <2>5. \A i \in DOMAIN g.inodes : i \notin {g.next_inode}
    <3>1. IdsIssued(g) /\ g.next_inode \in Nat
      BY SoundGraph DEF SoundState
    <3> QED BY <3>1 DEF IdsIssued
  <2>6. IsGraph(g)
    BY SoundGraph DEF SoundState
  <2>7. ASSUME mute PROVE g' = [g EXCEPT !.cap_ctx = g'.cap_ctx]
    <3>1. g' = g \/ SetCapCtx
      BY <2>1, <2>7, CallsNeedRights
    <3>2. \E x : g' = [g EXCEPT !.cap_ctx = x]
      <4>1. CASE SetCapCtx
        BY <4>1 DEF SetCapCtx, Step
      <4>2. CASE g' = g
        <5>1. g = [g EXCEPT !.cap_ctx = g.cap_ctx]
          BY <2>6 DEF IsGraph
        <5> QED BY <4>2, <5>1
      <4> QED BY <3>1, <4>1, <4>2
    <3> QED BY <2>6, <3>2 DEF IsGraph, GraphFields
  <2>8. /\ DOMAIN g'.quotas = DOMAIN g.quotas
        /\ \A i \in DOMAIN g.inodes \cap DOMAIN g'.inodes :
             \A f \in {"mode", "uid", "gid"} : g'.inodes[i][f] = g.inodes[i][f]
    <3>1. CASE WriteData \/ Truncate
      <4>1. PICK i, buf : HasBytes(g, g', i, buf)
        BY <3>1, NextBytes DEF Rewrites
      <4>2. \A j \in DOMAIN g.inodes : g.inodes[j] \in Inode
        BY SoundGraph DEF SoundState, FieldsTyped
      <4> QED BY <4>1, <4>2 DEF HasBytes, Inode
    <3>2. CASE Alike(g, g', {g.next_inode})
      BY <2>5, <3>2 DEF Alike, OwnedAlike, Described
    <3> QED BY <2>2, <3>1, <3>2, NextOwners
  <2> HIDE DEF mute
  <2> QED BY <2>4, <2>7, <2>8
<1> HIDE DEF Confined
<1>4. Spec => [][Confined]_g
  BY <1>1, <1>2, <1>3, InitGrantsExact, PTL DEF Spec
<1> QED BY <1>4 DEF Confined, ConfinedByContext

-----------------------------------------------------------------------------
(***************************************************************************)
(* The walks of the quotas.  The walk up from a directory meets what is    *)
(* above it, and a call that makes or removes one object leaves the walks  *)
(* between the other directories as they are.                              *)
(***************************************************************************)
LEMMA HolderIsParent ==
  ASSUME NEW k, Sound(k), NEW x \in DOMAIN k.dirs, NEW p, Holds(k, p, x)
  PROVE  p \in DOMAIN k.dirs /\ parent_dir(k, x) = p /\ p # None
<1>1. Tree(k) /\ DirsPaired(k)
  BY SoundGraph
<1>2. PICK e \in UserEdges(k) : k.edges[e].src = p /\ k.edges[e].tgt = k.dirs[x]
  BY DEF Holds
<1>3. x # RootDir
  BY <1>1, <1>2 DEF DirsPaired, Tree, Named
<1>4. PICK q \in DOMAIN k.dirs : Holds(k, q, x) /\ parent_dir(k, x) = q /\ q # None
  BY <1>3, HoldersAre
<1>5. PICK f \in UserEdges(k) : k.edges[f].src = q /\ k.edges[f].tgt = k.dirs[x]
  BY <1>4 DEF Holds
<1>6. e = f
  BY <1>1, <1>2, <1>5 DEF DirsPaired, Tree, Named
<1> QED BY <1>2, <1>4, <1>5, <1>6

LEMMA RootHasNoParent ==
  ASSUME NEW k, Sound(k)
  PROVE  parent_dir(k, RootDir) = None
<1>1. DotEdges(k) /\ DirsPaired(k) /\ IdsIssued(k) /\ IsFiniteSet(DOMAIN k.edges)
  BY SoundGraph
<1>2. /\ <<RootDir, "..">> \notin DOMAIN k.dir_name_idx
      /\ DOMAIN k.dir_name_idx # {}
  BY <1>1 DEF DotEdges, DirsPaired
<1>3. lookup_name(k, RootDir, "..") = None
  BY <1>2 DEF lookup_name
<1>4. None \notin DOMAIN k.edges /\ None \notin DOMAIN k.dir_for_inode_idx
  BY <1>1 DEF IdsIssued, DirsPaired, IsDirInode, None
<1>5. resolve_name(k, RootDir, "..") = None
  BY <1>3, <1>4 DEF resolve_name, ContainsEdges
<1> QED BY <1>4, <1>5 DEF parent_dir, dir_for_inode

\* The directories and entries of s are some of b's.
PartOf(s, b) ==
  /\ \A x \in DOMAIN s.dirs : x \in DOMAIN b.dirs /\ b.dirs[x] = s.dirs[x]
  /\ \A e \in UserEdges(s) : e \in UserEdges(b) /\ b.edges[e] = s.edges[e]

LEMMA ChainsAgree ==
  ASSUME NEW s, NEW b, Sound(s), Sound(b), PartOf(s, b), NEW d \in DOMAIN s.dirs, NEW q
  PROVE  on_parent_chain(s, d, q) <=> on_parent_chain(b, d, q)
<1>1. ASSUME NEW x \in DOMAIN s.dirs
      PROVE  /\ parent_dir(b, x) = parent_dir(s, x)
             /\ parent_dir(s, x) \in DOMAIN s.dirs \cup {None}
  <2>1. CASE x = RootDir
    BY <2>1, RootHasNoParent
  <2>2. CASE x # RootDir
    <3>1. PICK p \in DOMAIN s.dirs : Holds(s, p, x) /\ parent_dir(s, x) = p
      BY <2>2, HoldersAre
    <3>2. Holds(b, p, x) /\ x \in DOMAIN b.dirs
      BY <3>1 DEF Holds, PartOf
    <3> QED BY <3>1, <3>2, HolderIsParent
  <2> QED BY <2>1, <2>2
<1>2. ASSUME on_parent_chain(s, d, q) PROVE on_parent_chain(b, d, q)
  <2> SUFFICES ASSUME NEW S \in SUBSET (DOMAIN b.dirs \cup {d}), d \in S, UpClosed(b, S)
               PROVE  q \in S
    BY DEF on_parent_chain
  <2> DEFINE T == S \cap DOMAIN s.dirs
  <2>1. UpClosed(s, T)
    BY <1>1 DEF UpClosed
  <2>2. T \in SUBSET (DOMAIN s.dirs \cup {d}) /\ d \in T
    OBVIOUS
  <2> QED BY <1>2, <2>1, <2>2 DEF on_parent_chain
<1>3. ASSUME on_parent_chain(b, d, q) PROVE on_parent_chain(s, d, q)
  <2> SUFFICES ASSUME NEW S \in SUBSET (DOMAIN s.dirs \cup {d}), d \in S, UpClosed(s, S)
               PROVE  q \in S
    BY DEF on_parent_chain
  <2>1. UpClosed(b, S)
    BY <1>1 DEF UpClosed
  <2>2. S \in SUBSET (DOMAIN b.dirs \cup {d})
    BY DEF PartOf
  <2> QED BY <1>3, <2>1, <2>2 DEF on_parent_chain
<1> QED BY <1>2, <1>3

\* What the walk up from d meets is what d is below.
LEMMA ChainsAreAncestors ==
  ASSUME NEW k, Sound(k), NEW d \in DOMAIN k.dirs, NEW q \in DOMAIN k.dirs
  PROVE  is_ancestor(k, q, d) <=> on_parent_chain(k, d, q)
<1>1. \A x : child_dirs(k, x) \subseteq DOMAIN k.dirs
  BY SoundGraph, ChildDirsAre
<1>2. \A x, y \in DOMAIN k.dirs : y \in child_dirs(k, x) => parent_dir(k, y) = x /\ x # None
  BY SoundGraph, ChildDirsAre, HolderIsParent
<1>3. \A y \in DOMAIN k.dirs : \/ parent_dir(k, y) = None
                               \/ /\ parent_dir(k, y) \in DOMAIN k.dirs
                                  /\ y \in child_dirs(k, parent_dir(k, y))
  <2> SUFFICES ASSUME NEW y \in DOMAIN k.dirs, parent_dir(k, y) # None
               PROVE  /\ parent_dir(k, y) \in DOMAIN k.dirs
                      /\ y \in child_dirs(k, parent_dir(k, y))
    OBVIOUS
  <2>1. y # RootDir
    BY RootHasNoParent
  <2>2. PICK p \in DOMAIN k.dirs : Holds(k, p, y) /\ parent_dir(k, y) = p
    BY <2>1, HoldersAre
  <2> QED BY <2>2, SoundGraph, ChildDirsAre
<1>4. ASSUME on_parent_chain(k, d, q) PROVE is_ancestor(k, q, d)
  <2> SUFFICES ASSUME NEW S \in SUBSET (DOMAIN k.dirs \cup {q, d}), q \in S,
                      DownClosed(k, S), d \notin S
               PROVE  FALSE
    BY DEF is_ancestor
  <2> DEFINE T == DOMAIN k.dirs \ S
  <2>1. UpClosed(k, T)
    BY <1>3 DEF UpClosed, DownClosed
  <2> QED BY <1>4, <2>1 DEF on_parent_chain
<1>5. ASSUME is_ancestor(k, q, d) PROVE on_parent_chain(k, d, q)
  <2> SUFFICES ASSUME NEW S \in SUBSET (DOMAIN k.dirs \cup {d}), d \in S,
                      UpClosed(k, S), q \notin S
               PROVE  FALSE
    BY DEF on_parent_chain
  <2> DEFINE T == DOMAIN k.dirs \ S
  <2>1. DownClosed(k, T)
    BY <1>1, <1>2 DEF UpClosed, DownClosed
  <2> QED BY <1>5, <2>1 DEF is_ancestor
<1> QED BY <1>4, <1>5

LEMMA AddsIsPart ==
  ASSUME NEW k, NEW h, NEW d, NEW n, NEW i, Adds(k, h, d, n, i)
  PROVE  PartOf(k, h)
BY DEF Adds, PartOf

LEMMA VacatesIsPart ==
  ASSUME NEW k, NEW h, NEW d, NEW n, Vacates(k, h, d, n)
  PROVE  PartOf(h, k)
BY DEF Vacates, PartOf

-----------------------------------------------------------------------------
(***************************************************************************)
(* Every step charges the walk of one directory with the inode it makes or *)
(* frees, and with nothing else.                                           *)
(***************************************************************************)
Still(k, h) == h.quotas = k.quotas /\ DOMAIN h.inodes = DOMAIN k.inodes

Grows(k, h) ==
  \E d \in DOMAIN k.dirs, n \in AllNames :
    /\ Adds(k, h, d, n, k.next_inode) /\ Charged(k, h, h, d, 1)
    /\ check_quota_inode(k, d)

\* r is the graph when the inode has gone; a rename has its entry yet to move.
Shrinks(k, h) ==
  \E r : \E d \in DOMAIN k.dirs, n \in AllNames :
    /\ Sound(r) /\ Vacates(k, r, d, n) /\ Removal(k, r, d)
    /\ h.quotas = r.quotas /\ DOMAIN h.inodes = DOMAIN r.inodes

Charges(k, h) == Still(k, h) \/ Grows(k, h) \/ Shrinks(k, h)

LEMMA OwnersStill ==
  ASSUME NEW k, NEW h, Owners(k, h, {})
  PROVE  Still(k, h)
BY DEF Owners, OwnedAlike, Still

LEMMA NextMakes ==
  ASSUME PoolsHaveRoom, SoundState, CreateFile \/ Symlink \/ Mkdir
  PROVE  \E d \in DOMAIN g.dirs, n \in AllNames :
           /\ Adds(g, g', d, n, g.next_inode) /\ Charged(g, g', g', d, 1)
           /\ check_quota_inode(g, d)
<1>1. Sound(g) /\ Issues(g, g') /\ IsGraph(g)
  <2>1. TypeOK
    BY DEF SoundState, Sound, TypeOK
  <2> QED BY <2>1, NextIssues, SoundGraph DEF SoundState, Next
<1>2. /\ DirHandles = DOMAIN g.dirs
      /\ g.next_inode \in Nat /\ g.next_dir \in Nat /\ g.next_edge \in Nat
      /\ NODE_CAPACITY \in Nat /\ EDGE_CAPACITY \in Nat
  BY <1>1, SoundGraph, CapacityAssumption DEF DirHandles, PoolsHaveRoom
<1>3. g'.next_inode \in Nat /\ g'.next_edge \in Nat
  BY <1>1 DEF Issues, FieldsTyped, Ids
<1>4. Within(g') => g'.next_inode <= NODE_CAPACITY /\ g'.next_edge <= EDGE_CAPACITY
  BY <1>3, RoomFor
<1>5. CASE CreateFile
  <2>1. PICK d \in DOMAIN g.dirs, n \in AllNames, m \in Modes, u \in Users :
          new_entry_ok(g, d, n) /\ Step(create_file(g, d, n, m, u))
    BY <1>2, <1>5 DEF CreateFile
  <2>2. g' = create_file(g, d, n, m, u) /\ Within(g')
    BY <2>1 DEF Step
  <2>3. g'.next_inode = g.next_inode + 1 /\ g'.next_edge = g.next_edge + 1
    BY <1>1, <2>2, CreateFileTakes
  <2>4. g.next_inode < NODE_CAPACITY /\ g.next_edge < EDGE_CAPACITY
    BY <1>2, <1>4, <2>2, <2>3
  <2>5. Adds(g, g', d, n, g.next_inode)
    BY <1>1, <2>1, <2>2, <2>4, CreateFileSound
  <2>6. Charged(g, g', g', d, 1) /\ check_quota_inode(g, d)
    BY <1>1, <2>1, <2>2, MakersOwn DEF new_entry_ok
  <2> QED BY <2>5, <2>6
<1>6. CASE Symlink
  <2>1. PICK d \in DOMAIN g.dirs, n \in AllNames, t \in Targets, u \in Users :
          new_entry_ok(g, d, n) /\ Step(symlink(g, d, n, t, u))
    BY <1>2, <1>6 DEF Symlink
  <2>2. g' = symlink(g, d, n, t, u) /\ Within(g')
    BY <2>1 DEF Step
  <2>3. g'.next_inode = g.next_inode + 1 /\ g'.next_edge = g.next_edge + 1
    BY <1>1, <2>2, SymlinkTakes
  <2>4. g.next_inode < NODE_CAPACITY /\ g.next_edge < EDGE_CAPACITY
    BY <1>2, <1>4, <2>2, <2>3
  <2>5. Adds(g, g', d, n, g.next_inode)
    BY <1>1, <2>1, <2>2, <2>4, SymlinkSound
  <2>6. Charged(g, g', g', d, 1) /\ check_quota_inode(g, d)
    BY <1>1, <2>1, <2>2, MakersOwn DEF new_entry_ok
  <2> QED BY <2>5, <2>6
<1>7. CASE Mkdir
  <2>1. PICK d \in DOMAIN g.dirs, n \in AllNames, m \in Modes, u \in Users :
          new_entry_ok(g, d, n) /\ Step(mkdir(g, d, n, m, u))
    BY <1>2, <1>7 DEF Mkdir
  <2>2. g' = mkdir(g, d, n, m, u) /\ Within(g')
    BY <2>1 DEF Step
  <2>3. g'.next_inode = g.next_inode + 1 /\ g'.next_edge = g.next_edge + 3
    BY <1>1, <2>2, MkdirTakes
  <2>4. /\ g.next_inode < NODE_CAPACITY /\ g.next_dir < NODE_CAPACITY
        /\ g.next_edge + 2 < EDGE_CAPACITY
    BY <1>2, <1>4, <2>2, <2>3 DEF SoundState
  <2>5. Adds(g, g', d, n, g.next_inode)
    BY <1>1, <2>1, <2>2, <2>4, MkdirSound
  <2>6. Charged(g, g', g', d, 1) /\ check_quota_inode(g, d)
    BY <1>1, <2>1, <2>2, MakersOwn DEF new_entry_ok
  <2> QED BY <2>5, <2>6
<1> QED BY <1>5, <1>6, <1>7

LEMMA NextCharges ==
  ASSUME PoolsHaveRoom, SoundState, Next
  PROVE  SetQuota \/ Charges(g, g')
<1>1. IsGraph(g) /\ FieldsTyped(g) /\ Sound(g) /\ DirHandles = DOMAIN g.dirs
  BY SoundGraph DEF SoundState, DirHandles, PoolsHaveRoom
<1>2. CASE CreateFile \/ Symlink \/ Mkdir
  BY <1>2, NextMakes DEF Charges, Grows
<1>3. CASE Rmdir \/ Link \/ Unlink
  <2>1. PICK d \in DOMAIN g.dirs, n \in AllNames : \E i :
          \/ g' = rmdir(g, d, n) /\ rmdir_ok(g, d, n)
          \/ g' = unlink(g, d, n) /\ unlink_ok(g, d, n)
          \/ g' = link(g, d, n, i) /\ Link
    BY <1>1, <1>3 DEF Rmdir, Link, Unlink, Step
  <2>2. Owners(g, g', {}) \/ Removal(g, g', d)
    BY <1>1, <2>1, MoversOwn
  <2>3. CASE Owners(g, g', {})
    BY <2>3, OwnersStill DEF Charges
  <2>4. CASE Removal(g, g', d) /\ ~Link
    <3>1. Sound(g') /\ Vacates(g, g', d, n)
      BY <1>1, <2>1, <2>4, RmdirSound, UnlinkSound
    <3> QED BY <2>4, <3>1 DEF Charges, Shrinks
  <2>5. CASE Link
    <3>1. PICK e, m, i : g' = link(g, e, m, i)
      BY <2>5 DEF Link, Step
    <3>2. Owners(g, g', {})
      BY <1>1, <3>1, LinkNodesOwners, RecordOwners, OwnersTrans DEF link
    <3> QED BY <3>2, OwnersStill DEF Charges
  <2> QED BY <2>2, <2>3, <2>4, <2>5
<1>4. CASE Rename
  <2>1. PICK sd, dd \in DOMAIN g.dirs, src, dst \in AllNames :
          g' = rename(g, sd, src, dd, dst).graph
    BY <1>1, <1>4 DEF Rename, Step
  <2> DEFINE p == replace_destination(g, dd, dst)
             r == p.graph
  <2>2. Owners(g, g', {}) \/ (Removal(g, r, dd) /\ Owners(r, g', {}) /\ p.ok)
    BY <1>1, <2>1, RenameOwns
  <2>3. CASE Owners(g, g', {})
    BY <2>3, OwnersStill DEF Charges
  <2>4. CASE Removal(g, r, dd) /\ Owners(r, g', {}) /\ p.ok
    <3>1. Sound(r) /\ Vacates(g, r, dd, dst)
      BY <1>1, <2>4, ReplaceSound
    <3>2. g'.quotas = r.quotas /\ DOMAIN g'.inodes = DOMAIN r.inodes
      BY <2>4, OwnersStill DEF Still
    <3> HIDE DEF r
    <3> QED BY <2>1, <2>4, <3>1, <3>2 DEF Charges, Shrinks
  <2> QED BY <2>2, <2>3, <2>4
<1>5. CASE WriteBlock \/ Setxattr \/ Removexattr \/ Setacl
  <2>1. \E i, key, v, acl :
          g' \in {write_block(g, i), setxattr(g, i, key, v), removexattr(g, i, key),
                  setacl(g, i, acl)}
    BY <1>5 DEF WriteBlock, Setxattr, Removexattr, Setacl, Step
  <2>2. Owners(g, g', {})
    BY <1>1, <2>1, CarriersOwn, OwnersIf
  <2> QED BY <2>2, OwnersStill DEF Charges
<1>8. CASE WriteData \/ Truncate
  BY <1>8, NextBytes DEF Rewrites, HasBytes, Still, Charges
<1>6. CASE Chmod \/ Chown
  <2>1. \E op, i, P : /\ DOMAIN P = DOMAIN g.inodes
                      /\ g' = record_prov([g EXCEPT !.inodes = P], op, i)
    <3>1. ASSUME Chmod PROVE \E i, m : g' = chmod(g, i, m)
      BY <3>1 DEF Chmod, Step
    <3>2. ASSUME Chown PROVE \E i, u, v : g' = chown(g, i, u, v)
      BY <3>2 DEF Chown, Step
    <3>3. ASSUME NEW i, NEW m, g' = chmod(g, i, m)
          PROVE  g' = record_prov([g EXCEPT !.inodes = [g.inodes EXCEPT ![i].mode = m]],
                                  "Chmod", i)
      BY <3>3 DEF chmod
    <3>4. ASSUME NEW i, NEW u, NEW v, g' = chown(g, i, u, v)
          PROVE  g' = record_prov([g EXCEPT !.inodes = [g.inodes EXCEPT ![i].uid = u,
                                                                      ![i].gid = v]],
                                  "Chown", i)
      <4>1. IsGraph(g)
        BY <1>1
      <4> QED BY <3>4, <4>1 DEF chown, IsGraph, GraphFields
    <3>5. \A i, m, u, v :
            /\ DOMAIN [g.inodes EXCEPT ![i].mode = m] = DOMAIN g.inodes
            /\ DOMAIN [g.inodes EXCEPT ![i].uid = u, ![i].gid = v] = DOMAIN g.inodes
      OBVIOUS
    <3> QED BY <1>6, <3>1, <3>2, <3>3, <3>4, <3>5
  <2>2. PICK m : /\ IsGraph(m) /\ m.quotas = g.quotas /\ DOMAIN m.inodes = DOMAIN g.inodes
                 /\ \E op, i : g' = record_prov(m, op, i)
    BY <1>1, <2>1 DEF IsGraph, GraphFields
  <2>3. Still(m, g')
    BY <2>2, RecordOwners, OwnersStill
  <2> QED BY <2>2, <2>3 DEF Still, Charges
<1>7. CASE SetCapCtx
  <2>1. \E x : g' = [g EXCEPT !.cap_ctx = x]
    BY <1>7 DEF SetCapCtx, Step
  <2>2. g'.inodes = g.inodes /\ g'.quotas = g.quotas
    BY <1>1, <2>1 DEF IsGraph, GraphFields
  <2> QED BY <2>2 DEF Still, Charges
<1> QED BY <1>2, <1>3, <1>4, <1>5, <1>6, <1>7, <1>8 DEF Next

-----------------------------------------------------------------------------
(***************************************************************************)
(* Limits.  What admission tests is the walk in the graph before the call, *)
(* what the charge walks is the graph after it: the two walks are the same.*)
(***************************************************************************)
Quota == [limit : Nat, usage : Nat]

QuotasHeld(k) ==
  \A q \in DOMAIN k.quotas :
    /\ k.quotas[q] \in Quota
    /\ k.quotas[q].limit = 0 \/ k.quotas[q].usage <= k.quotas[q].limit

LEMMA ChargeOf ==
  ASSUME NEW c \in Quota, NEW v \in Int
  PROVE  /\ charge(c, v) \in Quota /\ charge(c, v).limit = c.limit
         /\ charge(c, v).usage = IF c.usage + v < 0 THEN 0 ELSE c.usage + v
         /\ charge(c, 0) = c
<1>1. charge(c, v) = [c EXCEPT !.usage = IF c.usage + v < 0 THEN 0 ELSE c.usage + v]
  BY DEF charge
<1>2. charge(c, 0) = [c EXCEPT !.usage = IF c.usage + 0 < 0 THEN 0 ELSE c.usage + 0]
  BY DEF charge
<1>3. c.usage \in Nat /\ c.limit \in Nat
  BY DEF Quota
<1>4. (IF c.usage + v < 0 THEN 0 ELSE c.usage + v) \in Nat
  BY <1>3
<1>5. (IF c.usage + 0 < 0 THEN 0 ELSE c.usage + 0) = c.usage
  BY <1>3
<1>6. charge(c, 0) = c
  BY <1>2, <1>5 DEF Quota
<1> HIDE DEF Quota
<1> QED BY <1>1, <1>3, <1>4, <1>6 DEF Quota

LEMMA ChargeOfOne ==
  ASSUME NEW c \in Quota
  PROVE  /\ c.usage \in Nat /\ c.limit \in Nat
         /\ charge(c, 1) \in Quota /\ charge(c, 1).limit = c.limit
         /\ charge(c, 1).usage = c.usage + 1
         /\ charge(c, -1) \in Quota /\ charge(c, -1).limit = c.limit
         /\ charge(c, -1).usage \in Nat /\ charge(c, -1).usage <= c.usage
<1>1. c.usage \in Nat /\ c.limit \in Nat
  BY DEF Quota
<1>2. /\ charge(c, 1) \in Quota /\ charge(c, 1).limit = c.limit
      /\ charge(c, 1).usage = IF c.usage + 1 < 0 THEN 0 ELSE c.usage + 1
  BY ChargeOf
<1>3. -1 \in Int
  OBVIOUS
<1>4. /\ charge(c, -1) \in Quota /\ charge(c, -1).limit = c.limit
      /\ charge(c, -1).usage = IF c.usage + (-1) < 0 THEN 0 ELSE c.usage + (-1)
  BY <1>3, ChargeOf
<1> QED BY <1>1, <1>2, <1>4

LEMMA NextQuotasHeld ==
  ASSUME PoolsHaveRoom, SoundState, Sound(g'), QuotasHeld(g), Next
  PROVE  QuotasHeld(g')
<1>1. Sound(g) /\ IsGraph(g)
  BY SoundGraph DEF SoundState
<1>2. CASE SetQuota
  <2>1. PICK d : \E n \in Limits : g' = set_quota(g, d, n)
    BY <1>2 DEF SetQuota, Step
  <2>2. PICK n \in Limits : g' = set_quota(g, d, n)
    BY <2>1
  <2>3. n \in Nat
    BY InputAssumption
  <2>4. g'.quotas = Put(g.quotas, d, [limit |-> n, usage |-> 0])
    BY <1>1, <2>2 DEF set_quota, IsGraph, GraphFields
  <2> QED BY <2>3, <2>4 DEF QuotasHeld, Quota, Put
<1>3. CASE Still(g, g')
  BY <1>3 DEF Still, QuotasHeld
<1>4. CASE Grows(g, g')
  <2>1. PICK d \in DOMAIN g.dirs, n \in AllNames :
          /\ Adds(g, g', d, n, g.next_inode) /\ Charged(g, g', g', d, 1)
          /\ check_quota_inode(g, d)
    BY <1>4 DEF Grows
  <2>2. DOMAIN g'.quotas = DOMAIN g.quotas
    BY <2>1 DEF Charged
  <2>3. ASSUME NEW q \in DOMAIN g.quotas
        PROVE  /\ g'.quotas[q] \in Quota
               /\ g'.quotas[q].limit = 0 \/ g'.quotas[q].usage <= g'.quotas[q].limit
    <3>1. CASE on_parent_chain(g', d, q)
      <4>1. on_parent_chain(g, d, q)
        BY <1>1, <2>1, <3>1, ChainsAgree, AddsIsPart
      <4>2. g.quotas[q].limit = 0 \/ g.quotas[q].usage < g.quotas[q].limit
        BY <2>1, <4>1 DEF check_quota_inode
      <4>3. g'.quotas[q] = charge(g.quotas[q], 1)
        BY <2>1, <3>1 DEF Charged
      <4>4. g.quotas[q] \in Quota
        BY DEF QuotasHeld
      <4> QED BY <4>2, <4>3, <4>4, ChargeOfOne
    <3>2. CASE ~on_parent_chain(g', d, q)
      BY <2>1, <3>2 DEF Charged, QuotasHeld
    <3> QED BY <3>1, <3>2
  <2> QED BY <2>2, <2>3 DEF QuotasHeld
<1>5. CASE Shrinks(g, g')
  <2>1. PICK r, d : Charged(g, r, r, d, -1) /\ g'.quotas = r.quotas
    BY <1>5 DEF Shrinks, Removal
  <2>2. ASSUME NEW q \in DOMAIN g.quotas
        PROVE  /\ g'.quotas[q] \in Quota
               /\ g'.quotas[q].limit = 0 \/ g'.quotas[q].usage <= g'.quotas[q].limit
    <3>1. g'.quotas[q] = charge(g.quotas[q], -1) \/ g'.quotas[q] = g.quotas[q]
      BY <2>1 DEF Charged
    <3>2. /\ g.quotas[q] \in Quota
          /\ g.quotas[q].limit = 0 \/ g.quotas[q].usage <= g.quotas[q].limit
      BY DEF QuotasHeld
    <3> QED BY <3>1, <3>2, ChargeOfOne
  <2>3. DOMAIN g'.quotas = DOMAIN g.quotas
    BY <2>1 DEF Charged
  <2> QED BY <2>2, <2>3 DEF QuotasHeld
<1> QED BY <1>2, <1>3, <1>4, <1>5, NextCharges DEF Charges

LEMMA QuotasHeldAlways ==
  ASSUME PoolsHaveRoom
  PROVE  Spec => [](SoundState /\ QuotasHeld(g))
<1>1. Init => QuotasHeld(g)
  BY DEF Init, new_graph, Empty, QuotasHeld
<1>2. SoundState /\ SoundState' /\ QuotasHeld(g) /\ [Next]_g => QuotasHeld(g)'
  <2> SUFFICES ASSUME SoundState, SoundState', QuotasHeld(g), [Next]_g
               PROVE  QuotasHeld(g')
    OBVIOUS
  <2>1. CASE Next
    BY <2>1, NextQuotasHeld DEF SoundState
  <2>2. CASE UNCHANGED g
    BY <2>2
  <2> QED BY <2>1, <2>2
<1> QED BY <1>1, <1>2, SoundAlways, PTL DEF Spec

\* No creation takes a subtree past a limit set on any directory above it, and
\* no rename, link or removal makes up for it afterwards.
THEOREM LimitsHold ==
  ASSUME PoolsHaveRoom
  PROVE  Spec => []QuotaWithinLimit
<1>1. QuotasHeld(g) => QuotaWithinLimit
  BY DEF QuotasHeld, QuotaWithinLimit
<1> QED BY <1>1, QuotasHeldAlways, PTL

-----------------------------------------------------------------------------
(***************************************************************************)
(* Usage.  The one inode that a step makes or frees is below exactly the   *)
(* directories that the charge has walked.                                 *)
(***************************************************************************)
LEMMA SubtreeIsLive ==
  ASSUME NEW k, Sound(k), NEW q
  PROVE  Subtree(k, q) \subseteq DOMAIN k.inodes
<1>1. Endpoints(k)
  BY SoundGraph
<1> QED BY <1>1 DEF Subtree, Endpoints, UserEdges

LEMMA BelowIs ==
  ASSUME NEW k, Sound(k), NEW d \in DOMAIN k.dirs, NEW q \in DOMAIN k.dirs
  PROVE  d \in Below(k, q) <=> on_parent_chain(k, d, q)
BY ChainsAreAncestors DEF Below

LEMMA MadeIs ==
  ASSUME NEW k, NEW h, Sound(k), Sound(h), NEW d \in DOMAIN k.dirs, NEW n,
         NEW i, i \notin DOMAIN k.inodes, Adds(k, h, d, n, i), NEW q \in DOMAIN h.dirs
  PROVE  Subtree(h, q) \ DOMAIN k.inodes = IF on_parent_chain(h, d, q) THEN {i} ELSE {}
<1>1. PICK e : /\ UserEdges(h) = UserEdges(k) \cup {e}
               /\ h.edges[e] = ContainsEdge(d, i, n)
  BY DEF Adds
<1>2. h.edges[e].src = d /\ h.edges[e].tgt = i
  BY <1>1 DEF ContainsEdge
<1>3. \A x \in UserEdges(k) : h.edges[x].tgt \in DOMAIN k.inodes
  BY SoundGraph DEF Adds, Endpoints, UserEdges
<1>4. d \in Below(h, q) <=> on_parent_chain(h, d, q)
  BY BelowIs DEF Adds
<1>5. ASSUME NEW j \in Subtree(h, q) \ DOMAIN k.inodes
      PROVE  j = i /\ d \in Below(h, q)
  <2>1. PICK x \in UserEdges(h) : h.edges[x].src \in Below(h, q) /\ h.edges[x].tgt = j
    BY DEF Subtree
  <2>2. x = e
    BY <1>1, <1>3, <2>1
  <2> QED BY <1>2, <2>1, <2>2
<1>6. d \in Below(h, q) => i \in Subtree(h, q)
  BY <1>1, <1>2 DEF Subtree
<1> QED BY <1>4, <1>5, <1>6

LEMMA GoneIs ==
  ASSUME NEW k, NEW r, Sound(k), Sound(r), NEW d \in DOMAIN k.dirs, NEW n,
         Vacates(k, r, d, n), NEW j \in DOMAIN k.inodes,
         DOMAIN r.inodes = DOMAIN k.inodes \ {j}, NEW q \in DOMAIN k.dirs
  PROVE  Subtree(k, q) \ DOMAIN r.inodes = IF on_parent_chain(r, d, q) THEN {j} ELSE {}
<1>1. Endpoints(r) /\ DirsPaired(r) /\ Tree(k)
  BY SoundGraph
<1>2. \A x \in UserEdges(k) : k.edges[x].tgt = j => k.edges[x].src = d
  <2> SUFFICES ASSUME NEW x \in UserEdges(k), k.edges[x].tgt = j, k.edges[x].src # d
               PROVE  FALSE
    OBVIOUS
  <2>1. x \in UserEdges(r) /\ r.edges[x].tgt = j
    BY DEF Vacates
  <2> QED BY <1>1, <2>1 DEF Endpoints, UserEdges
<1>3. PICK e \in UserEdges(k) : k.edges[e].tgt = j /\ k.edges[e].src = d
  <2>1. j # RootInode
    BY <1>1 DEF DirsPaired, IsDirInode
  <2> QED BY <1>1, <1>2, <2>1 DEF Tree, Named
<1>4. d \in DOMAIN r.dirs
  BY DEF Vacates
<1>5. d \in Below(k, q) <=> on_parent_chain(r, d, q)
  BY <1>4, BelowIs, ChainsAgree, VacatesIsPart
<1>6. j \in Subtree(k, q) <=> d \in Below(k, q)
  BY <1>2, <1>3 DEF Subtree
<1>7. Subtree(k, q) \subseteq DOMAIN k.inodes
  BY SubtreeIsLive
<1> QED BY <1>5, <1>6, <1>7

LEMMA StillUsage ==
  ASSUME NEW k, NEW h, Sound(k), Sound(h), QuotasHeld(k), NEW q \in DOMAIN k.quotas,
         h.quotas[q] = k.quotas[q], DOMAIN h.inodes = DOMAIN k.inodes
  PROVE  h.quotas[q] = charge(k.quotas[q], Cardinality(Subtree(h, q) \ DOMAIN k.inodes)
                                             - Cardinality(Subtree(k, q) \ DOMAIN h.inodes))
<1>1. Subtree(h, q) \ DOMAIN k.inodes = {} /\ Subtree(k, q) \ DOMAIN h.inodes = {}
  BY SubtreeIsLive
<1>2. Cardinality({}) - Cardinality({}) = 0
  BY FS_EmptySet
<1>3. charge(k.quotas[q], 0) = k.quotas[q]
  <2>1. k.quotas[q] \in Quota /\ 0 \in Int
    BY DEF QuotasHeld
  <2> QED BY <2>1, ChargeOf
<1> QED BY <1>1, <1>2, <1>3

LEMMA NextUsage ==
  ASSUME PoolsHaveRoom, SoundState, Sound(g'), QuotasHeld(g), Next,
         NEW q \in DOMAIN g.quotas \cap DOMAIN g.dirs \cap DOMAIN g'.dirs
  PROVE  \/ \E n \in Limits : g' = set_quota(g, q, n)
         \/ g'.quotas[q] = charge(g.quotas[q],
                                  Cardinality(Subtree(g', q) \ DOMAIN g.inodes)
                                    - Cardinality(Subtree(g, q) \ DOMAIN g'.inodes))
<1> DEFINE made == Subtree(g', q) \ DOMAIN g.inodes
           gone == Subtree(g, q) \ DOMAIN g'.inodes
<1>1. Sound(g) /\ IsGraph(g)
  BY SoundGraph DEF SoundState
<1>2. Subtree(g, q) \subseteq DOMAIN g.inodes /\ Subtree(g', q) \subseteq DOMAIN g'.inodes
  BY <1>1, SubtreeIsLive
<1>3. Cardinality({}) = 0 /\ \A x : Cardinality({x}) = 1
  BY FS_EmptySet, FS_Singleton
<1>4. CASE SetQuota
  <2>1. PICK d : \E n \in Limits : g' = set_quota(g, d, n)
    BY <1>4 DEF SetQuota, Step
  <2>2. CASE d = q
    BY <2>1, <2>2
  <2>3. CASE d # q
    <3>1. DOMAIN g'.inodes = DOMAIN g.inodes /\ g'.quotas[q] = g.quotas[q]
      BY <1>1, <2>1, <2>3 DEF set_quota, IsGraph, GraphFields, Put
    <3> QED BY <1>1, <3>1, StillUsage
  <2> QED BY <2>2, <2>3
<1>5. CASE Still(g, g')
  BY <1>1, <1>5, StillUsage DEF Still
<1>6. CASE Grows(g, g')
  <2>1. PICK d \in DOMAIN g.dirs, n \in AllNames :
          Adds(g, g', d, n, g.next_inode) /\ Charged(g, g', g', d, 1)
    BY <1>6 DEF Grows
  <2> DEFINE i == g.next_inode
             chain == on_parent_chain(g', d, q)
  <2>2. i \notin DOMAIN g.inodes
    BY <1>1, SoundGraph
  <2>3. made = IF chain THEN {i} ELSE {}
    BY <1>1, <2>1, <2>2, MadeIs
  <2>4. gone = {}
    BY <1>2, <2>1 DEF Adds
  <2>5. g'.quotas[q] = IF chain THEN charge(g.quotas[q], 1) ELSE g.quotas[q]
    BY <2>1 DEF Charged
  <2>6. g.quotas[q] = charge(g.quotas[q], 0)
    <3>1. g.quotas[q] \in Quota /\ 0 \in Int
      BY DEF QuotasHeld
    <3> QED BY <3>1, ChargeOf
  <2>7. Cardinality(made) - Cardinality(gone) = IF chain THEN 1 ELSE 0
    <3> HIDE DEF made, gone, chain
    <3> QED BY <1>3, <2>3, <2>4
  <2> HIDE DEF made, gone, chain
  <2>8. g'.quotas[q] = charge(g.quotas[q], Cardinality(made) - Cardinality(gone))
    BY <2>5, <2>6, <2>7
  <2> QED BY <2>8 DEF made, gone
<1>7. CASE Shrinks(g, g')
  <2>1. PICK r : \E d \in DOMAIN g.dirs, n \in AllNames :
          /\ Sound(r) /\ Vacates(g, r, d, n) /\ Removal(g, r, d)
          /\ g'.quotas = r.quotas /\ DOMAIN g'.inodes = DOMAIN r.inodes
    BY <1>7 DEF Shrinks
  <2>2. PICK d \in DOMAIN g.dirs, n \in AllNames :
          /\ Sound(r) /\ Vacates(g, r, d, n) /\ Removal(g, r, d)
          /\ g'.quotas = r.quotas /\ DOMAIN g'.inodes = DOMAIN r.inodes
    BY <2>1
  <2>3. PICK j \in DOMAIN g.inodes : DOMAIN r.inodes = DOMAIN g.inodes \ {j}
    BY <2>2 DEF Removal
  <2> DEFINE chain == on_parent_chain(r, d, q)
  <2>4. gone = IF chain THEN {j} ELSE {}
    BY <1>1, <2>2, <2>3, GoneIs
  <2>5. made = {}
    BY <1>2, <2>2, <2>3
  <2>6. g'.quotas[q] = IF chain THEN charge(g.quotas[q], -1) ELSE g.quotas[q]
    BY <2>2 DEF Removal, Charged
  <2>7. g.quotas[q] = charge(g.quotas[q], 0)
    <3>1. g.quotas[q] \in Quota /\ 0 \in Int
      BY DEF QuotasHeld
    <3> QED BY <3>1, ChargeOf
  <2>8. Cardinality(made) - Cardinality(gone) = IF chain THEN -1 ELSE 0
    <3> HIDE DEF made, gone, chain
    <3>1. Cardinality(made) = 0 /\ Cardinality(gone) = IF chain THEN 1 ELSE 0
      BY <1>3, <2>4, <2>5
    <3>2. 0 - 1 = -1 /\ 0 - 0 = 0
      OBVIOUS
    <3> QED BY <3>1, <3>2
  <2> HIDE DEF made, gone, chain
  <2>9. g'.quotas[q] = charge(g.quotas[q], Cardinality(made) - Cardinality(gone))
    BY <2>6, <2>7, <2>8
  <2> QED BY <2>9 DEF made, gone
<1> QED BY <1>4, <1>5, <1>6, <1>7, NextCharges DEF Charges

\* The counter of a quota directory is a count of its subtree: it moves by the
\* inodes that are made and that go below it, and with nothing else, also when
\* the walk of a rename's replacement runs in a graph half moved.
THEOREM UsageIsTheSubtree ==
  ASSUME PoolsHaveRoom
  PROVE  Spec => UsageFollowsSubtree
<1> DEFINE Follows ==
             \A q \in DOMAIN g.quotas \cap DOMAIN g.dirs \cap DOMAIN g'.dirs :
               LET made == Subtree(g', q) \ DOMAIN g.inodes
                   gone == Subtree(g, q) \ DOMAIN g'.inodes
               IN \/ \E n \in Limits : g' = set_quota(g, q, n)
                  \/ g'.quotas[q] = charge(g.quotas[q], Cardinality(made) - Cardinality(gone))
<1>1. SoundState /\ SoundState' /\ QuotasHeld(g) /\ [Next]_g => [Follows]_g
  BY NextUsage DEF SoundState
<1> HIDE DEF Follows
<1>2. Spec => [][Follows]_g
  BY <1>1, QuotasHeldAlways, PTL DEF Spec
<1> QED BY <1>2 DEF Follows, UsageFollowsSubtree

-----------------------------------------------------------------------------
(***************************************************************************)
(* The log.  A call records itself once when it is done; a rename that     *)
(* replaces its destination records that first.                            *)
(***************************************************************************)
LogTyped(k) == \E T : k.prov_log \in [on : BOOLEAN, entries : Seq(T)]

\* From k to h, the log grows by entries in the context of k.
Appended(k, h) ==
  LET old == k.prov_log.entries
      new == h.prov_log.entries
  IN /\ h.prov_log.on = k.prov_log.on /\ h.cap_ctx = k.cap_ctx
     /\ Len(old) \in Nat /\ Len(new) \in Nat /\ Len(old) <= Len(new)
     /\ \A x \in 1 .. Len(old) : new[x] = old[x]
     /\ \A x \in Len(old) + 1 .. Len(new) :
          new[x].cap = k.cap_ctx.cap_id /\ new[x].domain = k.cap_ctx.domain_id

Logs(k, h) ==
  /\ Appended(k, h)
  /\ k.prov_log.on => Len(k.prov_log.entries) < Len(h.prov_log.entries)

\* Up to m, the call has left the log and the context alone.
Unrecorded(k, m) == IsGraph(m) /\ m.prov_log = k.prov_log /\ m.cap_ctx = k.cap_ctx

Records(k, h) == \E m, op, i : Unrecorded(k, m) /\ h = record_prov(m, op, i)

\* The entries that make, link or remove an object, and a call that leaves another.
EntryOps == {"Create", "Symlink", "Mkdir", "Link", "Unlink", "Rmdir"}

RecordsOther(k, h) ==
  \E m, op, i : op \notin EntryOps /\ Unrecorded(k, m) /\ h = record_prov(m, op, i)

LEMMA AppendedTrans ==
  ASSUME NEW k, NEW m, NEW h, Appended(k, m), Appended(m, h)
  PROVE  Appended(k, h)
<1> DEFINE a == k.prov_log.entries
           b == m.prov_log.entries
           c == h.prov_log.entries
<1>1. /\ Len(a) \in Nat /\ Len(b) \in Nat /\ Len(c) \in Nat
      /\ Len(a) <= Len(b) /\ Len(b) <= Len(c)
      /\ h.prov_log.on = k.prov_log.on /\ m.cap_ctx = k.cap_ctx /\ h.cap_ctx = k.cap_ctx
  BY DEF Appended
<1>2. /\ \A x \in 1 .. Len(a) : b[x] = a[x]
      /\ \A x \in 1 .. Len(b) : c[x] = b[x]
  BY DEF Appended
<1>3. /\ \A x \in Len(a) + 1 .. Len(b) :
           b[x].cap = k.cap_ctx.cap_id /\ b[x].domain = k.cap_ctx.domain_id
      /\ \A x \in Len(b) + 1 .. Len(c) :
           c[x].cap = k.cap_ctx.cap_id /\ c[x].domain = k.cap_ctx.domain_id
  BY <1>1 DEF Appended
<1> HIDE DEF a, b, c
<1>4. \A x \in 1 .. Len(a) : c[x] = a[x]
  BY <1>1, <1>2
<1>5. \A x \in Len(a) + 1 .. Len(c) :
        c[x].cap = k.cap_ctx.cap_id /\ c[x].domain = k.cap_ctx.domain_id
  <2> TAKE x \in Len(a) + 1 .. Len(c)
  <2>1. CASE x <= Len(b)
    <3>1. x \in Len(a) + 1 .. Len(b) /\ x \in 1 .. Len(b)
      BY <1>1, <2>1
    <3> QED BY <1>2, <1>3, <3>1
  <2>2. CASE ~(x <= Len(b))
    <3>1. x \in Len(b) + 1 .. Len(c)
      BY <1>1, <2>2
    <3> QED BY <1>3, <3>1
  <2> QED BY <2>1, <2>2
<1> QED BY <1>1, <1>4, <1>5 DEF Appended, a, c

LEMMA AppendedIf ==
  ASSUME NEW k, LogTyped(k), NEW h, h.prov_log = k.prov_log, h.cap_ctx = k.cap_ctx
  PROVE  LogTyped(h) /\ Appended(k, h)
BY DEF LogTyped, Appended

LEMMA RecordsLogs ==
  ASSUME NEW k, LogTyped(k), NEW h, Records(k, h)
  PROVE  LogTyped(h) /\ Logs(k, h)
<1>1. PICK m, op, i : Unrecorded(k, m) /\ h = record_prov(m, op, i)
  BY DEF Records
<1>2. PICK T : k.prov_log \in [on : BOOLEAN, entries : Seq(T)]
  BY DEF LogTyped
<1> DEFINE old == k.prov_log.entries
           v   == [op |-> op, inode |-> i, cap |-> k.cap_ctx.cap_id,
                   domain |-> k.cap_ctx.domain_id]
<1>3. CASE ~k.prov_log.on
  BY <1>1, <1>3, AppendedIf DEF record_prov, Unrecorded, Logs
<1>4. CASE k.prov_log.on
  <2>1. h = [m EXCEPT !.prov_log.entries = Append(@, v)]
    BY <1>1, <1>4 DEF record_prov, Unrecorded
  <2>2. /\ h.prov_log = [k.prov_log EXCEPT !.entries = Append(old, v)]
        /\ h.cap_ctx = k.cap_ctx
    BY <1>1, <2>1 DEF Unrecorded, IsGraph, GraphFields
  <2> HIDE DEF v
  <2>3. /\ h.prov_log.on = k.prov_log.on /\ h.prov_log.entries = Append(old, v)
        /\ h.prov_log = [on |-> k.prov_log.on, entries |-> Append(old, v)]
    BY <1>2, <2>2
  <2>4. old \in Seq(T \cup {v}) /\ v \in T \cup {v}
    BY <1>2
  <2> HIDE DEF old
  <2>5. /\ Append(old, v) \in Seq(T \cup {v}) /\ Len(Append(old, v)) = Len(old) + 1
        /\ \A x \in 1 .. Len(old) : Append(old, v)[x] = old[x]
        /\ Append(old, v)[Len(old) + 1] = v /\ Len(old) \in Nat
    BY <2>4
  <2>6. LogTyped(h)
    <3>1. h.prov_log \in [on : BOOLEAN, entries : Seq(T \cup {v})]
      BY <1>2, <2>3, <2>5
    <3> QED BY <3>1 DEF LogTyped
  <2>7. v.cap = k.cap_ctx.cap_id /\ v.domain = k.cap_ctx.domain_id
    BY DEF v
  <2>8. \A x \in Len(old) + 1 .. Len(old) + 1 : x = Len(old) + 1
    BY <2>5
  <2>9. Appended(k, h)
    BY <2>2, <2>3, <2>5, <2>7, <2>8 DEF Appended, old
  <2> QED BY <2>3, <2>5, <2>6, <2>9 DEF Logs, old
<1> QED BY <1>3, <1>4

LEMMA LeavesUnrecorded ==
  ASSUME NEW k, NEW h, NEW A, NEW K, Leaves(k, h, A, K), {"prov_log", "cap_ctx"} \subseteq A
  PROVE  Unrecorded(k, h)
BY DEF Leaves, Unrecorded

LEMMA ExceptUnrecorded ==
  ASSUME NEW k, NEW h, NEW F, SameExcept(k, h, F), {"prov_log", "cap_ctx"} \cap F = {}
  PROVE  Unrecorded(k, h)
BY DEF SameExcept, Unrecorded, GraphFields

LEMMA EntersRecords ==
  ASSUME NEW k, NEW h, NEW op, NEW i, Enters(k, h, op, i)
  PROVE  Records(k, h)
BY LeavesUnrecorded DEF Enters, Beside, Records, Carried

\* The calls that nothing else has been said about: up to the log they change
\* fields of their own and other edges than entries.
LEMMA OtherCallsRecord ==
  ASSUME NEW k, IsGraph(k), NEW i, NEW offset, NEW data, NEW n, NEW u, NEW v, NEW key,
         NEW acl, NEW d, NEW t
  PROVE  /\ RecordsOther(k, write_data(k, i, offset, data)) /\ RecordsOther(k, truncate(k, i, n))
         /\ RecordsOther(k, chmod(k, i, u)) /\ RecordsOther(k, chown(k, i, u, v))
         /\ RecordsOther(k, new_xattr(k, i, key, v)) /\ RecordsOther(k, removexattr(k, i, key))
         /\ RecordsOther(k, setacl(k, i, acl))
<1>1. ASSUME NEW m, NEW op, op \notin EntryOps, Unrecorded(k, m)
      PROVE  RecordsOther(k, record_prov(m, op, i))
  BY <1>1 DEF RecordsOther
<1>2. \A buf : Unrecorded(k, SetBytes(k, i, buf))
  BY ZenonT(30) DEF SetBytes, Unrecorded, IsGraph, GraphFields
<1>3. /\ Unrecorded(k, [k EXCEPT !.inodes[i].mode = u])
      /\ Unrecorded(k, [k EXCEPT !.inodes[i].uid = u, !.inodes[i].gid = v])
  BY DEF Unrecorded, IsGraph, GraphFields
<1>4. RecordsOther(k, new_xattr(k, i, key, v))
  <2> DEFINE x == k.next_xattr
             e == k.next_edge
             m == [k EXCEPT !.next_xattr = x + 1, !.next_edge = e + 1,
                            !.xattrs = Put(@, x, [key |-> key, value |-> v]),
                            !.inode_xattrs = IndexAdd(@, i, x)]
             h == insert_edge(m, e, OtherEdge("HasXattr", i, x))
  <2>1. new_xattr(k, i, key, v) = record_prov(h, "Setxattr", i)
    BY DEF new_xattr
  <2>2. Unrecorded(k, m)
    BY DEF Unrecorded, IsGraph, GraphFields
  <2> HIDE DEF m
  <2>3. Unrecorded(k, h)
    BY <2>2 DEF insert_edge, Unrecorded, IsGraph, GraphFields
  <2> HIDE DEF h
  <2> QED BY <1>1, <2>1, <2>3 DEF EntryOps
<1>5. RecordsOther(k, removexattr(k, i, key))
  <2> DEFINE x == First(xattrs_with_key(k, i, key))
             E == {e \in DOMAIN k.edges : k.edges[e] = OtherEdge("HasXattr", i, x)}
             m == [k EXCEPT !.xattrs = Del(@, {x}), !.inode_xattrs[i] = @ \ {x}]
             h == IF E = {} THEN m ELSE remove_edge(m, {First(E)})
  <2>1. removexattr(k, i, key) = record_prov(h, "Removexattr", i)
    BY DEF removexattr
  <2>2. Unrecorded(k, m)
    BY DEF Unrecorded, IsGraph, GraphFields
  <2> HIDE DEF m
  <2>3. Unrecorded(k, h)
    BY <2>2 DEF remove_edge, Unrecorded, IsGraph, GraphFields
  <2> HIDE DEF h
  <2> QED BY <1>1, <2>1, <2>3 DEF EntryOps
<1>6. RecordsOther(k, setacl(k, i, acl))
  <2> DEFINE p == purge_grants(k, i)
             m == [p EXCEPT !.acls = Put(@, i, acl)]
             h == grant_all(m, i, acl)
  <2>1. setacl(k, i, acl) = record_prov(h, "SetAcl", i)
    BY DEF setacl
  <2>2. Unrecorded(k, p)
    BY DEF purge_grants, remove_edge, Unrecorded, IsGraph, GraphFields
  <2> HIDE DEF p
  <2>3. Unrecorded(k, m)
    BY <2>2 DEF Unrecorded, IsGraph, GraphFields
  <2> HIDE DEF m
  <2>4. Unrecorded(k, h)
    BY <2>3 DEF grant_all, Unrecorded, IsGraph, GraphFields
  <2> HIDE DEF h
  <2> QED BY <1>1, <2>1, <2>4 DEF EntryOps
<1> QED BY <1>1, <1>2, <1>3, <1>4, <1>5, <1>6
   DEF write_data, truncate, chmod, chown, EntryOps

LEMMA QuietCalls ==
  ASSUME NEW k, IsGraph(k), NEW h,
         \/ \E i : h = write_block(k, i)
         \/ \E x : \/ h = [k EXCEPT !.xattrs = x]
                   \/ h = [k EXCEPT !.quotas = x]
                   \/ h = [k EXCEPT !.cap_ctx = x]
  PROVE  h.prov_log = k.prov_log /\ h.dir_name_idx = k.dir_name_idx
<1>1. ASSUME NEW i, h = write_block(k, i)
      PROVE  h.prov_log = k.prov_log /\ h.dir_name_idx = k.dir_name_idx
  <2> DEFINE e == OtherEdge("PointsTo", i, k.next_block)
             m == [k EXCEPT !.next_block = k.next_block + 1, !.next_edge = k.next_edge + 1,
                            !.blocks = insert_at(@, k.next_block, 1, NODE_CAPACITY),
                            !.inode_points_to = IndexAdd(@, i, k.next_edge)]
  <2>1. h = insert_edge(m, k.next_edge, e) /\ e.kind # "Contains"
    BY <1>1 DEF write_block, OtherEdge
  <2>2. /\ IsGraph(m) /\ m.prov_log = k.prov_log /\ m.dir_name_idx = k.dir_name_idx
    BY DEF IsGraph, GraphFields
  <2> HIDE DEF m, e
  <2> QED BY <2>1, <2>2 DEF insert_edge, IsGraph, GraphFields
<1> QED BY <1>1 DEF IsGraph, GraphFields

\* The calls on contents and attributes.
LEMMA NextRecordsOther ==
  ASSUME SoundState, Next
  PROVE  \/ CreateFile \/ Symlink \/ Mkdir \/ Rmdir \/ Link \/ Unlink \/ Rename
         \/ RecordsOther(g, g')
         \/ g'.prov_log = g.prov_log /\ g'.dir_name_idx = g.dir_name_idx
<1>1. IsGraph(g)
  BY SoundGraph DEF SoundState
<1>2. CASE WriteData \/ Truncate \/ Chmod \/ Chown \/ Removexattr \/ Setacl
  <2>1. \E i, o, w, n, u, v, key, acl :
          g' \in {write_data(g, i, o, w), truncate(g, i, n), chmod(g, i, u),
                  chown(g, i, u, v), removexattr(g, i, key), setacl(g, i, acl)}
    BY <1>2 DEF WriteData, Truncate, Chmod, Chown, Removexattr, Setacl, Step
  <2> QED BY <1>1, <2>1, OtherCallsRecord
<1>3. CASE Setxattr
  <2>1. PICK i, key, v : g' = setxattr(g, i, key, v)
    BY <1>3 DEF Setxattr, Step
  <2>2. \/ g' = new_xattr(g, i, key, v)
        \/ \E x : g' = [g EXCEPT !.xattrs = x]
    BY <2>1 DEF setxattr
  <2> QED BY <1>1, <2>2, OtherCallsRecord, QuietCalls
<1>4. CASE WriteBlock \/ SetQuota \/ SetCapCtx
  <2>1. \/ \E i : g' = write_block(g, i)
        \/ \E x : g' = [g EXCEPT !.quotas = x] \/ g' = [g EXCEPT !.cap_ctx = x]
    BY <1>4 DEF WriteBlock, SetQuota, SetCapCtx, Step, set_quota
  <2> QED BY <1>1, <2>1, QuietCalls
<1> QED BY <1>2, <1>3, <1>4 DEF Next

\* A call records what it has done, or it has not touched the names.
Noted(k, h) ==
  Logs(k, h) \/ (h.prov_log = k.prov_log /\ h.dir_name_idx = k.dir_name_idx)

LEMMA NextNotes ==
  ASSUME PoolsHaveRoom, SoundState, LogTyped(g), Next
  PROVE  LogTyped(g') /\ Noted(g, g') /\ (SetCapCtx \/ g'.cap_ctx = g.cap_ctx)
<1>1. Sound(g) /\ IsGraph(g) /\ DirHandles = DOMAIN g.dirs
  BY SoundGraph DEF SoundState, PoolsHaveRoom, DirHandles
<1>2. CASE Records(g, g')
  <2>1. LogTyped(g') /\ Logs(g, g')
    BY <1>2, RecordsLogs
  <2> QED BY <2>1 DEF Noted, Logs, Appended
<1>3. CASE g'.prov_log = g.prov_log /\ g'.dir_name_idx = g.dir_name_idx
  BY <1>3, NextLeaves DEF WhoChangesWhat, Leaves, LogTyped, Noted
<1>4. CASE CreateFile \/ Mkdir \/ Rmdir \/ Link \/ Unlink
  <2>1. \E d, n, m, u, i : \/ g' = create_file(g, d, n, m, u)
                           \/ g' = mkdir(g, d, n, m, u)
                           \/ g' = rmdir(g, d, n)
                           \/ g' = link(g, d, n, i)
                           \/ g' = unlink(g, d, n) /\ unlink_ok(g, d, n)
    BY <1>4 DEF CreateFile, Mkdir, Rmdir, Link, Unlink, Step
  <2>2. \E op, i : Enters(g, g', op, i)
    BY <1>1, <2>1, EntryCallsEnter
  <2> QED BY <1>2, <2>2, EntersRecords
<1>5. CASE Symlink
  <2>1. PICK d, n, t, u : g' = symlink(g, d, n, t, u)
    BY <1>5 DEF Symlink, Step
  <2>2. PICK m : /\ Leaves(g, m, Carried \ {"symlink_targets"}, CarriedKinds)
                 /\ g' = record_prov(m, "Symlink", g.next_inode)
    BY <1>1, <2>1, SymlinkLeaves
  <2>3. Unrecorded(g, m)
    BY <2>2, LeavesUnrecorded DEF Carried
  <2> QED BY <1>2, <2>2, <2>3 DEF Records
<1>6. CASE Rename
  <2>1. PICK sd \in DOMAIN g.dirs, dd \in DOMAIN g.dirs,
             src \in AllNames, dst \in AllNames :
          g' = rename(g, sd, src, dd, dst).graph
    BY <1>1, <1>6 DEF Rename, Step
  <2>2. \/ g' = g
        \/ \E r, j : /\ r = g \/ r = replace_destination(g, dd, dst).graph
                     /\ Enters(r, g', "Rename", j)
    BY <1>1, <2>1, RenameEnters
  <2>3. ASSUME NEW r, NEW j, r = g \/ r = replace_destination(g, dd, dst).graph,
               Enters(r, g', "Rename", j)
        PROVE  LogTyped(g') /\ Logs(g, g')
    <3>1. CASE r = g
      BY <2>3, <3>1, EntersRecords, RecordsLogs
    <3>2. CASE r # g
      <4>1. Records(g, r)
        BY <1>1, <2>3, <3>2, ReplaceEnters, EntersRecords
      <4>2. LogTyped(r) /\ Logs(g, r)
        BY <4>1, RecordsLogs
      <4>3. LogTyped(g') /\ Logs(r, g')
        BY <2>3, <4>2, EntersRecords, RecordsLogs
      <4>4. Appended(g, g')
        BY <4>2, <4>3, AppendedTrans DEF Logs
      <4> QED BY <4>2, <4>3, <4>4 DEF Logs, Appended
    <3> QED BY <3>1, <3>2
  <2> QED BY <1>3, <2>2, <2>3 DEF Noted, Logs, Appended
<1>7. CASE RecordsOther(g, g')
  BY <1>2, <1>7 DEF Records, RecordsOther
<1> QED BY <1>3, <1>4, <1>5, <1>6, <1>7, NextRecordsOther

LEMMA InitLogTyped ==
  ASSUME Init
  PROVE  LogTyped(g)
<1> DEFINE k == new_graph(CHOOSE m \in Modes : TRUE, CHOOSE u \in Users : TRUE)
<1>1. k.prov_log = [on |-> FALSE, entries |-> <<>>] /\ IsGraph(k)
  BY DEF new_graph, IsGraph, GraphFields, NoLog
<1>2. g = [k EXCEPT !.prov_log.on = Logging]
  BY DEF Init
<1> HIDE DEF k
<1>3. g.prov_log = [on |-> Logging, entries |-> <<>>]
  BY <1>1, <1>2 DEF IsGraph, GraphFields
<1>4. <<>> \in Seq({})
  OBVIOUS
<1> QED BY <1>3, <1>4, InputAssumption DEF LogTyped

\* The audit trail is append-only, whatever is called: no entry changes or
\* goes, an entry names the context its call ran in, and no change of the
\* directory tree goes without one.
THEOREM LogIsAppended ==
  ASSUME PoolsHaveRoom
  PROVE  Spec => LogIsAppendedInContext
<1> DEFINE A == LET old == Log
                    new == Log'
                IN /\ Len(new) >= Len(old) /\ SubSeq(new, 1, Len(old)) = old
                   /\ \A k \in Len(old) + 1 .. Len(new) :
                        /\ new[k].cap = g.cap_ctx.cap_id
                        /\ new[k].domain = g.cap_ctx.domain_id
                   /\ g.prov_log.on /\ g'.dir_name_idx # g.dir_name_idx =>
                        Len(new) > Len(old)
<1>1. SoundState /\ LogTyped(g) /\ [Next]_g => LogTyped(g)' /\ [A]_g
  <2> SUFFICES ASSUME SoundState, LogTyped(g), Next PROVE LogTyped(g)' /\ A
    BY DEF LogTyped
  <2>1. LogTyped(g') /\ Noted(g, g')
    BY NextNotes
  <2>2. PICK T, U : /\ g.prov_log \in [on : BOOLEAN, entries : Seq(T)]
                    /\ g'.prov_log \in [on : BOOLEAN, entries : Seq(U)]
    BY <2>1 DEF LogTyped
  <2> DEFINE old == g.prov_log.entries
             new == g'.prov_log.entries
  <2>3. old \in Seq(T) /\ new \in Seq(U) /\ Len(old) \in Nat /\ Len(new) \in Nat
    BY <2>2
  <2>4. /\ Len(old) <= Len(new)
        /\ \A x \in 1 .. Len(old) : new[x] = old[x]
        /\ \A x \in Len(old) + 1 .. Len(new) :
             new[x].cap = g.cap_ctx.cap_id /\ new[x].domain = g.cap_ctx.domain_id
        /\ g.prov_log.on /\ g'.dir_name_idx # g.dir_name_idx => Len(new) > Len(old)
    <3>1. CASE Logs(g, g')
      BY <3>1, <2>3 DEF Logs, Appended
    <3>2. CASE g'.prov_log = g.prov_log /\ g'.dir_name_idx = g.dir_name_idx
      BY <3>2, <2>3
    <3> QED BY <2>1, <3>1, <3>2 DEF Noted
  <2> HIDE DEF old, new
  <2>5. SubSeq(new, 1, Len(old)) = old
    <3>1. SubSeq(new, 1, Len(old)) \in Seq(U) /\ Len(SubSeq(new, 1, Len(old))) = Len(old)
      BY <2>3, <2>4
    <3>2. \A x \in 1 .. Len(old) : SubSeq(new, 1, Len(old))[x] = old[x]
      BY <2>3, <2>4
    <3> QED BY <2>3, <3>1, <3>2
  <2> QED BY <2>1, <2>3, <2>4, <2>5 DEF Log, old, new
<1> HIDE DEF A
<1>2. Spec => [][A]_g
  BY <1>1, InitLogTyped, SoundAlways, PTL DEF Spec
<1> QED BY <1>2 DEF A, LogIsAppendedInContext
-----------------------------------------------------------------------------
(***************************************************************************)
(* Contents.                                                               *)
(***************************************************************************)
\* The inductive invariant: the size of a regular file is that of its bytes.
SizesExact(k) ==
  \A i \in DOMAIN k.inodes : k.inodes[i].vtype = "Regular" =>
    k.inodes[i].size = Len(FileBytes(k, i))

\* At most one inode is made, of type t with one link or two; a file is empty.
MakesInode(k, h, t) ==
  \E v : /\ h.inodes = insert_at(k.inodes, k.next_inode, v, NODE_CAPACITY)
         /\ v.vtype = t /\ v.link_count = (IF t = "Directory" THEN 2 ELSE 1)
         /\ t = "Regular" => v.size = 0

LEMMA CreateNodeInodes ==
  ASSUME NEW k, IsGraph(k), NEW d, NEW n, NEW v, NEW h, h = create_node(k, d, n, v)
  PROVE  /\ IsGraph(h) /\ h.quotas = k.quotas
         /\ h.inodes = insert_at(k.inodes, k.next_inode, v, NODE_CAPACITY)
<1> DEFINE i  == k.next_inode
           e  == k.next_edge
           m1 == [k EXCEPT !.next_inode = i + 1, !.next_edge = e + 1]
           m2 == insert_inode(m1, i, v)
<1>1. h = add_contains(m2, e, d, i, n)
  BY DEF create_node
<1>2. IsGraph(m1) /\ m1.inodes = k.inodes /\ m1.quotas = k.quotas
  BY DEF IsGraph, GraphFields
<1> HIDE DEF m1
<1>3. /\ IsGraph(m2) /\ m2.quotas = k.quotas
      /\ m2.inodes = insert_at(k.inodes, i, v, NODE_CAPACITY)
  BY <1>2 DEF insert_inode, IsGraph, GraphFields
<1> HIDE DEF m2
<1>4. SameExcept(m2, h, Wiring)
  BY <1>1, <1>3, EdgeHelpersWire
<1> QED BY <1>3, <1>4 DEF SameExcept, Wiring, GraphFields

LEMMA MkdirNodesInodes ==
  ASSUME NEW k, IsGraph(k), NEW d, NEW n, NEW mode, NEW u,
         NEW h, h = mkdir_nodes(k, d, n, mode, u)
  PROVE  /\ IsGraph(h) /\ h.quotas = k.quotas
         /\ h.inodes = insert_at(k.inodes, k.next_inode,
                                 NewInode("Directory", 2, mode, u, u, 0), NODE_CAPACITY)
<1> DEFINE i  == k.next_inode
           c  == k.next_dir
           e  == k.next_edge
           v  == NewInode("Directory", 2, mode, u, u, 0)
           m1 == [k EXCEPT !.next_inode = i + 1, !.next_dir = c + 1, !.next_edge = e + 3]
           m2 == insert_inode(m1, i, v)
           m3 == insert_dir(m2, c, i)
           m4 == add_contains(m3, e, d, i, n)
           m5 == add_contains(m4, e + 1, c, i, ".")
<1>1. h = add_contains(m5, e + 2, c, k.dirs[d], "..")
  BY DEF mkdir_nodes
<1> HIDE DEF v
<1>2. IsGraph(m1) /\ m1.inodes = k.inodes /\ m1.quotas = k.quotas
  BY DEF IsGraph, GraphFields
<1> HIDE DEF m1
<1>3. /\ IsGraph(m2) /\ m2.quotas = k.quotas
      /\ m2.inodes = insert_at(k.inodes, i, v, NODE_CAPACITY)
  BY <1>2 DEF insert_inode, IsGraph, GraphFields
<1> HIDE DEF m2
<1>4. SameExcept(m2, m3, Wiring)
  BY <1>3, NodeHelpersWire
<1> HIDE DEF m3
<1>5. SameExcept(m3, m4, Wiring)
  BY <1>4, EdgeHelpersWire DEF SameExcept
<1> HIDE DEF m4
<1>6. SameExcept(m4, m5, Wiring)
  BY <1>5, EdgeHelpersWire DEF SameExcept
<1> HIDE DEF m5
<1>7. SameExcept(m5, h, Wiring)
  BY <1>1, <1>6, EdgeHelpersWire DEF SameExcept
<1>8. SameExcept(m2, h, Wiring)
  BY <1>4, <1>5, <1>6, <1>7, WiringTrans
<1> QED BY <1>3, <1>8 DEF SameExcept, Wiring, GraphFields, v

LEMMA MakersMakeOne ==
  ASSUME NEW k, IsGraph(k), NEW d, NEW n, NEW mode, NEW u, NEW t
  PROVE  /\ MakesInode(k, create_file(k, d, n, mode, u), "Regular")
         /\ MakesInode(k, mkdir(k, d, n, mode, u), "Directory")
         /\ MakesInode(k, symlink(k, d, n, t, u), "Symlink")
<1>1. ASSUME NEW m, IsGraph(m), m.quotas = k.quotas, NEW ty, NEW c, NEW md, NEW sz,
             m.inodes = insert_at(k.inodes, k.next_inode, NewInode(ty, c, md, u, u, sz),
                                  NODE_CAPACITY),
             c = IF ty = "Directory" THEN 2 ELSE 1, ty = "Regular" => sz = 0, NEW op
      PROVE  MakesInode(k, record_prov(update_quota(m, d, 1), op, k.next_inode), ty)
  <2> DEFINE v == NewInode(ty, c, md, u, u, sz)
             h == record_prov(update_quota(m, d, 1), op, k.next_inode)
  <2>1. h.inodes = m.inodes
    BY <1>1, ChargeIs
  <2>2. v.vtype = ty /\ v.link_count = c /\ v.size = sz
    BY DEF NewInode
  <2> HIDE DEF v, h
  <2>3. MakesInode(k, h, ty)
    BY <1>1, <2>1, <2>2 DEF MakesInode, v
  <2> QED BY <2>3 DEF h
<1>2. MakesInode(k, create_file(k, d, n, mode, u), "Regular")
  <2> DEFINE m == create_node(k, d, n, NewInode("Regular", 1, mode, u, u, 0))
  <2>1. create_file(k, d, n, mode, u) = record_prov(update_quota(m, d, 1), "Create", k.next_inode)
    BY DEF create_file
  <2>2. /\ IsGraph(m) /\ m.quotas = k.quotas
        /\ m.inodes = insert_at(k.inodes, k.next_inode, NewInode("Regular", 1, mode, u, u, 0),
                                NODE_CAPACITY)
    BY CreateNodeInodes
  <2> HIDE DEF m
  <2> QED BY <1>1, <2>1, <2>2
<1>3. MakesInode(k, mkdir(k, d, n, mode, u), "Directory")
  <2> DEFINE m == mkdir_nodes(k, d, n, mode, u)
  <2>1. mkdir(k, d, n, mode, u) = record_prov(update_quota(m, d, 1), "Mkdir", k.next_inode)
    BY DEF mkdir
  <2>2. /\ IsGraph(m) /\ m.quotas = k.quotas
        /\ m.inodes = insert_at(k.inodes, k.next_inode,
                                NewInode("Directory", 2, mode, u, u, 0), NODE_CAPACITY)
    BY MkdirNodesInodes
  <2> HIDE DEF m
  <2> QED BY <1>1, <2>1, <2>2
<1>4. MakesInode(k, symlink(k, d, n, t, u), "Symlink")
  <2> DEFINE m1 == create_node(k, d, n, NewInode("Symlink", 1, SymlinkMode, u, u, Len(t)))
             m2 == [m1 EXCEPT !.symlink_targets = Put(@, k.next_inode, t)]
  <2>1. symlink(k, d, n, t, u) = record_prov(update_quota(m2, d, 1), "Symlink", k.next_inode)
    BY DEF symlink
  <2>2. /\ IsGraph(m1) /\ m1.quotas = k.quotas
        /\ m1.inodes = insert_at(k.inodes, k.next_inode,
                          NewInode("Symlink", 1, SymlinkMode, u, u, Len(t)), NODE_CAPACITY)
    BY CreateNodeInodes
  <2> HIDE DEF m1
  <2>3. m2.inodes = m1.inodes /\ m2.quotas = m1.quotas /\ IsGraph(m2)
    BY <2>2 DEF IsGraph, GraphFields
  <2> HIDE DEF m2
  <2> QED BY <1>1, <2>1, <2>2, <2>3
<1> QED BY <1>2, <1>3, <1>4

\* What chmod, chown and set_quota leave of an inode.
LEMMA NextRelabels ==
  ASSUME SoundState, Chmod \/ Chown \/ SetQuota
  PROVE  /\ DOMAIN g'.inodes = DOMAIN g.inodes
         /\ \A i \in DOMAIN g.inodes : \A f \in {"vtype", "size", "link_count"} :
              g'.inodes[i][f] = g.inodes[i][f]
<1>1. IsGraph(g) /\ FieldsTyped(g)
  BY SoundGraph DEF SoundState
<1>2. \A i \in DOMAIN g.inodes : g.inodes[i] \in Inode
  BY <1>1 DEF FieldsTyped
<1>3. CASE Chmod
  <2>1. PICK i, m : g' = chmod(g, i, m)
    BY <1>3 DEF Chmod, Step
  <2> DEFINE P == [g.inodes EXCEPT ![i].mode = m]
  <2>2. g' = record_prov([g EXCEPT !.inodes = P], "Chmod", i)
    BY <2>1 DEF chmod
  <2>3. /\ DOMAIN P = DOMAIN g.inodes
        /\ \A j \in DOMAIN g.inodes : \A f \in {"vtype", "size", "link_count"} :
             P[j][f] = g.inodes[j][f]
    BY <1>2 DEF Inode
  <2> HIDE DEF P
  <2>4. g'.inodes = P
    BY <1>1, <2>2 DEF record_prov, IsGraph, GraphFields
  <2> QED BY <2>3, <2>4
<1>4. CASE Chown
  <2>1. PICK i, u, v : g' = chown(g, i, u, v)
    BY <1>4 DEF Chown, Step
  <2> DEFINE P == [g.inodes EXCEPT ![i].uid = u, ![i].gid = v]
  <2>2. g' = record_prov([g EXCEPT !.inodes = P], "Chown", i)
    BY <1>1, <2>1 DEF chown, IsGraph, GraphFields
  <2>3. /\ DOMAIN P = DOMAIN g.inodes
        /\ \A j \in DOMAIN g.inodes : \A f \in {"vtype", "size", "link_count"} :
             P[j][f] = g.inodes[j][f]
    BY <1>2 DEF Inode
  <2> HIDE DEF P
  <2>4. g'.inodes = P
    BY <1>1, <2>2 DEF record_prov, IsGraph, GraphFields
  <2> QED BY <2>3, <2>4
<1>5. CASE SetQuota
  <2>1. g'.inodes = g.inodes
    BY <1>1, <1>5 DEF SetQuota, Step, set_quota, IsGraph, GraphFields
  <2> QED BY <2>1
<1> QED BY <1>3, <1>4, <1>5

LEMMA NextSizesExact ==
  ASSUME PoolsHaveRoom, SoundState, LeftoversIssued(g), SizesExact(g), Next
  PROVE  SizesExact(g')
<1>1. /\ IsGraph(g) /\ FieldsTyped(g) /\ g.next_inode \notin DOMAIN g.inodes
      /\ g.next_inode \notin DOMAIN g.file_data
  <2>1. IsGraph(g) /\ FieldsTyped(g) /\ IdsIssued(g) /\ g.next_inode \in Nat
    BY SoundGraph DEF SoundState
  <2> QED BY <2>1 DEF IdsIssued, LeftoversIssued
<1>2. \A i \in DOMAIN g.inodes : g.inodes[i] \in Inode
  BY <1>1 DEF FieldsTyped
<1>3. CASE WriteData \/ Truncate
  <2>1. PICK i \in DOMAIN g.inodes : \E buf : HasBytes(g, g', i, buf)
    BY <1>3, NextBytes DEF Rewrites
  <2>2. PICK buf : HasBytes(g, g', i, buf)
    BY <2>1
  <2>3. FileBytes(g', i) = buf /\ \A j : j # i => FileBytes(g', j) = FileBytes(g, j)
    BY <2>2 DEF HasBytes, FileBytes, Put
  <2>4. /\ DOMAIN g'.inodes = DOMAIN g.inodes
        /\ g'.inodes[i].size = Len(buf)
        /\ \A j \in DOMAIN g.inodes : j # i => g'.inodes[j] = g.inodes[j]
    BY <1>2, <2>1, <2>2 DEF HasBytes, Inode
  <2> QED BY <2>3, <2>4 DEF SizesExact
<1>4. CASE ~(WriteData \/ Truncate)
  <2>1. \A i : FileBytes(g', i) = FileBytes(g, i)
    <3>1. g'.file_data = g.file_data
      BY <1>4, NextLeaves DEF WhoChangesWhat, Leaves
    <3> QED BY <3>1 DEF FileBytes
  <2>2. CASE Chmod \/ Chown \/ SetQuota
    BY <2>1, <2>2, NextRelabels DEF SizesExact
  <2>3. CASE Alike(g, g', {})
    BY <2>1, <2>3 DEF Alike, OwnedAlike, Described, SizesExact
  <2>4. CASE Alike(g, g', {g.next_inode}) /\ (CreateFile \/ Symlink \/ Mkdir)
    <3>1. \E d, n, m, u, t : g' \in {create_file(g, d, n, m, u), mkdir(g, d, n, m, u),
                                     symlink(g, d, n, t, u)}
      BY <2>4 DEF CreateFile, Symlink, Mkdir, Step
    <3>2. \E t : MakesInode(g, g', t)
      BY <1>1, <3>1, MakersMakeOne
    <3>3. ASSUME NEW i \in DOMAIN g'.inodes, g'.inodes[i].vtype = "Regular"
          PROVE  g'.inodes[i].size = Len(FileBytes(g', i))
      <4>1. CASE i = g.next_inode
        <5>1. g'.inodes[i].size = 0
          BY <1>1, <3>2, <3>3, <4>1 DEF MakesInode, insert_at, Put
        <5>2. FileBytes(g', i) = <<>>
          BY <1>1, <2>1, <4>1 DEF FileBytes
        <5> QED BY <5>1, <5>2
      <4>2. CASE i # g.next_inode
        BY <2>1, <2>4, <3>3, <4>2 DEF Alike, OwnedAlike, Described, SizesExact
      <4> QED BY <4>1, <4>2
    <3> QED BY <3>3 DEF SizesExact
  <2> QED BY <1>4, <2>2, <2>3, <2>4, NextOwners
<1> QED BY <1>3, <1>4

\* One call changes the bytes of one file at most.
LEMMA NextContents ==
  ASSUME PoolsHaveRoom, SoundState, Next
  PROVE  \/ g'.file_data = g.file_data
         \/ \E i, buf : Rewrites(g, g', i, buf)
<1>1. CASE WriteData \/ Truncate
  BY <1>1, NextBytes
<1>2. CASE ~(WriteData \/ Truncate)
  BY <1>2, NextLeaves DEF WhoChangesWhat, Leaves
<1> QED BY <1>1, <1>2

\* Every call changes the contents of one file at most; what gets shorter keeps
\* its front, and the size a file reports is the length of its bytes, also for
\* a file that takes the id after others went and left bytes behind.
THEOREM ContentsAreKept ==
  ASSUME PoolsHaveRoom
  PROVE  Spec => ShrinkingKeepsThePrefix
<1> DEFINE Kept ==
             LET changed == {i \in DOMAIN g'.file_data : FileBytes(g', i) # FileBytes(g, i)}
             IN /\ Cardinality(changed) <= 1
                /\ \A i \in changed :
                     LET old == FileBytes(g, i)
                         new == FileBytes(g', i)
                     IN Len(new) < Len(old) => new = SubSeq(old, 1, Len(new))
                /\ \A i \in DOMAIN g'.inodes : g'.inodes[i].vtype = "Regular" =>
                     g'.inodes[i].size = Len(FileBytes(g', i))
           Inv == LeftoversIssued(g) /\ SizesExact(g)
<1>1. Init => Inv
  <2> SUFFICES ASSUME Init PROVE SizesExact(g)
    BY InitLeftovers
  <2>1. \A i \in DOMAIN g.inodes : g.inodes[i].vtype = "Directory"
    BY DEF Init, new_graph, NewInode
  <2> QED BY <2>1 DEF SizesExact
<1>2. SoundState /\ Inv /\ [Next]_g => Inv'
  <2> SUFFICES ASSUME SoundState, LeftoversIssued(g), SizesExact(g), [Next]_g
               PROVE  LeftoversIssued(g') /\ SizesExact(g')
    OBVIOUS
  <2>1. CASE Next
    BY <2>1, NextLeftovers, NextSizesExact
  <2>2. CASE UNCHANGED g
    BY <2>2
  <2> QED BY <2>1, <2>2
<1>3. SoundState /\ Inv /\ [Next]_g => [Kept]_g
  <2> SUFFICES ASSUME SoundState, LeftoversIssued(g), SizesExact(g), Next PROVE Kept
    OBVIOUS
  <2> DEFINE changed == {i \in DOMAIN g'.file_data : FileBytes(g', i) # FileBytes(g, i)}
  <2>1. SizesExact(g')
    BY NextSizesExact
  <2>2. /\ Cardinality(changed) <= 1
        /\ \A i \in changed : Len(FileBytes(g', i)) < Len(FileBytes(g, i)) =>
             FileBytes(g', i) = SubSeq(FileBytes(g, i), 1, Len(FileBytes(g', i)))
    <3>1. CASE g'.file_data = g.file_data
      <4>1. changed = {}
        BY <3>1 DEF FileBytes
      <4> HIDE DEF changed
      <4> QED BY <4>1, FS_EmptySet
    <3>2. ASSUME NEW i, NEW buf, Rewrites(g, g', i, buf)
          PROVE  /\ Cardinality(changed) <= 1
                 /\ \A j \in changed : Len(FileBytes(g', j)) < Len(FileBytes(g, j)) =>
                      FileBytes(g', j) = SubSeq(FileBytes(g, j), 1, Len(FileBytes(g', j)))
      <4>1. FileBytes(g', i) = buf /\ \A j : j # i => FileBytes(g', j) = FileBytes(g, j)
        BY <3>2 DEF Rewrites, HasBytes, FileBytes, Put
      <4>2. changed = {} \/ changed = {i}
        BY <4>1
      <4>3. Len(FileBytes(g', i)) < Len(FileBytes(g, i)) =>
              FileBytes(g', i) = SubSeq(FileBytes(g, i), 1, Len(FileBytes(g', i)))
        BY <3>2, <4>1 DEF Rewrites
      <4>4. \A j \in changed : j = i
        BY <4>2
      <4> HIDE DEF changed
      <4>5. Cardinality({}) = 0 /\ Cardinality({i}) = 1
        BY FS_EmptySet, FS_Singleton
      <4>6. Cardinality(changed) <= 1
        BY <4>2, <4>5
      <4> QED BY <4>3, <4>4, <4>6
    <3> QED BY <3>1, <3>2, NextContents
  <2> QED BY <2>1, <2>2 DEF SizesExact
<1> HIDE DEF Kept, Inv
<1>4. Spec => [][Kept]_g
  BY <1>1, <1>2, <1>3, SoundAlways, PTL DEF Spec
<1> QED BY <1>4, PTL DEF Kept, ShrinkingKeepsThePrefix

-----------------------------------------------------------------------------
(***************************************************************************)
(* Replaying the log: how often it names an inode.                         *)
(***************************************************************************)
\* From k to h, the log gains one entry.
Counts(k, h, op, i) ==
  /\ h.prov_log.on = k.prov_log.on
  /\ k.prov_log.on => \A ops, j :
       Logged(h.prov_log.entries, ops, j)
         = Logged(k.prov_log.entries, ops, j) + (IF op \in ops /\ j = i THEN 1 ELSE 0)

LEMMA LoggedIsNat ==
  ASSUME NEW T, NEW log \in Seq(T), NEW ops, NEW j
  PROVE  Logged(log, ops, j) \in Nat
<1> DEFINE K == {x \in DOMAIN log : log[x].op \in ops /\ log[x].inode = j}
<1>1. IsFiniteSet(1 .. Len(log)) /\ K \subseteq 1 .. Len(log)
  BY FS_Interval
<1>2. IsFiniteSet(K)
  BY <1>1, FS_Subset
<1> QED BY <1>2, FS_CardinalityType DEF Logged

LEMMA LoggedGrows ==
  ASSUME NEW T, NEW log \in Seq(T), NEW v \in T, NEW ops, NEW j
  PROVE  Logged(Append(log, v), ops, j)
           = Logged(log, ops, j) + (IF v.op \in ops /\ v.inode = j THEN 1 ELSE 0)
<1> DEFINE K == {x \in DOMAIN log : log[x].op \in ops /\ log[x].inode = j}
           new == Append(log, v)
           L == {x \in DOMAIN new : new[x].op \in ops /\ new[x].inode = j}
           n == Len(log) + 1
<1>1. /\ Len(log) \in Nat /\ DOMAIN log = 1 .. Len(log) /\ DOMAIN new = 1 .. n
      /\ new[n] = v /\ \A x \in 1 .. Len(log) : new[x] = log[x]
  OBVIOUS
<1>2. IsFiniteSet(K) /\ n \notin K /\ Cardinality(K) \in Nat
  <2>1. IsFiniteSet(1 .. Len(log)) /\ K \subseteq 1 .. Len(log)
    BY <1>1, FS_Interval
  <2>2. IsFiniteSet(K)
    BY <2>1, FS_Subset
  <2> QED BY <1>1, <2>1, <2>2, FS_CardinalityType
<1> HIDE DEF new
<1>3. \A x \in 1 .. n : x \in 1 .. Len(log) \/ x = n
  BY <1>1
<1>4. n \in 1 .. n /\ \A x \in 1 .. Len(log) : x \in 1 .. n
  BY <1>1
<1> HIDE DEF n
<1>5. L = IF v.op \in ops /\ v.inode = j THEN K \cup {n} ELSE K
  BY <1>1, <1>3, <1>4
<1>6. Cardinality(K \cup {n}) = Cardinality(K) + 1
  BY <1>2, FS_AddElement
<1> HIDE DEF K, L
<1>7. Cardinality(L) = Cardinality(K) + (IF v.op \in ops /\ v.inode = j THEN 1 ELSE 0)
  BY <1>2, <1>5, <1>6
<1> QED BY <1>7 DEF Logged, K, L, new

LEMMA RecordCounts ==
  ASSUME NEW k, LogTyped(k), NEW m, Unrecorded(k, m), NEW op, NEW i,
         NEW h, h = record_prov(m, op, i)
  PROVE  Counts(k, h, op, i) /\ LogTyped(h)
<1>1. LogTyped(h)
  BY RecordsLogs DEF Records
<1>2. CASE ~k.prov_log.on
  BY <1>1, <1>2 DEF record_prov, Unrecorded, Counts
<1>3. CASE k.prov_log.on
  <2> DEFINE old == k.prov_log.entries
             v   == [op |-> op, inode |-> i, cap |-> k.cap_ctx.cap_id,
                     domain |-> k.cap_ctx.domain_id]
  <2>1. PICK T : k.prov_log \in [on : BOOLEAN, entries : Seq(T)]
    BY DEF LogTyped
  <2>2. h = [m EXCEPT !.prov_log.entries = Append(@, v)]
    BY <1>3 DEF record_prov, Unrecorded
  <2> HIDE DEF v
  <2>3. h.prov_log = [k.prov_log EXCEPT !.entries = Append(old, v)]
    BY <2>2 DEF Unrecorded, IsGraph, GraphFields
  <2>4. h.prov_log.on = k.prov_log.on /\ h.prov_log.entries = Append(old, v)
    BY <2>1, <2>3
  <2>5. old \in Seq(T \cup {v}) /\ v \in T \cup {v}
    BY <2>1
  <2>6. v.op = op /\ v.inode = i
    BY DEF v
  <2> HIDE DEF old
  <2>7. \A ops, j : Logged(Append(old, v), ops, j)
                      = Logged(old, ops, j) + (IF op \in ops /\ j = i THEN 1 ELSE 0)
    BY <2>5, <2>6, LoggedGrows
  <2> QED BY <1>1, <2>4, <2>7 DEF Counts, old
<1> QED BY <1>2, <1>3

\* What the log says of inode i is what k has under i: the entries of a live
\* directory are those that made it, those of a live file balance to its links,
\* and those of an inode that is gone balance to nothing.
CountsFit(k, i) ==
  LET log   == k.prov_log.entries
      links == Logged(log, {"Create", "Symlink", "Link"}, i) - Logged(log, {"Unlink"}, i)
      made  == Logged(log, {"Mkdir"}, i)
      gone  == Logged(log, {"Rmdir"}, i)
  IN IF i \in DOMAIN k.inodes
     THEN IF k.inodes[i].vtype = "Directory"
          THEN made > 0 /\ gone = 0
          ELSE made = 0 /\ links = k.inodes[i].link_count /\ links > 0
     ELSE IF made > 0 THEN gone > 0 ELSE links <= 0

\* The inductive invariant: that, and that no id from n on is named.
LogFits(k, n) ==
  k.prov_log.on =>
    /\ \A i \in Nat \ {0, 1} : CountsFit(k, i)
    /\ \A i \in Nat : i >= n =>
         \A ops \in SUBSET EntryOps : Logged(k.prov_log.entries, ops, i) = 0

SameNode(k, h, i) ==
  /\ i \in DOMAIN h.inodes <=> i \in DOMAIN k.inodes
  /\ i \in DOMAIN k.inodes => /\ h.inodes[i].vtype = k.inodes[i].vtype
                              /\ h.inodes[i].link_count = k.inodes[i].link_count

SameCounts(k, h, i) ==
  \A ops \in SUBSET EntryOps :
    Logged(h.prov_log.entries, ops, i) = Logged(k.prov_log.entries, ops, i)

LEMMA FitsSame ==
  ASSUME NEW k, NEW h, NEW i, CountsFit(k, i), SameNode(k, h, i), SameCounts(k, h, i)
  PROVE  CountsFit(h, i)
<1>1. \A ops \in {{"Create", "Symlink", "Link"}, {"Unlink"}, {"Mkdir"}, {"Rmdir"}} :
        Logged(h.prov_log.entries, ops, i) = Logged(k.prov_log.entries, ops, i)
  BY DEF SameCounts, EntryOps
<1> QED BY <1>1 DEF CountsFit, SameNode

\* A step that changes no name and leaves no entry about one.
Quiet(k, h) ==
  /\ h.prov_log.on = k.prov_log.on
  /\ \A i : SameNode(k, h, i) /\ (k.prov_log.on => SameCounts(k, h, i))

LEMMA QuietFits ==
  ASSUME NEW k, NEW h, NEW n, LogFits(k, n), Quiet(k, h)
  PROVE  LogFits(h, n)
<1>1. SUFFICES ASSUME k.prov_log.on, h.prov_log.on
               PROVE  LogFits(h, n)
  BY DEF LogFits, Quiet
<1>2. \A i \in Nat \ {0, 1} : CountsFit(h, i)
  BY <1>1, FitsSame DEF LogFits, Quiet
<1>3. \A i \in Nat : i >= n =>
        \A ops \in SUBSET EntryOps : Logged(h.prov_log.entries, ops, i) = 0
  BY <1>1 DEF LogFits, Quiet, SameCounts
<1> QED BY <1>2, <1>3 DEF LogFits

\* A call that changes a name and its entry: what becomes of the inode.
Acts(k, h, op, i) ==
  /\ Counts(k, h, op, i)
  /\ \A j : j # i => SameNode(k, h, j)
  /\ \/ /\ op \in {"Create", "Symlink"} /\ i \in DOMAIN h.inodes
        /\ h.inodes[i].vtype # "Directory" /\ h.inodes[i].link_count = 1
     \/ /\ op = "Mkdir" /\ i \in DOMAIN h.inodes /\ h.inodes[i].vtype = "Directory"
     \/ /\ op \in {"Link", "Unlink"}
        /\ i \in DOMAIN k.inodes /\ k.inodes[i].vtype # "Directory"
        /\ LET links == k.inodes[i].link_count + (IF op = "Link" THEN 1 ELSE -1)
           IN IF links = 0 THEN i \notin DOMAIN h.inodes
              ELSE /\ i \in DOMAIN h.inodes /\ h.inodes[i].vtype # "Directory"
                   /\ h.inodes[i].link_count = links
     \/ /\ op = "Rmdir" /\ i \notin DOMAIN h.inodes
        /\ i \in DOMAIN k.inodes /\ k.inodes[i].vtype = "Directory"

LEMMA ActsFit ==
  ASSUME NEW k, FieldsTyped(k), LogTyped(k), NEW n \in Nat, LogFits(k, n),
         NEW i \in Nat, NEW op, op \in {"Create", "Symlink", "Mkdir"} => i = n,
         NEW h, Acts(k, h, op, i), NEW m \in Nat, n <= m, i < m
  PROVE  LogFits(h, m)
<1>1. SUFFICES ASSUME k.prov_log.on, h.prov_log.on
               PROVE  LogFits(h, m)
  BY DEF LogFits, Acts, Counts
<1> DEFINE C(o, j) == Logged(k.prov_log.entries, o, j)
           D(o, j) == Logged(h.prov_log.entries, o, j)
<1>2. \A o, j : C(o, j) \in Nat
  BY LoggedIsNat DEF LogTyped
<1>3. \A o, j : D(o, j) = C(o, j) + (IF op \in o /\ j = i THEN 1 ELSE 0)
  BY <1>1 DEF Acts, Counts
<1>4. ASSUME NEW j \in Nat, j # i
      PROVE  /\ CountsFit(k, j) => CountsFit(h, j)
             /\ \A ops \in SUBSET EntryOps : D(ops, j) = C(ops, j)
  <2>1. \A o : D(o, j) = C(o, j)
    BY <1>2, <1>3, <1>4
  <2>2. SameNode(k, h, j) /\ SameCounts(k, h, j)
    BY <1>4, <2>1 DEF Acts, SameCounts
  <2> QED BY <2>1, <2>2, FitsSame
<1>5. ASSUME i \notin {0, 1}
      PROVE  CountsFit(h, i)
  <2> DEFINE A == C({"Create", "Symlink", "Link"}, i)
             U == C({"Unlink"}, i)
             M == C({"Mkdir"}, i)
             R == C({"Rmdir"}, i)
  <2>1. A \in Nat /\ U \in Nat /\ M \in Nat /\ R \in Nat
    BY <1>2
  <2>2. IF i \in DOMAIN k.inodes
        THEN IF k.inodes[i].vtype = "Directory" THEN M > 0 /\ R = 0
             ELSE M = 0 /\ A - U = k.inodes[i].link_count /\ A - U > 0
        ELSE IF M > 0 THEN R > 0 ELSE A - U <= 0
    BY <1>1, <1>5 DEF LogFits, CountsFit
  <2>3. i = n => A = 0 /\ U = 0 /\ M = 0 /\ R = 0
    BY <1>1 DEF LogFits, EntryOps
  <2>4. /\ D({"Create", "Symlink", "Link"}, i)
             = A + (IF op \in {"Create", "Symlink", "Link"} THEN 1 ELSE 0)
        /\ D({"Unlink"}, i) = U + (IF op = "Unlink" THEN 1 ELSE 0)
        /\ D({"Mkdir"}, i) = M + (IF op = "Mkdir" THEN 1 ELSE 0)
        /\ D({"Rmdir"}, i) = R + (IF op = "Rmdir" THEN 1 ELSE 0)
    BY <1>3
  <2> HIDE DEF A, U, M, R
  <2>5. CASE op \in {"Create", "Symlink"}
    BY <2>1, <2>3, <2>4, <2>5 DEF Acts, CountsFit
  <2>6. CASE op = "Mkdir"
    BY <2>1, <2>3, <2>4, <2>6 DEF Acts, CountsFit
  <2>7. CASE op \in {"Link", "Unlink"}
    <3>1. /\ i \in DOMAIN k.inodes /\ k.inodes[i].vtype # "Directory"
          /\ LET links == k.inodes[i].link_count + (IF op = "Link" THEN 1 ELSE -1)
             IN IF links = 0 THEN i \notin DOMAIN h.inodes
                ELSE /\ i \in DOMAIN h.inodes /\ h.inodes[i].vtype # "Directory"
                     /\ h.inodes[i].link_count = links
      BY <2>7 DEF Acts
    <3> QED BY <2>1, <2>2, <2>4, <2>7, <3>1 DEF CountsFit
  <2>8. CASE op = "Rmdir"
    BY <2>1, <2>2, <2>4, <2>8 DEF Acts, CountsFit
  <2> QED BY <2>5, <2>6, <2>7, <2>8 DEF Acts
<1>6. \A j \in Nat \ {0, 1} : CountsFit(h, j)
  BY <1>1, <1>4, <1>5 DEF LogFits
<1>7. \A j \in Nat : j >= m => \A ops \in SUBSET EntryOps : D(ops, j) = 0
  BY <1>1, <1>4 DEF LogFits
<1> QED BY <1>6, <1>7 DEF LogFits

LEMMA OthersAreQuiet ==
  ASSUME NEW k, LogTyped(k), NEW h, \A i : SameNode(k, h, i),
         RecordsOther(k, h) \/ h.prov_log = k.prov_log
  PROVE  Quiet(k, h)
<1>2. CASE h.prov_log = k.prov_log
  BY <1>2 DEF Quiet, SameCounts
<1>3. CASE RecordsOther(k, h)
  <2>1. PICK m, op, i : /\ op \notin EntryOps /\ Unrecorded(k, m)
                        /\ h = record_prov(m, op, i)
    BY <1>3 DEF RecordsOther
  <2>2. Counts(k, h, op, i)
    BY <2>1, RecordCounts
  <2>3. \A ops, j : Logged(k.prov_log.entries, ops, j) \in Nat
    BY LoggedIsNat DEF LogTyped
  <2>4. k.prov_log.on => \A j : SameCounts(k, h, j)
    BY <2>1, <2>2, <2>3 DEF Counts, SameCounts
  <2> QED BY <2>2, <2>4 DEF Quiet, Counts
<1> QED BY <1>2, <1>3

LEMMA EntersCount ==
  ASSUME NEW k, LogTyped(k), NEW h, NEW op, NEW i, Enters(k, h, op, i)
  PROVE  Counts(k, h, op, i) /\ LogTyped(h)
BY LeavesUnrecorded, RecordCounts DEF Enters, Beside, Carried

LEMMA LinksAreCounted ==
  ASSUME NEW k, Sound(k), NEW i \in DOMAIN k.inodes
  PROVE  k.inodes[i].link_count \in Nat
<1>1. IsFiniteSet(LinksTo(k, i))
  <2>1. LinksTo(k, i) \subseteq DOMAIN k.edges
    BY DEF LinksTo, ContainsEdges
  <2> QED BY <2>1, FS_Subset DEF Sound, WellFormed, LinksCounted
<1> QED BY <1>1, FS_CardinalityType DEF Sound, WellFormed, LinksCounted

\* What makes or removes an object, or a link to it.
LEMMA LinkActs ==
  ASSUME NEW k, Sound(k), LogTyped(k), NEW d, NEW n, NEW i, link_ok(k, d, n, i),
         NEW h, h = link(k, d, n, i)
  PROVE  LogTyped(h) /\ Acts(k, h, "Link", i)
<1> DEFINE e  == k.next_edge
           m1 == [k EXCEPT !.next_edge = e + 1]
           m2 == add_contains(m1, e, d, i, n)
           m  == link_nodes(k, d, n, i)
<1>0. IsGraph(k) /\ i \in DOMAIN k.inodes /\ k.inodes[i].vtype # "Directory"
      /\ k.inodes[i] \in Inode
  BY SoundGraph DEF link_ok, FieldsTyped
<1>1. m = [m2 EXCEPT !.inodes[i].link_count = @ + 1]
  BY DEF link_nodes
<1>2. IsGraph(m1) /\ m1.inodes = k.inodes
  BY <1>0, NodeHelpersWire, WiringKeeps
<1> HIDE DEF m1
<1>3. IsGraph(m2) /\ m2.inodes = k.inodes
  BY <1>2, EdgeHelpersWire, WiringKeeps
<1> HIDE DEF m2
<1>4. IsGraph(m) /\ m.inodes = [k.inodes EXCEPT ![i].link_count = @ + 1]
  BY <1>1, <1>3 DEF IsGraph, GraphFields
<1>5. h = record_prov(m, "Link", i)
  BY DEF link
<1>6. Enters(k, h, "Link", i)
  BY EntryCallsEnter
<1>7. Counts(k, h, "Link", i) /\ LogTyped(h)
  BY <1>6, EntersCount
<1> HIDE DEF m
<1>8. h.inodes = [k.inodes EXCEPT ![i].link_count = @ + 1]
  BY <1>4, <1>5, RecordKeeps DEF GraphFields
<1>9. /\ \A j : j # i => SameNode(k, h, j)
      /\ i \in DOMAIN h.inodes /\ h.inodes[i].vtype = k.inodes[i].vtype
      /\ h.inodes[i].link_count = k.inodes[i].link_count + 1
  BY <1>0, <1>8 DEF SameNode, Inode
<1>10. k.inodes[i].link_count + 1 # 0
  BY <1>0, LinksAreCounted
<1> QED BY <1>0, <1>7, <1>9, <1>10 DEF Acts

LEMMA UnlinkInodes ==
  ASSUME NEW k, IsGraph(k), NEW d, NEW n, NEW e, e = scan_name(k, d, n),
         NEW i, i = k.edges[e].tgt, i \in DOMAIN k.inodes,
         NEW P, P = [k.inodes EXCEPT ![i].link_count = @ - 1],
         NEW h, h = unlink(k, d, n)
  PROVE  h.inodes = IF P[i].link_count = 0 THEN Del(P, {i}) ELSE P
<1> DEFINE m1 == drop_contains(k, {e})
           m2 == [m1 EXCEPT !.inodes[i].link_count = @ - 1]
           m3 == release_blocks(m2, i)
           m4 == remove_inode(m3, i)
           m5 == collect_inode(m2, i)
           m6 == update_quota(m5, d, -1)
           m  == unlink_nodes(k, d, n)
<1>1. m = IF m2.inodes[i].link_count = 0 THEN m6 ELSE m2
  BY DEF unlink_nodes
<1>2. \E x : m5 = [m4 EXCEPT !.inode_incoming_contains = x]
  BY DEF collect_inode
<1>3. IsGraph(m1) /\ m1.inodes = k.inodes
  BY EdgeHelpersWire, WiringKeeps
<1> HIDE DEF m1
<1>4. IsGraph(m2) /\ m2.inodes = P
  BY <1>3 DEF IsGraph, GraphFields
<1> HIDE DEF m2, m3
<1>5. IsGraph(m3) /\ m3.inodes = P
  <2>1. SameExcept(m2, m3, Wiring)
    BY <1>4, NodeHelpersWire DEF m3
  <2> QED BY <1>4, <2>1, WiringKeeps
<1>6. IsGraph(m4) /\ m4.inodes = Del(P, {i})
  BY <1>5 DEF remove_inode, IsGraph, GraphFields
<1> HIDE DEF m4, m5, m6
<1>7. IsGraph(m5) /\ m5.inodes = Del(P, {i})
  BY <1>2, <1>6 DEF IsGraph, GraphFields
<1>8. IsGraph(m6) /\ m6.inodes = Del(P, {i})
  BY <1>7, ChargeIs DEF m6
<1>9. \E j : h = record_prov(m, "Unlink", j)
  BY DEF unlink
<1> HIDE DEF m
<1>10. h.inodes = m.inodes
  <2>1. IsGraph(m) /\ "inodes" \in GraphFields \ {"prov_log"}
    BY <1>1, <1>4, <1>8 DEF GraphFields
  <2> QED BY <1>9, <2>1, RecordKeeps
<1> QED BY <1>1, <1>4, <1>8, <1>10

LEMMA UnlinkActs ==
  ASSUME NEW k, Sound(k), LogTyped(k), NEW d, NEW n, unlink_ok(k, d, n),
         NEW h, h = unlink(k, d, n)
  PROVE  \E i \in DOMAIN k.inodes : LogTyped(h) /\ Acts(k, h, "Unlink", i)
<1> DEFINE e == scan_name(k, d, n)
           i == k.edges[e].tgt
           P == [k.inodes EXCEPT ![i].link_count = @ - 1]
<1>0. IsGraph(k) /\ i \in DOMAIN k.inodes /\ k.inodes[i].vtype # "Directory"
      /\ k.inodes[i] \in Inode
  BY SoundGraph DEF unlink_ok, FieldsTyped
<1>1. h.inodes = IF P[i].link_count = 0 THEN Del(P, {i}) ELSE P
  BY <1>0, UnlinkInodes
<1>2. Enters(k, h, "Unlink", i)
  BY EntryCallsEnter
<1>3. Counts(k, h, "Unlink", i) /\ LogTyped(h)
  BY <1>2, EntersCount
<1> HIDE DEF i, e
<1>4. /\ DOMAIN P = DOMAIN k.inodes
      /\ \A j \in DOMAIN k.inodes \ {i} : P[j] = k.inodes[j]
      /\ P[i].vtype = k.inodes[i].vtype
      /\ P[i].link_count = k.inodes[i].link_count + (-1)
  BY <1>0 DEF Inode
<1> HIDE DEF P
<1>5. \A j : j # i => SameNode(k, h, j)
  BY <1>1, <1>4 DEF SameNode, Del
<1>6. IF k.inodes[i].link_count + (-1) = 0 THEN i \notin DOMAIN h.inodes
      ELSE /\ i \in DOMAIN h.inodes /\ h.inodes[i].vtype # "Directory"
           /\ h.inodes[i].link_count = k.inodes[i].link_count + (-1)
  BY <1>0, <1>1, <1>4 DEF Del
<1> QED BY <1>0, <1>3, <1>5, <1>6 DEF Acts

LEMMA RmdirActs ==
  ASSUME NEW k, Sound(k), LogTyped(k), NEW d, NEW n, rmdir_ok(k, d, n),
         NEW h, h = rmdir(k, d, n)
  PROVE  \E i \in DOMAIN k.inodes : LogTyped(h) /\ Acts(k, h, "Rmdir", i)
<1> DEFINE i  == resolve_name(k, d, n)
           c  == dir_for_inode(k, i)
           S  == {e \in entries(k, d) : k.edges[e].tgt = i /\ k.edges[e].name = n}
                    \cup entries(k, c)
           m1 == drop_contains(k, S)
           m2 == remove_inode(m1, i)
           m3 == remove_dir(m2, c)
           m4 == rmdir_nodes(k, d, n)
<1>0. IsGraph(k) /\ i \in DOMAIN k.inodes /\ k.inodes[i].vtype = "Directory"
  BY SoundGraph DEF rmdir_ok, IsDirInode
<1>1. \E x, y : m4 = [m3 EXCEPT !.dir_contains = x, !.inode_incoming_contains = y]
  BY DEF rmdir_nodes
<1>2. h = record_prov(update_quota(m4, d, -1), "Rmdir", i)
  BY DEF rmdir
<1>3. Enters(k, h, "Rmdir", i)
  BY EntryCallsEnter
<1>4. Counts(k, h, "Rmdir", i) /\ LogTyped(h)
  BY <1>3, EntersCount
<1> HIDE DEF S, i
<1>5. IsGraph(m1) /\ m1.inodes = k.inodes
  BY <1>0, EdgeHelpersWire, WiringKeeps
<1> HIDE DEF m1
<1>6. IsGraph(m2) /\ m2.inodes = Del(k.inodes, {i})
  BY <1>5 DEF remove_inode, IsGraph, GraphFields
<1> HIDE DEF m2
<1>7. IsGraph(m3) /\ m3.inodes = Del(k.inodes, {i})
  BY <1>6, NodeHelpersWire, WiringKeeps
<1> HIDE DEF m3, m4
<1>8. IsGraph(m4) /\ m4.inodes = Del(k.inodes, {i})
  BY <1>1, <1>7, NodeHelpersWire, WiringKeeps
<1>9. h.inodes = Del(k.inodes, {i})
  BY <1>2, <1>8, ChargeIs
<1>10. (\A j : j # i => SameNode(k, h, j)) /\ i \notin DOMAIN h.inodes
  BY <1>9 DEF SameNode, Del
<1> QED BY <1>0, <1>4, <1>10 DEF Acts

LEMMA MakesActs ==
  ASSUME NEW k, Sound(k), k.next_inode < NODE_CAPACITY, NEW op, NEW t,
         <<op, t>> \in {<<"Create", "Regular">>, <<"Symlink", "Symlink">>,
                        <<"Mkdir", "Directory">>},
         NEW h, Counts(k, h, op, k.next_inode), MakesInode(k, h, t)
  PROVE  Acts(k, h, op, k.next_inode)
<1> DEFINE i == k.next_inode
<1>1. PICK v : /\ h.inodes = insert_at(k.inodes, i, v, NODE_CAPACITY)
               /\ v.vtype = t /\ v.link_count = (IF t = "Directory" THEN 2 ELSE 1)
  BY DEF MakesInode
<1>2. i \notin DOMAIN k.inodes
  BY SoundGraph
<1>3. h.inodes = Put(k.inodes, i, v)
  BY <1>1, <1>2 DEF insert_at
<1>4. i \in DOMAIN h.inodes /\ h.inodes[i] = v /\ \A j : j # i => SameNode(k, h, j)
  BY <1>2, <1>3 DEF Put, SameNode
<1>5. CASE op = "Mkdir" /\ t = "Directory"
  BY <1>1, <1>4, <1>5 DEF Acts
<1>6. CASE op \in {"Create", "Symlink"} /\ t \in {"Regular", "Symlink"}
  BY <1>1, <1>4, <1>6 DEF Acts
<1> QED BY <1>5, <1>6

LEMMA LiveActsFit ==
  ASSUME NEW k, Sound(k), LogTyped(k), LogFits(k, k.next_inode), NEW i \in DOMAIN k.inodes,
         NEW op \in {"Link", "Unlink", "Rmdir"}, NEW h, Acts(k, h, op, i)
  PROVE  LogFits(h, k.next_inode)
<1>1. FieldsTyped(k) /\ k.next_inode \in Nat /\ i \in Nat /\ i < k.next_inode
  BY SoundGraph DEF IdsIssued
<1> QED BY <1>1, ActsFit

LEMMA NextMakersFit ==
  ASSUME PoolsHaveRoom, SoundState, LogTyped(g), LogFits(g, g.next_inode),
         CreateFile \/ Symlink \/ Mkdir
  PROVE  LogTyped(g') /\ LogFits(g', g'.next_inode)
<1>1. /\ Sound(g) /\ IsGraph(g) /\ FieldsTyped(g)
      /\ g.next_inode \in Nat /\ g.next_edge \in Nat
  BY SoundGraph DEF SoundState
<1>2. Issues(g, g')
  <2>1. TypeOK
    BY <1>1, SoundGraph DEF TypeOK
  <2> QED BY <2>1, NextIssues DEF Next
<1>3. g'.next_inode \in Nat /\ g'.next_edge \in Nat
  BY <1>2 DEF Issues, FieldsTyped, Ids
<1>4. ASSUME NEW op, NEW t, Within(g'), g'.next_inode = g.next_inode + 1,
             <<op, t>> \in {<<"Create", "Regular">>, <<"Symlink", "Symlink">>,
                            <<"Mkdir", "Directory">>},
             Counts(g, g', op, g.next_inode), MakesInode(g, g', t)
      PROVE  LogFits(g', g'.next_inode)
  <2>1. g'.next_inode <= NODE_CAPACITY /\ NODE_CAPACITY \in Nat
    BY <1>3, <1>4, RoomFor, CapacityAssumption
  <2>2. g.next_inode < NODE_CAPACITY
    BY <1>1, <1>4, <2>1
  <2>3. Acts(g, g', op, g.next_inode)
    BY <1>1, <1>4, <2>2, MakesActs
  <2>4. g.next_inode <= g'.next_inode /\ g.next_inode < g'.next_inode
    BY <1>1, <1>4
  <2> QED BY <1>1, <1>3, <2>3, <2>4, ActsFit
<1>5. CASE CreateFile
  <2>1. PICK d, n, m, u : Within(g') /\ g' = create_file(g, d, n, m, u)
    BY <1>5 DEF CreateFile, Step
  <2>2. g'.next_inode = g.next_inode + 1
    BY <1>1, <2>1, CreateFileTakes
  <2>3. MakesInode(g, g', "Regular")
    BY <1>1, <2>1, MakersMakeOne
  <2>4. Counts(g, g', "Create", g.next_inode) /\ LogTyped(g')
    BY <1>1, <2>1, EntryCallsEnter, EntersCount
  <2> QED BY <1>4, <2>1, <2>2, <2>3, <2>4
<1>6. CASE Symlink
  <2>1. PICK d, n, t, u : Within(g') /\ g' = symlink(g, d, n, t, u)
    BY <1>6 DEF Symlink, Step
  <2>2. g'.next_inode = g.next_inode + 1
    BY <1>1, <2>1, SymlinkTakes
  <2>3. MakesInode(g, g', "Symlink")
    BY <1>1, <2>1, MakersMakeOne
  <2>4. Counts(g, g', "Symlink", g.next_inode) /\ LogTyped(g')
    <3>1. PICK m : /\ Leaves(g, m, Carried \ {"symlink_targets"}, CarriedKinds)
                   /\ g' = record_prov(m, "Symlink", g.next_inode)
      BY <1>1, <2>1, SymlinkLeaves
    <3>2. Unrecorded(g, m)
      BY <3>1, LeavesUnrecorded DEF Carried
    <3> QED BY <3>1, <3>2, RecordCounts
  <2> QED BY <1>4, <2>1, <2>2, <2>3, <2>4
<1>7. CASE Mkdir
  <2>1. PICK d, n, m, u : Within(g') /\ g' = mkdir(g, d, n, m, u)
    BY <1>7 DEF Mkdir, Step
  <2>2. g'.next_inode = g.next_inode + 1
    BY <1>1, <2>1, MkdirTakes
  <2>3. MakesInode(g, g', "Directory")
    BY <1>1, <2>1, MakersMakeOne
  <2>4. Counts(g, g', "Mkdir", g.next_inode) /\ LogTyped(g')
    BY <1>1, <2>1, EntryCallsEnter, EntersCount
  <2> QED BY <1>4, <2>1, <2>2, <2>3, <2>4
<1> QED BY <1>5, <1>6, <1>7

LEMMA FitsLater ==
  ASSUME NEW k, NEW n \in Nat, LogFits(k, n), NEW m \in Nat, n <= m
  PROVE  LogFits(k, m)
BY DEF LogFits

\* A rename leaves one entry of its own; the object it replaces has had its.
LEMMA RenameFits ==
  ASSUME NEW k, Sound(k), LogTyped(k), LogFits(k, k.next_inode),
         NEW sd \in DOMAIN k.dirs, NEW src \in AllNames,
         NEW dd \in DOMAIN k.dirs, NEW dst \in AllNames,
         NEW h, h = rename(k, sd, src, dd, dst).graph
  PROVE  LogTyped(h) /\ LogFits(h, k.next_inode)
<1>1. \/ h = k
      \/ \E r, j : /\ r = k \/ r = replace_destination(k, dd, dst).graph
                   /\ Enters(r, h, "Rename", j) /\ h.inodes = r.inodes
  BY RenameEnters
<1>2. ASSUME NEW r, NEW j, r = k \/ r = replace_destination(k, dd, dst).graph,
             Enters(r, h, "Rename", j), h.inodes = r.inodes
      PROVE  LogTyped(h) /\ LogFits(h, k.next_inode)
  <2>1. LogTyped(r) /\ LogFits(r, k.next_inode)
    <3>1. CASE r = k
      BY <3>1
    <3>2. CASE unlink_ok(k, dd, dst) /\ r = unlink(k, dd, dst)
      BY <3>2, UnlinkActs, LiveActsFit
    <3>3. CASE rmdir_ok(k, dd, dst) /\ r = rmdir(k, dd, dst)
      BY <3>3, RmdirActs, LiveActsFit
    <3> QED BY <1>2, <3>1, <3>2, <3>3, ReplaceEnters
  <2>2. \A i : SameNode(r, h, i)
    BY <1>2 DEF SameNode
  <2>3. RecordsOther(r, h)
    BY <1>2, LeavesUnrecorded DEF Enters, Beside, Carried, RecordsOther, EntryOps
  <2>4. Quiet(r, h)
    BY <2>1, <2>2, <2>3, OthersAreQuiet
  <2> QED BY <1>2, <2>1, <2>4, QuietFits, EntersCount
<1> QED BY <1>1, <1>2

LEMMA NextLogFits ==
  ASSUME PoolsHaveRoom, SoundState, LogTyped(g), LogFits(g, g.next_inode), Next
  PROVE  LogTyped(g') /\ LogFits(g', g'.next_inode)
<1>1. /\ Sound(g) /\ IsGraph(g) /\ g.next_inode \in Nat /\ DirHandles = DOMAIN g.dirs
  BY SoundGraph DEF SoundState, DirHandles, PoolsHaveRoom
<1>2. g'.next_inode \in Nat /\ g.next_inode <= g'.next_inode
  <2>1. TypeOK
    BY <1>1, SoundGraph DEF TypeOK
  <2>2. Issues(g, g')
    BY <2>1, NextIssues
  <2> QED BY <1>1, <2>2 DEF Issues, FieldsTyped, Ids
<1>3. LogTyped(g')
  BY NextNotes
<1>4. ASSUME LogFits(g', g.next_inode)
      PROVE  LogFits(g', g'.next_inode)
  BY <1>1, <1>2, <1>4, FitsLater
<1>5. CASE CreateFile \/ Symlink \/ Mkdir
  BY <1>5, NextMakersFit
<1>6. CASE Link
  <2>1. PICK d, n, i : link_ok(g, d, n, i) /\ g' = link(g, d, n, i)
    BY <1>6 DEF Link, Step
  <2>2. Acts(g, g', "Link", i) /\ i \in DOMAIN g.inodes
    BY <1>1, <2>1, LinkActs DEF link_ok
  <2> QED BY <1>1, <1>3, <1>4, <2>2, LiveActsFit
<1>7. CASE Unlink \/ Rmdir
  <2>1. PICK d, n : \/ unlink_ok(g, d, n) /\ g' = unlink(g, d, n)
                    \/ rmdir_ok(g, d, n) /\ g' = rmdir(g, d, n)
    BY <1>7 DEF Unlink, Rmdir, Step
  <2>2. \E i \in DOMAIN g.inodes, op \in {"Unlink", "Rmdir"} : Acts(g, g', op, i)
    BY <1>1, <2>1, UnlinkActs, RmdirActs
  <2> QED BY <1>1, <1>3, <1>4, <2>2, LiveActsFit
<1>8. CASE Rename
  <2>1. PICK sd \in DOMAIN g.dirs, dd \in DOMAIN g.dirs,
             src \in AllNames, dst \in AllNames :
          g' = rename(g, sd, src, dd, dst).graph
    BY <1>1, <1>8 DEF Rename, Step
  <2>2. LogFits(g', g.next_inode)
    BY <1>1, <2>1, RenameFits
  <2> QED BY <1>3, <1>4, <2>2
<1>9. CASE Unnoticed(g, g') /\ (RecordsOther(g, g') \/ g'.prov_log = g.prov_log)
  <2>1. \A i : SameNode(g, g', i)
    BY <1>9 DEF Unnoticed, SameTree, SameNode
  <2>2. Quiet(g, g')
    BY <1>9, <2>1, OthersAreQuiet
  <2> QED BY <1>3, <1>4, <2>2, QuietFits
<1> QED BY <1>5, <1>6, <1>7, <1>8, <1>9, NextUnnoticed, NextRecordsOther

LEMMA InitLogFits ==
  ASSUME Init
  PROVE  LogFits(g, g.next_inode)
<1> DEFINE k == new_graph(CHOOSE m \in Modes : TRUE, CHOOSE u \in Users : TRUE)
<1>1. /\ k.prov_log = [on |-> FALSE, entries |-> <<>>] /\ IsGraph(k)
      /\ DOMAIN k.inodes = {1}
  BY DEF new_graph, IsGraph, GraphFields, NoLog, RootInode
<1>2. g = [k EXCEPT !.prov_log.on = Logging]
  BY DEF Init
<1> HIDE DEF k
<1>3. g.prov_log.entries = <<>> /\ DOMAIN g.inodes = {1}
  BY <1>1, <1>2 DEF IsGraph, GraphFields
<1>4. \A ops, i : Logged(<<>>, ops, i) = 0
  BY FS_EmptySet DEF Logged
<1> QED BY <1>3, <1>4 DEF LogFits, CountsFit

LEMMA FitsReplay ==
  ASSUME NEW k, LogTyped(k), k.prov_log.on, NEW n, LogFits(k, n)
  PROVE  Replays(k.prov_log.entries, k)
<1> DEFINE log == k.prov_log.entries
<1>1. \A ops, j : Logged(log, ops, j) \in Nat
  BY LoggedIsNat DEF LogTyped
<1>2. ASSUME NEW i \in 2 .. k.next_inode - 1
      PROVE  LET links == Logged(log, {"Create", "Symlink", "Link"}, i)
                            - Logged(log, {"Unlink"}, i)
             IN IF Logged(log, {"Mkdir"}, i) > 0
                THEN i \in DOMAIN k.inodes <=> Logged(log, {"Rmdir"}, i) = 0
                ELSE /\ i \in DOMAIN k.inodes <=> links > 0
                     /\ i \in DOMAIN k.inodes => k.inodes[i].link_count = links
  <2> DEFINE A == Logged(log, {"Create", "Symlink", "Link"}, i)
             U == Logged(log, {"Unlink"}, i)
             M == Logged(log, {"Mkdir"}, i)
             R == Logged(log, {"Rmdir"}, i)
  <2>1. A \in Nat /\ U \in Nat /\ M \in Nat /\ R \in Nat
    BY <1>1
  <2>2. i \in Nat \ {0, 1}
    BY <1>2
  <2>3. IF i \in DOMAIN k.inodes
        THEN IF k.inodes[i].vtype = "Directory" THEN M > 0 /\ R = 0
             ELSE M = 0 /\ A - U = k.inodes[i].link_count /\ A - U > 0
        ELSE IF M > 0 THEN R > 0 ELSE A - U <= 0
    BY <1>2, <2>2 DEF LogFits, CountsFit
  <2> HIDE DEF A, U, M, R
  <2>4. IF M > 0 THEN i \in DOMAIN k.inodes <=> R = 0
        ELSE /\ i \in DOMAIN k.inodes <=> A - U > 0
             /\ i \in DOMAIN k.inodes => k.inodes[i].link_count = A - U
    BY <2>1, <2>3
  <2> QED BY <2>4 DEF A, U, M, R
<1> QED BY <1>2 DEF Replays

\* The audit trail is complete: which objects exist, and how many names each
\* file has, can be told from the log alone, whatever was called; what a rename
\* replaces has its own entry, and nothing that was not done has one.
THEOREM LogTellsTheNamespace ==
  ASSUME PoolsHaveRoom
  PROVE  Spec => []LogReplaysToNamespace
<1> DEFINE Inv == LogTyped(g) /\ LogFits(g, g.next_inode)
<1>1. Init => Inv
  BY InitLogTyped, InitLogFits
<1>2. SoundState /\ Inv /\ [Next]_g => Inv'
  <2> SUFFICES ASSUME SoundState, Inv, [Next]_g PROVE Inv'
    OBVIOUS
  <2>1. CASE Next
    <3>1. LogTyped(g') /\ LogFits(g', g'.next_inode)
      BY <2>1, NextLogFits
    <3> QED BY <3>1
  <2>2. CASE UNCHANGED g
    BY <2>2
  <2> QED BY <2>1, <2>2
<1>3. SoundState /\ Inv => LogReplaysToNamespace
  BY FitsReplay DEF LogReplaysToNamespace, Log
<1> HIDE DEF Inv
<1> QED BY <1>1, <1>2, <1>3, SoundAlways, PTL DEF Spec
-----------------------------------------------------------------------------
(***************************************************************************)
(* Blocks.  write_block takes any inode, and rmdir looks at no block: what *)
(* is proved is for histories in which no directory that can go gets one.  *)
(***************************************************************************)
Pointers(k) == EdgesOf(k, "PointsTo")

\* The root directory never goes, so blocks of its own are never lost.
OnlyFilesHaveBlocks ==
  \A e \in Pointers(g) : \/ g.edges[e].src = RootInode
                         \/ ~IsDirInode(g, g.edges[e].src)

\* The inductive invariant: block ids are issued, each block is held by one
\* PointsTo edge of a live inode, and inode_points_to lists those edges.
BlocksExact(k) ==
  /\ \A b \in DOMAIN k.blocks : b \in Int /\ b < k.next_block /\ k.blocks[b] = 1
  /\ \A b \in DOMAIN k.blocks : \E e \in Pointers(k) : k.edges[e].tgt = b
  /\ \A e \in Pointers(k) : /\ k.edges[e].tgt \in DOMAIN k.blocks
                            /\ k.edges[e].src \in DOMAIN k.inodes
                            /\ k.edges[e].src \in DOMAIN k.inode_points_to
  /\ \A e, f \in Pointers(k) : k.edges[e].tgt = k.edges[f].tgt => e = f
  /\ \A i \in DOMAIN k.inode_points_to :
       k.inode_points_to[i] = {e \in Pointers(k) : k.edges[e].src = i}

LEMMA BlocksExactSame ==
  ASSUME NEW k, BlocksExact(k), NEW h, SameBlocks(k, h),
         \A e \in Pointers(k) : k.edges[e].src \in DOMAIN h.inodes
  PROVE  BlocksExact(h)
<1>1. /\ h.blocks = k.blocks /\ h.next_block = k.next_block
      /\ h.inode_points_to = k.inode_points_to /\ Pointers(h) = Pointers(k)
      /\ \A e \in Pointers(k) : h.edges[e] = k.edges[e]
  BY DEF SameBlocks, Leaves, Blocked, SameEdges, Pointers
<1>2. \A i : {e \in Pointers(h) : h.edges[e].src = i} = {e \in Pointers(k) : k.edges[e].src = i}
  BY <1>1
<1> QED BY <1>1, <1>2 DEF BlocksExact

LEMMA WriteBlockExact ==
  ASSUME NEW k, Sound(k), BlocksExact(k), NEW i \in DOMAIN k.inodes,
         k.next_block < NODE_CAPACITY, k.next_edge < EDGE_CAPACITY,
         NEW h, h = write_block(k, i)
  PROVE  BlocksExact(h)
<1> DEFINE b == k.next_block
           e == k.next_edge
           m == [k EXCEPT !.next_block = b + 1, !.next_edge = e + 1,
                          !.blocks = insert_at(@, b, 1, NODE_CAPACITY),
                          !.inode_points_to = IndexAdd(@, i, e)]
<1>1. IsGraph(k) /\ b \in Nat \ {0} /\ e \notin DOMAIN k.edges
  BY SoundGraph DEF FieldsTyped, Ids
<1>2. b \notin DOMAIN k.blocks
  BY <1>1 DEF BlocksExact
<1>3. /\ IsGraph(m) /\ m.edges = k.edges /\ m.next_block = b + 1
      /\ m.blocks = Put(k.blocks, b, 1) /\ m.inodes = k.inodes
      /\ m.inode_points_to = IndexAdd(k.inode_points_to, i, e)
  BY <1>1, <1>2 DEF IsGraph, GraphFields, insert_at
<1>4. h = insert_edge(m, e, OtherEdge("PointsTo", i, b))
  BY DEF write_block
<1> HIDE DEF m
<1>5. /\ h.edges = Put(k.edges, e, OtherEdge("PointsTo", i, b))
      /\ h.next_block = b + 1 /\ h.blocks = Put(k.blocks, b, 1) /\ h.inodes = k.inodes
      /\ h.inode_points_to = IndexAdd(k.inode_points_to, i, e)
  <2>1. insert_at(m.edges, e, OtherEdge("PointsTo", i, b), EDGE_CAPACITY) =
          Put(k.edges, e, OtherEdge("PointsTo", i, b))
    BY <1>1, <1>3 DEF insert_at
  <2> HIDE DEF b, e
  <2>2. /\ h.edges = insert_at(m.edges, e, OtherEdge("PointsTo", i, b), EDGE_CAPACITY)
        /\ h.next_block = m.next_block /\ h.blocks = m.blocks /\ h.inodes = m.inodes
        /\ h.inode_points_to = m.inode_points_to
    BY <1>3, <1>4 DEF insert_edge, IsGraph, GraphFields
  <2> QED BY <1>3, <2>1, <2>2
<1>6. /\ DOMAIN h.blocks = DOMAIN k.blocks \cup {b} /\ h.blocks[b] = 1
      /\ \A y \in DOMAIN k.blocks : h.blocks[y] = k.blocks[y]
  BY <1>2, <1>5 DEF Put
<1>7. /\ Pointers(h) = Pointers(k) \cup {e} /\ e \notin Pointers(k)
      /\ h.edges[e].src = i /\ h.edges[e].tgt = b
      /\ \A f \in Pointers(k) : h.edges[f] = k.edges[f]
  BY <1>1, <1>5 DEF Put, Pointers, EdgesOf, OtherEdge
<1>8. /\ DOMAIN h.inode_points_to = DOMAIN k.inode_points_to \cup {i}
      /\ h.inode_points_to[i] = SetAt(k.inode_points_to, i) \cup {e}
      /\ \A j \in DOMAIN k.inode_points_to \ {i} :
           h.inode_points_to[j] = k.inode_points_to[j]
  BY <1>5 DEF IndexAdd, Put
<1>9. SetAt(k.inode_points_to, i) = {f \in Pointers(k) : k.edges[f].src = i}
  BY DEF SetAt, BlocksExact
<1>10. \A y \in DOMAIN h.blocks : y \in Int /\ y < h.next_block /\ h.blocks[y] = 1
  <2>1. \A y \in DOMAIN k.blocks : y \in Int /\ y < b /\ k.blocks[y] = 1
    BY DEF BlocksExact
  <2> QED BY <1>1, <1>5, <1>6, <2>1
<1>11. \A y \in DOMAIN h.blocks : \E f \in Pointers(h) : h.edges[f].tgt = y
  BY <1>6, <1>7 DEF BlocksExact
<1>12. \A f \in Pointers(h) : /\ h.edges[f].tgt \in DOMAIN h.blocks
                              /\ h.edges[f].src \in DOMAIN h.inodes
                              /\ h.edges[f].src \in DOMAIN h.inode_points_to
  BY <1>5, <1>6, <1>7, <1>8 DEF BlocksExact
<1>13. \A f, f2 \in Pointers(h) : h.edges[f].tgt = h.edges[f2].tgt => f = f2
  <2>1. \A f \in Pointers(k) : k.edges[f].tgt # b
    BY <1>2 DEF BlocksExact
  <2> QED BY <1>7, <2>1 DEF BlocksExact
<1>14. \A j \in DOMAIN h.inode_points_to :
         h.inode_points_to[j] = {f \in Pointers(h) : h.edges[f].src = j}
  <2>1. ASSUME NEW j \in DOMAIN h.inode_points_to, j # i
        PROVE  h.inode_points_to[j] = {f \in Pointers(h) : h.edges[f].src = j}
    <3>1. h.inode_points_to[j] = {f \in Pointers(k) : k.edges[f].src = j}
      BY <1>8, <2>1 DEF BlocksExact
    <3> QED BY <1>7, <2>1, <3>1
  <2>2. h.inode_points_to[i] = {f \in Pointers(h) : h.edges[f].src = i}
    BY <1>7, <1>8, <1>9
  <2> QED BY <2>1, <2>2
<1> QED BY <1>10, <1>11, <1>12, <1>13, <1>14 DEF BlocksExact

\* The blocks of an inode go with it, and no other's.
LEMMA CollectExact ==
  ASSUME NEW m, IsGraph(m), BlocksExact(m), NEW i, NEW h, h = collect_inode(m, i)
  PROVE  BlocksExact(h) /\ IsGraph(h) /\ DOMAIN h.inodes = DOMAIN m.inodes \ {i}
<1> DEFINE Q == {e \in Pointers(m) : m.edges[e].src = i}
           P == {e \in SetAt(m.inode_points_to, i) \cap DOMAIN m.edges :
                   m.edges[e].kind = "PointsTo"}
           hit == {m.edges[e].tgt : e \in P}
           left(b) == m.blocks[b] - Cardinality({e \in P : m.edges[e].tgt = b})
           keep == {b \in DOMAIN m.blocks : b \in hit => left(b) > 0}
           B == [b \in keep |-> left(b)]
           n == remove_edge(m, P)
           r == release_blocks(m, i)
<1>1. P = Q
  BY DEF SetAt, BlocksExact, Pointers, EdgesOf
<1>2. IsGraph(n) /\ n.edges = Del(m.edges, P) /\ n.inodes = m.inodes
      /\ n.inode_points_to = m.inode_points_to /\ n.next_block = m.next_block
  BY DEF remove_edge, IsGraph, GraphFields
<1>3. r = [n EXCEPT !.inode_points_to = Del(@, {i}), !.blocks = B]
  BY DEF release_blocks
<1>4. \A b \in DOMAIN m.blocks : left(b) = IF b \in hit THEN 0 ELSE 1
  <2> TAKE b \in DOMAIN m.blocks
  <2>1. m.blocks[b] = 1
    BY DEF BlocksExact
  <2>2. CASE b \in hit
    <3>1. PICK e \in P : m.edges[e].tgt = b
      BY <2>2
    <3>2. {f \in P : m.edges[f].tgt = b} = {e}
      BY <1>1, <3>1 DEF BlocksExact
    <3>3. Cardinality({e}) = 1
      BY FS_Singleton
    <3> QED BY <2>1, <2>2, <3>2, <3>3
  <2>3. CASE b \notin hit
    <3>1. {f \in P : m.edges[f].tgt = b} = {}
      BY <2>3
    <3> QED BY <2>1, <2>3, <3>1, FS_EmptySet
  <2> QED BY <2>2, <2>3
<1>5. keep = DOMAIN m.blocks \ hit /\ \A b \in keep : B[b] = 1 /\ B[b] = m.blocks[b]
  <2>1. \A b \in DOMAIN m.blocks : m.blocks[b] = 1
    BY DEF BlocksExact
  <2> HIDE DEF left, hit
  <2> QED BY <1>4, <2>1
<1> HIDE DEF n, left, P
<1>6. DOMAIN B = keep
  OBVIOUS
<1> HIDE DEF B, keep, r
<1>7. IsGraph(r) /\ r.edges = Del(m.edges, P) /\ r.inodes = m.inodes /\ r.blocks = B
      /\ r.inode_points_to = Del(m.inode_points_to, {i}) /\ r.next_block = m.next_block
  BY <1>2, <1>3 DEF IsGraph, GraphFields
<1>8. /\ IsGraph(h) /\ h.edges = Del(m.edges, P) /\ h.inodes = Del(m.inodes, {i})
      /\ h.blocks = B /\ h.inode_points_to = Del(m.inode_points_to, {i})
      /\ h.next_block = m.next_block
  BY <1>7 DEF collect_inode, remove_inode, IsGraph, GraphFields, r
<1>9. /\ Pointers(h) = {e \in Pointers(m) : m.edges[e].src # i}
      /\ \A e \in Pointers(h) : h.edges[e] = m.edges[e]
  <2>1. Pointers(h) = Pointers(m) \ Q /\ \A e \in Pointers(h) : h.edges[e] = m.edges[e]
    BY <1>1, <1>8 DEF Del, Pointers, EdgesOf
  <2> QED BY <2>1
<1>10. DOMAIN h.inodes = DOMAIN m.inodes \ {i}
       /\ DOMAIN h.inode_points_to = DOMAIN m.inode_points_to \ {i}
       /\ \A j \in DOMAIN h.inode_points_to : h.inode_points_to[j] = m.inode_points_to[j]
  BY <1>8 DEF Del
<1>11. \A e \in Pointers(m) : m.edges[e].tgt \in hit => e \in Q
  BY <1>1 DEF BlocksExact
<1>12. \A b \in DOMAIN h.blocks : /\ b \in DOMAIN m.blocks \ hit
                                  /\ h.blocks[b] = 1
  BY <1>5, <1>6, <1>8
<1>13. \A b \in DOMAIN h.blocks : b \in Int /\ b < h.next_block /\ h.blocks[b] = 1
  BY <1>8, <1>12 DEF BlocksExact
<1>14. \A b \in DOMAIN h.blocks : \E e \in Pointers(h) : h.edges[e].tgt = b
  <2> TAKE b \in DOMAIN h.blocks
  <2>1. PICK e \in Pointers(m) : m.edges[e].tgt = b
    BY <1>12 DEF BlocksExact
  <2>2. e \notin Q
    BY <1>1, <1>12, <2>1
  <2> QED BY <1>9, <2>1, <2>2
<1>15. \A e \in Pointers(h) : /\ h.edges[e].tgt \in DOMAIN h.blocks
                              /\ h.edges[e].src \in DOMAIN h.inodes
                              /\ h.edges[e].src \in DOMAIN h.inode_points_to
  <2> TAKE e \in Pointers(h)
  <2>1. e \in Pointers(m) /\ e \notin Q /\ h.edges[e] = m.edges[e] /\ m.edges[e].src # i
    BY <1>9
  <2>2. h.edges[e].tgt \in DOMAIN m.blocks \ hit
    BY <1>11, <2>1 DEF BlocksExact
  <2> QED BY <1>5, <1>6, <1>8, <1>10, <2>1, <2>2 DEF BlocksExact
<1>16. \A e, f \in Pointers(h) : h.edges[e].tgt = h.edges[f].tgt => e = f
  BY <1>9 DEF BlocksExact
<1>17. \A j \in DOMAIN h.inode_points_to :
         h.inode_points_to[j] = {e \in Pointers(h) : h.edges[e].src = j}
  <2> TAKE j \in DOMAIN h.inode_points_to
  <2>1. j # i /\ h.inode_points_to[j] = {e \in Pointers(m) : m.edges[e].src = j}
    BY <1>10 DEF BlocksExact
  <2> QED BY <1>9, <2>1
<1> QED BY <1>8, <1>10, <1>13, <1>14, <1>15, <1>16, <1>17 DEF BlocksExact

\* The last link to a file takes its blocks along.
LEMMA UnlinkExact ==
  ASSUME NEW k, Sound(k), BlocksExact(k), NEW d, NEW n, unlink_ok(k, d, n),
         NEW h, h = unlink(k, d, n)
  PROVE  BlocksExact(h)
<1> DEFINE e  == scan_name(k, d, n)
           i  == k.edges[e].tgt
           m1 == drop_contains(k, {e})
           m2 == [m1 EXCEPT !.inodes[i].link_count = @ - 1]
           m3 == collect_inode(m2, i)
           m4 == update_quota(m3, d, -1)
           m  == unlink_nodes(k, d, n)
<1>1. m = m2 \/ m = m4
  BY DEF unlink_nodes
<1>2. h = record_prov(m, "Unlink", i)
  BY DEF unlink
<1>3. IsGraph(k) /\ {e} \subseteq ContainsEdges(k)
  BY SoundGraph, ScanFinds DEF unlink_ok
<1> HIDE DEF m, i, e
<1>4. SameBlocks(k, m1) /\ m1.inodes = k.inodes /\ IsGraph(m1)
  BY <1>3, DropContainsSteady, SteadyBeside, EdgeHelpersWire, WiringKeeps
<1> HIDE DEF m1
<1>5. SameBlocks(m1, m2) /\ DOMAIN m2.inodes = DOMAIN m1.inodes /\ IsGraph(m2)
  <2>1. \E x : m2 = [m1 EXCEPT !.inodes = x]
    OBVIOUS
  <2>2. DOMAIN m2.inodes = DOMAIN m1.inodes
    BY <1>4 DEF IsGraph, GraphFields
  <2> HIDE DEF m2
  <2>3. Steady(m1, m2)
    BY <1>4, <2>1, InodesSteady
  <2> QED BY <2>2, <2>3, SteadyBeside, SteadyIsGraph
<1> HIDE DEF m2
<1>6. BlocksExact(m2)
  <2>1. SameBlocks(k, m2)
    BY <1>4, <1>5, SameBlocksTrans
  <2>2. \A f \in Pointers(k) : k.edges[f].src \in DOMAIN m2.inodes
    BY <1>4, <1>5 DEF BlocksExact
  <2> QED BY <2>1, <2>2, BlocksExactSame
<1>7. BlocksExact(m3) /\ IsGraph(m3)
  BY <1>5, <1>6, CollectExact
<1> HIDE DEF m3
<1>8. SameBlocks(m3, m4) /\ m4.inodes = m3.inodes /\ IsGraph(m4)
  <2>1. IsGraph(m4) /\ m4.inodes = m3.inodes
    BY <1>7, ChargeIs
  <2> QED BY <1>7, <2>1, QuotaWalkSteady, SteadyBeside
<1>9. BlocksExact(m4)
  <2>1. \A f \in Pointers(m3) : m3.edges[f].src \in DOMAIN m4.inodes
    BY <1>7, <1>8 DEF BlocksExact
  <2> QED BY <1>7, <1>8, <2>1, BlocksExactSame
<1> HIDE DEF m4
<1>10. BlocksExact(m) /\ IsGraph(m)
  BY <1>1, <1>5, <1>6, <1>8, <1>9
<1>11. SameBlocks(m, h) /\ h.inodes = m.inodes
  BY <1>2, <1>10, RecordSameBlocks, RecordKeeps DEF GraphFields
<1>12. \A f \in Pointers(m) : m.edges[f].src \in DOMAIN h.inodes
  BY <1>10, <1>11 DEF BlocksExact
<1> QED BY <1>10, <1>11, <1>12, BlocksExactSame

\* The blocks stay, and no inode goes but a directory.
KeepsFiles(k, h) ==
  /\ SameBlocks(k, h)
  /\ \A i \in DOMAIN k.inodes \ DOMAIN h.inodes : IsDirInode(k, i)

LEMMA KeepsExact ==
  ASSUME BlocksExact(g), OnlyFilesHaveBlocks, NEW h, Sound(h), KeepsFiles(g, h)
  PROVE  BlocksExact(h)
<1>1. RootInode \in DOMAIN h.inodes
  BY SoundGraph DEF DirsPaired, IsDirInode
<1>2. \A e \in Pointers(g) : g.edges[e].src \in DOMAIN h.inodes
  BY <1>1 DEF BlocksExact, OnlyFilesHaveBlocks, KeepsFiles
<1> QED BY <1>2, BlocksExactSame DEF KeepsFiles

LEMMA RmdirKeepsFiles ==
  ASSUME NEW k, Sound(k), NEW d, NEW n, rmdir_ok(k, d, n), NEW h, h = rmdir(k, d, n)
  PROVE  KeepsFiles(k, h)
<1> DEFINE m == rmdir_nodes(k, d, n)
           q == update_quota(m, d, -1)
           i == resolve_name(k, d, n)
<1>1. h = record_prov(q, "Rmdir", i) /\ IsDirInode(k, i)
  BY DEF rmdir, rmdir_ok
<1>2. IsGraph(k)
  BY SoundGraph
<1>3. SameBlocks(k, m) /\ IsGraph(m) /\ Owners(k, m, {i})
  BY <1>2, RmdirNodesSteady, SteadyBeside, RmdirNodesOwners
<1> HIDE DEF m, i
<1>4. SameBlocks(m, q) /\ IsGraph(q) /\ q.inodes = m.inodes
  <2>1. IsGraph(q) /\ q.inodes = m.inodes
    BY <1>3, ChargeIs
  <2> QED BY <1>3, <2>1, QuotaWalkSteady, SteadyBeside
<1> HIDE DEF q
<1>5. SameBlocks(q, h) /\ h.inodes = q.inodes
  BY <1>1, <1>4, RecordSameBlocks, RecordKeeps DEF GraphFields
<1>6. SameBlocks(k, h)
  BY <1>3, <1>4, <1>5, SameBlocksTrans
<1> QED BY <1>1, <1>3, <1>4, <1>5, <1>6 DEF KeepsFiles, Owners

LEMMA LinkKeepsFiles ==
  ASSUME NEW k, Sound(k), NEW d, NEW n, NEW i, NEW h, h = link(k, d, n, i)
  PROVE  KeepsFiles(k, h)
<1> DEFINE m == link_nodes(k, d, n, i)
<1>1. h = record_prov(m, "Link", i)
  BY DEF link
<1>2. SameBlocks(k, m) /\ IsGraph(m) /\ Owners(k, m, {})
  BY SoundGraph, LinkNodesSteady, SteadyBeside, LinkNodesOwners
<1> HIDE DEF m
<1>3. SameBlocks(m, h) /\ h.inodes = m.inodes
  BY <1>1, <1>2, RecordSameBlocks, RecordKeeps DEF GraphFields
<1>4. SameBlocks(k, h)
  BY <1>2, <1>3, SameBlocksTrans
<1> QED BY <1>2, <1>3, <1>4 DEF KeepsFiles, Owners

LEMMA MakersKeepBlocks ==
  ASSUME NEW k, Sound(k), NEW d, NEW n, NEW mode, NEW u, NEW t,
         NEW h \in {create_file(k, d, n, mode, u), mkdir(k, d, n, mode, u),
                    symlink(k, d, n, t, u)}
  PROVE  SameBlocks(k, h)
<1>1. IsGraph(k)
  BY SoundGraph
<1>2. ASSUME NEW m, SameBlocks(k, m), IsGraph(m), NEW op, NEW i
      PROVE  SameBlocks(k, record_prov(update_quota(m, d, 1), op, i))
  <2> DEFINE q == update_quota(m, d, 1)
  <2>1. SameBlocks(m, q) /\ IsGraph(q)
    BY <1>2, QuotaWalkSteady, SteadyBeside, SteadyIsGraph
  <2> HIDE DEF q
  <2>2. SameBlocks(q, record_prov(q, op, i))
    BY <2>1, RecordSameBlocks
  <2>3. SameBlocks(k, record_prov(q, op, i))
    BY <1>2, <2>1, <2>2, SameBlocksTrans
  <2> QED BY <2>3 DEF q
<1>3. \A v : SameBlocks(k, create_node(k, d, n, v)) /\ IsGraph(create_node(k, d, n, v))
  BY <1>1, CreateNodeSteady, SteadyBeside, SteadyIsGraph
<1>4. SameBlocks(k, create_file(k, d, n, mode, u))
  BY <1>2, <1>3 DEF create_file
<1>5. SameBlocks(k, mkdir(k, d, n, mode, u))
  BY <1>1, <1>2, MkdirNodesSteady, SteadyBeside, SteadyIsGraph DEF mkdir
<1>6. SameBlocks(k, symlink(k, d, n, t, u))
  <2> DEFINE m1 == create_node(k, d, n, NewInode("Symlink", 1, SymlinkMode, u, u, Len(t)))
             m2 == [m1 EXCEPT !.symlink_targets = Put(@, k.next_inode, t)]
  <2>1. symlink(k, d, n, t, u) = record_prov(update_quota(m2, d, 1), "Symlink", k.next_inode)
    BY DEF symlink
  <2>2. SameBlocks(k, m1) /\ IsGraph(m1)
    BY <1>3
  <2> HIDE DEF m1
  <2>3. SameExcept(m1, m2, {"symlink_targets"}) /\ m2.edges = m1.edges
    BY <2>2 DEF SameExcept, IsGraph, GraphFields
  <2> HIDE DEF m2
  <2>4. Blocked \subseteq GraphFields \ {"symlink_targets"}
    BY DEF Blocked, GraphFields
  <2>5. SameBlocks(m1, m2) /\ IsGraph(m2)
    BY <2>3, <2>4, LeavesIf DEF SameBlocks, SameExcept
  <2>6. SameBlocks(k, m2)
    BY <2>2, <2>5, SameBlocksTrans
  <2> QED BY <1>2, <2>1, <2>5, <2>6
<1> QED BY <1>4, <1>5, <1>6

\* An unlink, of an entry that a rename replaces perhaps, and then no more.
Unlinks(k, h) ==
  \E d, n, r : /\ unlink_ok(k, d, n) /\ r = unlink(k, d, n)
               /\ SameBlocks(r, h) /\ DOMAIN h.inodes = DOMAIN r.inodes

LEMMA RenameBlocks ==
  ASSUME NEW k, Sound(k), NEW sd \in DOMAIN k.dirs, NEW src \in AllNames,
         NEW dd \in DOMAIN k.dirs, NEW dst \in AllNames,
         NEW h, h = rename(k, sd, src, dd, dst).graph
  PROVE  KeepsFiles(k, h) \/ Unlinks(k, h)
<1>1. SameBlocks(k, k)
  <2>1. IsGraph(k)
    BY SoundGraph
  <2> QED BY <2>1, SteadyRefl, SteadyBeside
<1>2. CASE h = k
  BY <1>1, <1>2 DEF KeepsFiles
<1>3. CASE h # k
  <2>1. PICK r : /\ r = k \/ r = replace_destination(k, dd, dst).graph
                 /\ h.inodes = r.inodes /\ SameBlocks(r, h)
    BY <1>3, RenameEnters
  <2>2. \/ r = k
        \/ unlink_ok(k, dd, dst) /\ r = unlink(k, dd, dst)
        \/ rmdir_ok(k, dd, dst) /\ r = rmdir(k, dd, dst)
    BY <2>1, ReplaceEnters
  <2>3. CASE r = k
    BY <2>1, <2>3 DEF KeepsFiles
  <2>4. CASE unlink_ok(k, dd, dst) /\ r = unlink(k, dd, dst)
    BY <2>1, <2>4 DEF Unlinks
  <2>5. CASE rmdir_ok(k, dd, dst) /\ r = rmdir(k, dd, dst)
    <3>1. KeepsFiles(k, r)
      BY <2>5, RmdirKeepsFiles
    <3> QED BY <2>1, <3>1, SameBlocksTrans DEF KeepsFiles
  <2> QED BY <2>2, <2>3, <2>4, <2>5
<1> QED BY <1>2, <1>3

\* The calls that neither make nor remove an inode.
LEMMA AttributeCallsKeepFiles ==
  ASSUME SoundState,
         \/ WriteData \/ Truncate \/ Chmod \/ Chown
         \/ Setxattr \/ Removexattr \/ Setacl \/ SetQuota \/ SetCapCtx
  PROVE  KeepsFiles(g, g')
<1>1. Sound(g) /\ IsGraph(g) /\ FieldsTyped(g)
  BY SoundGraph DEF SoundState
<1>2. ASSUME NEW h, NEW F, SameExcept(g, h, F), h.edges = g.edges, F \cap Blocked = {}
      PROVE  /\ SameBlocks(g, h)
             /\ \A op, i : SameBlocks(g, record_prov(h, op, i))
  <2>1. SameBlocks(g, h)
    <3>1. Blocked \subseteq GraphFields \ F
      BY <1>2 DEF Blocked, GraphFields
    <3> QED BY <1>2, <3>1, LeavesIf DEF SameBlocks
  <2>2. \A op, i : SameBlocks(h, record_prov(h, op, i))
    BY <1>2, RecordSameBlocks DEF SameExcept
  <2> QED BY <2>1, <2>2, SameBlocksTrans
<1>3. CASE WriteData \/ Truncate
  <2>1. PICK i, buf, op : g' = record_prov(SetBytes(g, i, buf), op, i)
    BY <1>3 DEF WriteData, Truncate, Step, write_data, truncate
  <2>2. /\ SameExcept(g, SetBytes(g, i, buf), {"file_data", "inodes"})
        /\ SetBytes(g, i, buf).edges = g.edges
    BY <1>1 DEF SetBytes, SameExcept, IsGraph, GraphFields
  <2>3. {"file_data", "inodes"} \cap Blocked = {}
    BY DEF Blocked
  <2>4. SameBlocks(g, g')
    BY <1>2, <2>1, <2>2, <2>3
  <2>5. DOMAIN g'.inodes = DOMAIN g.inodes
    <3>1. PICK j, b : HasBytes(g, g', j, b)
      BY <1>3, NextBytes DEF Rewrites
    <3> QED BY <3>1 DEF HasBytes
  <2> QED BY <2>4, <2>5 DEF KeepsFiles
<1>4. CASE Chmod \/ Chown
  <2>1. PICK h, op, i : (\E x : h = [g EXCEPT !.inodes = x]) /\ g' = record_prov(h, op, i)
    <3>1. \A i, m : \E x : [g EXCEPT !.inodes[i].mode = m] = [g EXCEPT !.inodes = x]
      OBVIOUS
    <3>2. CASE Chmod
      BY <3>1, <3>2 DEF Chmod, Step, chmod
    <3>3. CASE Chown
      <4>1. PICK i, u, v : g' = record_prov([g EXCEPT !.inodes[i].uid = u, !.inodes[i].gid = v],
                                            "Chown", i)
        BY <3>3 DEF Chown, Step, chown
      <4> DEFINE h == [g EXCEPT !.inodes[i].uid = u, !.inodes[i].gid = v]
      <4>2. IsGraph(h)
        BY <1>1 DEF IsGraph, GraphFields
      <4>3. h = [g EXCEPT !.inodes = h.inodes]
        BY <1>1 DEF IsGraph, GraphFields
      <4> HIDE DEF h
      <4> QED BY <4>1, <4>3 DEF h
    <3> QED BY <1>4, <3>2, <3>3
  <2>2. SameExcept(g, h, {"inodes"}) /\ h.edges = g.edges
    BY <1>1, <2>1 DEF SameExcept, IsGraph, GraphFields
  <2>3. {"inodes"} \cap Blocked = {}
    BY DEF Blocked
  <2>4. SameBlocks(g, g')
    BY <1>2, <2>1, <2>2, <2>3
  <2>5. DOMAIN g'.inodes = DOMAIN g.inodes
    BY <1>4, NextRelabels
  <2> QED BY <2>4, <2>5 DEF KeepsFiles
<1>5. CASE Setxattr \/ Removexattr \/ Setacl
  <2>1. \E i, key, v, acl : g' \in {setxattr(g, i, key, v), removexattr(g, i, key),
                                    setacl(g, i, acl)}
    BY <1>5 DEF Setxattr, Removexattr, Setacl, Step
  <2>2. g'.inodes = g.inodes
    BY <1>1, <2>1, CarriersOwn
  <2>3. /\ Blocked \subseteq Silent \ Attributes /\ Blocked \subseteq Silent \ Permissions
        /\ {"PointsTo"} \subseteq {"Grants", "PointsTo"}
        /\ {"PointsTo"} \subseteq {"HasXattr", "PointsTo"}
    BY DEF Silent, SteadyFields, Carried, Blocked, Attributes, Permissions
  <2>4. \/ Leaves(g, g', Silent \ Attributes, {"Grants", "PointsTo"})
        \/ Leaves(g, g', Silent \ Permissions, {"HasXattr", "PointsTo"})
    BY <1>1, <2>1, XattrCallsLeave, SetaclLeaves
  <2>5. SameBlocks(g, g')
    BY <2>3, <2>4, LeavesFewer DEF SameBlocks
  <2> QED BY <2>2, <2>5 DEF KeepsFiles
<1>6. CASE SetQuota \/ SetCapCtx
  <2>1. \E x : g' = [g EXCEPT !.quotas = x] \/ g' = [g EXCEPT !.cap_ctx = x]
    BY <1>6 DEF SetQuota, SetCapCtx, Step, set_quota
  <2>2. SameExcept(g, g', {"quotas", "cap_ctx"}) /\ g'.edges = g.edges /\ g'.inodes = g.inodes
    BY <1>1, <2>1 DEF SameExcept, IsGraph, GraphFields
  <2>3. {"quotas", "cap_ctx"} \cap Blocked = {}
    BY DEF Blocked
  <2>4. SameBlocks(g, g')
    BY <1>2, <2>2, <2>3
  <2> QED BY <2>2, <2>4 DEF KeepsFiles
<1> QED BY <1>3, <1>4, <1>5, <1>6

LEMMA NextBlocks ==
  ASSUME PoolsHaveRoom, SoundState, Next
  PROVE  WriteBlock \/ KeepsFiles(g, g') \/ Unlinks(g, g')
<1>1. Sound(g) /\ DirHandles = DOMAIN g.dirs
  BY DEF SoundState, PoolsHaveRoom, DirHandles
<1>2. CASE CreateFile \/ Symlink \/ Mkdir
  <2>1. \E d, n, m, u, t : g' \in {create_file(g, d, n, m, u), mkdir(g, d, n, m, u),
                                   symlink(g, d, n, t, u)}
    BY <1>2 DEF CreateFile, Symlink, Mkdir, Step
  <2>2. SameBlocks(g, g')
    BY <1>1, <2>1, MakersKeepBlocks
  <2>3. DOMAIN g.inodes \subseteq DOMAIN g'.inodes
    BY <1>2, NextMakes DEF Adds
  <2> QED BY <2>2, <2>3 DEF KeepsFiles
<1>3. CASE Rmdir
  BY <1>1, <1>3, RmdirKeepsFiles DEF Rmdir, Step
<1>4. CASE Link
  BY <1>1, <1>4, LinkKeepsFiles DEF Link, Step
<1>5. CASE Unlink
  <2>1. PICK d, n : unlink_ok(g, d, n) /\ g' = unlink(g, d, n)
    BY <1>5 DEF Unlink, Step
  <2>2. Sound(g')
    <3>1. SoundState'
      BY NextSound
    <3> QED BY <3>1 DEF SoundState
  <2>3. SameBlocks(g', g')
    <3>1. IsGraph(g')
      BY <2>2, SoundGraph
    <3> QED BY <3>1, SteadyRefl, SteadyBeside
  <2> QED BY <2>1, <2>3 DEF Unlinks
<1>6. CASE Rename
  BY <1>1, <1>6, RenameBlocks DEF Rename, Step
<1>7. CASE \/ WriteData \/ Truncate \/ Chmod \/ Chown
           \/ Setxattr \/ Removexattr \/ Setacl \/ SetQuota \/ SetCapCtx
  BY <1>7, AttributeCallsKeepFiles
<1> QED BY <1>2, <1>3, <1>4, <1>5, <1>6, <1>7 DEF Next

LEMMA NextBlocksExact ==
  ASSUME CapsHaveRoom, SoundState, OnlyFilesHaveBlocks, BlocksExact(g), Next
  PROVE  BlocksExact(g')
<1>1. PoolsHaveRoom /\ Sound(g) /\ Sound(g') /\ FieldsTyped(g)
  <2>1. PoolsHaveRoom
    BY DEF CapsHaveRoom
  <2>2. SoundState'
    BY <2>1, NextSound
  <2> QED BY <2>1, <2>2, SoundGraph DEF SoundState
<1>2. CASE KeepsFiles(g, g')
  BY <1>1, <1>2, KeepsExact
<1>3. CASE Unlinks(g, g')
  <2>1. PICK d, n, r : /\ unlink_ok(g, d, n) /\ r = unlink(g, d, n)
                       /\ SameBlocks(r, g') /\ DOMAIN g'.inodes = DOMAIN r.inodes
    BY <1>3 DEF Unlinks
  <2>2. BlocksExact(r)
    BY <1>1, <2>1, UnlinkExact
  <2>3. \A e \in Pointers(r) : r.edges[e].src \in DOMAIN g'.inodes
    BY <2>1, <2>2 DEF BlocksExact
  <2> QED BY <2>1, <2>2, <2>3, BlocksExactSame
<1>4. CASE WriteBlock
  <2>1. PICK i \in DOMAIN g.inodes : Within(g') /\ g' = write_block(g, i)
    BY <1>4 DEF WriteBlock, write_block_ok, Step
  <2>2. g'.next_block = g.next_block + 1 /\ g'.next_edge = g.next_edge + 1
    BY <1>1, <2>1 DEF write_block, insert_edge, IsGraph, GraphFields, FieldsTyped
  <2>3. /\ g'.next_inode \in Int /\ g'.next_edge \in Int
        /\ g.next_block \in Int /\ g.next_edge \in Int
    <3>1. FieldsTyped(g')
      BY <1>1, SoundGraph
    <3> QED BY <1>1, <3>1 DEF FieldsTyped, Ids
  <2>4. g'.next_edge <= EDGE_CAPACITY
    BY <1>1, <2>1, <2>3, RoomFor
  <2>5. g.next_block < NODE_CAPACITY /\ g.next_edge < EDGE_CAPACITY
    BY <2>1, <2>2, <2>3, <2>4, CapacityAssumption DEF CapsHaveRoom, Within
  <2> QED BY <1>1, <2>1, <2>5, WriteBlockExact
<1> QED BY <1>1, <1>2, <1>3, <1>4, NextBlocks

LEMMA ExactBlocksFollow ==
  ASSUME BlocksExact(g)
  PROVE  BlocksFollowTheirFile
<1>1. check_block_refcount(g)
  <2> SUFFICES ASSUME NEW b \in DOMAIN g.blocks
               PROVE  g.blocks[b] = Cardinality({e \in Pointers(g) : g.edges[e].tgt = b})
    BY DEF check_block_refcount, Pointers, EdgesOf
  <2>1. PICK e \in Pointers(g) : g.edges[e].tgt = b
    BY DEF BlocksExact
  <2>2. {f \in Pointers(g) : g.edges[f].tgt = b} = {e}
    BY <2>1 DEF BlocksExact
  <2> QED BY <2>2, FS_Singleton DEF BlocksExact
<1>2. \A e \in Pointers(g) : e \in SetAt(g.inode_points_to, g.edges[e].src)
  BY DEF BlocksExact, SetAt
<1> QED BY <1>1, <1>2 DEF BlocksFollowTheirFile, BlocksExact, Pointers

\* Whatever files are written, linked, renamed over and removed, as long as
\* only files get blocks: a block is freed when its file is, and not before;
\* its reference count is the number of PointsTo edges that lead to it, and
\* inode_points_to, from which unlink reads what to free, is those edges.
THEOREM BlocksGoWithTheirFile ==
  ASSUME CapsHaveRoom
  PROVE  Spec /\ []OnlyFilesHaveBlocks => []BlocksFollowTheirFile
<1>1. Init => BlocksExact(g)
  <2> SUFFICES ASSUME Init PROVE BlocksExact(g)
    OBVIOUS
  <2>1. g.blocks = Empty /\ g.inode_points_to = Empty /\ Pointers(g) = {}
    BY DEF Init, new_graph, Pointers, EdgesOf, ContainsEdge
  <2>2. DOMAIN Empty = {}
    BY DEF Empty
  <2> QED BY <2>1, <2>2 DEF BlocksExact
<1>2. SoundState /\ OnlyFilesHaveBlocks /\ BlocksExact(g) /\ [Next]_g => BlocksExact(g)'
  <2> SUFFICES ASSUME SoundState, OnlyFilesHaveBlocks, BlocksExact(g), [Next]_g
               PROVE  BlocksExact(g')
    OBVIOUS
  <2>1. CASE Next
    BY <2>1, NextBlocksExact
  <2>2. CASE UNCHANGED g
    BY <2>2
  <2> QED BY <2>1, <2>2
<1>3. BlocksExact(g) => BlocksFollowTheirFile
  BY ExactBlocksFollow
<1>4. PoolsHaveRoom
  BY DEF CapsHaveRoom
<1>5. Spec => []SoundState
  BY <1>4, SoundAlways
<1> QED BY <1>1, <1>2, <1>3, <1>5, PTL DEF Spec

\* No block appears but through write_block.
NoNewBlocks(k, h) ==
  /\ Pointers(h) \subseteq Pointers(k) /\ DOMAIN h.blocks \subseteq DOMAIN k.blocks
  /\ \A e \in Pointers(h) : h.edges[e] = k.edges[e]
  /\ \A i \in DOMAIN h.inode_points_to :
       /\ i \in DOMAIN k.inode_points_to
       /\ h.inode_points_to[i] = k.inode_points_to[i]

LEMMA SameNoNewBlocks ==
  ASSUME NEW k, NEW h, SameBlocks(k, h)
  PROVE  NoNewBlocks(k, h)
BY DEF SameBlocks, Leaves, Blocked, SameEdges, NoNewBlocks, Pointers

LEMMA CollectMakesNone ==
  ASSUME NEW m, IsGraph(m), NEW i, NEW h, h = collect_inode(m, i)
  PROVE  NoNewBlocks(m, h) /\ IsGraph(h)
<1> DEFINE P == {e \in SetAt(m.inode_points_to, i) \cap DOMAIN m.edges :
                   m.edges[e].kind = "PointsTo"}
           left(b) == m.blocks[b] - Cardinality({e \in P : m.edges[e].tgt = b})
           hit  == {m.edges[e].tgt : e \in P}
           B == [b \in {b \in DOMAIN m.blocks : b \in hit => left(b) > 0} |-> left(b)]
           n == remove_edge(m, P)
           r == release_blocks(m, i)
<1>1. IsGraph(n) /\ n.edges = Del(m.edges, P)
  BY DEF remove_edge, IsGraph, GraphFields
<1>2. r = [n EXCEPT !.inode_points_to = Del(@, {i}), !.blocks = B]
  BY DEF release_blocks
<1>3. DOMAIN B \subseteq DOMAIN m.blocks
  OBVIOUS
<1> HIDE DEF n, B, r, P
<1>4. /\ IsGraph(r) /\ r.edges = Del(m.edges, P) /\ r.blocks = B
      /\ r.inode_points_to = Del(m.inode_points_to, {i})
  BY <1>1, <1>2 DEF remove_edge, IsGraph, GraphFields, n
<1>5. /\ IsGraph(h) /\ h.edges = Del(m.edges, P) /\ h.blocks = B
      /\ h.inode_points_to = Del(m.inode_points_to, {i})
  BY <1>4 DEF collect_inode, remove_inode, IsGraph, GraphFields, r
<1> QED BY <1>3, <1>5 DEF NoNewBlocks, Pointers, EdgesOf, Del

LEMMA UnlinkMakesNone ==
  ASSUME NEW k, Sound(k), NEW d, NEW n, unlink_ok(k, d, n), NEW h, h = unlink(k, d, n)
  PROVE  NoNewBlocks(k, h)
<1> DEFINE e  == scan_name(k, d, n)
           i  == k.edges[e].tgt
           m1 == drop_contains(k, {e})
           m2 == [m1 EXCEPT !.inodes[i].link_count = @ - 1]
           m3 == collect_inode(m2, i)
           m4 == update_quota(m3, d, -1)
           m  == unlink_nodes(k, d, n)
<1>1. m = m2 \/ m = m4
  BY DEF unlink_nodes
<1>2. h = record_prov(m, "Unlink", i)
  BY DEF unlink
<1>3. IsGraph(k) /\ {e} \subseteq ContainsEdges(k)
  BY SoundGraph, ScanFinds DEF unlink_ok
<1>4. \E x : m2 = [m1 EXCEPT !.inodes = x]
  OBVIOUS
<1> HIDE DEF m, i, e
<1>5. SameBlocks(k, m1) /\ IsGraph(m1)
  BY <1>3, DropContainsSteady, SteadyBeside, SteadyIsGraph
<1> HIDE DEF m1
<1>6. SameBlocks(m1, m2) /\ IsGraph(m2)
  BY <1>4, <1>5, InodesSteady, SteadyBeside, SteadyIsGraph
<1> HIDE DEF m2
<1>7. NoNewBlocks(m2, m3) /\ IsGraph(m3)
  BY <1>6, CollectMakesNone
<1> HIDE DEF m3
<1>8. SameBlocks(m3, m4) /\ IsGraph(m4)
  BY <1>7, QuotaWalkSteady, SteadyBeside, SteadyIsGraph
<1> HIDE DEF m4
<1>9. SameBlocks(m, h)
  BY <1>1, <1>2, <1>6, <1>8, RecordSameBlocks
<1>10. /\ NoNewBlocks(k, m1) /\ NoNewBlocks(m1, m2) /\ NoNewBlocks(m3, m4)
       /\ NoNewBlocks(m, h)
  BY <1>5, <1>6, <1>8, <1>9, SameNoNewBlocks
<1> QED BY <1>1, <1>7, <1>10 DEF NoNewBlocks

LEMMA NextMakesNoBlocks ==
  ASSUME PoolsHaveRoom, SoundState, Next, ~WriteBlock
  PROVE  NoNewBlocks(g, g')
<1>1. CASE KeepsFiles(g, g')
  BY <1>1, SameNoNewBlocks DEF KeepsFiles
<1>2. CASE Unlinks(g, g')
  <2>1. PICK d, n : /\ unlink_ok(g, d, n)
                    /\ SameBlocks(unlink(g, d, n), g')
    BY <1>2 DEF Unlinks
  <2>2. NoNewBlocks(g, unlink(g, d, n)) /\ NoNewBlocks(unlink(g, d, n), g')
    BY <2>1, UnlinkMakesNone, SameNoNewBlocks DEF SoundState
  <2> QED BY <2>2 DEF NoNewBlocks
<1> QED BY <1>1, <1>2, NextBlocks
=============================================================================
