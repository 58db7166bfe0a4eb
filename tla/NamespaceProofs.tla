-------------------------- MODULE NamespaceProofs --------------------------
(***************************************************************************)
(* Proofs about Sotfs for every value of its constants.                    *)
(*                                                                         *)
(* First the type invariant, and that an id is never handed out twice.     *)
(*                                                                         *)
(* Then that the namespace is well formed after any number of calls:       *)
(* exact indexes, paired directories, dot edges, names, link counts, no    *)
(* directory below itself.  The indexes are followed through the helpers,  *)
(* also where an operation has only half done its work; the rest is proved *)
(* of each operation as a whole.  The theorems are at the end: the graph   *)
(* is well formed in every reachable state, a rename that fails leaves no  *)
(* trace, and every object can be reached from the root.                   *)
(***************************************************************************)
EXTENDS Sotfs, FiniteSetTheorems, TLAPS

\* h is a graph that differs from k at most in the fields S.
SameExcept(k, h, S) == IsGraph(h) /\ \A f \in GraphFields \ S : h[f] = k[f]

SameIds(k, h) ==
  /\ h.next_inode = k.next_inode /\ h.next_dir = k.next_dir
  /\ h.next_cap = k.next_cap /\ h.next_block = k.next_block
  /\ h.next_edge = k.next_edge /\ h.next_xattr = k.next_xattr

\* A helper's step from k to h: the types are kept, no id is issued, and the
\* inodes I, the directories D and the edges E are all that may be new.
Keeps(k, h, I, D, E) ==
  /\ FieldsTyped(h)
  /\ SameIds(k, h)
  /\ DOMAIN h.inodes \subseteq DOMAIN k.inodes \cup I
  /\ DOMAIN h.dirs \subseteq DOMAIN k.dirs \cup D
  /\ DOMAIN h.edges \subseteq DOMAIN k.edges \cup E

\* An operation's step from k to h: what is new has an id issued by the step.
Issues(k, h) ==
  /\ FieldsTyped(h)
  /\ h.next_inode >= k.next_inode
  /\ h.next_dir >= k.next_dir
  /\ h.next_edge >= k.next_edge
  /\ DOMAIN h.inodes \subseteq DOMAIN k.inodes \cup (k.next_inode .. h.next_inode - 1)
  /\ DOMAIN h.dirs \subseteq DOMAIN k.dirs \cup (k.next_dir .. h.next_dir - 1)
  /\ DOMAIN h.edges \subseteq DOMAIN k.edges \cup (k.next_edge .. h.next_edge - 1)

-----------------------------------------------------------------------------
(***************************************************************************)
(* Facts about numbers and ids.                                            *)
(***************************************************************************)

\* A set of ids that is not empty has a first one.
LEMMA LeastElement ==
  ASSUME NEW S \in SUBSET Nat, S # {}
  PROVE  \E x \in S : \A y \in S : x <= y
<1>1. PICK z \in S : TRUE
  OBVIOUS
<1> DEFINE F == 0 .. z
           R == StrictSubsetOrdering(F)
           T == {0 .. x - 1 : x \in S \cap F}
<1>2. IsFiniteSet(F)
  BY FS_Interval
<1>3. FiniteSubsetsOf(F) = SUBSET F
  BY <1>2, FS_FiniteSubsetsOfFinite
<1>4. IsWellFoundedOn(R, SUBSET F)
  BY <1>3, FS_StrictSubsetOrderingWellFounded
<1>5. T \subseteq SUBSET F /\ T # {}
  <2>1. z \in S \cap F
    BY <1>1
  <2>2. \A x \in S \cap F : 0 .. x - 1 \subseteq F
    OBVIOUS
  <2> QED BY <2>1, <2>2
<1>6. \E X \in T : \A Y \in T : ~(<<Y, X>> \in R)
  <2> HIDE DEF R, T, F
  <2> QED BY <1>4, <1>5, WFMin
<1>7. PICK x \in S \cap F : \A y \in S \cap F : ~(<<0 .. y - 1, 0 .. x - 1>> \in R)
  BY <1>6
<1>8. ASSUME NEW y \in S, y < x PROVE FALSE
  <2>1. y \in S \cap F /\ x \in Nat /\ y \in Nat
    BY <1>8
  <2>2. 0 .. y - 1 \subseteq 0 .. x - 1 /\ 0 .. x - 1 \subseteq F
    BY <1>8, <2>1
  <2>3. y \in 0 .. x - 1 /\ y \notin 0 .. y - 1
    BY <1>8, <2>1
  <2> DEFINE Y == 0 .. y - 1
             X == 0 .. x - 1
  <2>4. <<Y, X>> \in R
    <3>1. Y # X
      BY <2>3
    <3> HIDE DEF X, Y, F
    <3>2. Y \in SUBSET F /\ X \in SUBSET F /\ Y \subseteq X /\ Y # X
      BY <2>2, <3>1 DEF X, Y
    <3> QED BY <3>2 DEF StrictSubsetOrdering
  <2> QED BY <1>7, <2>1, <2>4
<1> QED BY <1>7, <1>8

LEMMA FirstIn ==
  ASSUME NEW S \in SUBSET Nat, S # {}
  PROVE  First(S) \in S
BY LeastElement DEF First

LEMMA EdgeIdsAreNat ==
  ASSUME NEW k, IdsIssued(k), FieldsTyped(k)
  PROVE  DOMAIN k.edges \subseteq Nat /\ DOMAIN k.dirs \subseteq Nat
BY DEF IdsIssued, FieldsTyped, Ids

\* Lookups return ids.
LEMMA LookupsReturnIds ==
  ASSUME NEW k, FieldsTyped(k), NEW d, NEW n
  PROVE  /\ resolve_name(k, d, n) \in Nat
         /\ \A i : dir_for_inode(k, i) \in Nat
         /\ ContainsEdges(k) \subseteq DOMAIN k.edges
<1>1. \A e \in DOMAIN k.edges : k.edges[e].tgt \in Nat
  BY DEF FieldsTyped, Edge
<1> QED BY <1>1 DEF resolve_name, dir_for_inode, ContainsEdges, FieldsTyped, None

-----------------------------------------------------------------------------
(***************************************************************************)
(* The helpers of TypeGraph.                                               *)
(***************************************************************************)
LEMMA KeepsTrans ==
  ASSUME NEW k, NEW m, NEW h, NEW I1, NEW D1, NEW E1, NEW I2, NEW D2, NEW E2,
         Keeps(k, m, I1, D1, E1), Keeps(m, h, I2, D2, E2)
  PROVE  Keeps(k, h, I1 \cup I2, D1 \cup D2, E1 \cup E2)
BY DEF Keeps, SameIds

LEMMA KeepsTyped ==
  ASSUME NEW k, NEW h, NEW I, NEW D, NEW E, Keeps(k, h, I, D, E)
  PROVE  FieldsTyped(h)
BY DEF Keeps

LEMMA IssuesTrans ==
  ASSUME NEW k, NEW m, NEW h, FieldsTyped(k), Issues(k, m), Issues(m, h)
  PROVE  Issues(k, h)
<1>1. /\ {k.next_inode, k.next_dir, k.next_edge} \subseteq Int
      /\ {m.next_inode, m.next_dir, m.next_edge} \subseteq Int
      /\ {h.next_inode, h.next_dir, h.next_edge} \subseteq Int
  BY SMTT(30) DEF FieldsTyped, Issues, Ids
<1>2. /\ h.next_inode >= k.next_inode
      /\ h.next_dir >= k.next_dir
      /\ h.next_edge >= k.next_edge
  BY <1>1 DEF Issues
<1>3. /\ k.next_inode .. m.next_inode - 1 \subseteq k.next_inode .. h.next_inode - 1
      /\ m.next_inode .. h.next_inode - 1 \subseteq k.next_inode .. h.next_inode - 1
      /\ k.next_dir .. m.next_dir - 1 \subseteq k.next_dir .. h.next_dir - 1
      /\ m.next_dir .. h.next_dir - 1 \subseteq k.next_dir .. h.next_dir - 1
      /\ k.next_edge .. m.next_edge - 1 \subseteq k.next_edge .. h.next_edge - 1
      /\ m.next_edge .. h.next_edge - 1 \subseteq k.next_edge .. h.next_edge - 1
  BY <1>1 DEF Issues
<1>4. DOMAIN h.inodes \subseteq DOMAIN k.inodes \cup (k.next_inode .. h.next_inode - 1)
  BY <1>3 DEF Issues
<1>5. DOMAIN h.dirs \subseteq DOMAIN k.dirs \cup (k.next_dir .. h.next_dir - 1)
  BY <1>3 DEF Issues
<1>6. DOMAIN h.edges \subseteq DOMAIN k.edges \cup (k.next_edge .. h.next_edge - 1)
  BY <1>3 DEF Issues
<1> QED BY <1>2, <1>4, <1>5, <1>6 DEF Issues

\* The fields whose change cannot disturb a type.
Untyped == {"caps", "blocks", "inode_points_to", "cap_grants", "xattrs",
            "inode_xattrs", "symlink_targets", "dir_name_idx", "acls", "quotas",
            "prov_log", "cap_ctx"}

LEMMA UntypedKeeps ==
  ASSUME NEW k, FieldsTyped(k), NEW h, SameExcept(k, h, Untyped)
  PROVE  Keeps(k, h, {}, {}, {})
<1>1. /\ SameIds(k, h)
      /\ h.inodes = k.inodes /\ h.dirs = k.dirs /\ h.edges = k.edges
      /\ h.dir_contains = k.dir_contains
      /\ h.inode_incoming_contains = k.inode_incoming_contains
      /\ h.file_data = k.file_data /\ h.dir_for_inode_idx = k.dir_for_inode_idx
  BY DEF SameExcept, SameIds, GraphFields, Untyped
<1>2. IsGraph(h) /\ Ids(h) = Ids(k)
  BY <1>1 DEF SameExcept, SameIds, Ids
<1> QED BY <1>1, <1>2 DEF Keeps, FieldsTyped

LEMMA RecordProvKeeps ==
  ASSUME NEW k, FieldsTyped(k), NEW op, NEW i
  PROVE  Keeps(k, record_prov(k, op, i), {}, {}, {})
<1>1. SameExcept(k, record_prov(k, op, i), Untyped)
  BY DEF record_prov, SameExcept, FieldsTyped, IsGraph, GraphFields, Untyped
<1> QED BY <1>1, UntypedKeeps

LEMMA UpdateQuotaKeeps ==
  ASSUME NEW k, FieldsTyped(k), NEW d, NEW delta
  PROVE  Keeps(k, update_quota(k, d, delta), {}, {}, {})
<1>1. SameExcept(k, update_quota(k, d, delta), Untyped)
  BY DEF update_quota, SameExcept, FieldsTyped, IsGraph, GraphFields, Untyped
<1> QED BY <1>1, UntypedKeeps

\* A function on ids grows by one value or loses some.
LEMMA InsertAtTyped ==
  ASSUME NEW T, NEW f, f \in [DOMAIN f -> T], NEW id, NEW v \in T, NEW capacity
  PROVE  /\ insert_at(f, id, v, capacity) \in
              [DOMAIN insert_at(f, id, v, capacity) -> T]
         /\ DOMAIN insert_at(f, id, v, capacity) \subseteq DOMAIN f \cup {id}
BY DEF insert_at, Put

LEMMA InsertInodeKeeps ==
  ASSUME NEW k, FieldsTyped(k), NEW i, NEW inode \in Inode
  PROVE  Keeps(k, insert_inode(k, i, inode), {i}, {}, {})
<1> DEFINE P == insert_at(k.inodes, i, inode, NODE_CAPACITY)
           h == insert_inode(k, i, inode)
<1>1. P \in [DOMAIN P -> Inode] /\ DOMAIN P \subseteq DOMAIN k.inodes \cup {i}
  BY InsertAtTyped DEF FieldsTyped
<1>2. h = [k EXCEPT !.inodes = P]
  BY DEF insert_inode
<1> HIDE DEF P, h
<1>3. SameExcept(k, h, {"inodes"}) /\ h.inodes = P
  BY <1>2 DEF SameExcept, FieldsTyped, IsGraph, GraphFields
<1> QED BY <1>1, <1>3 DEF h, SameExcept, GraphFields, Keeps, SameIds, Ids, FieldsTyped

LEMMA InsertDirKeeps ==
  ASSUME NEW k, FieldsTyped(k), NEW d \in Nat, NEW i \in Nat
  PROVE  Keeps(k, insert_dir(k, d, i), {}, {d}, {})
<1> DEFINE P == insert_at(k.dirs, d, i, NODE_CAPACITY)
           Q == Put(k.dir_for_inode_idx, i, d)
           h == insert_dir(k, d, i)
<1>1. P \in [DOMAIN P -> Nat] /\ DOMAIN P \subseteq DOMAIN k.dirs \cup {d}
  BY InsertAtTyped DEF FieldsTyped
<1>2. Q \in [DOMAIN Q -> Nat]
  BY DEF FieldsTyped, Put
<1>3. h = [k EXCEPT !.dirs = P, !.dir_for_inode_idx = Q]
  BY DEF insert_dir
<1> HIDE DEF P, Q, h
<1>4. /\ SameExcept(k, h, {"dirs", "dir_for_inode_idx"})
      /\ h.dirs = P /\ h.dir_for_inode_idx = Q
  BY <1>3 DEF SameExcept, FieldsTyped, IsGraph, GraphFields
<1> QED BY <1>1, <1>2, <1>4
           DEF h, SameExcept, GraphFields, Keeps, SameIds, Ids, FieldsTyped

LEMMA RemoveInodeKeeps ==
  ASSUME NEW k, FieldsTyped(k), NEW i
  PROVE  Keeps(k, remove_inode(k, i), {}, {}, {})
<1> DEFINE P == Del(k.inodes, {i})
           h == remove_inode(k, i)
<1>1. P \in [DOMAIN P -> Inode] /\ DOMAIN P \subseteq DOMAIN k.inodes
  BY DEF FieldsTyped, Del
<1>2. h = [k EXCEPT !.inodes = P]
  BY DEF remove_inode
<1> HIDE DEF P, h
<1>3. SameExcept(k, h, {"inodes"}) /\ h.inodes = P
  BY <1>2 DEF SameExcept, FieldsTyped, IsGraph, GraphFields
<1> QED BY <1>1, <1>3 DEF h, SameExcept, GraphFields, Keeps, SameIds, Ids, FieldsTyped

LEMMA RemoveDirKeeps ==
  ASSUME NEW k, FieldsTyped(k), NEW d
  PROVE  Keeps(k, remove_dir(k, d), {}, {}, {})
<1> DEFINE P == Del(k.dirs, {d})
           Q == Del(k.dir_for_inode_idx, {k.dirs[d]})
           h == remove_dir(k, d)
<1>1. P \in [DOMAIN P -> Nat] /\ DOMAIN P \subseteq DOMAIN k.dirs
  BY DEF FieldsTyped, Del
<1>2. Q \in [DOMAIN Q -> Nat]
  BY DEF FieldsTyped, Del
<1>3. CASE d \notin DOMAIN k.dirs
  BY <1>3, UntypedKeeps DEF remove_dir, SameExcept, FieldsTyped
<1>4. CASE d \in DOMAIN k.dirs
  <2>1. h = [k EXCEPT !.dirs = P, !.dir_for_inode_idx = Q]
    BY <1>4 DEF remove_dir
  <2> HIDE DEF P, Q, h
  <2>2. /\ SameExcept(k, h, {"dirs", "dir_for_inode_idx"})
        /\ h.dirs = P /\ h.dir_for_inode_idx = Q
    BY <2>1 DEF SameExcept, FieldsTyped, IsGraph, GraphFields
  <2> QED BY <1>1, <1>2, <2>2
             DEF h, SameExcept, GraphFields, Keeps, SameIds, Ids, FieldsTyped
<1> QED BY <1>3, <1>4

LEMMA InsertEdgeKeeps ==
  ASSUME NEW k, FieldsTyped(k), NEW e, NEW edge \in Edge
  PROVE  Keeps(k, insert_edge(k, e, edge), {}, {}, {e})
<1> DEFINE P == insert_at(k.edges, e, edge, EDGE_CAPACITY)
           h == insert_edge(k, e, edge)
<1>1. P \in [DOMAIN P -> Edge] /\ DOMAIN P \subseteq DOMAIN k.edges \cup {e}
  BY InsertAtTyped DEF FieldsTyped
<1>2. \E x : h = [k EXCEPT !.edges = P, !.dir_name_idx = x]
  BY DEF insert_edge
<1> HIDE DEF P, h
<1>3. SameExcept(k, h, {"edges", "dir_name_idx"}) /\ h.edges = P
  BY <1>2 DEF SameExcept, FieldsTyped, IsGraph, GraphFields
<1> QED BY <1>1, <1>3 DEF h, SameExcept, GraphFields, Keeps, SameIds, Ids, FieldsTyped

\* An index from ids to sets of ids.
LEMMA IndexAddTyped ==
  ASSUME NEW f, f \in [DOMAIN f -> SUBSET Nat], NEW x, NEW e \in Nat
  PROVE  IndexAdd(f, x, e) \in [DOMAIN IndexAdd(f, x, e) -> SUBSET Nat]
BY DEF IndexAdd, Put, SetAt

\* Both entry indexes are replaced.
LEMMA IndexesKeep ==
  ASSUME NEW k, FieldsTyped(k), NEW D, NEW I,
         D \in [DOMAIN D -> SUBSET Nat], I \in [DOMAIN I -> SUBSET Nat],
         NEW h,
         h = [k EXCEPT !.dir_contains = D, !.inode_incoming_contains = I]
  PROVE  Keeps(k, h, {}, {}, {})
<1>1. /\ SameExcept(k, h, {"dir_contains", "inode_incoming_contains"})
      /\ h.dir_contains = D /\ h.inode_incoming_contains = I
  BY DEF SameExcept, FieldsTyped, IsGraph, GraphFields
<1> QED BY <1>1 DEF SameExcept, GraphFields, Keeps, SameIds, Ids, FieldsTyped

LEMMA AddContainsKeeps ==
  ASSUME NEW k, FieldsTyped(k), NEW e \in Nat, NEW d \in Nat, NEW i \in Nat,
         NEW n \in AllNames
  PROVE  Keeps(k, add_contains(k, e, d, i, n), {}, {}, {e})
<1> DEFINE m == insert_edge(k, e, ContainsEdge(d, i, n))
           D == IndexAdd(m.dir_contains, d, e)
           I == IndexAdd(m.inode_incoming_contains, i, e)
           h == add_contains(k, e, d, i, n)
<1>1. ContainsEdge(d, i, n) \in Edge
  BY DEF ContainsEdge, Edge, EdgeKinds
<1>2. Keeps(k, m, {}, {}, {e})
  BY <1>1, InsertEdgeKeeps
<1>3. FieldsTyped(m)
  BY <1>2 DEF Keeps
<1> HIDE DEF m
<1>4. D \in [DOMAIN D -> SUBSET Nat] /\ I \in [DOMAIN I -> SUBSET Nat]
  BY <1>3, IndexAddTyped DEF FieldsTyped
<1>5. h = [m EXCEPT !.dir_contains = D, !.inode_incoming_contains = I]
  BY DEF add_contains, m
<1> HIDE DEF D, I, h
<1>6. Keeps(m, h, {}, {}, {})
  BY <1>3, <1>4, <1>5, IndexesKeep
<1>7. Keeps(k, h, {} \cup {}, {} \cup {}, {e} \cup {})
  BY <1>2, <1>6, KeepsTrans
<1> QED BY <1>7 DEF h

LEMMA RemoveEdgeKeeps ==
  ASSUME NEW k, FieldsTyped(k), NEW S
  PROVE  Keeps(k, remove_edge(k, S), {}, {}, {})
<1> DEFINE P == Del(k.edges, S)
           h == remove_edge(k, S)
<1>1. P \in [DOMAIN P -> Edge] /\ DOMAIN P \subseteq DOMAIN k.edges
  BY DEF FieldsTyped, Del
<1>2. \E x : h = [k EXCEPT !.edges = P, !.dir_name_idx = x]
  BY DEF remove_edge
<1> HIDE DEF P, h
<1>3. SameExcept(k, h, {"edges", "dir_name_idx"}) /\ h.edges = P
  BY <1>2 DEF SameExcept, FieldsTyped, IsGraph, GraphFields
<1> QED BY <1>1, <1>3 DEF h, SameExcept, GraphFields, Keeps, SameIds, Ids, FieldsTyped

LEMMA DropContainsKeeps ==
  ASSUME NEW k, FieldsTyped(k), NEW S
  PROVE  Keeps(k, drop_contains(k, S), {}, {}, {})
<1> DEFINE m == remove_edge(k, S)
           D == [d \in DOMAIN m.dir_contains |->
                   m.dir_contains[d] \ {e \in S : k.edges[e].src = d}]
           I == [i \in DOMAIN m.inode_incoming_contains |->
                   m.inode_incoming_contains[i] \ {e \in S : k.edges[e].tgt = i}]
           h == drop_contains(k, S)
<1>1. Keeps(k, m, {}, {}, {})
  BY RemoveEdgeKeeps
<1>2. FieldsTyped(m)
  BY <1>1 DEF Keeps
<1>3. h = [m EXCEPT !.dir_contains = D, !.inode_incoming_contains = I]
  BY DEF drop_contains
<1> HIDE DEF m
<1>4. D \in [DOMAIN D -> SUBSET Nat] /\ I \in [DOMAIN I -> SUBSET Nat]
  BY <1>2 DEF FieldsTyped
<1> HIDE DEF D, I, h
<1>5. Keeps(m, h, {}, {}, {})
  BY <1>2, <1>3, <1>4, IndexesKeep
<1> QED BY <1>1, <1>5, KeepsTrans DEF h

LEMMA RenameContainsEdgeKeeps ==
  ASSUME NEW k, FieldsTyped(k), NEW e \in DOMAIN k.edges, NEW n \in AllNames
  PROVE  Keeps(k, rename_contains_edge(k, e, n), {}, {}, {})
<1> DEFINE P == [k.edges EXCEPT ![e].name = n]
           h == rename_contains_edge(k, e, n)
<1>1. CASE k.edges[e].name = n
  <2>1. h = k
    BY <1>1 DEF rename_contains_edge
  <2> QED BY <2>1, UntypedKeeps DEF SameExcept, FieldsTyped
<1>2. CASE k.edges[e].name # n
  <2>1. k.edges[e] \in Edge
    BY DEF FieldsTyped
  <2>2. [k.edges[e] EXCEPT !.name = n] \in Edge
    BY <2>1 DEF Edge
  <2>3. P \in [DOMAIN P -> Edge] /\ DOMAIN P = DOMAIN k.edges
    BY <2>2 DEF FieldsTyped
  <2>4. \E x : h = [k EXCEPT !.edges = P, !.dir_name_idx = x]
    BY <1>2 DEF rename_contains_edge, FieldsTyped, IsGraph, GraphFields
  <2> HIDE DEF P, h
  <2>5. SameExcept(k, h, {"edges", "dir_name_idx"}) /\ h.edges = P
    BY <2>4 DEF SameExcept, FieldsTyped, IsGraph, GraphFields
  <2> QED BY <2>3, <2>5
             DEF h, SameExcept, GraphFields, Keeps, SameIds, Ids, FieldsTyped
<1> QED BY <1>1, <1>2

\* The inode pool is replaced.
LEMMA InodesKeep ==
  ASSUME NEW k, FieldsTyped(k), NEW P, P \in [DOMAIN P -> Inode],
         DOMAIN P \subseteq DOMAIN k.inodes, NEW h, h = [k EXCEPT !.inodes = P]
  PROVE  Keeps(k, h, {}, {}, {})
<1>1. SameExcept(k, h, {"inodes"}) /\ h.inodes = P
  BY DEF SameExcept, FieldsTyped, IsGraph, GraphFields
<1> QED BY <1>1 DEF SameExcept, GraphFields, Keeps, SameIds, Ids, FieldsTyped

-----------------------------------------------------------------------------
(***************************************************************************)
(* From helpers to operations.  An operation first advances the counters   *)
(* from k to m, then uses the ids it took.                                 *)
(***************************************************************************)
Counters == {"next_inode", "next_dir", "next_cap", "next_block", "next_edge",
             "next_xattr"}

Advances(k, m) ==
  /\ SameExcept(k, m, Untyped \cup Counters)
  /\ Ids(m) \subseteq Nat \ {0}
  /\ m.next_inode >= k.next_inode
  /\ m.next_dir >= k.next_dir
  /\ m.next_edge >= k.next_edge

\* Each counter advances by a number of ids taken.
LEMMA AdvancesBy ==
  ASSUME NEW k, FieldsTyped(k), NEW m, SameExcept(k, m, Untyped \cup Counters),
         NEW ni \in Nat, NEW nd \in Nat, NEW nc \in Nat, NEW nb \in Nat,
         NEW ne \in Nat, NEW nx \in Nat,
         m.next_inode = k.next_inode + ni, m.next_dir = k.next_dir + nd,
         m.next_cap = k.next_cap + nc, m.next_block = k.next_block + nb,
         m.next_edge = k.next_edge + ne, m.next_xattr = k.next_xattr + nx
  PROVE  Advances(k, m)
<1>1. /\ k.next_inode \in Nat \ {0} /\ k.next_dir \in Nat \ {0}
      /\ k.next_cap \in Nat \ {0} /\ k.next_block \in Nat \ {0}
      /\ k.next_edge \in Nat \ {0} /\ k.next_xattr \in Nat \ {0}
  BY DEF FieldsTyped, Ids
<1>2. /\ m.next_inode \in Nat \ {0} /\ m.next_dir \in Nat \ {0}
      /\ m.next_cap \in Nat \ {0} /\ m.next_block \in Nat \ {0}
      /\ m.next_edge \in Nat \ {0} /\ m.next_xattr \in Nat \ {0}
  BY <1>1
<1>3. /\ m.next_inode >= k.next_inode /\ m.next_dir >= k.next_dir
      /\ m.next_edge >= k.next_edge
  BY <1>1
<1>4. Ids(m) \subseteq Nat \ {0}
  BY <1>2 DEF Ids
<1> QED BY <1>3, <1>4 DEF Advances

LEMMA AdvancesTyped ==
  ASSUME NEW k, FieldsTyped(k), NEW m, Advances(k, m)
  PROVE  /\ FieldsTyped(m)
         /\ m.inodes = k.inodes /\ m.dirs = k.dirs /\ m.edges = k.edges
<1>1. /\ m.inodes = k.inodes /\ m.dirs = k.dirs /\ m.edges = k.edges
      /\ m.dir_contains = k.dir_contains
      /\ m.inode_incoming_contains = k.inode_incoming_contains
      /\ m.file_data = k.file_data /\ m.dir_for_inode_idx = k.dir_for_inode_idx
  BY DEF Advances, SameExcept, GraphFields, Untyped, Counters
<1>2. IsGraph(m) /\ Ids(m) \subseteq Nat \ {0}
  BY DEF Advances, SameExcept
<1> QED BY <1>1, <1>2 DEF FieldsTyped

LEMMA IssuesWhatItTook ==
  ASSUME NEW k, FieldsTyped(k), NEW m, Advances(k, m),
         NEW I, NEW D, NEW E, NEW h, Keeps(m, h, I, D, E),
         I \subseteq k.next_inode .. m.next_inode - 1,
         D \subseteq k.next_dir .. m.next_dir - 1,
         E \subseteq k.next_edge .. m.next_edge - 1
  PROVE  Issues(k, h)
<1>1. m.inodes = k.inodes /\ m.dirs = k.dirs /\ m.edges = k.edges
  BY AdvancesTyped
<1>2. /\ h.next_inode = m.next_inode /\ h.next_dir = m.next_dir
      /\ h.next_edge = m.next_edge /\ FieldsTyped(h)
  BY DEF Keeps, SameIds
<1>3. DOMAIN h.inodes \subseteq DOMAIN k.inodes \cup (k.next_inode .. h.next_inode - 1)
  BY <1>1, <1>2 DEF Keeps
<1>4. DOMAIN h.dirs \subseteq DOMAIN k.dirs \cup (k.next_dir .. h.next_dir - 1)
  BY <1>1, <1>2 DEF Keeps
<1>5. DOMAIN h.edges \subseteq DOMAIN k.edges \cup (k.next_edge .. h.next_edge - 1)
  BY <1>1, <1>2 DEF Keeps
<1> QED BY <1>2, <1>3, <1>4, <1>5 DEF Advances, Issues

LEMMA IssuesNothing ==
  ASSUME NEW k, FieldsTyped(k), NEW h, Keeps(k, h, {}, {}, {})
  PROVE  Issues(k, h)
<1>1. Advances(k, k)
  BY DEF Advances, SameExcept, FieldsTyped, Ids
<1> QED BY <1>1, IssuesWhatItTook

LEMMA IssuesThenKeeps ==
  ASSUME NEW k, NEW m, NEW h, Issues(k, m), Keeps(m, h, {}, {}, {})
  PROVE  Issues(k, h)
BY DEF Issues, Keeps, SameIds

\* The provenance entry and the quota walk at the end of an operation.
LEMMA Finish ==
  ASSUME NEW k, NEW m, Issues(k, m), NEW d, NEW delta, NEW op, NEW i
  PROVE  /\ Issues(k, record_prov(m, op, i))
         /\ Issues(k, update_quota(m, d, delta))
         /\ Issues(k, record_prov(update_quota(m, d, delta), op, i))
<1>1. FieldsTyped(m)
  BY DEF Issues
<1>2. Issues(k, record_prov(m, op, i))
  BY <1>1, RecordProvKeeps, IssuesThenKeeps
<1>3. Issues(k, update_quota(m, d, delta))
  BY <1>1, UpdateQuotaKeeps, IssuesThenKeeps
<1>4. FieldsTyped(update_quota(m, d, delta))
  BY <1>3 DEF Issues
<1>5. Issues(k, record_prov(update_quota(m, d, delta), op, i))
  BY <1>3, <1>4, RecordProvKeeps, IssuesThenKeeps
<1> QED BY <1>2, <1>3, <1>5

-----------------------------------------------------------------------------
(***************************************************************************)
(* CREATE, SYMLINK, MKDIR.                                                 *)
(***************************************************************************)
LEMMA CreateNodeIssues ==
  ASSUME NEW k, FieldsTyped(k), NEW d \in Nat, NEW n \in AllNames,
         NEW inode \in Inode
  PROVE  Issues(k, create_node(k, d, n, inode))
<1> DEFINE i == k.next_inode
           e == k.next_edge
           m == [k EXCEPT !.next_inode = i + 1, !.next_edge = e + 1]
           m1 == insert_inode(m, i, inode)
           h == add_contains(m1, e, d, i, n)
<1>1. i \in Nat \ {0} /\ e \in Nat \ {0}
  BY DEF FieldsTyped, Ids
<1>2. /\ Advances(k, m)
      /\ m.next_inode = i + 1 /\ m.next_edge = e + 1 /\ m.next_dir = k.next_dir
  <2>1. /\ SameExcept(k, m, Untyped \cup Counters)
        /\ m.next_inode = i + 1 /\ m.next_edge = e + 1 /\ m.next_dir = k.next_dir
        /\ m.next_cap = k.next_cap /\ m.next_block = k.next_block
        /\ m.next_xattr = k.next_xattr
    BY DEF SameExcept, FieldsTyped, IsGraph, GraphFields, Counters
  <2>2. /\ k.next_dir = k.next_dir + 0 /\ k.next_cap = k.next_cap + 0
        /\ k.next_block = k.next_block + 0 /\ k.next_xattr = k.next_xattr + 0
    BY DEF FieldsTyped, Ids
  <2> HIDE DEF m
  <2> QED BY <2>1, <2>2, AdvancesBy
<1> HIDE DEF m
<1>3. FieldsTyped(m)
  BY <1>2, AdvancesTyped
<1>4. Keeps(m, m1, {i}, {}, {})
  BY <1>3, InsertInodeKeeps
<1>5. FieldsTyped(m1)
  BY <1>4 DEF Keeps
<1> HIDE DEF m1
<1>6. Keeps(m1, h, {}, {}, {e})
  BY <1>1, <1>5, AddContainsKeeps
<1> HIDE DEF h
<1>7. Keeps(m, h, {i} \cup {}, {} \cup {}, {} \cup {e})
  BY <1>4, <1>6, KeepsTrans
<1>8. Issues(k, h)
  BY <1>1, <1>2, <1>7, IssuesWhatItTook
<1> QED BY <1>8 DEF create_node, h, m1, m

LEMMA NewInodeTyped ==
  ASSUME NEW vtype \in VnodeTypes, NEW links \in Int, NEW mode \in Modes,
         NEW u \in Users, NEW size \in Nat
  PROVE  NewInode(vtype, links, mode, u, u, size) \in Inode
BY DEF NewInode, Inode

LEMMA CreateFileIssues ==
  ASSUME NEW k, FieldsTyped(k), NEW d \in Nat, NEW n \in AllNames,
         NEW mode \in Modes, NEW u \in Users
  PROVE  Issues(k, create_file(k, d, n, mode, u))
<1>1. NewInode("Regular", 1, mode, u, u, 0) \in Inode
  BY NewInodeTyped DEF VnodeTypes
<1> QED BY <1>1, CreateNodeIssues, Finish DEF create_file

LEMMA SymlinkIssues ==
  ASSUME NEW k, FieldsTyped(k), NEW d \in Nat, NEW n \in AllNames,
         NEW t \in Targets, NEW u \in Users
  PROVE  Issues(k, symlink(k, d, n, t, u))
<1> DEFINE inode == NewInode("Symlink", 1, SymlinkMode, u, u, Len(t))
           m == create_node(k, d, n, inode)
           h == [m EXCEPT !.symlink_targets = Put(@, k.next_inode, t)]
<1>1. inode \in Inode
  BY InputAssumption, NewInodeTyped DEF VnodeTypes, SymlinkMode
<1>2. Issues(k, m) /\ FieldsTyped(m)
  BY <1>1, CreateNodeIssues DEF Issues
<1> HIDE DEF m, inode
<1>3. SameExcept(m, h, Untyped)
  BY <1>2 DEF SameExcept, FieldsTyped, IsGraph, GraphFields, Untyped
<1> HIDE DEF h
<1>4. Issues(k, h)
  BY <1>2, <1>3, UntypedKeeps, IssuesThenKeeps
<1> QED BY <1>4, Finish DEF symlink, h, m, inode

LEMMA MkdirNodesIssues ==
  ASSUME NEW k, FieldsTyped(k), NEW d \in Nat, d \in DOMAIN k.dirs,
         NEW n \in AllNames, NEW mode \in Modes, NEW u \in Users
  PROVE  Issues(k, mkdir_nodes(k, d, n, mode, u))
<1> DEFINE i == k.next_inode
           c == k.next_dir
           e == k.next_edge
           inode == NewInode("Directory", 2, mode, u, u, 0)
           m == [k EXCEPT !.next_inode = i + 1, !.next_dir = c + 1,
                          !.next_edge = e + 3]
           m1 == insert_inode(m, i, inode)
           m2 == insert_dir(m1, c, i)
           m3 == add_contains(m2, e, d, i, n)
           m4 == add_contains(m3, e + 1, c, i, ".")
           h  == add_contains(m4, e + 2, c, k.dirs[d], "..")
<1>1. i \in Nat \ {0} /\ c \in Nat \ {0} /\ e \in Nat \ {0} /\ k.dirs[d] \in Nat
  BY DEF FieldsTyped, Ids
<1>2. /\ Advances(k, m)
      /\ m.next_inode = i + 1 /\ m.next_edge = e + 3 /\ m.next_dir = c + 1
  <2>1. /\ SameExcept(k, m, Untyped \cup Counters)
        /\ m.next_inode = i + 1 /\ m.next_edge = e + 3 /\ m.next_dir = c + 1
        /\ m.next_cap = k.next_cap /\ m.next_block = k.next_block
        /\ m.next_xattr = k.next_xattr
    BY DEF SameExcept, FieldsTyped, IsGraph, GraphFields, Counters
  <2>2. /\ k.next_cap = k.next_cap + 0 /\ k.next_block = k.next_block + 0
        /\ k.next_xattr = k.next_xattr + 0
    BY DEF FieldsTyped, Ids
  <2> HIDE DEF m
  <2> QED BY <2>1, <2>2, AdvancesBy
<1>3. inode \in Inode
  <2>1. "Directory" \in VnodeTypes /\ 2 \in Int /\ 0 \in Nat
    BY DEF VnodeTypes
  <2> HIDE DEF i, c, e, m, m1, m2, m3, m4, h
  <2>2. NewInode("Directory", 2, mode, u, u, 0) \in Inode
    BY <2>1, NewInodeTyped
  <2> QED BY <2>2
<1>4. {".", ".."} \subseteq AllNames
  BY DEF AllNames, Dots
<1> HIDE DEF m, inode
<1>5. FieldsTyped(m)
  BY <1>2, AdvancesTyped
<1>6. Keeps(m, m1, {i}, {}, {}) /\ FieldsTyped(m1)
  BY <1>3, <1>5, InsertInodeKeeps, KeepsTyped
<1> HIDE DEF m1
<1>7. Keeps(m1, m2, {}, {c}, {}) /\ FieldsTyped(m2)
  BY <1>1, <1>6, InsertDirKeeps, KeepsTyped
<1> HIDE DEF m2
<1>8. Keeps(m2, m3, {}, {}, {e}) /\ FieldsTyped(m3)
  BY <1>1, <1>7, AddContainsKeeps, KeepsTyped
<1> HIDE DEF m3
<1>9. Keeps(m3, m4, {}, {}, {e + 1}) /\ FieldsTyped(m4)
  BY <1>1, <1>4, <1>8, AddContainsKeeps, KeepsTyped
<1> HIDE DEF m4
<1>10. Keeps(m4, h, {}, {}, {e + 2})
  BY <1>1, <1>4, <1>9, AddContainsKeeps
<1> HIDE DEF h
<1>11. Keeps(m, h, {i}, {c}, {e, e + 1, e + 2})
  BY <1>6, <1>7, <1>8, <1>9, <1>10 DEF Keeps, SameIds
<1>12. {i} \subseteq i .. m.next_inode - 1 /\ {c} \subseteq c .. m.next_dir - 1
  BY <1>1, <1>2
<1>13. {e, e + 1, e + 2} \subseteq e .. m.next_edge - 1
  BY <1>1, <1>2
<1>14. Issues(k, h)
  BY <1>2, <1>11, <1>12, <1>13, IssuesWhatItTook
<1> QED BY <1>14 DEF mkdir_nodes, h, m4, m3, m2, m1, m, inode

LEMMA MkdirIssues ==
  ASSUME NEW k, FieldsTyped(k), NEW d \in Nat, d \in DOMAIN k.dirs,
         NEW n \in AllNames, NEW mode \in Modes, NEW u \in Users
  PROVE  Issues(k, mkdir(k, d, n, mode, u))
BY MkdirNodesIssues, Finish DEF mkdir

-----------------------------------------------------------------------------
(***************************************************************************)
(* RMDIR, LINK, UNLINK.                                                    *)
(***************************************************************************)
LEMMA DelTyped ==
  ASSUME NEW T, NEW f, f \in [DOMAIN f -> T], NEW S
  PROVE  Del(f, S) \in [DOMAIN Del(f, S) -> T]
BY DEF Del

LEMMA RmdirNodesKeeps ==
  ASSUME NEW k, FieldsTyped(k), NEW d, NEW n
  PROVE  Keeps(k, rmdir_nodes(k, d, n), {}, {}, {})
<1> DEFINE i  == resolve_name(k, d, n)
           c  == dir_for_inode(k, i)
           S  == {e \in entries(k, d) : k.edges[e].tgt = i /\ k.edges[e].name = n}
                    \cup entries(k, c)
           m1 == drop_contains(k, S)
           m2 == remove_inode(m1, i)
           m3 == remove_dir(m2, c)
           D  == Del(m3.dir_contains, {c})
           I  == Del(m3.inode_incoming_contains, {i})
           h  == rmdir_nodes(k, d, n)
<1>0. h = [m3 EXCEPT !.dir_contains = D, !.inode_incoming_contains = I]
  BY DEF rmdir_nodes
<1> HIDE DEF h
<1>1. Keeps(k, m1, {}, {}, {}) /\ FieldsTyped(m1)
  BY DropContainsKeeps, KeepsTyped
<1> HIDE DEF m1
<1>2. Keeps(m1, m2, {}, {}, {}) /\ FieldsTyped(m2)
  BY <1>1, RemoveInodeKeeps, KeepsTyped
<1> HIDE DEF m2
<1>3. Keeps(m2, m3, {}, {}, {}) /\ FieldsTyped(m3)
  BY <1>2, RemoveDirKeeps, KeepsTyped
<1> HIDE DEF m3
<1>4. D \in [DOMAIN D -> SUBSET Nat] /\ I \in [DOMAIN I -> SUBSET Nat]
  BY <1>3, DelTyped DEF FieldsTyped
<1> HIDE DEF D, I
<1>5. Keeps(m3, h, {}, {}, {})
  BY <1>0, <1>3, <1>4, IndexesKeep
<1>6. Keeps(k, h, {}, {}, {})
  BY <1>1, <1>2, <1>3, <1>5 DEF Keeps, SameIds
<1> QED BY <1>6 DEF h

LEMMA RmdirIssues ==
  ASSUME NEW k, FieldsTyped(k), NEW d, NEW n
  PROVE  Issues(k, rmdir(k, d, n))
<1>1. Issues(k, rmdir_nodes(k, d, n))
  BY RmdirNodesKeeps, IssuesNothing
<1> QED BY <1>1, Finish DEF rmdir

\* The link count of one inode moves by delta.
Counted(k, i, delta) == [k EXCEPT !.inodes[i].link_count = @ + delta]

LEMMA LinkCountKeeps ==
  ASSUME NEW k, FieldsTyped(k), NEW i, NEW delta \in Int
  PROVE  Keeps(k, Counted(k, i, delta), {}, {}, {})
<1> DEFINE P == [k.inodes EXCEPT ![i].link_count = @ + delta]
           h == Counted(k, i, delta)
<1>1. DOMAIN P = DOMAIN k.inodes
  OBVIOUS
<1>2. ASSUME NEW j \in DOMAIN k.inodes
      PROVE  P[j] \in Inode
  <2>1. k.inodes[j] \in Inode
    BY DEF FieldsTyped
  <2>2. k.inodes[j].link_count + delta \in Int
    BY <2>1 DEF Inode
  <2>3. [k.inodes[j] EXCEPT !.link_count = k.inodes[j].link_count + delta] \in Inode
    BY <2>1, <2>2 DEF Inode
  <2> QED BY <2>1, <2>3
<1>3. P \in [DOMAIN P -> Inode]
  BY <1>1, <1>2
<1>4. h = [k EXCEPT !.inodes = P]
  BY DEF Counted
<1> HIDE DEF P, h
<1>5. Keeps(k, h, {}, {}, {})
  BY <1>1, <1>3, <1>4, InodesKeep
<1> QED BY <1>5 DEF h

LEMMA LinkNodesIssues ==
  ASSUME NEW k, FieldsTyped(k), NEW d \in Nat, NEW n \in AllNames, NEW i \in Nat
  PROVE  Issues(k, link_nodes(k, d, n, i))
<1> DEFINE e  == k.next_edge
           m  == [k EXCEPT !.next_edge = e + 1]
           m1 == add_contains(m, e, d, i, n)
           h  == link_nodes(k, d, n, i)
<1>0. h = Counted(m1, i, 1)
  BY DEF link_nodes, Counted
<1> HIDE DEF h
<1>1. e \in Nat \ {0}
  BY DEF FieldsTyped, Ids
<1>2. Advances(k, m) /\ m.next_edge = e + 1
  <2>1. /\ SameExcept(k, m, Untyped \cup Counters)
        /\ m.next_edge = e + 1 /\ m.next_dir = k.next_dir
        /\ m.next_inode = k.next_inode /\ m.next_cap = k.next_cap
        /\ m.next_block = k.next_block /\ m.next_xattr = k.next_xattr
    BY DEF SameExcept, FieldsTyped, IsGraph, GraphFields, Counters
  <2>2. /\ k.next_inode = k.next_inode + 0 /\ k.next_dir = k.next_dir + 0
        /\ k.next_cap = k.next_cap + 0
        /\ k.next_block = k.next_block + 0 /\ k.next_xattr = k.next_xattr + 0
    BY DEF FieldsTyped, Ids
  <2> HIDE DEF m
  <2> QED BY <2>1, <2>2, AdvancesBy
<1> HIDE DEF m
<1>3. FieldsTyped(m)
  BY <1>2, AdvancesTyped
<1>4. Keeps(m, m1, {}, {}, {e}) /\ FieldsTyped(m1)
  BY <1>1, <1>3, AddContainsKeeps, KeepsTyped
<1> HIDE DEF m1
<1>5. Keeps(m1, h, {}, {}, {})
  BY <1>0, <1>4, LinkCountKeeps
<1>6. Keeps(m, h, {}, {}, {e})
  BY <1>4, <1>5 DEF Keeps, SameIds
<1>7. {e} \subseteq e .. m.next_edge - 1
  BY <1>1, <1>2
<1>8. Issues(k, h)
  BY <1>2, <1>6, <1>7, IssuesWhatItTook
<1> QED BY <1>8 DEF h

LEMMA LinkIssues ==
  ASSUME NEW k, FieldsTyped(k), NEW d \in Nat, NEW n \in AllNames, NEW i \in Nat
  PROVE  Issues(k, link(k, d, n, i))
BY LinkNodesIssues, Finish DEF link

LEMMA CollectInodeKeeps ==
  ASSUME NEW k, FieldsTyped(k), NEW i
  PROVE  Keeps(k, collect_inode(k, i), {}, {}, {})
<1> DEFINE m1 == release_blocks(k, i)
           m2 == remove_inode(m1, i)
           I  == Del(m2.inode_incoming_contains, {i})
           h  == collect_inode(k, i)
<1>0. h = [m2 EXCEPT !.inode_incoming_contains = I]
  BY DEF collect_inode
<1> HIDE DEF h
<1>1. Keeps(k, m1, {}, {}, {}) /\ FieldsTyped(m1)
  <2> DEFINE P == {e \in SetAt(k.inode_points_to, i) \cap DOMAIN k.edges :
                     k.edges[e].kind = "PointsTo"}
             r == remove_edge(k, P)
  <2>1. Keeps(k, r, {}, {}, {}) /\ FieldsTyped(r)
    BY RemoveEdgeKeeps, KeepsTyped
  <2>2. \E x, y : m1 = [r EXCEPT !.inode_points_to = x, !.blocks = y]
    BY DEF release_blocks
  <2> HIDE DEF r, m1
  <2>3. SameExcept(r, m1, Untyped)
    BY <2>1, <2>2 DEF SameExcept, FieldsTyped, IsGraph, GraphFields, Untyped
  <2>4. Keeps(r, m1, {}, {}, {}) /\ FieldsTyped(m1)
    BY <2>1, <2>3, UntypedKeeps, KeepsTyped
  <2> QED BY <2>1, <2>4 DEF Keeps, SameIds
<1> HIDE DEF m1
<1>2. Keeps(m1, m2, {}, {}, {}) /\ FieldsTyped(m2)
  BY <1>1, RemoveInodeKeeps, KeepsTyped
<1> HIDE DEF m2
<1>3. I \in [DOMAIN I -> SUBSET Nat]
  BY <1>2, DelTyped DEF FieldsTyped
<1>4. m2.dir_contains \in [DOMAIN m2.dir_contains -> SUBSET Nat]
  BY <1>2 DEF FieldsTyped
<1> HIDE DEF I
<1>5. h = [m2 EXCEPT !.dir_contains = m2.dir_contains,
                     !.inode_incoming_contains = I]
  BY <1>0, <1>2 DEF FieldsTyped, IsGraph, GraphFields
<1>6. Keeps(m2, h, {}, {}, {})
  BY <1>2, <1>3, <1>4, <1>5, IndexesKeep
<1>7. Keeps(k, h, {}, {}, {})
  BY <1>1, <1>2, <1>6 DEF Keeps, SameIds
<1> QED BY <1>7 DEF h

LEMMA UnlinkNodesIssues ==
  ASSUME NEW k, FieldsTyped(k), NEW d, NEW n
  PROVE  Issues(k, unlink_nodes(k, d, n))
<1> DEFINE e  == scan_name(k, d, n)
           i  == k.edges[e].tgt
           m1 == drop_contains(k, {e})
           m2 == [m1 EXCEPT !.inodes[i].link_count = @ - 1]
           h  == unlink_nodes(k, d, n)
<1>0. \/ h = update_quota(collect_inode(m2, i), d, -1)
      \/ h = m2
  BY DEF unlink_nodes
<1> HIDE DEF h
<1>1. Keeps(k, m1, {}, {}, {}) /\ FieldsTyped(m1)
  BY DropContainsKeeps, KeepsTyped
<1> HIDE DEF m1
<1>2. Keeps(m1, m2, {}, {}, {})
  <2>1. m2 = Counted(m1, i, -1)
    <3>1. ASSUME i \in DOMAIN m1.inodes
          PROVE  m1.inodes[i].link_count - 1 = m1.inodes[i].link_count + (-1)
      BY <1>1, <3>1 DEF FieldsTyped, Inode
    <3>2. [m1.inodes EXCEPT ![i].link_count = @ - 1] =
            [m1.inodes EXCEPT ![i].link_count = @ + (-1)]
      BY <3>1
    <3> QED BY <3>2 DEF Counted
  <2> HIDE DEF m2
  <2> QED BY <1>1, <2>1, LinkCountKeeps
<1>3. FieldsTyped(m2)
  BY <1>2, KeepsTyped
<1> HIDE DEF m2, i
<1>4. Keeps(k, m2, {}, {}, {})
  BY <1>1, <1>2 DEF Keeps, SameIds
<1>5. Issues(k, m2)
  BY <1>4, IssuesNothing
<1>6. Issues(k, collect_inode(m2, i))
  BY <1>3, <1>5, CollectInodeKeeps, IssuesThenKeeps
<1>7. Issues(k, h)
  BY <1>0, <1>5, <1>6, Finish
<1> QED BY <1>7 DEF h

LEMMA UnlinkIssues ==
  ASSUME NEW k, FieldsTyped(k), NEW d, NEW n
  PROVE  Issues(k, unlink(k, d, n))
BY UnlinkNodesIssues, Finish DEF unlink

-----------------------------------------------------------------------------
(***************************************************************************)
(* RENAME.                                                                 *)
(***************************************************************************)
LEMMA IssuesIds ==
  ASSUME NEW k, FieldsTyped(k), IdsIssued(k), NEW h, Issues(k, h)
  PROVE  IdsIssued(h)
<1>1. /\ {k.next_inode, k.next_dir, k.next_edge} \subseteq Nat \ {0}
      /\ {h.next_inode, h.next_dir, h.next_edge} \subseteq Nat \ {0}
  BY DEF FieldsTyped, Issues, Ids
<1>2. DOMAIN h.inodes \subseteq 1 .. h.next_inode - 1
  BY <1>1 DEF Issues, IdsIssued
<1>3. DOMAIN h.dirs \subseteq 1 .. h.next_dir - 1
  BY <1>1 DEF Issues, IdsIssued
<1>4. DOMAIN h.edges \subseteq 1 .. h.next_edge - 1
  BY <1>1 DEF Issues, IdsIssued
<1> QED BY <1>2, <1>3, <1>4 DEF IdsIssued

LEMMA IssuesRefl ==
  ASSUME NEW k, FieldsTyped(k)
  PROVE  Issues(k, k)
BY UntypedKeeps, IssuesNothing DEF SameExcept, FieldsTyped

\* Whether the destination is replaced, refused or not there.
LEMMA ReplaceIssues ==
  ASSUME NEW k, FieldsTyped(k), NEW d, NEW n
  PROVE  Issues(k, replace_destination(k, d, n).graph)
<1>1. \/ replace_destination(k, d, n).graph = k
      \/ replace_destination(k, d, n).graph = rmdir(k, d, n)
      \/ replace_destination(k, d, n).graph = unlink(k, d, n)
  BY DEF replace_destination, Done, Fail
<1> QED BY <1>1, IssuesRefl, RmdirIssues, UnlinkIssues

\* The first of the entries a rename finds is an edge.
LEMMA SourceEntryExists ==
  ASSUME NEW k, FieldsTyped(k), IdsIssued(k), NEW d, NEW i, NEW n,
         source_entries(k, d, i, n) # {}
  PROVE  First(source_entries(k, d, i, n)) \in DOMAIN k.edges
<1> DEFINE E == source_entries(k, d, i, n)
<1>1. E \subseteq DOMAIN k.edges
  BY DEF source_entries, entries, ContainsEdges
<1>2. DOMAIN k.edges \subseteq Nat
  BY EdgeIdsAreNat
<1> HIDE DEF E
<1>3. E # {} => First(E) \in E
  BY <1>1, <1>2, FirstIn
<1> QED BY <1>1, <1>3 DEF E

LEMMA MoveEntryIssues ==
  ASSUME NEW k, FieldsTyped(k), NEW e \in DOMAIN k.edges, NEW d \in Nat,
         NEW n \in AllNames
  PROVE  Issues(k, move_entry(k, e, d, n))
<1> DEFINE i  == k.edges[e].tgt
           e2 == k.next_edge
           m1 == drop_contains(k, {e})
           m  == [m1 EXCEPT !.next_edge = e2 + 1]
           h  == add_contains(m, e2, d, i, n)
<1>0. h = move_entry(k, e, d, n)
  BY DEF move_entry
<1>1. e2 \in Nat \ {0} /\ i \in Nat
  BY DEF FieldsTyped, Ids, Edge
<1>2. Keeps(k, m1, {}, {}, {}) /\ FieldsTyped(m1)
  BY DropContainsKeeps, KeepsTyped
<1>3. m1.next_edge = e2
  BY <1>2 DEF Keeps, SameIds
<1> HIDE DEF m1, e2, i
<1>4. Advances(m1, m) /\ m.next_edge = e2 + 1
  <2>1. /\ SameExcept(m1, m, Untyped \cup Counters)
        /\ m.next_edge = e2 + 1 /\ m.next_dir = m1.next_dir
        /\ m.next_inode = m1.next_inode /\ m.next_cap = m1.next_cap
        /\ m.next_block = m1.next_block /\ m.next_xattr = m1.next_xattr
    BY <1>2 DEF SameExcept, FieldsTyped, IsGraph, GraphFields, Counters
  <2>2. /\ m1.next_inode = m1.next_inode + 0 /\ m1.next_dir = m1.next_dir + 0
        /\ m1.next_cap = m1.next_cap + 0
        /\ m1.next_block = m1.next_block + 0 /\ m1.next_xattr = m1.next_xattr + 0
    BY <1>2 DEF FieldsTyped, Ids
  <2> HIDE DEF m
  <2> QED BY <1>2, <1>3, <2>1, <2>2, AdvancesBy
<1> HIDE DEF m
<1>5. FieldsTyped(m)
  BY <1>2, <1>4, AdvancesTyped
<1>6. Keeps(m, h, {}, {}, {e2})
  BY <1>1, <1>5, AddContainsKeeps
<1> HIDE DEF h
<1>7. {e2} \subseteq m1.next_edge .. m.next_edge - 1
  BY <1>1, <1>3, <1>4
<1>8. Issues(m1, h)
  BY <1>2, <1>4, <1>6, <1>7, IssuesWhatItTook
<1>9. Issues(k, m1)
  BY <1>2, IssuesNothing
<1>10. Issues(k, h)
  BY <1>8, <1>9, IssuesTrans
<1> QED BY <1>0, <1>10

LEMMA MoveDotdotKeeps ==
  ASSUME NEW k, FieldsTyped(k), IdsIssued(k), NEW i, NEW d
  PROVE  Keeps(k, move_dotdot(k, i, d), {}, {}, {})
<1> DEFINE c == dir_for_inode(k, i)
           D == {e \in entries(k, c) : k.edges[e].name = ".."}
           e == First(D)
           P == [k.edges EXCEPT ![e].tgt = k.dirs[d]]
           J == [x \in DOMAIN k.inode_incoming_contains |->
                   IF x = k.edges[e].tgt THEN k.inode_incoming_contains[x] \ {e}
                                         ELSE k.inode_incoming_contains[x]]
           I == IndexAdd(J, k.dirs[d], e)
           h == move_dotdot(k, i, d)
<1>1. CASE ~(IsDirInode(k, i) /\ c # None /\ d \in DOMAIN k.dirs /\ D # {})
  <2>1. h = k
    BY <1>1 DEF move_dotdot
  <2> QED BY <2>1, UntypedKeeps DEF SameExcept, FieldsTyped
<1>2. CASE IsDirInode(k, i) /\ c # None /\ d \in DOMAIN k.dirs /\ D # {}
  <2>1. h = [k EXCEPT !.edges = P, !.inode_incoming_contains = I]
    BY <1>2 DEF move_dotdot
  <2>2. k.dirs[d] \in Nat
    BY <1>2 DEF FieldsTyped
  <2>3. e \in D /\ e \in Nat /\ e \in DOMAIN k.edges
    <3>1. D \subseteq DOMAIN k.edges /\ DOMAIN k.edges \subseteq Nat
      BY EdgeIdsAreNat DEF entries, ContainsEdges
    <3> HIDE DEF D
    <3> QED BY <1>2, <3>1, FirstIn
  <2>4. P \in [DOMAIN P -> Edge] /\ DOMAIN P = DOMAIN k.edges
    <3>1. \A x \in DOMAIN k.edges : k.edges[x] \in Edge
      BY DEF FieldsTyped
    <3>2. [k.edges[e] EXCEPT !.tgt = k.dirs[d]] \in Edge
      BY <2>2, <2>3, <3>1 DEF Edge
    <3> HIDE DEF e
    <3> QED BY <3>1, <3>2
  <2> HIDE DEF P, h, e, D
  <2>5. J \in [DOMAIN J -> SUBSET Nat]
    BY DEF FieldsTyped
  <2> HIDE DEF J
  <2>6. I \in [DOMAIN I -> SUBSET Nat]
    BY <2>3, <2>5, IndexAddTyped
  <2> HIDE DEF I
  <2>7. /\ SameExcept(k, h, {"edges", "inode_incoming_contains"})
        /\ h.edges = P /\ h.inode_incoming_contains = I
    BY <2>1 DEF SameExcept, FieldsTyped, IsGraph, GraphFields
  <2> QED BY <2>4, <2>6, <2>7
             DEF h, SameExcept, GraphFields, Keeps, SameIds, Ids, FieldsTyped
<1> QED BY <1>1, <1>2

LEMMA RenameSameDirIssues ==
  ASSUME NEW k, FieldsTyped(k), IdsIssued(k), NEW d, NEW src, NEW dst \in AllNames
  PROVE  Issues(k, rename_same_dir(k, d, src, dst).graph)
<1> DEFINE i == resolve_name(k, d, src)
           m == replace_destination(k, d, dst).graph
           E == source_entries(m, d, i, src)
           h == rename_same_dir(k, d, src, dst).graph
<1>1. \/ h = k
      \/ h = m
      \/ E # {} /\ h = rename_contains_edge(m, First(E), dst)
  BY DEF rename_same_dir, Done, Fail
<1>2. Issues(k, m)
  BY ReplaceIssues
<1> HIDE DEF h, m
<1>3. FieldsTyped(m) /\ IdsIssued(m)
  BY <1>2, IssuesIds DEF Issues
<1>4. CASE E # {} /\ h = rename_contains_edge(m, First(E), dst)
  <2>1. First(E) \in DOMAIN m.edges
    BY <1>3, <1>4, SourceEntryExists
  <2> HIDE DEF E
  <2>2. Keeps(m, h, {}, {}, {})
    BY <1>3, <1>4, <2>1, RenameContainsEdgeKeeps
  <2> QED BY <1>2, <2>2, IssuesThenKeeps DEF h
<1> QED BY <1>1, <1>2, <1>4, IssuesRefl DEF h

LEMMA RenameCrossDirIssues ==
  ASSUME NEW k, FieldsTyped(k), IdsIssued(k), NEW sd, NEW src, NEW dd \in Nat,
         NEW dst \in AllNames
  PROVE  Issues(k, rename_cross_dir(k, sd, src, dd, dst).graph)
<1> DEFINE i  == resolve_name(k, sd, src)
           m  == replace_destination(k, dd, dst).graph
           E  == source_entries(m, sd, i, src)
           m1 == move_entry(m, First(E), dd, dst)
           h  == rename_cross_dir(k, sd, src, dd, dst).graph
<1>1. \/ h = k
      \/ h = m
      \/ E # {} /\ h = move_dotdot(m1, i, dd)
  BY DEF rename_cross_dir, Done, Fail
<1>2. Issues(k, m)
  BY ReplaceIssues
<1> HIDE DEF h, m
<1>3. FieldsTyped(m) /\ IdsIssued(m)
  BY <1>2, IssuesIds DEF Issues
<1>4. CASE E # {} /\ h = move_dotdot(m1, i, dd)
  <2>1. First(E) \in DOMAIN m.edges
    BY <1>3, <1>4, SourceEntryExists
  <2> HIDE DEF E
  <2>2. Issues(m, m1)
    BY <1>3, <2>1, MoveEntryIssues
  <2>3. FieldsTyped(m1) /\ IdsIssued(m1)
    BY <1>3, <2>2, IssuesIds DEF Issues
  <2> HIDE DEF m1
  <2>4. Issues(m, h)
    BY <1>4, <2>2, <2>3, MoveDotdotKeeps, IssuesThenKeeps
  <2>5. Issues(k, h)
    BY <1>2, <2>4, IssuesTrans
  <2> QED BY <2>5 DEF h
<1> QED BY <1>1, <1>2, <1>4, IssuesRefl DEF h

\* Whether it succeeds or fails half-way.
LEMMA RenameIssues ==
  ASSUME NEW k, FieldsTyped(k), IdsIssued(k), NEW sd, NEW src, NEW dd \in Nat,
         NEW dst \in AllNames
  PROVE  Issues(k, rename(k, sd, src, dd, dst).graph)
<1> DEFINE r == IF sd = dd THEN rename_same_dir(k, sd, src, dst)
                           ELSE rename_cross_dir(k, sd, src, dd, dst)
           h == rename(k, sd, src, dd, dst).graph
<1>1. Issues(k, r.graph)
  BY RenameSameDirIssues, RenameCrossDirIssues
<1>2. \/ h = k
      \/ h = r.graph
      \/ h = record_prov(r.graph, "Rename", resolve_name(r.graph, dd, dst))
  BY DEF rename, Done, Fail
<1> HIDE DEF r, h
<1> QED BY <1>1, <1>2, IssuesRefl, Finish DEF h

-----------------------------------------------------------------------------
(***************************************************************************)
(* Contents, attributes, xattrs, ACLs.                                     *)
(***************************************************************************)

\* A fresh edge of any kind, after untyped fields and counters have changed.
LEMMA FreshEdgeIssues ==
  ASSUME NEW k, FieldsTyped(k), NEW m, Advances(k, m),
         m.next_edge = k.next_edge + 1, NEW edge \in Edge
  PROVE  Issues(k, insert_edge(m, k.next_edge, edge))
<1>1. FieldsTyped(m)
  BY AdvancesTyped
<1>2. Keeps(m, insert_edge(m, k.next_edge, edge), {}, {}, {k.next_edge})
  BY <1>1, InsertEdgeKeeps
<1>3. {k.next_edge} \subseteq k.next_edge .. m.next_edge - 1
  BY DEF FieldsTyped, Ids
<1> QED BY <1>2, <1>3, IssuesWhatItTook

LEMMA WriteBlockIssues ==
  ASSUME NEW k, FieldsTyped(k), NEW i \in Nat
  PROVE  Issues(k, write_block(k, i))
<1> DEFINE b == k.next_block
           e == k.next_edge
           m == [k EXCEPT !.next_block = b + 1, !.next_edge = e + 1,
                          !.blocks = insert_at(k.blocks, b, 1, NODE_CAPACITY),
                          !.inode_points_to = IndexAdd(k.inode_points_to, i, e)]
           edge == OtherEdge("PointsTo", i, b)
<1>0. write_block(k, i) = insert_edge(m, e, edge)
  BY DEF write_block
<1>1. edge \in Edge
  BY DEF OtherEdge, Edge, EdgeKinds, FieldsTyped, Ids
<1>2. Advances(k, m) /\ m.next_edge = e + 1
  <2>1. /\ SameExcept(k, m, Untyped \cup Counters)
        /\ m.next_edge = e + 1 /\ m.next_dir = k.next_dir
        /\ m.next_inode = k.next_inode /\ m.next_cap = k.next_cap
        /\ m.next_block = b + 1 /\ m.next_xattr = k.next_xattr
    BY DEF SameExcept, FieldsTyped, IsGraph, GraphFields, Counters, Untyped
  <2>2. /\ k.next_inode = k.next_inode + 0 /\ k.next_dir = k.next_dir + 0
        /\ k.next_cap = k.next_cap + 0 /\ k.next_xattr = k.next_xattr + 0
    BY DEF FieldsTyped, Ids
  <2> HIDE DEF m
  <2> QED BY <2>1, <2>2, AdvancesBy
<1> HIDE DEF m, edge
<1> QED BY <1>0, <1>1, <1>2, FreshEdgeIssues

LEMMA NewXattrIssues ==
  ASSUME NEW k, FieldsTyped(k), NEW i \in Nat, NEW key, NEW value
  PROVE  Issues(k, new_xattr(k, i, key, value))
<1> DEFINE x == k.next_xattr
           e == k.next_edge
           v == [key |-> key, value |-> value]
           m == [k EXCEPT !.next_xattr = x + 1, !.next_edge = e + 1,
                          !.xattrs = Put(k.xattrs, x, v),
                          !.inode_xattrs = IndexAdd(k.inode_xattrs, i, x)]
           edge == OtherEdge("HasXattr", i, x)
<1>0. new_xattr(k, i, key, value) = record_prov(insert_edge(m, e, edge), "Setxattr", i)
  BY DEF new_xattr
<1>1. edge \in Edge
  BY DEF OtherEdge, Edge, EdgeKinds, FieldsTyped, Ids
<1>2. Advances(k, m) /\ m.next_edge = e + 1
  <2> HIDE DEF v
  <2>1. /\ SameExcept(k, m, Untyped \cup Counters)
        /\ m.next_edge = e + 1 /\ m.next_dir = k.next_dir
        /\ m.next_inode = k.next_inode /\ m.next_cap = k.next_cap
        /\ m.next_block = k.next_block /\ m.next_xattr = x + 1
    BY DEF SameExcept, FieldsTyped, IsGraph, GraphFields, Counters, Untyped
  <2>2. /\ k.next_inode = k.next_inode + 0 /\ k.next_dir = k.next_dir + 0
        /\ k.next_cap = k.next_cap + 0 /\ k.next_block = k.next_block + 0
    BY DEF FieldsTyped, Ids
  <2> HIDE DEF m
  <2> QED BY <2>1, <2>2, AdvancesBy
<1> HIDE DEF m, edge
<1>3. Issues(k, insert_edge(m, e, edge))
  BY <1>1, <1>2, FreshEdgeIssues
<1> QED BY <1>0, <1>3, Finish

LEMMA SetxattrIssues ==
  ASSUME NEW k, FieldsTyped(k), NEW i \in Nat, NEW key, NEW value
  PROVE  Issues(k, setxattr(k, i, key, value))
<1> DEFINE h == [k EXCEPT !.xattrs[First(xattrs_with_key(k, i, key))].value = value]
<1>1. SameExcept(k, h, Untyped)
  <2>1. \E x : h = [k EXCEPT !.xattrs = x]
    OBVIOUS
  <2> HIDE DEF h
  <2> QED BY <2>1 DEF SameExcept, FieldsTyped, IsGraph, GraphFields, Untyped
<1>2. setxattr(k, i, key, value) \in {h, new_xattr(k, i, key, value)}
  BY DEF setxattr
<1> HIDE DEF h
<1>3. Issues(k, h)
  BY <1>1, UntypedKeeps, IssuesNothing
<1> QED BY <1>2, <1>3, NewXattrIssues

LEMMA RemovexattrIssues ==
  ASSUME NEW k, FieldsTyped(k), NEW i, NEW key
  PROVE  Issues(k, removexattr(k, i, key))
<1> DEFINE x == First(xattrs_with_key(k, i, key))
           E == {e \in DOMAIN k.edges : k.edges[e] = OtherEdge("HasXattr", i, x)}
           m == [k EXCEPT !.xattrs = Del(k.xattrs, {x}),
                          !.inode_xattrs[i] = k.inode_xattrs[i] \ {x}]
<1>1. \/ removexattr(k, i, key) = record_prov(m, "Removexattr", i)
      \/ removexattr(k, i, key) =
           record_prov(remove_edge(m, {First(E)}), "Removexattr", i)
  BY DEF removexattr
<1>2. \E a, b : m = [k EXCEPT !.xattrs = a, !.inode_xattrs = b]
  OBVIOUS
<1> HIDE DEF m, E, x
<1>3. SameExcept(k, m, Untyped)
  BY <1>2 DEF SameExcept, FieldsTyped, IsGraph, GraphFields, Untyped
<1>4. Keeps(k, m, {}, {}, {}) /\ FieldsTyped(m)
  BY <1>3, UntypedKeeps, KeepsTyped
<1>5. Issues(k, m)
  BY <1>4, IssuesNothing
<1>6. Issues(k, remove_edge(m, {First(E)}))
  BY <1>4, <1>5, RemoveEdgeKeeps, IssuesThenKeeps
<1> QED BY <1>1, <1>5, <1>6, Finish

LEMMA SetBytesKeeps ==
  ASSUME NEW k, FieldsTyped(k), NEW i, NEW buf \in Seq(Nat)
  PROVE  Keeps(k, SetBytes(k, i, buf), {}, {}, {})
<1> DEFINE F == Put(k.file_data, i, buf)
           P == [k.inodes EXCEPT ![i].size = Len(buf)]
           h == SetBytes(k, i, buf)
<1>1. h = [k EXCEPT !.file_data = F, !.inodes = P]
  BY DEF SetBytes
<1>2. F \in [DOMAIN F -> Seq(Nat)]
  BY DEF FieldsTyped, Put
<1>3. P \in [DOMAIN P -> Inode] /\ DOMAIN P = DOMAIN k.inodes
  <2>1. ASSUME NEW j \in DOMAIN k.inodes
        PROVE  [k.inodes[j] EXCEPT !.size = Len(buf)] \in Inode
    <3>1. k.inodes[j] \in Inode /\ Len(buf) \in Nat
      BY DEF FieldsTyped
    <3> HIDE DEF P, F, h
    <3> QED BY <3>1 DEF Inode
  <2>2. \A j \in DOMAIN k.inodes : P[j] \in Inode
    BY <2>1 DEF FieldsTyped
  <2> QED BY <2>2
<1> HIDE DEF F, P, h
<1>4. /\ SameExcept(k, h, {"file_data", "inodes"})
      /\ h.file_data = F /\ h.inodes = P
  BY <1>1 DEF SameExcept, FieldsTyped, IsGraph, GraphFields
<1> QED BY <1>2, <1>3, <1>4
           DEF h, SameExcept, GraphFields, Keeps, SameIds, Ids, FieldsTyped

LEMMA BytesTyped ==
  ASSUME NEW k, FieldsTyped(k), NEW i
  PROVE  FileBytes(k, i) \in Seq(Nat)
BY DEF FileBytes, FieldsTyped

LEMMA ResizedTyped ==
  ASSUME NEW buf \in Seq(Nat), NEW n \in Nat
  PROVE  Resized(buf, n) \in Seq(Nat) /\ Len(Resized(buf, n)) = n
BY DEF Resized

LEMMA WriteDataIssues ==
  ASSUME NEW k, FieldsTyped(k), NEW i, NEW offset \in Nat, NEW data \in Seq(Nat)
  PROVE  Issues(k, write_data(k, i, offset, data))
<1> DEFINE buf == FileBytes(k, i)
           end == offset + Len(data)
           ext == IF Len(buf) < end THEN Resized(buf, end) ELSE buf
           new == [x \in 1..Len(ext) |-> IF x \in offset + 1 .. end
                                         THEN data[x - offset] ELSE ext[x]]
<1>1. buf \in Seq(Nat) /\ end \in Nat
  BY BytesTyped
<1>2. ext \in Seq(Nat)
  BY <1>1, ResizedTyped
<1>3. new \in Seq(Nat)
  <2> HIDE DEF ext
  <2>1. \A x \in 1 .. Len(ext) : new[x] \in Nat
    BY <1>2
  <2> QED BY <1>2, <2>1
<1>4. write_data(k, i, offset, data) = record_prov(SetBytes(k, i, new), "Write", i)
  BY DEF write_data
<1> HIDE DEF new
<1> QED BY <1>3, <1>4, SetBytesKeeps, IssuesNothing, Finish

LEMMA TruncateIssues ==
  ASSUME NEW k, FieldsTyped(k), NEW i, NEW n \in Nat
  PROVE  Issues(k, truncate(k, i, n))
<1>1. Resized(FileBytes(k, i), n) \in Seq(Nat)
  BY BytesTyped, ResizedTyped
<1> QED BY <1>1, SetBytesKeeps, IssuesNothing, Finish DEF truncate

LEMMA ChmodIssues ==
  ASSUME NEW k, FieldsTyped(k), NEW i, NEW mode \in Modes
  PROVE  Issues(k, chmod(k, i, mode))
<1> DEFINE P == [k.inodes EXCEPT ![i].mode = mode]
           h == [k EXCEPT !.inodes[i].mode = mode]
<1>1. P \in [DOMAIN P -> Inode] /\ DOMAIN P = DOMAIN k.inodes
  BY DEF FieldsTyped, Inode
<1>2. h = [k EXCEPT !.inodes = P]
  OBVIOUS
<1> HIDE DEF P, h
<1>3. Issues(k, h)
  BY <1>1, <1>2, InodesKeep, IssuesNothing
<1> QED BY <1>3, Finish DEF chmod, h

LEMMA ChownIssues ==
  ASSUME NEW k, FieldsTyped(k), NEW i, NEW u \in Users, NEW v \in Users
  PROVE  Issues(k, chown(k, i, u, v))
<1> DEFINE P == [k.inodes EXCEPT ![i].uid = u, ![i].gid = v]
           h == [k EXCEPT !.inodes[i].uid = u, !.inodes[i].gid = v]
<1>1. P \in [DOMAIN P -> Inode] /\ DOMAIN P = DOMAIN k.inodes
  BY DEF FieldsTyped, Inode
<1>2. h = [k EXCEPT !.inodes = P]
  BY DEF FieldsTyped, IsGraph, GraphFields
<1> HIDE DEF P, h
<1>3. Issues(k, h)
  BY <1>1, <1>2, InodesKeep, IssuesNothing
<1> QED BY <1>3, Finish DEF chown, h

LEMMA GrantAllIssues ==
  ASSUME NEW k, FieldsTyped(k), NEW i \in Nat, NEW acl, IsFiniteSet(DOMAIN acl)
  PROVE  Issues(k, grant_all(k, i, acl))
<1> DEFINE c == k.next_cap
           e == k.next_edge
           N == Cardinality(granted(acl))
           news == {x \in e .. e + N - 1 : x < EDGE_CAPACITY}
           P == [x \in DOMAIN k.edges \cup news |->
                   IF x \in news THEN OtherEdge("Grants", c + x - e, i)
                   ELSE k.edges[x]]
           h == grant_all(k, i, acl)
<1>1. N \in Nat /\ c \in Nat \ {0} /\ e \in Nat \ {0}
  <2>1. IsFiniteSet(granted(acl))
    BY FS_Subset DEF granted
  <2> QED BY <2>1, FS_CardinalityType DEF FieldsTyped, Ids
<1>2. P \in [DOMAIN P -> Edge] /\ DOMAIN P = DOMAIN k.edges \cup news
  <2> HIDE DEF N
  <2>1. \A x \in news : c + x - e \in Nat
    BY <1>1
  <2>2. \A x \in news : OtherEdge("Grants", c + x - e, i) \in Edge
    BY <2>1 DEF OtherEdge, Edge, EdgeKinds
  <2>3. \A x \in DOMAIN k.edges : k.edges[x] \in Edge
    BY DEF FieldsTyped
  <2> HIDE DEF news, c, e
  <2> QED BY <2>2, <2>3
<1>3. \E x, y : h = [k EXCEPT !.next_cap = c + N, !.next_edge = e + N,
                              !.caps = x, !.edges = P, !.cap_grants = y]
  BY DEF grant_all
<1>4. news \subseteq e .. e + N - 1
  OBVIOUS
<1> HIDE DEF N, news, P, h
<1> DEFINE m == [k EXCEPT !.next_cap = c + N, !.next_edge = e + N]
<1>5. Advances(k, m) /\ m.next_edge = e + N
  <2>1. /\ SameExcept(k, m, Untyped \cup Counters)
        /\ m.next_edge = e + N /\ m.next_dir = k.next_dir
        /\ m.next_inode = k.next_inode /\ m.next_cap = c + N
        /\ m.next_block = k.next_block /\ m.next_xattr = k.next_xattr
    BY DEF SameExcept, FieldsTyped, IsGraph, GraphFields, Counters, Untyped
  <2>2. /\ k.next_inode = k.next_inode + 0 /\ k.next_dir = k.next_dir + 0
        /\ k.next_block = k.next_block + 0 /\ k.next_xattr = k.next_xattr + 0
    BY DEF FieldsTyped, Ids
  <2> HIDE DEF m
  <2> QED BY <1>1, <2>1, <2>2, AdvancesBy
<1>6. /\ SameExcept(m, h, {"caps", "edges", "cap_grants"})
      /\ h.edges = P
  BY <1>3 DEF SameExcept, FieldsTyped, IsGraph, GraphFields
<1> HIDE DEF m
<1>7. FieldsTyped(m) /\ m.edges = k.edges
  BY <1>5, AdvancesTyped
<1>8. Keeps(m, h, {}, {}, news)
  <2>1. /\ SameIds(m, h)
        /\ h.inodes = m.inodes /\ h.dirs = m.dirs
        /\ h.dir_contains = m.dir_contains
        /\ h.inode_incoming_contains = m.inode_incoming_contains
        /\ h.file_data = m.file_data /\ h.dir_for_inode_idx = m.dir_for_inode_idx
    BY <1>6 DEF SameExcept, GraphFields, SameIds
  <2>2. IsGraph(h) /\ Ids(h) = Ids(m)
    BY <1>6, <2>1 DEF SameExcept, SameIds, Ids
  <2>3. FieldsTyped(h)
    BY <1>2, <1>6, <1>7, <2>1, <2>2 DEF FieldsTyped
  <2> QED BY <1>2, <1>6, <1>7, <2>1, <2>3 DEF Keeps
<1>9. news \subseteq k.next_edge .. m.next_edge - 1
  BY <1>1, <1>4, <1>5
<1>10. Issues(k, h)
  <2> HIDE DEF c, e
  <2> QED BY <1>5, <1>8, <1>9, IssuesWhatItTook
<1> QED BY <1>10 DEF h

LEMMA AclsAreFinite ==
  ASSUME NEW acl \in Acls
  PROVE  IsFiniteSet(DOMAIN acl)
<1>1. Len(acl) \in Nat /\ DOMAIN acl = 1 .. Len(acl)
  BY InputAssumption
<1> QED BY <1>1, FS_Interval

LEMMA SetaclIssues ==
  ASSUME NEW k, FieldsTyped(k), NEW i \in Nat, NEW acl \in Acls
  PROVE  Issues(k, setacl(k, i, acl))
<1> DEFINE E == {e \in DOMAIN k.edges :
                   k.edges[e].kind = "Grants" /\ k.edges[e].tgt = i}
           m1 == remove_edge(k, E)
           m2 == purge_grants(k, i)
           m3 == [m2 EXCEPT !.acls = Put(m2.acls, i, acl)]
           m4 == grant_all(m3, i, acl)
<1>0. setacl(k, i, acl) = record_prov(m4, "SetAcl", i)
  BY DEF setacl
<1>1. \E x, y : m2 = [m1 EXCEPT !.cap_grants = x, !.caps = y]
  BY DEF purge_grants
<1>2. Keeps(k, m1, {}, {}, {}) /\ FieldsTyped(m1)
  BY RemoveEdgeKeeps, KeepsTyped
<1> HIDE DEF m1, m2
<1>3. SameExcept(m1, m2, Untyped)
  BY <1>1, <1>2 DEF SameExcept, FieldsTyped, IsGraph, GraphFields, Untyped
<1>4. Keeps(m1, m2, {}, {}, {}) /\ FieldsTyped(m2)
  BY <1>2, <1>3, UntypedKeeps, KeepsTyped
<1>5. SameExcept(m2, m3, Untyped)
  BY <1>4 DEF SameExcept, FieldsTyped, IsGraph, GraphFields, Untyped
<1> HIDE DEF m3
<1>6. Keeps(m2, m3, {}, {}, {}) /\ FieldsTyped(m3)
  BY <1>4, <1>5, UntypedKeeps, KeepsTyped
<1>7. Keeps(k, m3, {}, {}, {})
  BY <1>2, <1>4, <1>6 DEF Keeps, SameIds
<1>8. Issues(k, m3)
  BY <1>7, IssuesNothing
<1>9. Issues(m3, m4)
  BY <1>6, GrantAllIssues, AclsAreFinite
<1> HIDE DEF m4
<1>10. Issues(k, m4)
  BY <1>8, <1>9, IssuesTrans
<1> QED BY <1>0, <1>10, Finish

-----------------------------------------------------------------------------
(***************************************************************************)
(* The specification.                                                      *)
(***************************************************************************)
LEMMA RootTyped ==
  ASSUME NEW k, k = new_graph(CHOOSE m \in Modes : TRUE, CHOOSE u \in Users : TRUE)
  PROVE  FieldsTyped(k) /\ IdsIssued(k)
<1> DEFINE mode == CHOOSE m \in Modes : TRUE
           owner == CHOOSE u \in Users : TRUE
<1>0. k = new_graph(mode, owner)
  OBVIOUS
<1>1. mode \in Modes /\ owner \in Users
  BY InputAssumption
<1> HIDE DEF mode, owner
<1>2. IsGraph(k)
  BY <1>0 DEF IsGraph, GraphFields, new_graph
<1>3. FieldsTyped(k)
  <2>1. k.inodes \in [DOMAIN k.inodes -> Inode]
    BY <1>0, <1>1 DEF new_graph, NewInode, Inode, VnodeTypes
  <2>2. k.edges \in [DOMAIN k.edges -> Edge]
    BY <1>0 DEF new_graph, ContainsEdge, Edge, EdgeKinds, AllNames, Dots, RootDir,
           RootInode
  <2>3. /\ k.dirs \in [DOMAIN k.dirs -> Nat]
        /\ k.dir_contains \in [DOMAIN k.dir_contains -> SUBSET Nat]
        /\ k.inode_incoming_contains \in
             [DOMAIN k.inode_incoming_contains -> SUBSET Nat]
        /\ k.dir_for_inode_idx \in [DOMAIN k.dir_for_inode_idx -> Nat]
        /\ k.file_data \in [DOMAIN k.file_data -> Seq(Nat)]
    BY <1>0 DEF new_graph, RootDir, RootInode, Empty
  <2>4. Ids(k) \subseteq Nat \ {0}
    BY <1>0 DEF new_graph, Ids
  <2> QED BY <1>2, <2>1, <2>2, <2>3, <2>4 DEF FieldsTyped
<1>4. IdsIssued(k)
  <2>1. /\ DOMAIN k.inodes = {1} /\ DOMAIN k.dirs = {1} /\ DOMAIN k.edges = {1}
        /\ k.next_inode = 2 /\ k.next_dir = 2 /\ k.next_edge = 2
    BY <1>0 DEF new_graph, RootDir, RootInode
  <2>2. \A h : /\ DOMAIN h.inodes = {1} /\ DOMAIN h.dirs = {1} /\ DOMAIN h.edges = {1}
               /\ h.next_inode = 2 /\ h.next_dir = 2 /\ h.next_edge = 2
               => IdsIssued(h)
    BY DEF IdsIssued
  <2> HIDE DEF mode, owner
  <2> QED BY <2>1, <2>2
<1> QED BY <1>3, <1>4

LEMMA InitTyped == Init => TypeOK
<1> DEFINE k == new_graph(CHOOSE m \in Modes : TRUE, CHOOSE u \in Users : TRUE)
<1>1. FieldsTyped(k) /\ IdsIssued(k)
  BY RootTyped
<1>2. ASSUME Init PROVE TypeOK
  <2>1. \E x : g = [k EXCEPT !.prov_log = x]
    BY <1>1, <1>2 DEF Init, FieldsTyped, IsGraph, GraphFields
  <2> HIDE DEF k
  <2>2. SameExcept(k, g, Untyped)
    BY <1>1, <2>1 DEF SameExcept, FieldsTyped, IsGraph, GraphFields, Untyped
  <2>3. Issues(k, g)
    BY <1>1, <2>2, UntypedKeeps, IssuesNothing
  <2> QED BY <1>1, <2>3, IssuesIds DEF Issues, TypeOK
<1> QED BY <1>2

\* Every action issues the ids of what it adds, and keeps the types.
LEMMA NextIssues ==
  ASSUME TypeOK, Next
  PROVE  Issues(g, g')
<1>1. FieldsTyped(g) /\ IdsIssued(g)
  BY DEF TypeOK
<1>2. DirHandles \subseteq Nat /\ DOMAIN g.dirs \subseteq Nat /\ InodeIds \subseteq Nat
  <2>1. g.next_dir \in Nat /\ g.next_inode \in Nat
    BY <1>1 DEF FieldsTyped, Ids
  <2> QED BY <1>1, <2>1, EdgeIdsAreNat DEF DirHandles, InodeIds
<1>3. Names \subseteq AllNames
  BY DEF AllNames
<1>4. CASE CreateFile
  BY <1>1, <1>2, <1>4, CreateFileIssues DEF CreateFile, Step
<1>5. CASE Symlink
  BY <1>1, <1>2, <1>5, SymlinkIssues DEF Symlink, Step
<1>6. CASE Mkdir
  BY <1>1, <1>2, <1>6, MkdirIssues DEF Mkdir, Step, new_entry_ok
<1>7. CASE Rmdir
  BY <1>1, <1>7, RmdirIssues DEF Rmdir, Step
<1>8. CASE Link
  BY <1>1, <1>2, <1>8, LinkIssues DEF Link, Step
<1>9. CASE Unlink
  BY <1>1, <1>9, UnlinkIssues DEF Unlink, Step
<1>10. CASE Rename
  BY <1>1, <1>2, <1>10, RenameIssues DEF Rename, Step
<1>11. CASE WriteBlock
  BY <1>1, <1>2, <1>11, WriteBlockIssues DEF WriteBlock, Step
<1>12. CASE WriteData
  BY <1>1, <1>12, InputAssumption, WriteDataIssues DEF WriteData, Step
<1>13. CASE Truncate
  BY <1>1, <1>13, InputAssumption, TruncateIssues DEF Truncate, Step
<1>14. CASE Chmod
  BY <1>1, <1>14, ChmodIssues DEF Chmod, Step
<1>15. CASE Chown
  BY <1>1, <1>15, ChownIssues DEF Chown, Step
<1>16. CASE Setxattr
  BY <1>1, <1>2, <1>16, SetxattrIssues DEF Setxattr, Step
<1>17. CASE Removexattr
  BY <1>1, <1>17, RemovexattrIssues DEF Removexattr, Step
<1>18. CASE Setacl
  BY <1>1, <1>2, <1>18, SetaclIssues DEF Setacl, Step
<1>19. CASE SetQuota
  <2>1. \E x : g' = [g EXCEPT !.quotas = x]
    BY <1>19 DEF SetQuota, Step, set_quota
  <2>2. SameExcept(g, g', Untyped)
    BY <1>1, <2>1 DEF SameExcept, FieldsTyped, IsGraph, GraphFields, Untyped
  <2> QED BY <1>1, <2>2, UntypedKeeps, IssuesNothing
<1>20. CASE SetCapCtx
  <2>1. \E x : g' = [g EXCEPT !.cap_ctx = x]
    BY <1>20 DEF SetCapCtx, Step
  <2>2. SameExcept(g, g', Untyped)
    BY <1>1, <2>1 DEF SameExcept, FieldsTyped, IsGraph, GraphFields, Untyped
  <2> QED BY <1>1, <2>2, UntypedKeeps, IssuesNothing
<1> QED BY <1>4, <1>5, <1>6, <1>7, <1>8, <1>9, <1>10, <1>11, <1>12, <1>13,
           <1>14, <1>15, <1>16, <1>17, <1>18, <1>19, <1>20 DEF Next

\* The pools and indexes of the graph hold values of their types, under ids
\* that were issued, whatever calls are made and with whatever bounds.
THEOREM TypeCorrect == Spec => []TypeOK
<1>1. TypeOK /\ [Next]_g => TypeOK'
  <2> SUFFICES ASSUME TypeOK, [Next]_g PROVE TypeOK'
    OBVIOUS
  <2>1. CASE Next
    <3>1. FieldsTyped(g')
      BY <2>1, NextIssues DEF Issues
    <3>2. IdsIssued(g')
      BY <2>1, NextIssues, IssuesIds DEF TypeOK
    <3> QED BY <3>1, <3>2 DEF TypeOK
  <2>2. CASE UNCHANGED g
    BY <2>2 DEF TypeOK
  <2> QED BY <2>1, <2>2
<1> QED BY <1>1, InitTyped, PTL DEF Spec

\* No step puts an object under an id that was ever issued before: an id an
\* old holder still has never leads to a newer object.
THEOREM IdsAreFresh == Spec => IdsNeverReused
<1> DEFINE A == /\ \A i \in DOMAIN g'.inodes \ DOMAIN g.inodes : i >= g.next_inode
                /\ \A d \in DOMAIN g'.dirs \ DOMAIN g.dirs : d >= g.next_dir
                /\ \A e \in DOMAIN g'.edges \ DOMAIN g.edges : e >= g.next_edge
<1>1. TypeOK /\ [Next]_g => [A]_g
  <2> SUFFICES ASSUME TypeOK, Next PROVE A
    OBVIOUS
  <2>1. Issues(g, g')
    BY NextIssues
  <2>2. {g.next_inode, g.next_dir, g.next_edge} \subseteq Nat
    BY DEF TypeOK, FieldsTyped, Ids
  <2> QED BY <2>1, <2>2 DEF Issues
<1> QED BY <1>1, TypeCorrect, PTL DEF Spec, IdsNeverReused

-----------------------------------------------------------------------------
(***************************************************************************)
(* The namespace.                                                          *)
(***************************************************************************)
Indexed(k) == ListingsExact(k) /\ IncomingExact(k) /\ NamesExact(k)

\* Directory x holds an entry of directory y.
Holds(k, x, y) ==
  \E e \in UserEdges(k) : k.edges[e].src = x /\ k.edges[e].tgt = k.dirs[y]

\* check_no_dir_cycles in terms of Holds.
Acyclic(k) ==
  \A S \in SUBSET DOMAIN k.dirs :
    S # {} => \E x \in S : \A y \in S : ~Holds(k, x, y)

\* What the indexes have no part in.
Tree(k) ==
  /\ DirsPaired(k)
  /\ Endpoints(k)
  /\ DotEdges(k)
  /\ Named(k)
  /\ LinksCounted(k)
  /\ Acyclic(k)

\* Objects, ids and counters are the same.
SameObjects(k, h) ==
  /\ h.inodes = k.inodes
  /\ h.dirs = k.dirs
  /\ h.dir_for_inode_idx = k.dir_for_inode_idx

-----------------------------------------------------------------------------
(***************************************************************************)
(* What lookups return on a graph with exact indexes.                      *)
(***************************************************************************)
LEMMA EntriesAre ==
  ASSUME NEW k, ListingsExact(k), NEW d
  PROVE  /\ entries(k, d) = {e \in ContainsEdges(k) : k.edges[e].src = d}
         /\ user_entries(k, d) = {e \in UserEdges(k) : k.edges[e].src = d}
<1>1. entries(k, d) = {e \in ContainsEdges(k) : k.edges[e].src = d}
  BY DEF entries, ListingsExact, SetAt
<1> QED BY <1>1 DEF user_entries, UserEdges

LEMMA ChildDirsAre ==
  ASSUME NEW k, FieldsTyped(k), IdsIssued(k), ListingsExact(k), DirsPaired(k),
         NEW x
  PROVE  /\ child_dirs(k, x) \subseteq DOMAIN k.dirs
         /\ \A y \in DOMAIN k.dirs : y \in child_dirs(k, x) <=> Holds(k, x, y)
<1>1. user_entries(k, x) = {e \in UserEdges(k) : k.edges[e].src = x}
  BY EntriesAre
<1>2. None \notin DOMAIN k.dirs
  BY DEF IdsIssued, None
<1>3. \A i : IsDirInode(k, i) => /\ dir_for_inode(k, i) \in DOMAIN k.dirs
                                /\ k.dirs[dir_for_inode(k, i)] = i
  BY DEF IsDirInode, DirsPaired, dir_for_inode
<1>4. \A y \in DOMAIN k.dirs : /\ IsDirInode(k, k.dirs[y])
                               /\ dir_for_inode(k, k.dirs[y]) = y
  BY DEF DirsPaired, dir_for_inode
<1>5. child_dirs(k, x) \subseteq DOMAIN k.dirs
  BY <1>3 DEF child_dirs
<1>6. ASSUME NEW y \in DOMAIN k.dirs
      PROVE  y \in child_dirs(k, x) <=> Holds(k, x, y)
  <2>1. ASSUME y \in child_dirs(k, x) PROVE Holds(k, x, y)
    BY <1>1, <1>3, <2>1 DEF child_dirs, Holds
  <2>2. ASSUME Holds(k, x, y) PROVE y \in child_dirs(k, x)
    BY <1>1, <1>2, <1>4, <2>2 DEF child_dirs, Holds
  <2> QED BY <2>1, <2>2
<1> QED BY <1>5, <1>6

LEMMA AcyclicIs ==
  ASSUME NEW k, FieldsTyped(k), IdsIssued(k), ListingsExact(k), DirsPaired(k)
  PROVE  check_no_dir_cycles(k) <=> Acyclic(k)
<1>1. \A x : \A y \in DOMAIN k.dirs : y \in child_dirs(k, x) <=> Holds(k, x, y)
  BY ChildDirsAre
<1>2. \A S \in SUBSET DOMAIN k.dirs : \A x \in S :
        child_dirs(k, x) \cap S = {} <=> \A y \in S : ~Holds(k, x, y)
  BY <1>1
<1> QED BY <1>2 DEF check_no_dir_cycles, Acyclic

LEMMA WellFormedIs ==
  ASSUME NEW k, FieldsTyped(k), IdsIssued(k)
  PROVE  WellFormed(k) <=> Indexed(k) /\ Tree(k)
BY AcyclicIs DEF WellFormed, Indexed, Tree

\* A name is in the index, and resolves to the target of its entry, or it is
\* not there, and resolves to nothing.
LEMMA ResolvedBy ==
  ASSUME NEW k, FieldsTyped(k), IdsIssued(k), NamesExact(k), Endpoints(k),
         DirsPaired(k), DotEdges(k), NEW d, NEW n
  PROVE  /\ resolve_name(k, d, n) = None <=> <<d, n>> \notin DOMAIN k.dir_name_idx
         /\ \A e \in ContainsEdges(k) : k.edges[e].src = d /\ k.edges[e].name = n
              => resolve_name(k, d, n) = k.edges[e].tgt
         /\ resolve_name(k, d, n) # None =>
              \E e \in ContainsEdges(k) : /\ k.edges[e].src = d
                                          /\ k.edges[e].name = n
                                          /\ k.edges[e].tgt = resolve_name(k, d, n)
<1>1. DOMAIN k.dir_name_idx # {}
  BY DEF DotEdges, DirsPaired
<1>2. \A e \in ContainsEdges(k) : k.edges[e].tgt # None
  BY DEF Endpoints, IdsIssued, None
<1>3. None \notin ContainsEdges(k)
  BY DEF ContainsEdges, IdsIssued, None
<1>4. CASE <<d, n>> \in DOMAIN k.dir_name_idx
  <2>1. PICK e \in ContainsEdges(k) : /\ e = k.dir_name_idx[<<d, n>>]
                                      /\ k.edges[e].src = d /\ k.edges[e].name = n
    BY <1>4 DEF NamesExact
  <2>2. resolve_name(k, d, n) = k.edges[e].tgt
    BY <1>1, <1>4, <2>1 DEF resolve_name, lookup_name
  <2>3. \A f \in ContainsEdges(k) : k.edges[f].src = d /\ k.edges[f].name = n
          => f = e
    BY <2>1 DEF NamesExact
  <2> QED BY <1>2, <1>4, <2>1, <2>2, <2>3
<1>5. CASE <<d, n>> \notin DOMAIN k.dir_name_idx
  <2>1. resolve_name(k, d, n) = None
    BY <1>1, <1>3, <1>5 DEF resolve_name, lookup_name
  <2>2. \A e \in ContainsEdges(k) : ~(k.edges[e].src = d /\ k.edges[e].name = n)
    BY <1>5 DEF NamesExact
  <2> QED BY <1>5, <2>1, <2>2
<1> QED BY <1>4, <1>5

\* No two entries of a directory have one name.
LEMMA NamesDiffer ==
  ASSUME NEW k, NamesExact(k), NEW e \in ContainsEdges(k), NEW f \in ContainsEdges(k),
         k.edges[e].src = k.edges[f].src, k.edges[e].name = k.edges[f].name
  PROVE  e = f
BY DEF NamesExact

-----------------------------------------------------------------------------
(***************************************************************************)
(* The helpers, and what they do to the indexes.                           *)
(***************************************************************************)
IndexFields == {"edges", "dir_contains", "inode_incoming_contains", "dir_name_idx"}

LEMMA IndexFieldsOnly ==
  ASSUME NEW k, NEW h, SameExcept(k, h, IndexFields)
  PROVE  SameObjects(k, h) /\ SameIds(k, h)
BY DEF SameExcept, SameObjects, SameIds, IndexFields, GraphFields

LEMMA AddContains ==
  ASSUME NEW k, IsGraph(k), Indexed(k),
         NEW e, e \notin DOMAIN k.edges, e < EDGE_CAPACITY, NEW d, NEW i, NEW n,
         <<d, n>> \notin DOMAIN k.dir_name_idx,
         NEW h, h = add_contains(k, e, d, i, n)
  PROVE  /\ Indexed(h)
         /\ SameObjects(k, h) /\ SameIds(k, h)
         /\ DOMAIN h.edges = DOMAIN k.edges \cup {e}
         /\ ContainsEdges(h) = ContainsEdges(k) \cup {e}
         /\ h.edges[e] = ContainsEdge(d, i, n)
         /\ \A x \in ContainsEdges(k) : h.edges[x] = k.edges[x] /\ x # e
         /\ DOMAIN h.dir_name_idx = DOMAIN k.dir_name_idx \cup {<<d, n>>}
<1> DEFINE P == Put(k.edges, e, ContainsEdge(d, i, n))
           N == Put(k.dir_name_idx, <<d, n>>, e)
           L == IndexAdd(k.dir_contains, d, e)
           I == IndexAdd(k.inode_incoming_contains, i, e)
<1>1. h = [k EXCEPT !.edges = P, !.dir_name_idx = N, !.dir_contains = L,
                    !.inode_incoming_contains = I]
  BY DEF add_contains, insert_edge, insert_at, ContainsEdge, IsGraph,
         GraphFields
<1>2. /\ DOMAIN P = DOMAIN k.edges \cup {e} /\ P[e] = ContainsEdge(d, i, n)
      /\ \A x \in DOMAIN k.edges : P[x] = k.edges[x] /\ x # e
  BY DEF Put
<1>3. /\ DOMAIN N = DOMAIN k.dir_name_idx \cup {<<d, n>>} /\ N[<<d, n>>] = e
      /\ \A x \in DOMAIN k.dir_name_idx : N[x] = k.dir_name_idx[x]
  BY DEF Put
<1>4. /\ DOMAIN L = DOMAIN k.dir_contains \cup {d}
      /\ L[d] = SetAt(k.dir_contains, d) \cup {e}
      /\ \A x \in DOMAIN k.dir_contains : x # d => L[x] = k.dir_contains[x]
  BY DEF Put, IndexAdd
<1>5. /\ DOMAIN I = DOMAIN k.inode_incoming_contains \cup {i}
      /\ I[i] = SetAt(k.inode_incoming_contains, i) \cup {e}
      /\ \A x \in DOMAIN k.inode_incoming_contains :
           x # i => I[x] = k.inode_incoming_contains[x]
  BY DEF Put, IndexAdd
<1> HIDE DEF P, N, L, I
<1>6. /\ SameExcept(k, h, IndexFields)
      /\ h.edges = P /\ h.dir_name_idx = N /\ h.dir_contains = L
      /\ h.inode_incoming_contains = I
  BY <1>1 DEF SameExcept, IsGraph, GraphFields, IndexFields
<1>7. SameObjects(k, h) /\ SameIds(k, h)
  BY <1>6, IndexFieldsOnly
<1>8. /\ ContainsEdges(h) = ContainsEdges(k) \cup {e}
      /\ \A x \in ContainsEdges(k) : h.edges[x] = k.edges[x] /\ x # e
      /\ h.edges[e] = ContainsEdge(d, i, n)
  BY <1>2, <1>6 DEF ContainsEdges, ContainsEdge
<1>9. h.edges[e].src = d /\ h.edges[e].tgt = i /\ h.edges[e].name = n
  BY <1>8 DEF ContainsEdge
<1>10. ListingsExact(h)
  BY <1>4, <1>6, <1>8, <1>9 DEF Indexed, ListingsExact, SetAt
<1>11. IncomingExact(h)
  BY <1>5, <1>6, <1>8, <1>9 DEF Indexed, IncomingExact, SetAt
<1>12. NamesExact(h)
  <2>1. \A x \in ContainsEdges(h) :
          /\ <<h.edges[x].src, h.edges[x].name>> \in DOMAIN h.dir_name_idx
          /\ h.dir_name_idx[<<h.edges[x].src, h.edges[x].name>>] = x
    BY <1>3, <1>6, <1>8, <1>9 DEF Indexed, NamesExact
  <2>2. \A q \in DOMAIN h.dir_name_idx :
          /\ h.dir_name_idx[q] \in ContainsEdges(h)
          /\ q = <<h.edges[h.dir_name_idx[q]].src, h.edges[h.dir_name_idx[q]].name>>
    BY <1>3, <1>6, <1>8, <1>9 DEF Indexed, NamesExact
  <2> QED BY <2>1, <2>2 DEF NamesExact
<1> QED BY <1>2, <1>3, <1>6, <1>7, <1>8, <1>10, <1>11, <1>12 DEF Indexed

LEMMA DropContains ==
  ASSUME NEW k, IsGraph(k), Indexed(k), NEW S, S \subseteq ContainsEdges(k),
         NEW h, h = drop_contains(k, S)
  PROVE  /\ Indexed(h)
         /\ SameObjects(k, h) /\ SameIds(k, h)
         /\ DOMAIN h.edges = DOMAIN k.edges \ S
         /\ ContainsEdges(h) = ContainsEdges(k) \ S
         /\ \A x \in DOMAIN h.edges : h.edges[x] = k.edges[x]
         /\ \A q : q \in DOMAIN h.dir_name_idx <=>
                     q \in DOMAIN k.dir_name_idx /\ k.dir_name_idx[q] \notin S
<1> DEFINE P == Del(k.edges, S)
           N == Del(k.dir_name_idx, Keys(k, S \cap DOMAIN k.edges))
           L == [d \in DOMAIN k.dir_contains |->
                   k.dir_contains[d] \ {e \in S : k.edges[e].src = d}]
           I == [i \in DOMAIN k.inode_incoming_contains |->
                   k.inode_incoming_contains[i] \ {e \in S : k.edges[e].tgt = i}]
<1>1. h = [k EXCEPT !.edges = P, !.dir_name_idx = N, !.dir_contains = L,
                    !.inode_incoming_contains = I]
  BY DEF drop_contains, remove_edge, IsGraph, GraphFields
<1>2. /\ DOMAIN P = DOMAIN k.edges \ S
      /\ \A x \in DOMAIN P : P[x] = k.edges[x]
  BY DEF Del
<1>3. Keys(k, S \cap DOMAIN k.edges) = {<<k.edges[e].src, k.edges[e].name>> : e \in S}
  BY DEF Keys, ContainsEdges
<1>4. /\ DOMAIN N = {q \in DOMAIN k.dir_name_idx : k.dir_name_idx[q] \notin S}
      /\ \A q \in DOMAIN N : N[q] = k.dir_name_idx[q]
  <2> DEFINE Q == {<<k.edges[e].src, k.edges[e].name>> : e \in S}
  <2>1. DOMAIN N = DOMAIN k.dir_name_idx \ Q /\ \A q \in DOMAIN N : N[q] = k.dir_name_idx[q]
    BY <1>3 DEF Del
  <2>2. ASSUME NEW q \in DOMAIN k.dir_name_idx, k.dir_name_idx[q] \in S PROVE q \in Q
    BY <2>2 DEF Indexed, NamesExact
  <2>3. ASSUME NEW q \in Q PROVE k.dir_name_idx[q] \in S
    BY <2>3 DEF Indexed, NamesExact
  <2> QED BY <2>1, <2>2, <2>3
<1>5. /\ DOMAIN L = DOMAIN k.dir_contains
      /\ \A d \in DOMAIN L :
           L[d] = k.dir_contains[d] \ {e \in S : k.edges[e].src = d}
  OBVIOUS
<1>6. /\ DOMAIN I = DOMAIN k.inode_incoming_contains
      /\ \A i \in DOMAIN I :
           I[i] = k.inode_incoming_contains[i] \ {e \in S : k.edges[e].tgt = i}
  OBVIOUS
<1> HIDE DEF P, N, L, I
<1>7. /\ SameExcept(k, h, IndexFields)
      /\ h.edges = P /\ h.dir_name_idx = N /\ h.dir_contains = L
      /\ h.inode_incoming_contains = I
  BY <1>1 DEF SameExcept, IsGraph, GraphFields, IndexFields
<1>8. SameObjects(k, h) /\ SameIds(k, h)
  BY <1>7, IndexFieldsOnly
<1>9. ContainsEdges(h) = ContainsEdges(k) \ S
  BY <1>2, <1>7 DEF ContainsEdges
<1>10. \A x \in ContainsEdges(h) : h.edges[x] = k.edges[x]
  BY <1>2, <1>7 DEF ContainsEdges
<1>11. ListingsExact(h)
  BY <1>5, <1>7, <1>9, <1>10 DEF Indexed, ListingsExact, SetAt
<1>12. IncomingExact(h)
  BY <1>6, <1>7, <1>9, <1>10 DEF Indexed, IncomingExact, SetAt
<1>13. NamesExact(h)
  BY <1>4, <1>7, <1>9, <1>10 DEF Indexed, NamesExact
<1> QED BY <1>2, <1>4, <1>7, <1>8, <1>9, <1>11, <1>12, <1>13 DEF Indexed

LEMMA RenameContainsEdge ==
  ASSUME NEW k, FieldsTyped(k), Indexed(k), NEW e \in ContainsEdges(k), NEW n,
         <<k.edges[e].src, n>> \notin DOMAIN k.dir_name_idx,
         NEW h, h = rename_contains_edge(k, e, n)
  PROVE  /\ Indexed(h)
         /\ SameObjects(k, h) /\ SameIds(k, h)
         /\ DOMAIN h.edges = DOMAIN k.edges
         /\ ContainsEdges(h) = ContainsEdges(k)
         /\ \A x \in ContainsEdges(k) : x # e => h.edges[x] = k.edges[x]
         /\ h.edges[e] = [k.edges[e] EXCEPT !.name = n]
<1> DEFINE P == [k.edges EXCEPT ![e].name = n]
           old == <<k.edges[e].src, k.edges[e].name>>
           new == <<k.edges[e].src, n>>
           N == Put(Del(k.dir_name_idx, {old}), new, e)
<1>1. k.edges[e].name # n /\ old \in DOMAIN k.dir_name_idx /\ k.dir_name_idx[old] = e
  BY DEF Indexed, NamesExact
<1>2. h = [k EXCEPT !.edges = P, !.dir_name_idx = N]
  BY <1>1 DEF rename_contains_edge, FieldsTyped, IsGraph, GraphFields
<1>3. k.edges[e] \in Edge /\ e \in DOMAIN k.edges
  BY DEF FieldsTyped, ContainsEdges
<1>4. /\ DOMAIN P = DOMAIN k.edges
      /\ P[e] = [k.edges[e] EXCEPT !.name = n]
      /\ \A x \in DOMAIN k.edges : x # e => P[x] = k.edges[x]
  BY <1>3
<1>5. /\ DOMAIN N = (DOMAIN k.dir_name_idx \ {old}) \cup {new}
      /\ N[new] = e
      /\ \A q \in DOMAIN k.dir_name_idx \ {old} : N[q] = k.dir_name_idx[q]
  BY DEF Put, Del
<1> HIDE DEF P, N
<1>6. /\ SameExcept(k, h, IndexFields)
      /\ h.edges = P /\ h.dir_name_idx = N /\ h.dir_contains = k.dir_contains
      /\ h.inode_incoming_contains = k.inode_incoming_contains
  BY <1>2 DEF SameExcept, FieldsTyped, IsGraph, GraphFields, IndexFields
<1>7. SameObjects(k, h) /\ SameIds(k, h)
  BY <1>6, IndexFieldsOnly
<1>8. /\ P[e].kind = k.edges[e].kind /\ P[e].src = k.edges[e].src
      /\ P[e].tgt = k.edges[e].tgt /\ P[e].name = n
  BY <1>3, <1>4 DEF Edge
<1>9. ContainsEdges(h) = ContainsEdges(k)
  BY <1>4, <1>6, <1>8 DEF ContainsEdges
<1>10. /\ \A x \in ContainsEdges(k) : x # e => h.edges[x] = k.edges[x]
       /\ h.edges[e].src = k.edges[e].src /\ h.edges[e].tgt = k.edges[e].tgt
       /\ h.edges[e].name = n
  BY <1>4, <1>6, <1>8 DEF ContainsEdges
<1>11. ListingsExact(h)
  BY <1>6, <1>9, <1>10 DEF Indexed, ListingsExact, SetAt
<1>12. IncomingExact(h)
  BY <1>6, <1>9, <1>10 DEF Indexed, IncomingExact, SetAt
<1>13. NamesExact(h)
  <2>1. \A x \in ContainsEdges(h) :
          /\ <<h.edges[x].src, h.edges[x].name>> \in DOMAIN h.dir_name_idx
          /\ h.dir_name_idx[<<h.edges[x].src, h.edges[x].name>>] = x
    BY <1>1, <1>5, <1>6, <1>9, <1>10 DEF Indexed, NamesExact
  <2>2. \A q \in DOMAIN h.dir_name_idx :
          /\ h.dir_name_idx[q] \in ContainsEdges(h)
          /\ q = <<h.edges[h.dir_name_idx[q]].src, h.edges[h.dir_name_idx[q]].name>>
    BY <1>1, <1>5, <1>6, <1>9, <1>10 DEF Indexed, NamesExact
  <2> QED BY <2>1, <2>2 DEF NamesExact
<1> QED BY <1>4, <1>6, <1>7, <1>9, <1>10, <1>11, <1>12, <1>13 DEF Indexed

\* A set of a dead directory or inode leaves its index.
LEMMA ForgetKeepsIndexed ==
  ASSUME NEW k, Indexed(k), NEW h, NEW D, NEW I,
         ContainsEdges(h) = ContainsEdges(k),
         \A x \in ContainsEdges(k) : /\ h.edges[x] = k.edges[x]
                                     /\ k.edges[x].src \notin D
                                     /\ k.edges[x].tgt \notin I,
         h.dir_name_idx = k.dir_name_idx,
         h.dir_contains = Del(k.dir_contains, D),
         h.inode_incoming_contains = Del(k.inode_incoming_contains, I)
  PROVE  Indexed(h)
<1>1. ListingsExact(h)
  BY DEF Indexed, ListingsExact, SetAt, Del
<1>2. IncomingExact(h)
  BY DEF Indexed, IncomingExact, SetAt, Del
<1>3. NamesExact(h)
  BY DEF Indexed, NamesExact
<1> QED BY <1>1, <1>2, <1>3 DEF Indexed

-----------------------------------------------------------------------------
(***************************************************************************)
(* Steps that leave the tree alone: contents, attributes, blocks, ACLs,    *)
(* quotas, the log.                                                        *)
(***************************************************************************)
SameTree(k, h) ==
  /\ h.dirs = k.dirs
  /\ h.dir_for_inode_idx = k.dir_for_inode_idx
  /\ h.dir_contains = k.dir_contains
  /\ h.inode_incoming_contains = k.inode_incoming_contains
  /\ DOMAIN h.dir_name_idx = DOMAIN k.dir_name_idx
  /\ \A q \in DOMAIN k.dir_name_idx : h.dir_name_idx[q] = k.dir_name_idx[q]
  /\ ContainsEdges(h) = ContainsEdges(k)
  /\ \A x \in ContainsEdges(k) : h.edges[x] = k.edges[x]
  /\ DOMAIN h.inodes = DOMAIN k.inodes
  /\ \A i \in DOMAIN k.inodes : /\ h.inodes[i].vtype = k.inodes[i].vtype
                                /\ h.inodes[i].link_count = k.inodes[i].link_count

LEMMA FiniteIds ==
  ASSUME NEW k, FieldsTyped(k), IdsIssued(k)
  PROVE  /\ IsFiniteSet(DOMAIN k.edges) /\ IsFiniteSet(DOMAIN k.dirs)
         /\ IsFiniteSet(DOMAIN k.inodes) /\ IsFiniteSet(ContainsEdges(k))
<1>1. \A n \in Nat \ {0} : IsFiniteSet(1 .. n - 1)
  BY FS_Interval
<1>2. IsFiniteSet(DOMAIN k.edges) /\ IsFiniteSet(DOMAIN k.dirs)
      /\ IsFiniteSet(DOMAIN k.inodes)
  BY <1>1, FS_Subset DEF IdsIssued, FieldsTyped, Ids
<1> QED BY <1>2, FS_Subset DEF ContainsEdges

LEMMA SameTreeKept ==
  ASSUME NEW k, FieldsTyped(k), IdsIssued(k), WellFormed(k),
         NEW h, FieldsTyped(h), IdsIssued(h), SameTree(k, h)
  PROVE  WellFormed(h)
<1>1. Indexed(k) /\ Tree(k)
  BY WellFormedIs
<1>2. /\ ContainsEdges(h) = ContainsEdges(k)
      /\ \A x \in ContainsEdges(k) : h.edges[x] = k.edges[x]
      /\ h.dirs = k.dirs /\ h.dir_for_inode_idx = k.dir_for_inode_idx
  BY DEF SameTree
<1>3. UserEdges(h) = UserEdges(k)
  BY <1>2 DEF UserEdges
<1>4. \A i : IsDirInode(h, i) <=> IsDirInode(k, i)
  BY DEF SameTree, IsDirInode
<1>5. Indexed(h)
  <2>1. ListingsExact(h) /\ IncomingExact(h)
    BY <1>1 DEF Indexed, ListingsExact, IncomingExact, SameTree, SetAt
  <2>2. NamesExact(h)
    BY <1>1 DEF Indexed, NamesExact, SameTree
  <2> QED BY <2>1, <2>2 DEF Indexed
<1>6. DirsPaired(h)
  BY <1>1, <1>4 DEF Tree, DirsPaired, SameTree
<1>7. Endpoints(h)
  BY <1>1, <1>2 DEF Tree, Endpoints, SameTree
<1>8. DotEdges(h)
  <2>1. UserEdges(k) \subseteq ContainsEdges(k)
    BY DEF UserEdges
  <2> QED BY <1>1, <1>2, <1>3, <2>1 DEF Tree, DotEdges, SameTree
<1>9. Named(h)
  <2>1. UserEdges(k) \subseteq ContainsEdges(k)
    BY DEF UserEdges
  <2> QED BY <1>1, <1>2, <1>3, <1>4, <2>1 DEF Tree, Named, SameTree
<1>10. LinksCounted(h)
  <2>1. \A i : LinksTo(h, i) = LinksTo(k, i)
    BY <1>2 DEF LinksTo
  <2> QED BY <1>1, <2>1, FiniteIds DEF Tree, LinksCounted, SameTree
<1>11. Acyclic(h)
  BY <1>1, <1>2, <1>3, SMTT(30) DEF Tree, Acyclic, Holds, UserEdges
<1>12. Tree(h)
  BY <1>6, <1>7, <1>8, <1>9, <1>10, <1>11 DEF Tree
<1> QED BY <1>5, <1>12, WellFormedIs

\* Only fields that the tree does not use, or the sizes and attributes of
\* inodes.
Apart == {"caps", "blocks", "cap_grants", "inode_points_to", "file_data", "xattrs",
          "inode_xattrs", "symlink_targets", "acls", "quotas", "prov_log",
          "cap_ctx"} \cup Counters

LEMMA ApartIsSameTree ==
  ASSUME NEW k, NEW h, SameExcept(k, h, Apart)
  PROVE  SameTree(k, h)
<1>1. /\ h.dirs = k.dirs /\ h.dir_for_inode_idx = k.dir_for_inode_idx
      /\ h.dir_contains = k.dir_contains /\ h.edges = k.edges
      /\ h.inode_incoming_contains = k.inode_incoming_contains
      /\ h.dir_name_idx = k.dir_name_idx /\ h.inodes = k.inodes
  BY DEF SameExcept, GraphFields, Apart, Counters
<1> QED BY <1>1 DEF SameTree, ContainsEdges

LEMMA SameTreeTrans ==
  ASSUME NEW k, NEW m, NEW h, SameTree(k, m), SameTree(m, h)
  PROVE  SameTree(k, h)
BY DEF SameTree

\* The provenance entry and the quota walk of an operation.
LEMMA FinishSameTree ==
  ASSUME NEW k, FieldsTyped(k), NEW d, NEW delta, NEW op, NEW i
  PROVE  /\ SameTree(k, record_prov(k, op, i))
         /\ SameTree(k, update_quota(k, d, delta))
         /\ SameIds(k, record_prov(k, op, i)) /\ SameIds(k, update_quota(k, d, delta))
<1>1. SameExcept(k, record_prov(k, op, i), {"prov_log"})
  BY DEF record_prov, SameExcept, FieldsTyped, IsGraph, GraphFields
<1>2. SameExcept(k, update_quota(k, d, delta), {"quotas"})
  BY DEF update_quota, SameExcept, FieldsTyped, IsGraph, GraphFields
<1>3. SameExcept(k, record_prov(k, op, i), Apart)
  BY <1>1 DEF SameExcept, Apart
<1>4. SameExcept(k, update_quota(k, d, delta), Apart)
  BY <1>2 DEF SameExcept, Apart
<1>5. SameIds(k, record_prov(k, op, i)) /\ SameIds(k, update_quota(k, d, delta))
  BY <1>1, <1>2 DEF SameExcept, SameIds, GraphFields
<1> QED BY <1>3, <1>4, <1>5, ApartIsSameTree

-----------------------------------------------------------------------------
(***************************************************************************)
(* The tree after each operation, in terms of the entries that come and go.*)
(***************************************************************************)

\* Different directories have different inodes, and there is one root.
LEMMA DirsDiffer ==
  ASSUME NEW k, DirsPaired(k), NEW x \in DOMAIN k.dirs, NEW y \in DOMAIN k.dirs,
         k.dirs[x] = k.dirs[y]
  PROVE  x = y
BY DEF DirsPaired

\* A ".." entry belongs to a directory that has a holder, and leads to it.
LEMMA DotDotsAre ==
  ASSUME NEW k, NamesExact(k), Tree(k), NEW e \in ContainsEdges(k),
         k.edges[e].name = ".."
  PROVE  /\ k.edges[e].src # RootDir
         /\ \E f \in UserEdges(k) : /\ k.edges[f].tgt = k.dirs[k.edges[e].src]
                                    /\ k.edges[e].tgt = k.dirs[k.edges[f].src]
<1>1. k.edges[e].src \in DOMAIN k.dirs /\ k.edges[e].src # RootDir
  BY DEF NamesExact, Tree, DotEdges, Endpoints
<1>2. k.dirs[k.edges[e].src] \in DOMAIN k.inodes \ {RootInode}
  BY <1>1, DirsDiffer DEF Tree, DirsPaired, IsDirInode
<1>3. PICK f \in UserEdges(k) : k.edges[f].tgt = k.dirs[k.edges[e].src]
  BY <1>2 DEF Tree, Named
<1>4. k.edges[e].tgt = k.dirs[k.edges[f].src]
  BY <1>3 DEF Tree, DotEdges
<1> QED BY <1>1, <1>3, <1>4

\* CREATE and SYMLINK: a new inode under a new entry.
LEMMA CreateTree ==
  ASSUME NEW k, Tree(k), NEW h,
         NEW d \in DOMAIN k.dirs, NEW n, n \notin Dots, NEW e, NEW i, NEW inode,
         i \notin DOMAIN k.inodes, inode.vtype # "Directory", inode.link_count = 1,
         h.inodes = Put(k.inodes, i, inode),
         h.dirs = k.dirs, h.dir_for_inode_idx = k.dir_for_inode_idx,
         IsFiniteSet(DOMAIN h.edges),
         e \notin ContainsEdges(k),
         ContainsEdges(h) = ContainsEdges(k) \cup {e},
         h.edges[e] = ContainsEdge(d, i, n),
         \A x \in ContainsEdges(k) : h.edges[x] = k.edges[x],
         DOMAIN h.dir_name_idx = DOMAIN k.dir_name_idx \cup {<<d, n>>}
  PROVE  Tree(h)
<1>1. /\ h.edges[e].src = d /\ h.edges[e].tgt = i /\ h.edges[e].name = n
      /\ n # "." /\ n # ".."
  BY DEF ContainsEdge, Dots
<1>2. UserEdges(h) = UserEdges(k) \cup {e}
  BY <1>1 DEF UserEdges
<1>3. /\ DOMAIN h.inodes = DOMAIN k.inodes \cup {i}
      /\ h.inodes[i] = inode
      /\ \A j \in DOMAIN k.inodes : h.inodes[j] = k.inodes[j] /\ j # i
  BY DEF Put
<1>4. \A j : IsDirInode(h, j) <=> IsDirInode(k, j)
  BY <1>3 DEF IsDirInode
<1>5. \A x \in ContainsEdges(k) : k.edges[x].tgt # i /\ k.edges[x].src \in DOMAIN k.dirs
  BY DEF Tree, Endpoints
<1>6. \A x \in DOMAIN k.dirs : k.dirs[x] # i
  BY DEF Tree, DirsPaired, IsDirInode
<1>7. DirsPaired(h)
  BY <1>3, <1>4 DEF Tree, DirsPaired
<1>8. Endpoints(h)
  BY <1>1, <1>3 DEF Tree, Endpoints
<1>9. DotEdges(h)
  <2>1. \A x \in DOMAIN h.dirs : /\ <<x, ".">> \in DOMAIN h.dir_name_idx
                                 /\ x # RootDir <=> <<x, "..">> \in DOMAIN h.dir_name_idx
    BY <1>1 DEF Tree, DotEdges
  <2>2. \A x \in ContainsEdges(h) :
          h.edges[x].name = "." => h.edges[x].tgt = h.dirs[h.edges[x].src]
    BY <1>1 DEF Tree, DotEdges
  <2>3. ASSUME NEW x \in ContainsEdges(h), NEW f \in UserEdges(h),
               h.edges[x].name = "..", h.edges[f].tgt = h.dirs[h.edges[x].src]
        PROVE  h.edges[x].tgt = h.dirs[h.edges[f].src]
    <3>1. x \in ContainsEdges(k)
      BY <1>1, <2>3
    <3>2. f \in UserEdges(k)
      BY <1>1, <1>2, <1>5, <1>6, <2>3, <3>1
    <3> QED BY <2>3, <3>1, <3>2 DEF Tree, DotEdges, UserEdges
  <2> QED BY <2>1, <2>2, <2>3 DEF DotEdges
<1>10. Named(h)
  <2>1. \A j \in DOMAIN h.inodes \ {RootInode} : \E x \in UserEdges(h) : h.edges[x].tgt = j
    BY <1>1, <1>2, <1>3 DEF Tree, Named, UserEdges
  <2>2. i # RootInode
    BY <1>6 DEF Tree, DirsPaired
  <2>3. \A x \in UserEdges(h) : h.edges[x].tgt # RootInode
    BY <1>1, <1>2, <2>2 DEF Tree, Named, UserEdges
  <2>4. ASSUME NEW x \in UserEdges(h), NEW f \in UserEdges(h),
               h.edges[x].tgt = h.edges[f].tgt, IsDirInode(h, h.edges[x].tgt)
        PROVE  x = f
    <3>1. ~IsDirInode(h, i)
      BY <1>3 DEF IsDirInode
    <3>2. x # e /\ f # e
      BY <1>1, <2>4, <3>1
    <3>3. x \in UserEdges(k) /\ f \in UserEdges(k)
      BY <1>2, <3>2
    <3> QED BY <1>4, <2>4, <3>3 DEF Tree, Named, UserEdges
  <2> QED BY <2>1, <2>3, <2>4 DEF Named
<1>11. LinksCounted(h)
  <2>1. \A j \in DOMAIN k.inodes : LinksTo(h, j) = LinksTo(k, j)
    BY <1>1, <1>3 DEF LinksTo
  <2>2. LinksTo(h, i) = {e}
    BY <1>1, <1>5 DEF LinksTo
  <2>3. Cardinality({e}) = 1
    BY FS_Singleton
  <2> QED BY <1>3, <2>1, <2>2, <2>3 DEF Tree, LinksCounted
<1>12. Acyclic(h)
  <2>1. \A x : \A y \in DOMAIN k.dirs : Holds(h, x, y) => Holds(k, x, y)
    BY <1>1, <1>2, <1>6 DEF Holds, UserEdges
  <2> QED BY <2>1 DEF Tree, Acyclic
<1> QED BY <1>7, <1>8, <1>9, <1>10, <1>11, <1>12 DEF Tree

\* MKDIR: a new directory with its inode, entry and dot entries.
MkdirStep(k, h, d, n, i, c, inode, e1, e2, e3) ==
  /\ d \in DOMAIN k.dirs /\ n \notin Dots
  /\ i \notin DOMAIN k.inodes /\ c \notin DOMAIN k.dirs
  /\ inode.vtype = "Directory" /\ inode.link_count = 2
  /\ h.inodes = Put(k.inodes, i, inode)
  /\ h.dirs = Put(k.dirs, c, i)
  /\ h.dir_for_inode_idx = Put(k.dir_for_inode_idx, i, c)
  /\ IsFiniteSet(DOMAIN h.edges)
  /\ {e1, e2, e3} \cap ContainsEdges(k) = {} /\ e1 # e2 /\ e1 # e3 /\ e2 # e3
  /\ ContainsEdges(h) = ContainsEdges(k) \cup {e1, e2, e3}
  /\ h.edges[e1] = ContainsEdge(d, i, n)
  /\ h.edges[e2] = ContainsEdge(c, i, ".")
  /\ h.edges[e3] = ContainsEdge(c, k.dirs[d], "..")
  /\ \A x \in ContainsEdges(k) : h.edges[x] = k.edges[x]
  /\ DOMAIN h.dir_name_idx =
       DOMAIN k.dir_name_idx \cup {<<d, n>>, <<c, ".">>, <<c, "..">>}
  /\ \A q \in DOMAIN k.dir_name_idx : q[1] # c

LEMMA MkdirTree ==
  ASSUME NEW k, Tree(k), NEW h, NEW d, NEW n, NEW i, NEW c, NEW inode,
         NEW e1, NEW e2, NEW e3, MkdirStep(k, h, d, n, i, c, inode, e1, e2, e3)
  PROVE  Tree(h)
<1> USE DEF MkdirStep
<1>1. /\ h.edges[e1].src = d /\ h.edges[e1].tgt = i /\ h.edges[e1].name = n
      /\ h.edges[e2].src = c /\ h.edges[e2].tgt = i /\ h.edges[e2].name = "."
      /\ h.edges[e3].src = c /\ h.edges[e3].tgt = k.dirs[d] /\ h.edges[e3].name = ".."
      /\ n # "." /\ n # ".."
  BY DEF ContainsEdge, Dots
<1>2. UserEdges(h) = UserEdges(k) \cup {e1}
  BY <1>1 DEF UserEdges, Dots
<1>3. /\ DOMAIN h.inodes = DOMAIN k.inodes \cup {i} /\ h.inodes[i] = inode
      /\ \A j \in DOMAIN k.inodes : h.inodes[j] = k.inodes[j] /\ j # i
  BY DEF Put
<1>4. /\ DOMAIN h.dirs = DOMAIN k.dirs \cup {c} /\ h.dirs[c] = i
      /\ \A x \in DOMAIN k.dirs : h.dirs[x] = k.dirs[x] /\ x # c
  BY DEF Put
<1>5. /\ DOMAIN h.dir_for_inode_idx = DOMAIN k.dir_for_inode_idx \cup {i}
      /\ h.dir_for_inode_idx[i] = c
      /\ \A j \in DOMAIN k.dir_for_inode_idx :
           j # i => h.dir_for_inode_idx[j] = k.dir_for_inode_idx[j]
  BY DEF Put
<1>6. \A j : IsDirInode(h, j) <=> IsDirInode(k, j) \/ j = i
  BY <1>3 DEF IsDirInode
<1>7. \A x \in ContainsEdges(k) : /\ k.edges[x].tgt # i
                                  /\ k.edges[x].src \in DOMAIN k.dirs
  BY DEF Tree, Endpoints
<1>8. /\ \A x \in DOMAIN k.dirs : k.dirs[x] # i /\ k.dirs[x] \in DOMAIN k.inodes
      /\ i \notin DOMAIN k.dir_for_inode_idx
  BY DEF Tree, DirsPaired, IsDirInode
<1>9. DirsPaired(h)
  <2>1. RootDir \in DOMAIN h.dirs /\ h.dirs[RootDir] = RootInode
    BY <1>4 DEF Tree, DirsPaired
  <2>2. \A x \in DOMAIN h.dirs :
          /\ IsDirInode(h, h.dirs[x]) /\ h.dirs[x] \in DOMAIN h.dir_for_inode_idx
          /\ h.dir_for_inode_idx[h.dirs[x]] = x
    BY <1>4, <1>5, <1>6, <1>8 DEF Tree, DirsPaired
  <2>3. \A j \in DOMAIN h.dir_for_inode_idx :
          /\ h.dir_for_inode_idx[j] \in DOMAIN h.dirs
          /\ h.dirs[h.dir_for_inode_idx[j]] = j
    BY <1>4, <1>5, <1>8 DEF Tree, DirsPaired
  <2>4. \A j \in DOMAIN h.inodes :
          h.inodes[j].vtype = "Directory" => j \in DOMAIN h.dir_for_inode_idx
    BY <1>3, <1>5 DEF Tree, DirsPaired
  <2> QED BY <2>1, <2>2, <2>3, <2>4 DEF DirsPaired
<1>10. Endpoints(h)
  BY <1>1, <1>3, <1>4, <1>8 DEF Tree, Endpoints
<1>11. DotEdges(h)
  <2>1. \A x \in DOMAIN h.dirs : <<x, ".">> \in DOMAIN h.dir_name_idx
    BY <1>4 DEF Tree, DotEdges
  <2>2. ASSUME NEW x \in DOMAIN h.dirs
        PROVE  x # RootDir <=> <<x, "..">> \in DOMAIN h.dir_name_idx
    <3>1. CASE x = c
      BY <1>4, <3>1 DEF Tree, DirsPaired
    <3>2. CASE x # c
      BY <1>1, <1>4, <3>2 DEF Tree, DotEdges
    <3> QED BY <3>1, <3>2
  <2>3. \A x \in ContainsEdges(h) :
          h.edges[x].name = "." => h.edges[x].tgt = h.dirs[h.edges[x].src]
    BY <1>1, <1>4, <1>7 DEF Tree, DotEdges
  <2>4. ASSUME NEW x \in ContainsEdges(h), NEW f \in UserEdges(h),
               h.edges[x].name = "..", h.edges[f].tgt = h.dirs[h.edges[x].src]
        PROVE  h.edges[x].tgt = h.dirs[h.edges[f].src]
    <3>1. CASE x = e3
      <4>1. f = e1
        BY <1>1, <1>2, <1>4, <1>7, <2>4, <3>1 DEF UserEdges
      <4> QED BY <1>1, <1>4, <3>1, <4>1
    <3>2. CASE x # e3
      <4>1. x \in ContainsEdges(k) /\ h.edges[x] = k.edges[x]
        BY <1>1, <2>4, <3>2
      <4>2. h.dirs[h.edges[x].src] = k.dirs[k.edges[x].src]
            /\ k.dirs[k.edges[x].src] # i
        BY <1>4, <1>7, <1>8, <4>1
      <4>3. f \in UserEdges(k) /\ h.edges[f] = k.edges[f]
        BY <1>1, <1>2, <2>4, <4>2 DEF UserEdges
      <4>4. h.dirs[h.edges[f].src] = k.dirs[k.edges[f].src]
        BY <1>4, <1>7, <4>3 DEF UserEdges
      <4> QED BY <2>4, <4>1, <4>2, <4>3, <4>4 DEF Tree, DotEdges
    <3> QED BY <3>1, <3>2
  <2> QED BY <2>1, <2>2, <2>3, <2>4 DEF DotEdges
<1>12. Named(h)
  <2>1. \A j \in DOMAIN h.inodes \ {RootInode} : \E x \in UserEdges(h) : h.edges[x].tgt = j
    BY <1>1, <1>2, <1>3 DEF Tree, Named, UserEdges
  <2>2. i # RootInode
    BY <1>8 DEF Tree, DirsPaired
  <2>3. \A x \in UserEdges(h) : h.edges[x].tgt # RootInode
    BY <1>1, <1>2, <2>2 DEF Tree, Named, UserEdges
  <2>4. ASSUME NEW x \in UserEdges(h), NEW f \in UserEdges(h),
               h.edges[x].tgt = h.edges[f].tgt, IsDirInode(h, h.edges[x].tgt)
        PROVE  x = f
    <3>1. CASE x = e1 \/ f = e1
      BY <1>1, <1>2, <1>7, <2>4, <3>1 DEF UserEdges
    <3>2. CASE x # e1 /\ f # e1
      <4>1. /\ x \in UserEdges(k) /\ f \in UserEdges(k)
            /\ h.edges[x] = k.edges[x] /\ h.edges[f] = k.edges[f]
        BY <1>2, <3>2 DEF UserEdges
      <4>2. h.edges[x].tgt # i
        BY <1>7, <4>1 DEF UserEdges
      <4> QED BY <1>6, <2>4, <4>1, <4>2 DEF Tree, Named
    <3> QED BY <3>1, <3>2
  <2> QED BY <2>1, <2>3, <2>4 DEF Named
<1>13. LinksCounted(h)
  <2>1. \A j \in DOMAIN k.inodes : LinksTo(h, j) = LinksTo(k, j)
    BY <1>1, <1>3 DEF LinksTo
  <2>2. LinksTo(h, i) = {e1} \cup {e2}
    BY <1>1, <1>7, <1>8 DEF LinksTo
  <2>3. Cardinality({e1} \cup {e2}) = 2
    <3>1. IsFiniteSet({e1}) /\ Cardinality({e1}) = 1 /\ e2 \notin {e1}
      BY FS_Singleton
    <3>2. Cardinality({e1} \cup {e2}) = Cardinality({e1}) + 1
      BY <3>1, FS_AddElement
    <3> QED BY <3>1, <3>2
  <2> QED BY <1>3, <2>1, <2>2, <2>3 DEF Tree, LinksCounted
<1>14. Acyclic(h)
  <2>1. \A x, y \in DOMAIN k.dirs : Holds(h, x, y) => Holds(k, x, y)
    BY <1>1, <1>2, <1>4, <1>8 DEF Holds, UserEdges
  <2>2. \A y : ~Holds(h, c, y)
    BY <1>1, <1>2, <1>4, <1>7 DEF Holds, UserEdges
  <2>3. ASSUME NEW S \in SUBSET DOMAIN h.dirs, S # {}
        PROVE  \E x \in S : \A y \in S : ~Holds(h, x, y)
    <3>1. CASE c \in S
      BY <2>2, <3>1
    <3>2. CASE c \notin S
      <4>1. S \in SUBSET DOMAIN k.dirs
        BY <1>4, <3>2
      <4> QED BY <2>1, <2>3, <4>1 DEF Tree, Acyclic
    <3> QED BY <3>1, <3>2
  <2> QED BY <2>3 DEF Acyclic
<1> QED BY <1>9, <1>10, <1>11, <1>12, <1>13, <1>14 DEF Tree

\* RMDIR: an empty directory goes with its inode, its entry and all that it
\* holds, and nothing is left that leads to it.
LEMMA RmdirTree ==
  ASSUME NEW k, NamesExact(k), Tree(k), NEW h,
         NEW c \in DOMAIN k.dirs, NEW i, i = k.dirs[c],
         NEW e \in UserEdges(k), k.edges[e].tgt = i,
         \A x \in UserEdges(k) : k.edges[x].src # c,
         h.inodes = Del(k.inodes, {i}), h.dirs = Del(k.dirs, {c}),
         h.dir_for_inode_idx = Del(k.dir_for_inode_idx, {i}),
         IsFiniteSet(DOMAIN h.edges),
         ContainsEdges(h) = {x \in ContainsEdges(k) : x # e /\ k.edges[x].src # c},
         \A x \in ContainsEdges(h) : h.edges[x] = k.edges[x],
         \A q : q \in DOMAIN h.dir_name_idx <=>
                  q \in DOMAIN k.dir_name_idx /\ k.dir_name_idx[q] \in ContainsEdges(h)
  PROVE  /\ Tree(h)
         /\ \A x \in ContainsEdges(h) : h.edges[x].src # c /\ h.edges[x].tgt # i
         /\ UserEdges(h) = UserEdges(k) \ {e}
<1>1. UserEdges(h) = UserEdges(k) \ {e}
  BY DEF UserEdges
<1>2. /\ e \in ContainsEdges(k) /\ k.edges[e].name \notin Dots
      /\ i # RootInode /\ c # RootDir
  BY DEF UserEdges, Tree, Named, DirsPaired
<1>3. /\ DOMAIN h.inodes = DOMAIN k.inodes \ {i}
      /\ \A j \in DOMAIN h.inodes : h.inodes[j] = k.inodes[j]
      /\ DOMAIN h.dirs = DOMAIN k.dirs \ {c}
      /\ \A x \in DOMAIN h.dirs : h.dirs[x] = k.dirs[x]
      /\ DOMAIN h.dir_for_inode_idx = DOMAIN k.dir_for_inode_idx \ {i}
      /\ \A j \in DOMAIN h.dir_for_inode_idx :
           h.dir_for_inode_idx[j] = k.dir_for_inode_idx[j]
  BY DEF Del
<1>4. \A j : IsDirInode(h, j) <=> IsDirInode(k, j) /\ j # i
  BY <1>3 DEF IsDirInode
<1>5. IsDirInode(k, i) /\ \A x \in DOMAIN h.dirs : k.dirs[x] # i
  BY <1>3, DirsDiffer DEF Tree, DirsPaired
<1>6. ASSUME NEW x \in ContainsEdges(h)
      PROVE  h.edges[x].src # c /\ h.edges[x].tgt # i
  <2>1. /\ x \in ContainsEdges(k) /\ x # e /\ k.edges[x].src # c
        /\ h.edges[x] = k.edges[x]
    OBVIOUS
  <2>2. k.edges[x].src \in DOMAIN h.dirs
    BY <1>3, <2>1 DEF Tree, Endpoints
  <2>3. CASE k.edges[x].name = "."
    <3>1. k.edges[x].tgt = k.dirs[k.edges[x].src]
      BY <2>1, <2>3 DEF Tree, DotEdges
    <3> QED BY <1>5, <2>1, <2>2, <3>1
  <2>4. CASE k.edges[x].name = ".."
    <3>1. PICK f \in UserEdges(k) : k.edges[x].tgt = k.dirs[k.edges[f].src]
      BY <2>1, <2>4, DotDotsAre
    <3>2. k.edges[f].src \in DOMAIN h.dirs
      BY <1>3 DEF Tree, Endpoints, UserEdges
    <3> QED BY <1>5, <3>1, <3>2
  <2>5. CASE k.edges[x].name \notin Dots
    BY <1>5, <2>1, <2>5 DEF Tree, Named, UserEdges
  <2> QED BY <2>1, <2>3, <2>4, <2>5 DEF Dots
<1>7. DirsPaired(h)
  <2>1. RootDir \in DOMAIN h.dirs /\ h.dirs[RootDir] = RootInode
    BY <1>2, <1>3 DEF Tree, DirsPaired
  <2>2. ASSUME NEW x \in DOMAIN h.dirs
        PROVE  /\ IsDirInode(h, h.dirs[x])
               /\ h.dirs[x] \in DOMAIN h.dir_for_inode_idx
               /\ h.dir_for_inode_idx[h.dirs[x]] = x
    <3>1. x \in DOMAIN k.dirs /\ h.dirs[x] = k.dirs[x] /\ k.dirs[x] # i
      BY <1>3, <1>5
    <3>2. /\ IsDirInode(k, k.dirs[x]) /\ k.dirs[x] \in DOMAIN k.dir_for_inode_idx
          /\ k.dir_for_inode_idx[k.dirs[x]] = x
      BY <3>1 DEF Tree, DirsPaired
    <3> QED BY <1>3, <1>4, <3>1, <3>2
  <2>3. ASSUME NEW j \in DOMAIN h.dir_for_inode_idx
        PROVE  /\ h.dir_for_inode_idx[j] \in DOMAIN h.dirs
               /\ h.dirs[h.dir_for_inode_idx[j]] = j
    <3>1. /\ j \in DOMAIN k.dir_for_inode_idx /\ j # i
          /\ h.dir_for_inode_idx[j] = k.dir_for_inode_idx[j]
      BY <1>3
    <3>2. /\ k.dir_for_inode_idx[j] \in DOMAIN k.dirs
          /\ k.dirs[k.dir_for_inode_idx[j]] = j
      BY <3>1 DEF Tree, DirsPaired
    <3>3. k.dir_for_inode_idx[j] \in DOMAIN h.dirs
      BY <1>3, <3>1, <3>2
    <3> QED BY <1>3, <3>1, <3>2, <3>3, ZenonT(30)
  <2>4. \A j \in DOMAIN h.inodes :
          h.inodes[j].vtype = "Directory" => j \in DOMAIN h.dir_for_inode_idx
    BY <1>3 DEF Tree, DirsPaired
  <2> QED BY <2>1, <2>2, <2>3, <2>4 DEF DirsPaired
<1>8. Endpoints(h)
  BY <1>3, <1>6 DEF Tree, Endpoints
<1>9. DotEdges(h)
  <2>1. ASSUME NEW x \in DOMAIN h.dirs, NEW n \in Dots
        PROVE  <<x, n>> \in DOMAIN h.dir_name_idx <=> <<x, n>> \in DOMAIN k.dir_name_idx
    <3>1. ASSUME <<x, n>> \in DOMAIN k.dir_name_idx
          PROVE  k.dir_name_idx[<<x, n>>] \in ContainsEdges(h)
      <4>1. PICK f \in ContainsEdges(k) : /\ f = k.dir_name_idx[<<x, n>>]
                                          /\ k.edges[f].src = x /\ k.edges[f].name = n
        BY <3>1 DEF NamesExact
      <4> QED BY <1>2, <1>3, <4>1
    <3> QED BY <3>1
  <2>2. \A x \in DOMAIN h.dirs : /\ <<x, ".">> \in DOMAIN h.dir_name_idx
                                 /\ x # RootDir <=> <<x, "..">> \in DOMAIN h.dir_name_idx
    BY <1>3, <2>1 DEF Tree, DotEdges, Dots
  <2>0. \A x \in ContainsEdges(h) :
          /\ x \in ContainsEdges(k) /\ h.edges[x] = k.edges[x]
          /\ h.dirs[h.edges[x].src] = k.dirs[k.edges[x].src]
    BY <1>3, <1>8 DEF Endpoints
  <2>3. \A x \in ContainsEdges(h) :
          h.edges[x].name = "." => h.edges[x].tgt = h.dirs[h.edges[x].src]
    BY <2>0 DEF Tree, DotEdges
  <2>4. ASSUME NEW x \in ContainsEdges(h), NEW f \in UserEdges(h),
               h.edges[x].name = "..", h.edges[f].tgt = h.dirs[h.edges[x].src]
        PROVE  h.edges[x].tgt = h.dirs[h.edges[f].src]
    <3>1. f \in UserEdges(k) /\ f \in ContainsEdges(h)
      BY <1>1 DEF UserEdges
    <3>2. k.edges[x].name = ".." /\ k.edges[f].tgt = k.dirs[k.edges[x].src]
      BY <2>0, <2>4, <3>1
    <3>3. k.edges[x].tgt = k.dirs[k.edges[f].src]
      BY <2>0, <3>1, <3>2 DEF Tree, DotEdges
    <3> QED BY <2>0, <3>1, <3>3
  <2> QED BY <2>2, <2>3, <2>4 DEF DotEdges
<1>10. Named(h)
  <2>1. ASSUME NEW j \in DOMAIN h.inodes \ {RootInode}
        PROVE  \E x \in UserEdges(h) : h.edges[x].tgt = j
    <3>1. PICK x \in UserEdges(k) : k.edges[x].tgt = j
      BY <1>3 DEF Tree, Named
    <3>2. x \in UserEdges(h)
      BY <1>1, <1>3, <3>1
    <3> QED BY <3>1, <3>2 DEF UserEdges
  <2>2. \A x \in UserEdges(h) : h.edges[x].tgt # RootInode
    BY <1>1 DEF Tree, Named, UserEdges
  <2>3. \A x, f \in UserEdges(h) :
          h.edges[x].tgt = h.edges[f].tgt /\ IsDirInode(h, h.edges[x].tgt) => x = f
    BY <1>1, <1>4 DEF Tree, Named, UserEdges
  <2> QED BY <2>1, <2>2, <2>3 DEF Named
<1>11. LinksCounted(h)
  <2>1. ASSUME NEW j \in DOMAIN h.inodes PROVE LinksTo(h, j) = LinksTo(k, j)
    <3>1. j \in DOMAIN k.inodes /\ j # i
      BY <1>3
    <3>2. \A x \in ContainsEdges(k) :
            k.edges[x].src = c => k.edges[x].name = ".." \/ k.edges[x].tgt = i
      BY DEF Tree, DotEdges, UserEdges, Dots
    <3> QED BY <3>1, <3>2 DEF LinksTo
  <2> QED BY <1>3, <2>1 DEF Tree, LinksCounted
<1>12. Acyclic(h)
  <2>1. \A x, y \in DOMAIN h.dirs : Holds(h, x, y) => Holds(k, x, y)
    BY <1>1, <1>3 DEF Holds, UserEdges
  <2> QED BY <1>3, <2>1, ZenonT(30) DEF Tree, Acyclic
<1> QED BY <1>1, <1>6, <1>7, <1>8, <1>9, <1>10, <1>11, <1>12 DEF Tree

\* Steps that leave directories and all entries but one as they are: the dot
\* entries stay what they were, and no directory gets below another.
LEMMA SameDirectories ==
  ASSUME NEW k, Tree(k), NEW h,
         DirsPaired(h), Endpoints(h), Named(h), LinksCounted(h),
         h.dirs = k.dirs,
         \A x \in DOMAIN k.dirs, n \in Dots :
           <<x, n>> \in DOMAIN h.dir_name_idx <=> <<x, n>> \in DOMAIN k.dir_name_idx,
         \A x \in ContainsEdges(h) : h.edges[x].name \in Dots =>
           x \in ContainsEdges(k) /\ h.edges[x] = k.edges[x],
         \A x \in UserEdges(h) : IsDirInode(h, h.edges[x].tgt) =>
           /\ x \in UserEdges(k)
           /\ h.edges[x].src = k.edges[x].src /\ h.edges[x].tgt = k.edges[x].tgt
  PROVE  Tree(h)
<1>1. \A y \in DOMAIN k.dirs : IsDirInode(h, h.dirs[y])
  BY DEF DirsPaired
<1>2. DotEdges(h)
  <2>1. \A x \in DOMAIN h.dirs : /\ <<x, ".">> \in DOMAIN h.dir_name_idx
                                 /\ x # RootDir <=> <<x, "..">> \in DOMAIN h.dir_name_idx
    BY DEF Tree, DotEdges, Dots
  <2>2. \A x \in ContainsEdges(h) :
          h.edges[x].name = "." => h.edges[x].tgt = h.dirs[h.edges[x].src]
    BY DEF Tree, DotEdges, Dots
  <2>3. ASSUME NEW x \in ContainsEdges(h), NEW f \in UserEdges(h),
               h.edges[x].name = "..", h.edges[f].tgt = h.dirs[h.edges[x].src]
        PROVE  h.edges[x].tgt = h.dirs[h.edges[f].src]
    <3>1. x \in ContainsEdges(k) /\ h.edges[x] = k.edges[x]
      BY <2>3 DEF Dots
    <3>2. IsDirInode(h, h.edges[f].tgt)
      BY <1>1, <2>3, <3>1 DEF Tree, Endpoints
    <3> QED BY <2>3, <3>1, <3>2 DEF Tree, DotEdges
  <2> QED BY <2>1, <2>2, <2>3 DEF DotEdges
<1>3. Acyclic(h)
  <2>1. \A x : \A y \in DOMAIN k.dirs : Holds(h, x, y) => Holds(k, x, y)
    BY <1>1 DEF Holds
  <2> QED BY <2>1 DEF Tree, Acyclic
<1> QED BY <1>2, <1>3 DEF Tree

\* Entries and objects of h that k has too, of the same kinds.
LEMMA DotNamesFollowEntries ==
  ASSUME NEW k, NamesExact(k), NEW h, NamesExact(h),
         \A x \in ContainsEdges(h) : h.edges[x].name \in Dots =>
           x \in ContainsEdges(k) /\ h.edges[x].src = k.edges[x].src
                                  /\ h.edges[x].name = k.edges[x].name,
         \A x \in ContainsEdges(k) : k.edges[x].name \in Dots =>
           x \in ContainsEdges(h) /\ h.edges[x].src = k.edges[x].src
                                  /\ h.edges[x].name = k.edges[x].name,
         NEW d, NEW n \in Dots
  PROVE  <<d, n>> \in DOMAIN h.dir_name_idx <=> <<d, n>> \in DOMAIN k.dir_name_idx
<1>1. ASSUME <<d, n>> \in DOMAIN h.dir_name_idx
      PROVE  <<d, n>> \in DOMAIN k.dir_name_idx
  <2>1. PICK x \in ContainsEdges(h) : h.edges[x].src = d /\ h.edges[x].name = n
    BY <1>1 DEF NamesExact
  <2>2. x \in ContainsEdges(k) /\ k.edges[x].src = d /\ k.edges[x].name = n
    BY <2>1
  <2> QED BY <2>2 DEF NamesExact
<1>2. ASSUME <<d, n>> \in DOMAIN k.dir_name_idx
      PROVE  <<d, n>> \in DOMAIN h.dir_name_idx
  <2>1. PICK x \in ContainsEdges(k) : k.edges[x].src = d /\ k.edges[x].name = n
    BY <1>2 DEF NamesExact
  <2>2. x \in ContainsEdges(h) /\ h.edges[x].src = d /\ h.edges[x].name = n
    BY <2>1
  <2> QED BY <2>2 DEF NamesExact
<1> QED BY <1>1, <1>2

\* LINK: one more entry, and one more link counted.
LEMMA LinkTree ==
  ASSUME NEW k, NamesExact(k), Tree(k), NEW h, NamesExact(h),
         NEW d \in DOMAIN k.dirs, NEW n, n \notin Dots, NEW e,
         NEW i \in DOMAIN k.inodes, k.inodes[i].vtype # "Directory",
         DOMAIN h.inodes = DOMAIN k.inodes,
         \A j \in DOMAIN k.inodes : h.inodes[j].vtype = k.inodes[j].vtype,
         \A j \in DOMAIN k.inodes \ {i} :
           h.inodes[j].link_count = k.inodes[j].link_count,
         h.inodes[i].link_count = k.inodes[i].link_count + 1,
         h.dirs = k.dirs, h.dir_for_inode_idx = k.dir_for_inode_idx,
         IsFiniteSet(ContainsEdges(k)), IsFiniteSet(DOMAIN h.edges),
         e \notin ContainsEdges(k),
         ContainsEdges(h) = ContainsEdges(k) \cup {e},
         h.edges[e] = ContainsEdge(d, i, n),
         \A x \in ContainsEdges(k) : h.edges[x] = k.edges[x]
  PROVE  Tree(h)
<1>1. /\ h.edges[e].src = d /\ h.edges[e].tgt = i /\ h.edges[e].name = n
      /\ n # "." /\ n # ".."
  BY DEF ContainsEdge, Dots
<1>2. UserEdges(h) = UserEdges(k) \cup {e}
  BY <1>1 DEF UserEdges
<1>3. \A j : IsDirInode(h, j) <=> IsDirInode(k, j)
  BY DEF IsDirInode
<1>4. ~IsDirInode(k, i) /\ i # RootInode
  BY DEF IsDirInode, Tree, DirsPaired
<1>5. DirsPaired(h) /\ Endpoints(h)
  BY <1>1, <1>3 DEF Tree, DirsPaired, Endpoints
<1>6. Named(h)
  <2>1. \A j \in DOMAIN h.inodes \ {RootInode} : \E x \in UserEdges(h) : h.edges[x].tgt = j
    BY <1>2 DEF Tree, Named, UserEdges
  <2>2. \A x \in UserEdges(h) : h.edges[x].tgt # RootInode
    BY <1>1, <1>2, <1>4 DEF Tree, Named, UserEdges
  <2>3. \A x, f \in UserEdges(h) :
          h.edges[x].tgt = h.edges[f].tgt /\ IsDirInode(h, h.edges[x].tgt) => x = f
    BY <1>1, <1>2, <1>3, <1>4 DEF Tree, Named, UserEdges
  <2> QED BY <2>1, <2>2, <2>3 DEF Named
<1>7. LinksCounted(h)
  <2>1. \A j \in DOMAIN k.inodes \ {i} : LinksTo(h, j) = LinksTo(k, j)
    BY <1>1 DEF LinksTo
  <2>2. LinksTo(h, i) = LinksTo(k, i) \cup {e}
    BY <1>1 DEF LinksTo
  <2>3. IsFiniteSet(LinksTo(k, i)) /\ e \notin LinksTo(k, i)
    BY FS_Subset DEF LinksTo
  <2>4. Cardinality(LinksTo(h, i)) = Cardinality(LinksTo(k, i)) + 1
    BY <2>2, <2>3, FS_AddElement
  <2> QED BY <2>1, <2>4 DEF Tree, LinksCounted
<1>8. \A x \in DOMAIN k.dirs, q \in Dots :
        <<x, q>> \in DOMAIN h.dir_name_idx <=> <<x, q>> \in DOMAIN k.dir_name_idx
  <2>1. \A x \in ContainsEdges(h) : h.edges[x].name \in Dots =>
          x \in ContainsEdges(k) /\ h.edges[x] = k.edges[x]
    BY <1>1
  <2> QED BY <2>1, DotNamesFollowEntries
<1>9. \A x \in UserEdges(h) : IsDirInode(h, h.edges[x].tgt) =>
        x \in UserEdges(k) /\ h.edges[x] = k.edges[x]
  BY <1>1, <1>2, <1>3, <1>4 DEF UserEdges
<1> QED BY <1>1, <1>5, <1>6, <1>7, <1>8, <1>9, SameDirectories

\* UNLINK: an entry of a file goes, and one link less is counted; with the
\* last one the inode goes.
LEMMA UnlinkTree ==
  ASSUME NEW k, NamesExact(k), Tree(k), NEW h, NamesExact(h),
         NEW e \in UserEdges(k), NEW i, i = k.edges[e].tgt,
         k.inodes[i].vtype # "Directory", NEW gone \in BOOLEAN,
         DOMAIN h.inodes = DOMAIN k.inodes \ (IF gone THEN {i} ELSE {}),
         \A j \in DOMAIN h.inodes : h.inodes[j].vtype = k.inodes[j].vtype,
         \A j \in DOMAIN k.inodes \ {i} :
           h.inodes[j].link_count = k.inodes[j].link_count,
         gone \/ h.inodes[i].link_count = k.inodes[i].link_count - 1,
         gone <=> k.inodes[i].link_count - 1 = 0,
         h.dirs = k.dirs, h.dir_for_inode_idx = k.dir_for_inode_idx,
         IsFiniteSet(ContainsEdges(k)), IsFiniteSet(DOMAIN h.edges),
         ContainsEdges(h) = ContainsEdges(k) \ {e},
         \A x \in ContainsEdges(h) : h.edges[x] = k.edges[x]
  PROVE  /\ Tree(h)
         /\ gone => \A x \in ContainsEdges(h) : h.edges[x].tgt # i
<1>1. /\ i \in DOMAIN k.inodes /\ ~IsDirInode(k, i) /\ i # RootInode
      /\ e \in ContainsEdges(k) /\ k.edges[e].name \notin Dots
  BY DEF IsDirInode, Tree, DirsPaired, Endpoints, UserEdges
<1>2. UserEdges(h) = UserEdges(k) \ {e}
  BY DEF UserEdges
<1>3. \A j : IsDirInode(h, j) <=> IsDirInode(k, j)
  BY <1>1 DEF IsDirInode
<1>4. \A x \in ContainsEdges(k) : k.edges[x].name \in Dots => k.edges[x].tgt # i
  <2>1. ASSUME NEW x \in ContainsEdges(k), k.edges[x].name \in Dots
        PROVE  IsDirInode(k, k.edges[x].tgt)
    <3>1. CASE k.edges[x].name = "."
      BY <3>1 DEF Tree, DotEdges, DirsPaired, Endpoints
    <3>2. CASE k.edges[x].name = ".."
      <4>1. PICK f \in UserEdges(k) : k.edges[x].tgt = k.dirs[k.edges[f].src]
        BY <3>2, DotDotsAre
      <4> QED BY <4>1 DEF Tree, DirsPaired, Endpoints, UserEdges
    <3> QED BY <2>1, <3>1, <3>2 DEF Dots
  <2> QED BY <1>1, <2>1
<1>5. LinksTo(k, i) = {x \in UserEdges(k) : k.edges[x].tgt = i}
  BY <1>4 DEF LinksTo, UserEdges, Dots
<1>6. /\ LinksTo(h, i) = LinksTo(k, i) \ {e}
      /\ LinksTo(h, i) = {x \in UserEdges(h) : h.edges[x].tgt = i}
      /\ e \in LinksTo(k, i) /\ IsFiniteSet(LinksTo(k, i))
  <2>1. LinksTo(h, i) = LinksTo(k, i) \ {e}
    BY DEF LinksTo
  <2>2. IsFiniteSet(LinksTo(k, i))
    BY FS_Subset DEF LinksTo
  <2> QED BY <1>2, <1>5, <2>1, <2>2 DEF UserEdges
<1>7. /\ IsFiniteSet(LinksTo(h, i))
      /\ Cardinality(LinksTo(h, i)) = k.inodes[i].link_count - 1
  BY <1>1, <1>6, FS_RemoveElement DEF Tree, LinksCounted
<1>8. gone <=> LinksTo(h, i) = {}
  BY <1>7, FS_EmptySet
<1>9. gone => \A x \in ContainsEdges(h) : h.edges[x].tgt # i
  BY <1>4, <1>8 DEF LinksTo, Dots
<1>10. DirsPaired(h)
  <2>1. \A x \in DOMAIN k.dirs : k.dirs[x] # i
    BY <1>1 DEF Tree, DirsPaired
  <2> QED BY <1>1, <1>3 DEF Tree, DirsPaired
<1>11. Endpoints(h)
  BY <1>9 DEF Tree, Endpoints
<1>12. Named(h)
  <2>1. ASSUME NEW j \in DOMAIN h.inodes \ {RootInode}
        PROVE  \E x \in UserEdges(h) : h.edges[x].tgt = j
    <3>1. CASE j = i
      BY <1>6, <1>8, <3>1
    <3>2. CASE j # i
      <4>1. PICK x \in UserEdges(k) : k.edges[x].tgt = j
        BY DEF Tree, Named
      <4>2. x \in UserEdges(h)
        BY <1>2, <3>2, <4>1
      <4> QED BY <4>1, <4>2 DEF UserEdges
    <3> QED BY <3>1, <3>2
  <2>2. \A x \in UserEdges(h) : h.edges[x].tgt # RootInode
    BY <1>2 DEF Tree, Named, UserEdges
  <2>3. \A x, f \in UserEdges(h) :
          h.edges[x].tgt = h.edges[f].tgt /\ IsDirInode(h, h.edges[x].tgt) => x = f
    BY <1>2, <1>3 DEF Tree, Named, UserEdges
  <2> QED BY <2>1, <2>2, <2>3 DEF Named
<1>13. LinksCounted(h)
  <2>1. \A j \in DOMAIN k.inodes \ {i} : LinksTo(h, j) = LinksTo(k, j)
    BY DEF LinksTo
  <2> QED BY <1>7, <2>1 DEF Tree, LinksCounted
<1>14. \A x \in DOMAIN k.dirs, q \in Dots :
         <<x, q>> \in DOMAIN h.dir_name_idx <=> <<x, q>> \in DOMAIN k.dir_name_idx
  <2>1. \A x \in ContainsEdges(k) : k.edges[x].name \in Dots => x \in ContainsEdges(h)
    BY <1>1
  <2> QED BY <2>1, DotNamesFollowEntries
<1>15. \A x \in UserEdges(h) : x \in UserEdges(k) /\ h.edges[x] = k.edges[x]
  BY <1>2 DEF UserEdges
<1> QED BY <1>9, <1>10, <1>11, <1>12, <1>13, <1>14, <1>15, SameDirectories

\* RENAME within a directory: an entry gets another name.
LEMMA RenameTree ==
  ASSUME NEW k, NamesExact(k), Tree(k), NEW h, NamesExact(h),
         NEW e \in UserEdges(k), NEW n, n \notin Dots,
         h.inodes = k.inodes, h.dirs = k.dirs,
         h.dir_for_inode_idx = k.dir_for_inode_idx, IsFiniteSet(DOMAIN h.edges),
         ContainsEdges(h) = ContainsEdges(k),
         \A x \in ContainsEdges(k) : x # e => h.edges[x] = k.edges[x],
         h.edges[e].src = k.edges[e].src, h.edges[e].tgt = k.edges[e].tgt,
         h.edges[e].name = n
  PROVE  Tree(h)
<1>1. e \in ContainsEdges(k) /\ k.edges[e].name \notin Dots
  BY DEF UserEdges
<1>2. UserEdges(h) = UserEdges(k)
  BY <1>1 DEF UserEdges
<1>3. \A j : IsDirInode(h, j) <=> IsDirInode(k, j)
  BY DEF IsDirInode
<1>4. \A x \in ContainsEdges(k) :
        h.edges[x].src = k.edges[x].src /\ h.edges[x].tgt = k.edges[x].tgt
  OBVIOUS
<1>5. DirsPaired(h) /\ Endpoints(h)
  BY <1>3, <1>4 DEF Tree, DirsPaired, Endpoints
<1>6. Named(h)
  BY <1>2, <1>3, <1>4 DEF Tree, Named, UserEdges
<1>7. LinksCounted(h)
  <2>1. \A j : LinksTo(h, j) = LinksTo(k, j)
    BY <1>1 DEF LinksTo, Dots
  <2> QED BY <2>1 DEF Tree, LinksCounted
<1>8. \A x \in ContainsEdges(k) :
        h.edges[x].name \in Dots \/ k.edges[x].name \in Dots => h.edges[x] = k.edges[x]
  BY <1>1
<1>9. \A x \in DOMAIN k.dirs, q \in Dots :
        <<x, q>> \in DOMAIN h.dir_name_idx <=> <<x, q>> \in DOMAIN k.dir_name_idx
  BY <1>8, DotNamesFollowEntries
<1> QED BY <1>2, <1>4, <1>5, <1>6, <1>7, <1>8, <1>9, SameDirectories DEF UserEdges

\* RENAME across directories: the entry e is replaced by e2 in directory d,
\* and ".." of a directory follows.
MoveStep(k, h, e, i, e2, dd, n) ==
  /\ e \in UserEdges(k) /\ i = k.edges[e].tgt
  /\ e2 \notin ContainsEdges(k) /\ dd \in DOMAIN k.dirs /\ n \notin Dots
  /\ h.inodes = k.inodes /\ h.dirs = k.dirs
  /\ h.dir_for_inode_idx = k.dir_for_inode_idx
  /\ IsFiniteSet(ContainsEdges(k)) /\ IsFiniteSet(DOMAIN h.edges)
  /\ ContainsEdges(h) = (ContainsEdges(k) \ {e}) \cup {e2}
  /\ h.edges[e2] = ContainsEdge(dd, i, n)
  /\ \A x \in ContainsEdges(k) \ {e} :
       /\ h.edges[x].src = k.edges[x].src /\ h.edges[x].name = k.edges[x].name
       /\ h.edges[x].tgt = IF k.edges[x].name = ".." /\ k.dirs[k.edges[x].src] = i
                           THEN k.dirs[dd] ELSE k.edges[x].tgt

\* T holds the directory of inode i, if it has one, and all that is below it;
\* directory d is not in T.
KeepsClearOf(k, i, d, T) ==
  /\ \A c \in DOMAIN k.dirs : k.dirs[c] = i => c \in T /\ d \notin T
  /\ \A x \in T : \A y \in DOMAIN k.dirs : Holds(k, x, y) => y \in T

LEMMA MoveTree ==
  ASSUME NEW k, NamesExact(k), Tree(k), NEW h, NamesExact(h),
         NEW e, NEW i, NEW e2, NEW dd, NEW n, MoveStep(k, h, e, i, e2, dd, n),
         NEW T, KeepsClearOf(k, i, dd, T)
  PROVE  Tree(h)
<1>0. /\ e \in UserEdges(k) /\ i = k.edges[e].tgt
      /\ e2 \notin ContainsEdges(k) /\ dd \in DOMAIN k.dirs /\ n \notin Dots
      /\ h.inodes = k.inodes /\ h.dirs = k.dirs
      /\ h.dir_for_inode_idx = k.dir_for_inode_idx
      /\ IsFiniteSet(ContainsEdges(k)) /\ IsFiniteSet(DOMAIN h.edges)
      /\ ContainsEdges(h) = (ContainsEdges(k) \ {e}) \cup {e2}
      /\ h.edges[e2] = ContainsEdge(dd, i, n)
      /\ \A x \in ContainsEdges(k) \ {e} :
           /\ h.edges[x].src = k.edges[x].src /\ h.edges[x].name = k.edges[x].name
           /\ h.edges[x].tgt = IF k.edges[x].name = ".." /\ k.dirs[k.edges[x].src] = i
                               THEN k.dirs[dd] ELSE k.edges[x].tgt
      /\ \A c \in DOMAIN k.dirs : k.dirs[c] = i => c \in T /\ dd \notin T
      /\ \A x \in T : \A y \in DOMAIN k.dirs : Holds(k, x, y) => y \in T
  BY DEF MoveStep, KeepsClearOf
<1> USE <1>0
<1>1. /\ h.edges[e2].src = dd /\ h.edges[e2].tgt = i /\ h.edges[e2].name = n
      /\ n # "." /\ n # ".."
  BY DEF ContainsEdge, Dots
<1>2. /\ e \in ContainsEdges(k) /\ k.edges[e].name \notin Dots
      /\ i # RootInode /\ i \in DOMAIN k.inodes
  BY DEF UserEdges, Tree, Named, Endpoints
<1>3. UserEdges(h) = (UserEdges(k) \ {e}) \cup {e2}
  BY <1>1, <1>2 DEF UserEdges, Dots
<1>4. \A x \in UserEdges(k) \ {e} :
        h.edges[x].src = k.edges[x].src /\ h.edges[x].tgt = k.edges[x].tgt
  BY DEF UserEdges, Dots
<1>5. \A j : IsDirInode(h, j) <=> IsDirInode(k, j)
  BY DEF IsDirInode
<1>6. \A x \in DOMAIN k.dirs : k.dirs[x] \in DOMAIN k.inodes /\ IsDirInode(k, k.dirs[x])
  BY DEF Tree, DirsPaired, IsDirInode
<1>7. DirsPaired(h)
  BY <1>5 DEF Tree, DirsPaired
<1>8. Endpoints(h)
  BY <1>1, <1>2, <1>6 DEF Tree, Endpoints
<1>9. DotEdges(h)
  <2>1. \A x \in DOMAIN k.dirs, q \in Dots :
          <<x, q>> \in DOMAIN h.dir_name_idx <=> <<x, q>> \in DOMAIN k.dir_name_idx
    <3>1. \A x \in ContainsEdges(h) : h.edges[x].name \in Dots => x \in ContainsEdges(k) \ {e}
      BY <1>1 DEF Dots
    <3>2. \A x \in ContainsEdges(k) : k.edges[x].name \in Dots =>
            x \in ContainsEdges(h) /\ x \in ContainsEdges(k) \ {e}
      BY <1>2
    <3> QED BY <3>1, <3>2, DotNamesFollowEntries
  <2>2. \A x \in DOMAIN h.dirs : /\ <<x, ".">> \in DOMAIN h.dir_name_idx
                                 /\ x # RootDir <=> <<x, "..">> \in DOMAIN h.dir_name_idx
    BY <2>1 DEF Tree, DotEdges, Dots
  <2>3. \A x \in ContainsEdges(h) :
          h.edges[x].name = "." => h.edges[x].tgt = h.dirs[h.edges[x].src]
    BY <1>1 DEF Tree, DotEdges
  <2>4. ASSUME NEW x \in ContainsEdges(h), NEW f \in UserEdges(h),
               h.edges[x].name = "..", h.edges[f].tgt = h.dirs[h.edges[x].src]
        PROVE  h.edges[x].tgt = h.dirs[h.edges[f].src]
    <3>1. /\ x \in ContainsEdges(k) \ {e} /\ k.edges[x].name = ".."
          /\ h.edges[x].src = k.edges[x].src
      BY <1>1, <2>4
    <3>2. CASE k.dirs[k.edges[x].src] = i
      <4>1. h.edges[x].tgt = k.dirs[dd] /\ h.edges[f].tgt = i
        BY <2>4, <3>1, <3>2
      <4>2. IsDirInode(k, i)
        BY <1>6, <3>1, <3>2 DEF Tree, Endpoints
      <4>3. f = e2
        BY <1>3, <1>4, <4>1, <4>2 DEF Tree, Named
      <4> QED BY <1>1, <4>1, <4>3
    <3>3. CASE k.dirs[k.edges[x].src] # i
      <4>1. h.edges[x].tgt = k.edges[x].tgt
        BY <3>1, <3>3
      <4>2. f \in UserEdges(k) \ {e}
        BY <1>1, <1>3, <2>4, <3>1, <3>3
      <4>3. k.edges[f].tgt = k.dirs[k.edges[x].src] /\ h.edges[f].src = k.edges[f].src
        BY <1>4, <2>4, <3>1, <4>2
      <4>4. k.edges[x].tgt = k.dirs[k.edges[f].src]
        BY <3>1, <4>2, <4>3 DEF Tree, DotEdges
      <4> QED BY <4>1, <4>3, <4>4
    <3> QED BY <3>2, <3>3
  <2> QED BY <2>2, <2>3, <2>4 DEF DotEdges
<1>10. Named(h)
  <2>1. ASSUME NEW j \in DOMAIN h.inodes \ {RootInode}
        PROVE  \E x \in UserEdges(h) : h.edges[x].tgt = j
    <3>1. PICK x \in UserEdges(k) : k.edges[x].tgt = j
      BY DEF Tree, Named
    <3>2. CASE x = e
      BY <1>1, <1>3, <3>1, <3>2
    <3>3. CASE x # e
      BY <1>3, <1>4, <3>1, <3>3
    <3> QED BY <3>2, <3>3
  <2>2. \A x \in UserEdges(h) : h.edges[x].tgt # RootInode
    BY <1>1, <1>2, <1>3, <1>4 DEF Tree, Named
  <2>3. ASSUME NEW x \in UserEdges(h), NEW f \in UserEdges(h),
               h.edges[x].tgt = h.edges[f].tgt, IsDirInode(h, h.edges[x].tgt)
        PROVE  x = f
    <3>1. CASE x = e2 \/ f = e2
      <4>1. ASSUME NEW y \in UserEdges(k) \ {e}, h.edges[y].tgt = i, IsDirInode(h, i)
            PROVE  FALSE
        BY <1>4, <1>5, <4>1 DEF Tree, Named
      <4> QED BY <1>1, <1>3, <2>3, <3>1, <4>1
    <3>2. CASE x # e2 /\ f # e2
      BY <1>3, <1>4, <1>5, <2>3, <3>2 DEF Tree, Named
    <3> QED BY <3>1, <3>2
  <2> QED BY <2>1, <2>2, <2>3 DEF Named
<1>11. LinksCounted(h)
  <2>1. ASSUME NEW x \in ContainsEdges(k) \ {e}, NEW j
        PROVE  x \in LinksTo(h, j) <=> x \in LinksTo(k, j)
    BY DEF LinksTo
  <2>2. \A j \in DOMAIN k.inodes \ {i} : LinksTo(h, j) = LinksTo(k, j)
    BY <1>1, <1>2, <2>1 DEF LinksTo
  <2>3. LinksTo(h, i) = (LinksTo(k, i) \ {e}) \cup {e2}
    BY <1>1, <1>2, <2>1 DEF LinksTo
  <2>4. IsFiniteSet(LinksTo(k, i)) /\ e \in LinksTo(k, i) /\ e2 \notin LinksTo(k, i)
    <3>1. IsFiniteSet(LinksTo(k, i))
      BY FS_Subset DEF LinksTo
    <3> QED BY <1>2, <3>1 DEF LinksTo, Dots
  <2>5. /\ IsFiniteSet(LinksTo(k, i) \ {e})
        /\ Cardinality(LinksTo(k, i) \ {e}) = Cardinality(LinksTo(k, i)) - 1
    BY <2>4, FS_RemoveElement
  <2>6. Cardinality(LinksTo(h, i)) = Cardinality(LinksTo(k, i)) - 1 + 1
    BY <2>3, <2>4, <2>5, FS_AddElement
  <2>7. Cardinality(LinksTo(h, i)) = Cardinality(LinksTo(k, i))
    BY <2>4, <2>6, FS_CardinalityType
  <2> QED BY <2>2, <2>7 DEF Tree, LinksCounted
<1>12. Acyclic(h)
  <2>1. \A x : \A y \in DOMAIN k.dirs :
          Holds(h, x, y) => Holds(k, x, y) \/ (x = dd /\ k.dirs[y] = i)
    BY <1>1, <1>3, <1>4 DEF Holds
  <2>2. ASSUME NEW S \in SUBSET DOMAIN k.dirs, S # {}
        PROVE  \E x \in S : \A y \in S : ~Holds(h, x, y)
    <3>1. CASE S \cap T = {}
      <4>1. PICK x \in S : \A y \in S : ~Holds(k, x, y)
        BY <2>2 DEF Tree, Acyclic
      <4> QED BY <2>1, <3>1, <4>1
    <3>2. CASE S \cap T # {}
      <4>1. PICK x \in S \cap T : \A y \in S \cap T : ~Holds(k, x, y)
        BY <3>2 DEF Tree, Acyclic
      <4> QED BY <2>1, <4>1
    <3> QED BY <3>1, <3>2
  <2> QED BY <2>2 DEF Acyclic
<1> QED BY <1>7, <1>8, <1>9, <1>10, <1>11, <1>12 DEF Tree

-----------------------------------------------------------------------------
(***************************************************************************)
(* The operations.                                                         *)
(***************************************************************************)
Sound(k) == FieldsTyped(k) /\ IdsIssued(k) /\ WellFormed(k)

\* What the lemmas about trees and indexes speak of.
LEMMA SoundGraph ==
  ASSUME NEW k, Sound(k)
  PROVE  /\ FieldsTyped(k) /\ IdsIssued(k) /\ IsGraph(k)
         /\ Indexed(k) /\ NamesExact(k) /\ ListingsExact(k) /\ Tree(k)
         /\ DirsPaired(k) /\ Endpoints(k) /\ DotEdges(k)
         /\ IsFiniteSet(DOMAIN k.edges) /\ IsFiniteSet(ContainsEdges(k))
         /\ k.next_edge \in Nat \ {0} /\ k.next_inode \in Nat \ {0}
         /\ k.next_dir \in Nat \ {0}
         /\ \A x \in Nat : /\ x >= k.next_edge => x \notin DOMAIN k.edges
                           /\ x >= k.next_inode => x \notin DOMAIN k.inodes
                           /\ x >= k.next_dir => x \notin DOMAIN k.dirs
<1>1. /\ k.next_edge \in Nat \ {0} /\ k.next_inode \in Nat \ {0}
      /\ k.next_dir \in Nat \ {0}
  BY DEF Sound, FieldsTyped, Ids
<1>2. \A x \in Nat : /\ x >= k.next_edge => x \notin DOMAIN k.edges
                     /\ x >= k.next_inode => x \notin DOMAIN k.inodes
                     /\ x >= k.next_dir => x \notin DOMAIN k.dirs
  BY <1>1 DEF Sound, IdsIssued
<1>3. Indexed(k) /\ Tree(k)
  BY WellFormedIs DEF Sound
<1> QED BY <1>1, <1>2, <1>3, FiniteIds DEF Sound, FieldsTyped, Indexed, Tree

LEMMA SoundIf ==
  ASSUME NEW k, FieldsTyped(k), IdsIssued(k), NEW h, Issues(k, h), Indexed(h), Tree(h)
  PROVE  Sound(h)
BY IssuesIds, WellFormedIs DEF Sound, Issues

LEMMA IndexedSame ==
  ASSUME NEW k, Indexed(k), NEW h, h.edges = k.edges,
         h.dir_contains = k.dir_contains,
         h.inode_incoming_contains = k.inode_incoming_contains,
         h.dir_name_idx = k.dir_name_idx
  PROVE  Indexed(h) /\ ContainsEdges(h) = ContainsEdges(k)
<1>1. ContainsEdges(h) = ContainsEdges(k)
  BY DEF ContainsEdges
<1> QED BY <1>1 DEF Indexed, ListingsExact, IncomingExact, NamesExact

\* What is left of an operation when the tree is done.
LEMMA SameTreeSound ==
  ASSUME NEW k, Sound(k), NEW h, Issues(k, h), SameTree(k, h)
  PROVE  Sound(h)
BY IssuesIds, SameTreeKept DEF Sound, Issues

LEMMA FinishSound ==
  ASSUME NEW k, Sound(k), NEW d, NEW delta, NEW op, NEW i,
         NEW h \in {record_prov(k, op, i), update_quota(k, d, delta),
                    record_prov(update_quota(k, d, delta), op, i)}
  PROVE  Sound(h) /\ SameTree(k, h) /\ SameIds(k, h)
<1>1. FieldsTyped(k) /\ Issues(k, k)
  BY IssuesRefl DEF Sound
<1>2. ASSUME NEW m, FieldsTyped(m), NEW f \in {record_prov(m, op, i), update_quota(m, d, delta)}
      PROVE  SameTree(m, f) /\ SameIds(m, f)
  BY <1>2, FinishSameTree
<1>3. FieldsTyped(update_quota(k, d, delta))
  BY <1>1, Finish DEF Issues
<1>4. SameTree(k, h) /\ SameIds(k, h)
  BY <1>1, <1>2, <1>3, SameTreeTrans DEF SameIds
<1>5. Issues(k, h)
  BY <1>1, Finish
<1> QED BY <1>4, <1>5, SameTreeSound

\* Step from k to h that enters object i in directory d under the name n, and
\* makes the object if it is not there.
Adds(k, h, d, n, i) ==
  /\ \E e : /\ UserEdges(h) = UserEdges(k) \cup {e} /\ e \notin UserEdges(k)
            /\ h.edges[e] = ContainsEdge(d, i, n)
  /\ \A x \in UserEdges(k) : h.edges[x] = k.edges[x]
  /\ \A x \in DOMAIN k.dirs : x \in DOMAIN h.dirs /\ h.dirs[x] = k.dirs[x]
  /\ DOMAIN h.inodes = DOMAIN k.inodes \cup {i}
  /\ \A j \in DOMAIN k.inodes : h.inodes[j].vtype = k.inodes[j].vtype

LEMMA AddsThenSameTree ==
  ASSUME NEW k, NEW m, NEW h, NEW d, NEW n, NEW i, Adds(k, m, d, n, i),
         SameTree(m, h)
  PROVE  Adds(k, h, d, n, i)
<1>1. /\ UserEdges(h) = UserEdges(m)
      /\ \A x \in UserEdges(m) : h.edges[x] = m.edges[x]
  BY DEF SameTree, UserEdges
<1>2. PICK e : /\ UserEdges(m) = UserEdges(k) \cup {e} /\ e \notin UserEdges(k)
               /\ m.edges[e] = ContainsEdge(d, i, n)
  BY DEF Adds
<1>3. /\ UserEdges(h) = UserEdges(k) \cup {e} /\ e \notin UserEdges(k)
      /\ h.edges[e] = ContainsEdge(d, i, n)
  BY <1>1, <1>2
<1> QED BY <1>1, <1>3 DEF Adds, SameTree

LEMMA CreateNodeSound ==
  ASSUME NEW k, Sound(k), NEW d \in DOMAIN k.dirs, NEW n \in AllNames \ Dots,
         resolve_name(k, d, n) = None,
         NEW inode \in Inode, inode.vtype # "Directory", inode.link_count = 1,
         k.next_inode < NODE_CAPACITY, k.next_edge < EDGE_CAPACITY,
         NEW h, h = create_node(k, d, n, inode)
  PROVE  /\ Sound(h) /\ h.next_dir = k.next_dir
         /\ Adds(k, h, d, n, k.next_inode)
<1> DEFINE i == k.next_inode
           e == k.next_edge
           P == Put(k.inodes, i, inode)
           m == insert_inode([k EXCEPT !.next_inode = i + 1, !.next_edge = e + 1],
                             i, inode)
<1>1. /\ IsGraph(k) /\ Indexed(k) /\ Tree(k) /\ i \notin DOMAIN k.inodes
      /\ e \notin DOMAIN k.edges /\ FieldsTyped(k) /\ IdsIssued(k)
  BY SoundGraph
<1>2. m = [k EXCEPT !.next_inode = i + 1, !.next_edge = e + 1, !.inodes = P]
  BY <1>1 DEF insert_inode, insert_at, IsGraph, GraphFields
<1>3. h = add_contains(m, e, d, i, n)
  BY DEF create_node
<1> HIDE DEF m, P
<1>4. /\ IsGraph(m) /\ m.inodes = P /\ m.dirs = k.dirs /\ m.edges = k.edges
      /\ m.dir_for_inode_idx = k.dir_for_inode_idx
      /\ m.dir_contains = k.dir_contains /\ m.dir_name_idx = k.dir_name_idx
      /\ m.inode_incoming_contains = k.inode_incoming_contains
      /\ m.next_dir = k.next_dir
  BY <1>1, <1>2 DEF IsGraph, GraphFields
<1>5. Indexed(m) /\ ContainsEdges(m) = ContainsEdges(k)
  BY <1>1, <1>4, IndexedSame
<1>6. <<d, n>> \notin DOMAIN k.dir_name_idx
  BY SoundGraph, ResolvedBy
<1>7. /\ Indexed(h) /\ SameObjects(m, h) /\ SameIds(m, h)
      /\ DOMAIN h.edges = DOMAIN k.edges \cup {e}
      /\ ContainsEdges(h) = ContainsEdges(k) \cup {e}
      /\ h.edges[e] = ContainsEdge(d, i, n)
      /\ \A x \in ContainsEdges(k) : h.edges[x] = k.edges[x] /\ x # e
      /\ DOMAIN h.dir_name_idx = DOMAIN k.dir_name_idx \cup {<<d, n>>}
  <2>1. e < EDGE_CAPACITY /\ e \notin DOMAIN m.edges /\ <<d, n>> \notin DOMAIN m.dir_name_idx
    BY <1>1, <1>4, <1>6
  <2> HIDE DEF e, i
  <2> QED BY <1>3, <1>4, <1>5, <2>1, AddContains
<1>8. IsFiniteSet(DOMAIN h.edges)
  BY <1>7, SoundGraph, FS_AddElement
<1>9. Tree(h)
  <2>1. /\ h.inodes = Put(k.inodes, i, inode) /\ h.dirs = k.dirs
        /\ h.dir_for_inode_idx = k.dir_for_inode_idx
    BY <1>4, <1>7 DEF SameObjects, P
  <2>2. n \notin Dots /\ e \notin ContainsEdges(k) /\ i \notin DOMAIN k.inodes
    BY <1>1, <1>7
  <2>3. /\ ContainsEdges(h) = ContainsEdges(k) \cup {e}
        /\ h.edges[e] = ContainsEdge(d, i, n)
        /\ \A x \in ContainsEdges(k) : h.edges[x] = k.edges[x]
        /\ DOMAIN h.dir_name_idx = DOMAIN k.dir_name_idx \cup {<<d, n>>}
    BY <1>7
  <2> HIDE DEF e, i
  <2> QED BY <1>1, <1>8, <2>1, <2>2, <2>3, CreateTree
<1>10. Issues(k, h)
  BY <1>1, CreateNodeIssues, EdgeIdsAreNat
<1>11. h.next_dir = k.next_dir
  BY <1>4, <1>7 DEF SameIds
<1>12. Adds(k, h, d, n, i)
  <2>1. /\ h.edges[e].name = n /\ h.edges[e] = ContainsEdge(d, i, n)
        /\ ContainsEdges(h) = ContainsEdges(k) \cup {e}
        /\ \A x \in ContainsEdges(k) : h.edges[x] = k.edges[x] /\ x # e
    BY <1>7 DEF ContainsEdge
  <2>2. /\ h.dirs = k.dirs /\ DOMAIN h.inodes = DOMAIN k.inodes \cup {i}
        /\ \A j \in DOMAIN k.inodes : h.inodes[j] = k.inodes[j]
    BY <1>1, <1>4, <1>7 DEF SameObjects, P, Put
  <2> HIDE DEF e, i
  <2>3. UserEdges(h) = UserEdges(k) \cup {e} /\ e \notin UserEdges(k)
    BY <2>1 DEF UserEdges
  <2>4. \A x \in UserEdges(k) : h.edges[x] = k.edges[x]
    BY <2>1 DEF UserEdges
  <2> QED BY <2>1, <2>2, <2>3, <2>4 DEF Adds
<1> QED BY <1>1, <1>7, <1>9, <1>10, <1>11, <1>12, SoundIf

LEMMA CreateFileSound ==
  ASSUME NEW k, Sound(k), NEW d \in DOMAIN k.dirs, NEW n, new_entry_ok(k, d, n),
         NEW mode \in Modes, NEW u \in Users,
         k.next_inode < NODE_CAPACITY, k.next_edge < EDGE_CAPACITY,
         NEW h, h = create_file(k, d, n, mode, u)
  PROVE  Sound(h) /\ h.next_dir = k.next_dir /\ Adds(k, h, d, n, k.next_inode)
<1> DEFINE inode == NewInode("Regular", 1, mode, u, u, 0)
           m == create_node(k, d, n, inode)
<1>1. inode \in Inode /\ inode.vtype # "Directory" /\ inode.link_count = 1
  BY DEF NewInode, Inode, VnodeTypes
<1>2. n \in AllNames \ Dots /\ resolve_name(k, d, n) = None
  BY NameAssumption DEF new_entry_ok, AllNames
<1>3. h = record_prov(update_quota(m, d, 1), "Create", k.next_inode)
  BY DEF create_file
<1> HIDE DEF inode
<1>4. Sound(m) /\ m.next_dir = k.next_dir /\ Adds(k, m, d, n, k.next_inode)
  BY <1>1, <1>2, CreateNodeSound
<1> HIDE DEF m
<1>5. Sound(h) /\ SameTree(m, h) /\ SameIds(m, h)
  BY <1>3, <1>4, FinishSound
<1> QED BY <1>4, <1>5, AddsThenSameTree DEF SameIds

LEMMA SymlinkSound ==
  ASSUME NEW k, Sound(k), NEW d \in DOMAIN k.dirs, NEW n, new_entry_ok(k, d, n),
         NEW t \in Targets, NEW u \in Users,
         k.next_inode < NODE_CAPACITY, k.next_edge < EDGE_CAPACITY,
         NEW h, h = symlink(k, d, n, t, u)
  PROVE  Sound(h) /\ h.next_dir = k.next_dir /\ Adds(k, h, d, n, k.next_inode)
<1> DEFINE inode == NewInode("Symlink", 1, SymlinkMode, u, u, Len(t))
           m == create_node(k, d, n, inode)
           m2 == [m EXCEPT !.symlink_targets = Put(m.symlink_targets, k.next_inode, t)]
<1>1. inode \in Inode /\ inode.vtype # "Directory" /\ inode.link_count = 1
  <2>1. SymlinkMode \in Modes /\ Len(t) \in Nat
    BY InputAssumption DEF SymlinkMode
  <2> QED BY <2>1 DEF NewInode, Inode, VnodeTypes
<1>2. n \in AllNames \ Dots /\ resolve_name(k, d, n) = None
  BY NameAssumption DEF new_entry_ok, AllNames
<1>3. h = record_prov(update_quota(m2, d, 1), "Symlink", k.next_inode)
  BY DEF symlink
<1> HIDE DEF inode
<1>4. Sound(m) /\ m.next_dir = k.next_dir /\ Adds(k, m, d, n, k.next_inode)
  BY <1>1, <1>2, CreateNodeSound
<1> HIDE DEF m
<1>5. FieldsTyped(m) /\ IsGraph(m)
  BY <1>4, SoundGraph
<1>6. SameExcept(m, m2, {"symlink_targets"})
  BY <1>5 DEF SameExcept, IsGraph, GraphFields
<1> HIDE DEF m2
<1>7. SameExcept(m, m2, Untyped) /\ SameExcept(m, m2, Apart) /\ m2.next_dir = m.next_dir
  BY <1>6 DEF SameExcept, Untyped, Apart, GraphFields
<1>8. Issues(m, m2) /\ SameTree(m, m2)
  BY <1>5, <1>7, UntypedKeeps, IssuesNothing, ApartIsSameTree
<1>9. Sound(m2)
  BY <1>4, <1>8, SameTreeSound
<1>10. Sound(h) /\ SameTree(m2, h) /\ SameIds(m2, h)
  BY <1>3, <1>9, FinishSound
<1>11. Adds(k, h, d, n, k.next_inode)
  BY <1>4, <1>8, <1>10, AddsThenSameTree
<1> QED BY <1>4, <1>7, <1>10, <1>11 DEF SameIds

LEMMA MkdirSound ==
  ASSUME NEW k, Sound(k), NEW d \in DOMAIN k.dirs, NEW n, new_entry_ok(k, d, n),
         NEW mode \in Modes, NEW u \in Users,
         k.next_inode < NODE_CAPACITY, k.next_dir < NODE_CAPACITY,
         k.next_edge + 2 < EDGE_CAPACITY,
         NEW h, h = mkdir(k, d, n, mode, u)
  PROVE  /\ Sound(h) /\ Adds(k, h, d, n, k.next_inode)
         /\ h.next_dir = k.next_dir + 1 /\ h.next_inode = k.next_inode + 1
<1> DEFINE i == k.next_inode
           c == k.next_dir
           e == k.next_edge
           inode == NewInode("Directory", 2, mode, u, u, 0)
           P == Put(k.inodes, i, inode)
           D == Put(k.dirs, c, i)
           J == Put(k.dir_for_inode_idx, i, c)
           m0 == insert_dir(insert_inode([k EXCEPT !.next_inode = i + 1,
                              !.next_dir = c + 1, !.next_edge = e + 3], i, inode), c, i)
           m1 == add_contains(m0, e, d, i, n)
           m2 == add_contains(m1, e + 1, c, i, ".")
           m3 == add_contains(m2, e + 2, c, k.dirs[d], "..")
<1>1. /\ IsGraph(k) /\ Indexed(k) /\ Tree(k) /\ FieldsTyped(k) /\ IdsIssued(k)
      /\ i \notin DOMAIN k.inodes /\ c \notin DOMAIN k.dirs
      /\ e \in Nat \ {0} /\ i \in Nat \ {0} /\ c \in Nat \ {0}
      /\ \A x \in Nat : x >= e => x \notin DOMAIN k.edges
  BY SoundGraph
<1>2. n \in AllNames \ Dots /\ resolve_name(k, d, n) = None
  BY NameAssumption DEF new_entry_ok, AllNames
<1>3. inode.vtype = "Directory" /\ inode.link_count = 2
  BY DEF NewInode
<1> HIDE DEF inode
<1>4. h = record_prov(update_quota(m3, d, 1), "Mkdir", i)
  BY DEF mkdir, mkdir_nodes, inode
<1>5. m0 = [k EXCEPT !.next_inode = i + 1, !.next_dir = c + 1, !.next_edge = e + 3,
                     !.inodes = P, !.dirs = D, !.dir_for_inode_idx = J]
  BY <1>1 DEF insert_inode, insert_dir, insert_at, IsGraph, GraphFields
<1> HIDE DEF P, D, J, m0, m1, m2, m3
<1>6. /\ IsGraph(m0) /\ m0.inodes = P /\ m0.dirs = D /\ m0.edges = k.edges
      /\ m0.dir_for_inode_idx = J
      /\ m0.dir_contains = k.dir_contains /\ m0.dir_name_idx = k.dir_name_idx
      /\ m0.inode_incoming_contains = k.inode_incoming_contains
      /\ m0.next_dir = c + 1 /\ m0.next_inode = i + 1
  BY <1>1, <1>5 DEF IsGraph, GraphFields
<1>7. Indexed(m0) /\ ContainsEdges(m0) = ContainsEdges(k)
  BY <1>1, <1>6, IndexedSame
<1>8. \A q \in DOMAIN k.dir_name_idx : q[1] # c /\ q # <<d, n>>
  <2>1. <<d, n>> \notin DOMAIN k.dir_name_idx
    BY <1>2, SoundGraph, ResolvedBy
  <2>2. \A q \in DOMAIN k.dir_name_idx : q[1] \in DOMAIN k.dirs
    BY <1>1 DEF Indexed, NamesExact, Tree, Endpoints
  <2> QED BY <1>1, <2>1, <2>2
<1>9. /\ e \notin DOMAIN m0.edges /\ e < EDGE_CAPACITY
      /\ <<d, n>> \notin DOMAIN m0.dir_name_idx
  BY <1>1, <1>6, <1>8, CapacityAssumption
<1>10. /\ Indexed(m1) /\ SameObjects(m0, m1) /\ SameIds(m0, m1)
       /\ DOMAIN m1.edges = DOMAIN k.edges \cup {e}
       /\ ContainsEdges(m1) = ContainsEdges(k) \cup {e}
       /\ m1.edges[e] = ContainsEdge(d, i, n)
       /\ \A x \in ContainsEdges(k) : m1.edges[x] = k.edges[x] /\ x # e
       /\ DOMAIN m1.dir_name_idx = DOMAIN k.dir_name_idx \cup {<<d, n>>}
  <2> HIDE DEF e, i
  <2> QED BY <1>6, <1>7, <1>9, AddContains DEF m1
<1>11. /\ e + 1 \notin DOMAIN m1.edges /\ e + 1 < EDGE_CAPACITY
       /\ <<c, ".">> \notin DOMAIN m1.dir_name_idx /\ IsGraph(m1)
  <2>1. c # d
    BY <1>1
  <2>2. <<c, ".">> \notin DOMAIN m1.dir_name_idx
    BY <1>8, <1>10, <2>1
  <2>3. IsGraph(m1)
    BY <1>6 DEF m1, add_contains, insert_edge, IsGraph, GraphFields
  <2> QED BY <1>1, <1>10, <2>2, <2>3, CapacityAssumption
<1>12. /\ Indexed(m2) /\ SameObjects(m1, m2) /\ SameIds(m1, m2)
       /\ DOMAIN m2.edges = DOMAIN m1.edges \cup {e + 1}
       /\ ContainsEdges(m2) = ContainsEdges(m1) \cup {e + 1}
       /\ m2.edges[e + 1] = ContainsEdge(c, i, ".")
       /\ \A x \in ContainsEdges(m1) : m2.edges[x] = m1.edges[x] /\ x # e + 1
       /\ DOMAIN m2.dir_name_idx = DOMAIN m1.dir_name_idx \cup {<<c, ".">>}
  <2> DEFINE x == e + 1
  <2> HIDE DEF e, i, c, x
  <2>1. m2 = add_contains(m1, x, c, i, ".")
    BY DEF m2, x
  <2>2. x \notin DOMAIN m1.edges /\ x < EDGE_CAPACITY
    BY <1>11 DEF x
  <2> QED BY <1>10, <1>11, <2>1, <2>2, AddContains DEF x
<1>13. /\ e + 2 \notin DOMAIN m2.edges /\ e + 2 < EDGE_CAPACITY
       /\ <<c, "..">> \notin DOMAIN m2.dir_name_idx /\ IsGraph(m2)
  <2>1. c # d
    BY <1>1
  <2>2. <<c, "..">> \notin DOMAIN m2.dir_name_idx
    BY <1>8, <1>10, <1>12, <2>1
  <2>3. IsGraph(m2)
    BY <1>11 DEF m2, add_contains, insert_edge, IsGraph, GraphFields
  <2> QED BY <1>1, <1>10, <1>12, <2>2, <2>3, CapacityAssumption
<1>14. /\ Indexed(m3) /\ SameObjects(m2, m3) /\ SameIds(m2, m3)
       /\ DOMAIN m3.edges = DOMAIN m2.edges \cup {e + 2}
       /\ ContainsEdges(m3) = ContainsEdges(m2) \cup {e + 2}
       /\ m3.edges[e + 2] = ContainsEdge(c, k.dirs[d], "..")
       /\ \A x \in ContainsEdges(m2) : m3.edges[x] = m2.edges[x] /\ x # e + 2
       /\ DOMAIN m3.dir_name_idx = DOMAIN m2.dir_name_idx \cup {<<c, "..">>}
  <2> DEFINE x == e + 2
             j == k.dirs[d]
  <2> HIDE DEF e, i, c, x, j
  <2>1. m3 = add_contains(m2, x, c, j, "..")
    BY DEF m3, x, j
  <2>2. x \notin DOMAIN m2.edges /\ x < EDGE_CAPACITY
    BY <1>13 DEF x
  <2> QED BY <1>12, <1>13, <2>1, <2>2, AddContains DEF x, j
<1>15. Tree(m3)
  <2> DEFINE e2 == e + 1
             e3 == e + 2
  <2>1. /\ m3.inodes = Put(k.inodes, i, inode) /\ m3.dirs = Put(k.dirs, c, i)
        /\ m3.dir_for_inode_idx = Put(k.dir_for_inode_idx, i, c)
    BY <1>6, <1>10, <1>12, <1>14 DEF SameObjects, P, D, J
  <2>2. n \notin Dots /\ e # e2 /\ e # e3 /\ e2 # e3
    BY <1>1, <1>2
  <2>3. {e, e2, e3} \cap ContainsEdges(k) = {}
    BY <1>10, <1>12, <1>14
  <2>4. /\ ContainsEdges(m3) = ContainsEdges(k) \cup {e, e2, e3}
        /\ DOMAIN m3.edges = DOMAIN k.edges \cup {e, e2, e3}
        /\ DOMAIN m3.dir_name_idx =
             DOMAIN k.dir_name_idx \cup {<<d, n>>, <<c, ".">>, <<c, "..">>}
    BY <1>10, <1>12, <1>14
  <2>5. /\ m3.edges[e] = ContainsEdge(d, i, n) /\ m3.edges[e2] = ContainsEdge(c, i, ".")
        /\ m3.edges[e3] = ContainsEdge(c, k.dirs[d], "..")
        /\ \A x \in ContainsEdges(k) : m3.edges[x] = k.edges[x]
    BY <1>10, <1>12, <1>14
  <2>6. IsFiniteSet(DOMAIN m3.edges)
    <3>1. IsFiniteSet(DOMAIN k.edges)
      BY SoundGraph
    <3>2. IsFiniteSet(((DOMAIN k.edges \cup {e}) \cup {e2}) \cup {e3})
      BY <3>1, FS_AddElement
    <3>3. DOMAIN m3.edges = ((DOMAIN k.edges \cup {e}) \cup {e2}) \cup {e3}
      BY <2>4
    <3> QED BY <3>2, <3>3
  <2>7. \A q \in DOMAIN k.dir_name_idx : q[1] # c
    BY <1>8
  <2> HIDE DEF e, i, c, e2, e3
  <2>8. i \notin DOMAIN k.inodes /\ c \notin DOMAIN k.dirs /\ Tree(k)
    BY <1>1 DEF i, c
  <2>9. MkdirStep(k, m3, d, n, i, c, inode, e, e2, e3)
    BY <1>3, <2>1, <2>2, <2>3, <2>4, <2>5, <2>6, <2>7, <2>8 DEF MkdirStep
  <2> QED BY <2>8, <2>9, MkdirTree
<1>16. Issues(k, m3)
  <2>1. FieldsTyped(k) /\ d \in Nat /\ IdsIssued(k)
    BY <1>1, EdgeIdsAreNat
  <2> QED BY <1>2, <2>1, MkdirNodesIssues DEF m3, m2, m1, m0, inode, mkdir_nodes
<1>17. Sound(m3)
  BY <1>1, <1>14, <1>15, <1>16, SoundIf
<1>18. m3.next_dir = k.next_dir + 1 /\ m3.next_inode = k.next_inode + 1
  BY <1>6, <1>10, <1>12, <1>14 DEF SameIds
<1>19. Adds(k, m3, d, n, i)
  <2> DEFINE e2 == e + 1
             e3 == e + 2
  <2>1. /\ ContainsEdges(m3) = ContainsEdges(k) \cup {e, e2, e3}
        /\ m3.edges[e] = ContainsEdge(d, i, n) /\ m3.edges[e].name = n
        /\ m3.edges[e2].name = "." /\ m3.edges[e3].name = ".."
        /\ \A x \in ContainsEdges(k) : m3.edges[x] = k.edges[x] /\ x # e
    BY <1>10, <1>12, <1>14 DEF ContainsEdge
  <2>2. /\ DOMAIN m3.inodes = DOMAIN k.inodes \cup {i}
        /\ \A j \in DOMAIN k.inodes : m3.inodes[j] = k.inodes[j]
        /\ \A x \in DOMAIN k.dirs : x \in DOMAIN m3.dirs /\ m3.dirs[x] = k.dirs[x]
    <3>1. m3.inodes = P /\ m3.dirs = D
      BY <1>6, <1>10, <1>12, <1>14 DEF SameObjects
    <3> QED BY <1>1, <3>1 DEF P, D, Put
  <2> HIDE DEF e, e2, e3, i, c
  <2>3. n \notin Dots
    BY <1>2
  <2>4. UserEdges(m3) = UserEdges(k) \cup {e} /\ e \notin UserEdges(k)
    BY <2>1, <2>3 DEF UserEdges, Dots
  <2>5. \A x \in UserEdges(k) : m3.edges[x] = k.edges[x]
    BY <2>1 DEF UserEdges
  <2> QED BY <2>1, <2>2, <2>4, <2>5 DEF Adds
<1>20. Sound(h) /\ SameTree(m3, h) /\ SameIds(m3, h)
  BY <1>4, <1>17, FinishSound
<1>21. Adds(k, h, d, n, i)
  BY <1>19, <1>20, AddsThenSameTree
<1> QED BY <1>18, <1>20, <1>21 DEF SameIds

\* No entry is in the directory, if it is one, that edge e leads to.
LeadsToNothing(k, e) ==
  \A x \in DOMAIN k.dirs : k.dirs[x] = k.edges[e].tgt =>
    \A f \in UserEdges(k) : k.edges[f].src # x

\* Step from k to h that takes the entry of name n out of directory d, if there
\* is one, and with it no more than the object it leads to.
Vacates(k, h, d, n) ==
  /\ \A e \in UserEdges(k) :
       k.edges[e].src = d /\ k.edges[e].name = n => LeadsToNothing(k, e)
  /\ <<d, n>> \notin DOMAIN h.dir_name_idx
  /\ UserEdges(h) = {e \in UserEdges(k) : ~(k.edges[e].src = d /\ k.edges[e].name = n)}
  /\ \A e \in UserEdges(h) : h.edges[e] = k.edges[e]
  /\ \A x \in DOMAIN h.dirs : x \in DOMAIN k.dirs /\ h.dirs[x] = k.dirs[x]
  /\ d \in DOMAIN k.dirs => d \in DOMAIN h.dirs
  /\ \A i \in DOMAIN h.inodes : /\ i \in DOMAIN k.inodes
                                /\ h.inodes[i].vtype = k.inodes[i].vtype
  /\ SameIds(k, h)

\* What a name resolves to is the target of its entry.
LEMMA ResolvedEntry ==
  ASSUME NEW k, Sound(k), NEW d, NEW n, resolve_name(k, d, n) # None
  PROVE  \E e \in ContainsEdges(k) : /\ k.edges[e].src = d
                                     /\ k.edges[e].name = n
                                     /\ k.edges[e].tgt = resolve_name(k, d, n)
<1>1. /\ FieldsTyped(k) /\ IdsIssued(k) /\ NamesExact(k) /\ Endpoints(k)
      /\ DirsPaired(k) /\ DotEdges(k)
  BY SoundGraph
<1>2. <<d, n>> \in DOMAIN k.dir_name_idx
  BY <1>1, ResolvedBy
<1>3. PICK e \in ContainsEdges(k) : /\ e = k.dir_name_idx[<<d, n>>]
                                    /\ k.edges[e].src = d /\ k.edges[e].name = n
  BY <1>1, <1>2 DEF NamesExact
<1>4. resolve_name(k, d, n) = k.edges[e].tgt
  BY <1>2, <1>3 DEF resolve_name, lookup_name
<1> QED BY <1>3, <1>4

LEMMA RmdirNodesSound ==
  ASSUME NEW k, Sound(k), NEW d, NEW n, rmdir_ok(k, d, n),
         NEW h, h = rmdir_nodes(k, d, n)
  PROVE  Sound(h) /\ Vacates(k, h, d, n)
<1> DEFINE i == resolve_name(k, d, n)
           c == dir_for_inode(k, i)
           S == {x \in entries(k, d) : k.edges[x].tgt = i /\ k.edges[x].name = n}
                  \cup entries(k, c)
           m == drop_contains(k, S)
<1>1. /\ IsGraph(k) /\ Indexed(k) /\ Tree(k) /\ FieldsTyped(k) /\ IdsIssued(k)
      /\ NamesExact(k) /\ ListingsExact(k) /\ DirsPaired(k)
      /\ IsFiniteSet(DOMAIN k.edges)
  BY SoundGraph
<1>2. /\ n \notin Dots /\ IsDirInode(k, i) /\ c # None /\ i # None
      /\ user_entries(k, c) = {}
  <2>1. n \notin Dots /\ IsDirInode(k, i) /\ c # None /\ user_entries(k, c) = {}
    BY DEF rmdir_ok
  <2>2. i \in DOMAIN k.inodes
    BY <2>1 DEF IsDirInode
  <2>3. i # None
    BY <1>1, <2>2 DEF IdsIssued, None
  <2> QED BY <2>1, <2>3
<1>3. c \in DOMAIN k.dirs /\ k.dirs[c] = i
  BY <1>1, <1>2 DEF dir_for_inode, DirsPaired
<1>4. PICK e \in ContainsEdges(k) : /\ k.edges[e].src = d /\ k.edges[e].name = n
                                    /\ k.edges[e].tgt = i
  <2> HIDE DEF i
  <2>1. resolve_name(k, d, n) # None
    BY <1>2 DEF i
  <2> QED BY <2>1, ResolvedEntry DEF i
<1>5. e \in UserEdges(k) /\ \A x \in ContainsEdges(k) :
        k.edges[x].src = d /\ k.edges[x].name = n => x = e
  BY <1>1, <1>2, <1>4, NamesDiffer DEF UserEdges
<1>6. S = {e} \cup {x \in ContainsEdges(k) : k.edges[x].src = c}
  <2>1. /\ entries(k, d) = {x \in ContainsEdges(k) : k.edges[x].src = d}
        /\ entries(k, c) = {x \in ContainsEdges(k) : k.edges[x].src = c}
    BY <1>1, EntriesAre
  <2> QED BY <1>4, <1>5, <2>1
<1>7. \A x \in UserEdges(k) : k.edges[x].src # c
  <2>1. user_entries(k, c) = {x \in UserEdges(k) : k.edges[x].src = c}
    BY <1>1, EntriesAre
  <2> QED BY <1>2, <2>1
<1>8. d # c
  BY <1>4, <1>5, <1>7
<1> HIDE DEF S
<1>9. /\ Indexed(m) /\ SameObjects(k, m) /\ SameIds(k, m)
      /\ DOMAIN m.edges = DOMAIN k.edges \ S
      /\ ContainsEdges(m) = ContainsEdges(k) \ S
      /\ \A x \in DOMAIN m.edges : m.edges[x] = k.edges[x]
      /\ \A q : q \in DOMAIN m.dir_name_idx <=>
                  q \in DOMAIN k.dir_name_idx /\ k.dir_name_idx[q] \notin S
  <2>1. S \subseteq ContainsEdges(k)
    BY <1>6
  <2> QED BY <1>1, <2>1, DropContains
<1>10. IsGraph(m)
  BY <1>1 DEF drop_contains, remove_edge, IsGraph, GraphFields
<1>11. h = [m EXCEPT !.inodes = Del(k.inodes, {i}), !.dirs = Del(k.dirs, {c}),
                     !.dir_for_inode_idx = Del(k.dir_for_inode_idx, {i}),
                     !.dir_contains = Del(m.dir_contains, {c}),
                     !.inode_incoming_contains = Del(m.inode_incoming_contains, {i})]
  <2>1. h = [remove_dir(remove_inode(m, i), c) EXCEPT !.dir_contains = Del(@, {c}),
                                         !.inode_incoming_contains = Del(@, {i})]
    BY DEF rmdir_nodes, S
  <2> HIDE DEF m
  <2>2. remove_dir(remove_inode(m, i), c) =
          [m EXCEPT !.inodes = Del(k.inodes, {i}), !.dirs = Del(k.dirs, {c}),
                    !.dir_for_inode_idx = Del(k.dir_for_inode_idx, {i})]
    BY <1>3, <1>9, <1>10 DEF remove_dir, remove_inode, SameObjects, IsGraph, GraphFields
  <2> HIDE DEF i, c
  <2> QED BY <1>10, <2>1, <2>2 DEF IsGraph, GraphFields
<1> HIDE DEF m, i, c
<1>12. /\ h.edges = m.edges /\ h.dir_name_idx = m.dir_name_idx
       /\ h.inodes = Del(k.inodes, {i}) /\ h.dirs = Del(k.dirs, {c})
       /\ h.dir_for_inode_idx = Del(k.dir_for_inode_idx, {i})
       /\ h.dir_contains = Del(m.dir_contains, {c})
       /\ h.inode_incoming_contains = Del(m.inode_incoming_contains, {i})
       /\ SameIds(m, h)
  BY <1>10, <1>11 DEF IsGraph, GraphFields, SameIds
<1>13. ContainsEdges(h) = ContainsEdges(m)
  BY <1>12 DEF ContainsEdges
<1>14. /\ ContainsEdges(h) = {x \in ContainsEdges(k) : x # e /\ k.edges[x].src # c}
       /\ \A x \in ContainsEdges(h) : h.edges[x] = k.edges[x]
       /\ \A q : q \in DOMAIN h.dir_name_idx <=>
                   q \in DOMAIN k.dir_name_idx /\ k.dir_name_idx[q] \in ContainsEdges(h)
  <2>1. \A q \in DOMAIN k.dir_name_idx : k.dir_name_idx[q] \in ContainsEdges(k)
    BY <1>1 DEF NamesExact
  <2> QED BY <1>6, <1>9, <1>12, <1>13, <2>1 DEF ContainsEdges
<1>15. IsFiniteSet(DOMAIN h.edges)
  BY <1>1, <1>9, <1>12, FS_Subset
<1>16. /\ Tree(h)
       /\ \A x \in ContainsEdges(h) : h.edges[x].src # c /\ h.edges[x].tgt # i
       /\ UserEdges(h) = UserEdges(k) \ {e}
  BY <1>1, <1>3, <1>4, <1>5, <1>7, <1>12, <1>14, <1>15, RmdirTree, SMTT(30)
<1>17. Indexed(h)
  <2>1. \A x \in ContainsEdges(m) : /\ h.edges[x] = m.edges[x]
                                    /\ m.edges[x].src \notin {c}
                                    /\ m.edges[x].tgt \notin {i}
    BY <1>12, <1>13, <1>16
  <2> QED BY <1>9, <1>12, <1>13, <2>1, ForgetKeepsIndexed
<1>18. Issues(k, h)
  BY <1>1, RmdirNodesKeeps, IssuesNothing
<1>19. Sound(h)
  BY <1>1, <1>16, <1>17, <1>18, SoundIf
<1>20. <<d, n>> \notin DOMAIN h.dir_name_idx
  <2>1. <<d, n>> \in DOMAIN k.dir_name_idx => k.dir_name_idx[<<d, n>>] = e
    BY <1>1, <1>4 DEF NamesExact
  <2> QED BY <1>14, <2>1
<1>21. UserEdges(h) = {x \in UserEdges(k) : ~(k.edges[x].src = d /\ k.edges[x].name = n)}
  BY <1>4, <1>5, <1>16 DEF UserEdges
<1>22. /\ \A x \in DOMAIN h.dirs : x \in DOMAIN k.dirs /\ h.dirs[x] = k.dirs[x]
       /\ d \in DOMAIN k.dirs => d \in DOMAIN h.dirs
       /\ \A j \in DOMAIN h.inodes : /\ j \in DOMAIN k.inodes
                                     /\ h.inodes[j].vtype = k.inodes[j].vtype
  BY <1>8, <1>12 DEF Del
<1>23. \A x \in UserEdges(h) : h.edges[x] = k.edges[x]
  BY <1>14 DEF UserEdges
<1>24. \A x \in UserEdges(k) :
         k.edges[x].src = d /\ k.edges[x].name = n => LeadsToNothing(k, x)
  <2>1. \A x \in UserEdges(k) : k.edges[x].src = d /\ k.edges[x].name = n => x = e
    BY <1>5 DEF UserEdges
  <2>2. \A x \in DOMAIN k.dirs : k.dirs[x] = i => x = c
    BY <1>1, <1>3, DirsDiffer
  <2>3. LeadsToNothing(k, e)
    BY <1>4, <1>7, <2>2 DEF LeadsToNothing
  <2> QED BY <2>1, <2>3
<1> QED BY <1>9, <1>12, <1>19, <1>20, <1>21, <1>22, <1>23, <1>24 DEF Vacates, SameIds

\* The entry that ends an operation and the charge leave what is vacated so.
LEMMA VacatesThenSameTree ==
  ASSUME NEW k, NEW m, NEW h, NEW d, NEW n, Vacates(k, m, d, n),
         SameTree(m, h), SameIds(m, h)
  PROVE  Vacates(k, h, d, n)
<1>1. /\ UserEdges(h) = UserEdges(m)
      /\ \A x \in UserEdges(m) : h.edges[x] = m.edges[x]
  BY DEF SameTree, UserEdges
<1> QED BY <1>1 DEF Vacates, SameTree, SameIds

LEMMA CountedIs ==
  ASSUME NEW k, FieldsTyped(k), NEW i, NEW delta, NEW h, h = Counted(k, i, delta)
  PROVE  /\ SameExcept(k, h, {"inodes"})
         /\ DOMAIN h.inodes = DOMAIN k.inodes
         /\ \A j \in DOMAIN k.inodes : h.inodes[j].vtype = k.inodes[j].vtype
         /\ \A j \in DOMAIN k.inodes \ {i} :
              h.inodes[j].link_count = k.inodes[j].link_count
         /\ i \in DOMAIN k.inodes =>
              h.inodes[i].link_count = k.inodes[i].link_count + delta
<1> DEFINE P == [k.inodes EXCEPT ![i].link_count = @ + delta]
<1>1. h = [k EXCEPT !.inodes = P]
  BY DEF Counted
<1>2. \A j \in DOMAIN k.inodes : k.inodes[j] \in Inode
  BY DEF FieldsTyped
<1>3. /\ DOMAIN P = DOMAIN k.inodes
      /\ \A j \in DOMAIN k.inodes : P[j].vtype = k.inodes[j].vtype
      /\ \A j \in DOMAIN k.inodes \ {i} : P[j].link_count = k.inodes[j].link_count
      /\ i \in DOMAIN k.inodes => P[i].link_count = k.inodes[i].link_count + delta
  BY <1>2 DEF Inode
<1> HIDE DEF P
<1>4. SameExcept(k, h, {"inodes"}) /\ h.inodes = P
  BY <1>1 DEF SameExcept, FieldsTyped, IsGraph, GraphFields
<1> QED BY <1>3, <1>4

LEMMA LinkSound ==
  ASSUME NEW k, Sound(k), NEW d \in DOMAIN k.dirs, NEW n \in AllNames, NEW i,
         link_ok(k, d, n, i), k.next_edge < EDGE_CAPACITY,
         NEW h, h = link(k, d, n, i)
  PROVE  /\ Sound(h) /\ h.next_dir = k.next_dir /\ h.next_inode = k.next_inode
         /\ Adds(k, h, d, n, i)
<1> DEFINE e == k.next_edge
           m0 == [k EXCEPT !.next_edge = e + 1]
           m1 == add_contains(m0, e, d, i, n)
           m == Counted(m1, i, 1)
<1>1. /\ IsGraph(k) /\ Indexed(k) /\ Tree(k) /\ FieldsTyped(k) /\ IdsIssued(k)
      /\ e \notin DOMAIN k.edges /\ NamesExact(k) /\ d \in Nat
      /\ IsFiniteSet(DOMAIN k.edges) /\ IsFiniteSet(ContainsEdges(k))
  BY SoundGraph, EdgeIdsAreNat
<1>2. /\ n \notin Dots /\ i \in DOMAIN k.inodes
      /\ k.inodes[i].vtype # "Directory" /\ resolve_name(k, d, n) = None
  BY DEF link_ok
<1>3. i \in Nat
  BY <1>1, <1>2 DEF IdsIssued
<1>4. h = record_prov(m, "Link", i)
  BY DEF link, link_nodes, Counted
<1>5. Issues(k, m)
  <2>1. Issues(k, link_nodes(k, d, n, i))
    BY <1>1, <1>3, LinkNodesIssues
  <2> QED BY <2>1 DEF link_nodes, Counted
<1>6. /\ IsGraph(m0) /\ m0.edges = k.edges /\ m0.dir_contains = k.dir_contains
      /\ m0.dir_name_idx = k.dir_name_idx
      /\ m0.inode_incoming_contains = k.inode_incoming_contains
      /\ SameObjects(k, m0) /\ m0.next_dir = k.next_dir
      /\ m0.next_inode = k.next_inode
  BY <1>1 DEF IsGraph, GraphFields, SameObjects
<1>7. FieldsTyped(m1)
  <2>1. FieldsTyped(m0)
    BY <1>1, <1>6 DEF FieldsTyped, Ids, SameObjects
  <2> HIDE DEF m0
  <2> QED BY <1>1, <1>3, <2>1, AddContainsKeeps, KeepsTyped DEF FieldsTyped, Ids
<1> HIDE DEF m0
<1>8. Indexed(m0) /\ ContainsEdges(m0) = ContainsEdges(k)
  BY <1>1, <1>6, IndexedSame
<1>9. <<d, n>> \notin DOMAIN k.dir_name_idx
  BY <1>2, SoundGraph, ResolvedBy
<1>10. /\ Indexed(m1) /\ SameObjects(m0, m1) /\ SameIds(m0, m1)
       /\ DOMAIN m1.edges = DOMAIN k.edges \cup {e}
       /\ ContainsEdges(m1) = ContainsEdges(k) \cup {e}
       /\ m1.edges[e] = ContainsEdge(d, i, n)
       /\ \A x \in ContainsEdges(k) : m1.edges[x] = k.edges[x] /\ x # e
  <2>1. /\ e < EDGE_CAPACITY /\ e \notin DOMAIN m0.edges
        /\ <<d, n>> \notin DOMAIN m0.dir_name_idx
    BY <1>1, <1>6, <1>9
  <2> HIDE DEF e
  <2> QED BY <1>6, <1>8, <2>1, AddContains
<1> HIDE DEF m1
<1>11. /\ SameExcept(m1, m, {"inodes"})
       /\ DOMAIN m.inodes = DOMAIN m1.inodes
       /\ \A j \in DOMAIN m1.inodes : m.inodes[j].vtype = m1.inodes[j].vtype
       /\ \A j \in DOMAIN m1.inodes \ {i} :
            m.inodes[j].link_count = m1.inodes[j].link_count
       /\ i \in DOMAIN m1.inodes =>
            m.inodes[i].link_count = m1.inodes[i].link_count + 1
  BY <1>7, CountedIs
<1> HIDE DEF m
<1>12. /\ m.edges = m1.edges /\ m.dir_contains = m1.dir_contains
       /\ m.inode_incoming_contains = m1.inode_incoming_contains
       /\ m.dir_name_idx = m1.dir_name_idx /\ m.dirs = m1.dirs
       /\ m.dir_for_inode_idx = m1.dir_for_inode_idx
       /\ m.next_dir = m1.next_dir /\ m.next_inode = m1.next_inode
  BY <1>11 DEF SameExcept, GraphFields
<1>13. Indexed(m) /\ ContainsEdges(m) = ContainsEdges(m1)
  BY <1>10, <1>12, IndexedSame
<1>14. Tree(m)
  <2>1. /\ DOMAIN m.inodes = DOMAIN k.inodes
        /\ \A j \in DOMAIN k.inodes : m.inodes[j].vtype = k.inodes[j].vtype
        /\ \A j \in DOMAIN k.inodes \ {i} :
             m.inodes[j].link_count = k.inodes[j].link_count
        /\ m.inodes[i].link_count = k.inodes[i].link_count + 1
        /\ m.dirs = k.dirs /\ m.dir_for_inode_idx = k.dir_for_inode_idx
    BY <1>2, <1>6, <1>10, <1>11, <1>12 DEF SameObjects
  <2>2. IsFiniteSet(DOMAIN m.edges)
    BY <1>1, <1>10, <1>12, FS_AddElement
  <2>3. /\ ContainsEdges(m) = ContainsEdges(k) \cup {e} /\ e \notin ContainsEdges(k)
        /\ m.edges[e] = ContainsEdge(d, i, n)
        /\ \A x \in ContainsEdges(k) : m.edges[x] = k.edges[x]
    BY <1>10, <1>12, <1>13
  <2>4. NamesExact(m)
    BY <1>13 DEF Indexed
  <2> HIDE DEF e
  <2> QED BY <1>1, <1>2, <2>1, <2>2, <2>3, <2>4, LinkTree
<1>15. Sound(m)
  BY <1>1, <1>5, <1>13, <1>14, SoundIf
<1>16. m.next_dir = k.next_dir /\ m.next_inode = k.next_inode
  BY <1>6, <1>10, <1>12 DEF SameIds
<1>17. Adds(k, m, d, n, i)
  <2>1. /\ ContainsEdges(m) = ContainsEdges(k) \cup {e}
        /\ m.edges[e] = ContainsEdge(d, i, n) /\ m.edges[e].name = n
        /\ \A x \in ContainsEdges(k) : m.edges[x] = k.edges[x] /\ x # e
    BY <1>10, <1>12, <1>13 DEF ContainsEdge
  <2>2. /\ m.dirs = k.dirs /\ DOMAIN m.inodes = DOMAIN k.inodes \cup {i}
        /\ \A j \in DOMAIN k.inodes : m.inodes[j].vtype = k.inodes[j].vtype
    BY <1>2, <1>6, <1>10, <1>11, <1>12 DEF SameObjects
  <2> HIDE DEF e
  <2>3. UserEdges(m) = UserEdges(k) \cup {e} /\ e \notin UserEdges(k)
    BY <1>2, <2>1 DEF UserEdges
  <2>4. \A x \in UserEdges(k) : m.edges[x] = k.edges[x]
    BY <2>1 DEF UserEdges
  <2> QED BY <2>1, <2>2, <2>3, <2>4 DEF Adds
<1>18. Sound(h) /\ SameTree(m, h) /\ SameIds(m, h)
  BY <1>4, <1>15, FinishSound
<1> QED BY <1>16, <1>17, <1>18, AddsThenSameTree DEF SameIds

LEMMA SameTreeIndexed ==
  ASSUME NEW k, Indexed(k), NEW h, SameTree(k, h)
  PROVE  Indexed(h)
<1>1. /\ ContainsEdges(h) = ContainsEdges(k)
      /\ \A x \in ContainsEdges(k) : h.edges[x] = k.edges[x]
      /\ h.dir_contains = k.dir_contains
      /\ h.inode_incoming_contains = k.inode_incoming_contains
      /\ DOMAIN h.dir_name_idx = DOMAIN k.dir_name_idx
      /\ \A q \in DOMAIN k.dir_name_idx : h.dir_name_idx[q] = k.dir_name_idx[q]
  BY DEF SameTree
<1>2. ListingsExact(h)
  BY <1>1 DEF Indexed, ListingsExact
<1>3. IncomingExact(h)
  BY <1>1 DEF Indexed, IncomingExact
<1>4. NamesExact(h)
  BY <1>1 DEF Indexed, NamesExact
<1> QED BY <1>2, <1>3, <1>4 DEF Indexed

\* The edges to the blocks of a file are no part of the tree.
LEMMA ReleaseBlocksSameTree ==
  ASSUME NEW k, FieldsTyped(k), NEW i, NEW h, h = release_blocks(k, i)
  PROVE  /\ IsGraph(h) /\ SameTree(k, h) /\ SameIds(k, h)
         /\ h.inodes = k.inodes /\ DOMAIN h.edges \subseteq DOMAIN k.edges
<1> DEFINE P == {e \in SetAt(k.inode_points_to, i) \cap DOMAIN k.edges :
                   k.edges[e].kind = "PointsTo"}
           r == remove_edge(k, P)
           touched == {"edges", "dir_name_idx", "inode_points_to", "blocks"}
<1>1. \E x, y : h = [r EXCEPT !.inode_points_to = x, !.blocks = y]
  BY DEF release_blocks
<1>2. Keys(k, P \cap DOMAIN k.edges) = {}
  BY DEF Keys
<1>3. /\ IsGraph(r) /\ SameExcept(k, r, {"edges", "dir_name_idx"})
      /\ r.edges = Del(k.edges, P)
      /\ r.dir_name_idx = Del(k.dir_name_idx, Keys(k, P \cap DOMAIN k.edges))
  BY DEF remove_edge, SameExcept, FieldsTyped, IsGraph, GraphFields
<1> HIDE DEF r
<1>4. SameExcept(k, h, touched) /\ h.edges = r.edges /\ h.dir_name_idx = r.dir_name_idx
  BY <1>1, <1>3 DEF SameExcept, IsGraph, GraphFields
<1>5. /\ DOMAIN h.edges = DOMAIN k.edges \ P
      /\ \A x \in DOMAIN h.edges : h.edges[x] = k.edges[x]
      /\ DOMAIN h.dir_name_idx = DOMAIN k.dir_name_idx
      /\ \A q \in DOMAIN k.dir_name_idx : h.dir_name_idx[q] = k.dir_name_idx[q]
  BY <1>2, <1>3, <1>4 DEF Del
<1>6. /\ ContainsEdges(h) = ContainsEdges(k)
      /\ \A x \in ContainsEdges(k) : h.edges[x] = k.edges[x]
  BY <1>5 DEF ContainsEdges
<1>7. /\ h.dirs = k.dirs /\ h.dir_for_inode_idx = k.dir_for_inode_idx
      /\ h.dir_contains = k.dir_contains /\ h.inodes = k.inodes
      /\ h.inode_incoming_contains = k.inode_incoming_contains /\ SameIds(k, h)
  BY <1>4 DEF SameExcept, GraphFields, SameIds
<1>8. SameTree(k, h)
  BY <1>5, <1>6, <1>7 DEF SameTree
<1> QED BY <1>4, <1>5, <1>7, <1>8 DEF SameExcept

\* An inode goes with its blocks and its set of incoming entries; the indexes
\* stay exact when that set was empty.
Collects(k, i, h) ==
  /\ h.inodes = Del(k.inodes, {i}) /\ h.dirs = k.dirs
  /\ h.dir_for_inode_idx = k.dir_for_inode_idx /\ SameIds(k, h)
  /\ DOMAIN h.edges \subseteq DOMAIN k.edges
  /\ ContainsEdges(h) = ContainsEdges(k)
  /\ \A x \in ContainsEdges(k) : h.edges[x] = k.edges[x]
  /\ DOMAIN h.dir_name_idx = DOMAIN k.dir_name_idx
  /\ NamesExact(h)
  /\ (\A x \in ContainsEdges(k) : k.edges[x].tgt # i) => Indexed(h)

LEMMA CollectInodeIs ==
  ASSUME NEW k, FieldsTyped(k), Indexed(k), NEW i
  PROVE  Collects(k, i, collect_inode(k, i))
<1> DEFINE h == collect_inode(k, i)
<1> DEFINE r == release_blocks(k, i)
<1>1. /\ IsGraph(r) /\ SameTree(k, r) /\ SameIds(k, r)
      /\ r.inodes = k.inodes /\ DOMAIN r.edges \subseteq DOMAIN k.edges
  BY ReleaseBlocksSameTree
<1>2. h = [remove_inode(r, i) EXCEPT !.inode_incoming_contains = Del(@, {i})]
  BY DEF collect_inode
<1> HIDE DEF r, h
<1>3. Indexed(r)
  BY <1>1, SameTreeIndexed
<1>4. h = [r EXCEPT !.inodes = Del(r.inodes, {i}),
                    !.inode_incoming_contains = Del(r.inode_incoming_contains, {i})]
  BY <1>1, <1>2 DEF remove_inode, IsGraph, GraphFields
<1>5. /\ h.inodes = Del(r.inodes, {i}) /\ h.dirs = r.dirs
      /\ h.dir_for_inode_idx = r.dir_for_inode_idx /\ SameIds(r, h)
      /\ h.edges = r.edges /\ h.dir_name_idx = r.dir_name_idx
      /\ h.dir_contains = r.dir_contains
      /\ h.inode_incoming_contains = Del(r.inode_incoming_contains, {i})
  BY <1>1, <1>4 DEF IsGraph, GraphFields, SameIds
<1>6. ContainsEdges(h) = ContainsEdges(r)
  BY <1>5 DEF ContainsEdges
<1>7. NamesExact(h)
  BY <1>3, <1>5, <1>6 DEF Indexed, NamesExact
<1>8. ASSUME \A x \in ContainsEdges(k) : k.edges[x].tgt # i
      PROVE  Indexed(h)
  <2>1. \A x \in ContainsEdges(r) : /\ h.edges[x] = r.edges[x]
                                    /\ r.edges[x].src \notin {} /\ r.edges[x].tgt \notin {i}
    BY <1>1, <1>5, <1>8 DEF SameTree
  <2>2. h.dir_contains = Del(r.dir_contains, {})
    <3>1. r.dir_contains \in [DOMAIN r.dir_contains -> SUBSET Nat]
      BY <1>1 DEF SameTree, FieldsTyped
    <3> QED BY <1>5, <3>1 DEF Del
  <2> QED BY <1>3, <1>5, <1>6, <2>1, <2>2, ForgetKeepsIndexed
<1>9. /\ h.inodes = Del(k.inodes, {i}) /\ h.dirs = k.dirs
      /\ h.dir_for_inode_idx = k.dir_for_inode_idx
      /\ DOMAIN h.edges \subseteq DOMAIN k.edges
      /\ ContainsEdges(h) = ContainsEdges(k)
      /\ \A x \in ContainsEdges(k) : h.edges[x] = k.edges[x]
      /\ DOMAIN h.dir_name_idx = DOMAIN k.dir_name_idx
  BY <1>1, <1>5, <1>6 DEF SameTree
<1>10. SameIds(k, h)
  BY <1>1, <1>5 DEF SameIds
<1>11. Collects(k, i, h)
  BY <1>7, <1>8, <1>9, <1>10 DEF Collects
<1> QED BY <1>11 DEF h

\* The entry an unlink scans for.
LEMMA ScanFinds ==
  ASSUME NEW k, Sound(k), NEW d, NEW n, scan_name(k, d, n) # None
  PROVE  /\ scan_name(k, d, n) \in ContainsEdges(k)
         /\ k.edges[scan_name(k, d, n)].src = d
         /\ k.edges[scan_name(k, d, n)].name = n
<1> DEFINE H == {e \in entries(k, d) : k.edges[e].name = n}
<1>1. /\ ListingsExact(k) /\ FieldsTyped(k) /\ IdsIssued(k)
  BY SoundGraph
<1>2. entries(k, d) = {e \in ContainsEdges(k) : k.edges[e].src = d}
  BY <1>1, EntriesAre
<1>3. H \subseteq Nat
  BY <1>1, <1>2, EdgeIdsAreNat DEF ContainsEdges
<1>4. H # {} /\ scan_name(k, d, n) = First(H)
  BY DEF scan_name
<1>5. First(H) \in H
  <2> HIDE DEF H
  <2> QED BY <1>3, <1>4, FirstIn
<1> QED BY <1>2, <1>4, <1>5

LEMMA UnlinkNodesSound ==
  ASSUME NEW k, Sound(k), NEW d, NEW n, unlink_ok(k, d, n),
         NEW h, h = unlink_nodes(k, d, n)
  PROVE  Sound(h) /\ Vacates(k, h, d, n)
<1> DEFINE e == scan_name(k, d, n)
           i == k.edges[e].tgt
           m1 == drop_contains(k, {e})
           m == Counted(m1, i, -1)
           gone == k.inodes[i].link_count - 1 = 0
           f == IF gone THEN collect_inode(m, i) ELSE m
<1>1. /\ IsGraph(k) /\ Indexed(k) /\ Tree(k) /\ FieldsTyped(k) /\ IdsIssued(k)
      /\ NamesExact(k) /\ IsFiniteSet(DOMAIN k.edges) /\ IsFiniteSet(ContainsEdges(k))
  BY SoundGraph
<1>2. /\ n \notin Dots /\ e # None /\ i \in DOMAIN k.inodes
      /\ k.inodes[i].vtype # "Directory"
  BY DEF unlink_ok
<1>3. e \in ContainsEdges(k) /\ k.edges[e].src = d /\ k.edges[e].name = n
  BY <1>2, ScanFinds
<1>4. k.inodes[i].link_count \in Int
  BY <1>1, <1>2 DEF FieldsTyped, Inode
<1>5. Issues(k, h)
  BY <1>1, UnlinkNodesIssues
<1>6. m = [m1 EXCEPT !.inodes[i].link_count = @ - 1]
      /\ (m.inodes[i].link_count = 0 <=> gone)
  <2>1. m1.inodes = k.inodes
    BY <1>1 DEF drop_contains, remove_edge, IsGraph, GraphFields
  <2>2. IsGraph(m1)
    BY <1>1 DEF drop_contains, remove_edge, IsGraph, GraphFields
  <2>3. k.inodes[i].link_count + (-1) = k.inodes[i].link_count - 1
    BY <1>4
  <2> HIDE DEF m1, i
  <2>4. [m1.inodes EXCEPT ![i].link_count = @ + (-1)] =
          [m1.inodes EXCEPT ![i].link_count = @ - 1]
    BY <2>1, <2>3
  <2>5. m = [m1 EXCEPT !.inodes[i].link_count = @ - 1]
    BY <2>4 DEF Counted
  <2>6. m.inodes = [k.inodes EXCEPT ![i].link_count = @ - 1]
    BY <2>1, <2>2, <2>5 DEF IsGraph, GraphFields
  <2>7. k.inodes[i] \in Inode
    BY <1>1, <1>2 DEF FieldsTyped, i
  <2>8. m.inodes[i].link_count = k.inodes[i].link_count - 1
    BY <1>2, <2>6, <2>7 DEF i, Inode
  <2> QED BY <2>5, <2>8
<1>7. h \in {f, update_quota(f, d, -1)}
  BY <1>6 DEF unlink_nodes
<1>8. FieldsTyped(m1)
  <2> HIDE DEF e
  <2> QED BY <1>1, DropContainsKeeps, KeepsTyped
<1> HIDE DEF e, m1
<1>9. /\ Indexed(m1) /\ SameObjects(k, m1) /\ SameIds(k, m1)
      /\ DOMAIN m1.edges = DOMAIN k.edges \ {e}
      /\ ContainsEdges(m1) = ContainsEdges(k) \ {e}
      /\ \A x \in DOMAIN m1.edges : m1.edges[x] = k.edges[x]
      /\ \A q : q \in DOMAIN m1.dir_name_idx <=>
                  q \in DOMAIN k.dir_name_idx /\ k.dir_name_idx[q] \notin {e}
  BY <1>1, <1>3, DropContains DEF m1
<1> HIDE DEF i, m
<1>10. /\ SameExcept(m1, m, {"inodes"})
       /\ DOMAIN m.inodes = DOMAIN m1.inodes
       /\ \A j \in DOMAIN m1.inodes : m.inodes[j].vtype = m1.inodes[j].vtype
       /\ \A j \in DOMAIN m1.inodes \ {i} :
            m.inodes[j].link_count = m1.inodes[j].link_count
       /\ i \in DOMAIN m1.inodes =>
            m.inodes[i].link_count = m1.inodes[i].link_count + (-1)
  BY <1>8, CountedIs DEF m
<1>11. /\ m.edges = m1.edges /\ m.dir_contains = m1.dir_contains
       /\ m.inode_incoming_contains = m1.inode_incoming_contains
       /\ m.dir_name_idx = m1.dir_name_idx /\ m.dirs = m1.dirs
       /\ m.dir_for_inode_idx = m1.dir_for_inode_idx /\ SameIds(m1, m)
  BY <1>10 DEF SameExcept, GraphFields, SameIds
<1>12. Indexed(m) /\ ContainsEdges(m) = ContainsEdges(m1)
  BY <1>9, <1>11, IndexedSame
<1>13. FieldsTyped(m)
  BY <1>8, LinkCountKeeps, KeepsTyped DEF m
<1>14. /\ f.dirs = k.dirs /\ f.dir_for_inode_idx = k.dir_for_inode_idx
       /\ SameIds(k, f) /\ NamesExact(f)
       /\ DOMAIN f.inodes = DOMAIN k.inodes \ (IF gone THEN {i} ELSE {})
       /\ \A j \in DOMAIN f.inodes : f.inodes[j] = m.inodes[j]
       /\ DOMAIN f.edges \subseteq DOMAIN k.edges
       /\ ContainsEdges(f) = ContainsEdges(k) \ {e}
       /\ \A x \in ContainsEdges(f) : f.edges[x] = k.edges[x]
       /\ DOMAIN f.dir_name_idx = DOMAIN m1.dir_name_idx
       /\ ~gone => Indexed(f)
       /\ gone /\ (\A x \in ContainsEdges(f) : f.edges[x].tgt # i) => Indexed(f)
  <2>0. /\ m.dirs = k.dirs /\ m.dir_for_inode_idx = k.dir_for_inode_idx
        /\ SameIds(k, m) /\ NamesExact(m) /\ DOMAIN m.inodes = DOMAIN k.inodes
        /\ DOMAIN m.edges \subseteq DOMAIN k.edges
        /\ ContainsEdges(m) = ContainsEdges(k) \ {e}
        /\ \A x \in ContainsEdges(m) : m.edges[x] = k.edges[x]
        /\ DOMAIN m.dir_name_idx = DOMAIN m1.dir_name_idx
    BY <1>9, <1>10, <1>11, <1>12 DEF SameObjects, SameIds, Indexed, ContainsEdges
  <2>1. CASE ~gone
    <3>1. f = m
      BY <2>1
    <3> HIDE DEF f, gone
    <3> QED BY <1>12, <2>0, <2>1, <3>1
  <2>2. CASE gone
    <3>1. f = collect_inode(m, i)
      BY <2>2
    <3> HIDE DEF f, gone
    <3>0. Collects(m, i, f)
      BY <1>12, <1>13, <3>1, CollectInodeIs
    <3>2. /\ f.inodes = Del(m.inodes, {i}) /\ f.dirs = m.dirs
          /\ f.dir_for_inode_idx = m.dir_for_inode_idx /\ SameIds(m, f)
          /\ DOMAIN f.edges \subseteq DOMAIN m.edges
          /\ ContainsEdges(f) = ContainsEdges(m)
          /\ \A x \in ContainsEdges(m) : f.edges[x] = m.edges[x]
          /\ DOMAIN f.dir_name_idx = DOMAIN m.dir_name_idx
          /\ NamesExact(f)
          /\ (\A x \in ContainsEdges(m) : m.edges[x].tgt # i) => Indexed(f)
      BY <3>0 DEF Collects
    <3>3. /\ DOMAIN f.inodes = DOMAIN k.inodes \ {i}
          /\ \A j \in DOMAIN f.inodes : f.inodes[j] = m.inodes[j]
      BY <2>0, <3>2 DEF Del
    <3>4. SameIds(k, f)
      BY <2>0, <3>2 DEF SameIds
    <3> QED BY <2>0, <2>2, <3>2, <3>3, <3>4
  <2> QED BY <2>1, <2>2
<1> HIDE DEF f
<1>15. e \in UserEdges(k)
  BY <1>2, <1>3 DEF UserEdges
<1>16. Tree(f) /\ (gone => \A x \in ContainsEdges(f) : f.edges[x].tgt # i)
  <2> DEFINE away == gone
  <2>1. /\ \A j \in DOMAIN f.inodes : f.inodes[j].vtype = k.inodes[j].vtype
        /\ \A j \in DOMAIN k.inodes \ {i} :
             f.inodes[j].link_count = k.inodes[j].link_count
        /\ gone \/ f.inodes[i].link_count = k.inodes[i].link_count - 1
    BY <1>2, <1>4, <1>9, <1>10, <1>14 DEF SameObjects, i
  <2>2. IsFiniteSet(DOMAIN f.edges)
    BY <1>1, <1>14, FS_Subset
  <2>3. /\ away \in BOOLEAN /\ i = k.edges[e].tgt
        /\ (away <=> k.inodes[i].link_count - 1 = 0)
        /\ DOMAIN f.inodes = DOMAIN k.inodes \ (IF away THEN {i} ELSE {})
        /\ away \/ f.inodes[i].link_count = k.inodes[i].link_count - 1
    BY <1>14, <2>1 DEF i
  <2> HIDE DEF away
  <2>4. /\ NamesExact(k) /\ Tree(k) /\ NamesExact(f) /\ IsFiniteSet(ContainsEdges(k))
        /\ k.inodes[i].vtype # "Directory"
        /\ f.dirs = k.dirs /\ f.dir_for_inode_idx = k.dir_for_inode_idx
        /\ ContainsEdges(f) = ContainsEdges(k) \ {e}
        /\ \A x \in ContainsEdges(f) : f.edges[x] = k.edges[x]
    BY <1>1, <1>2, <1>14
  <2>5. Tree(f) /\ (away => \A x \in ContainsEdges(f) : f.edges[x].tgt # i)
    BY <1>15, <2>1, <2>2, <2>3, <2>4, UnlinkTree, SMTT(60)
  <2> QED BY <2>5 DEF away
<1> HIDE DEF gone
<1>17. Indexed(f)
  BY <1>14, <1>16
<1>18. FieldsTyped(f) /\ Issues(k, f)
  <2>1. Keeps(k, m, {}, {}, {})
    <3>1. Keeps(k, m1, {}, {}, {})
      BY <1>1, DropContainsKeeps DEF m1
    <3>2. Keeps(m1, m, {}, {}, {})
      BY <1>8, LinkCountKeeps DEF m
    <3> QED BY <3>1, <3>2 DEF Keeps, SameIds
  <2>2. Keeps(k, collect_inode(m, i), {}, {}, {})
    <3>1. Keeps(m, collect_inode(m, i), {}, {}, {})
      BY <1>13, CollectInodeKeeps
    <3> QED BY <2>1, <3>1 DEF Keeps, SameIds
  <2>3. Issues(k, f)
    BY <1>1, <2>1, <2>2, IssuesNothing DEF f
  <2> QED BY <2>3 DEF Issues
<1>19. Sound(f)
  BY <1>1, <1>16, <1>17, <1>18, SoundIf
<1>20. Sound(h) /\ SameTree(f, h) /\ SameIds(f, h)
  <2>1. SameTree(f, f) /\ SameIds(f, f)
    BY DEF SameTree, SameIds
  <2> QED BY <1>7, <1>19, <2>1, FinishSound
<1>21. Vacates(k, f, d, n)
  <2>1. <<d, n>> \notin DOMAIN f.dir_name_idx
    <3>1. <<d, n>> \in DOMAIN k.dir_name_idx => k.dir_name_idx[<<d, n>>] = e
      BY <1>1, <1>3 DEF NamesExact
    <3> QED BY <1>9, <1>14, <3>1
  <2>2. \A x \in ContainsEdges(k) :
          k.edges[x].src = d /\ k.edges[x].name = n => x = e
    BY <1>1, <1>3, NamesDiffer
  <2>3. UserEdges(f) = {x \in UserEdges(k) : ~(k.edges[x].src = d /\ k.edges[x].name = n)}
    BY <1>3, <1>14, <2>2 DEF UserEdges
  <2>4. \A x \in UserEdges(f) : f.edges[x] = k.edges[x]
    BY <1>14 DEF UserEdges
  <2>5. \A j \in DOMAIN f.inodes : /\ j \in DOMAIN k.inodes
                                   /\ f.inodes[j].vtype = k.inodes[j].vtype
    BY <1>9, <1>10, <1>14 DEF SameObjects
  <2>6. \A x \in UserEdges(k) :
          k.edges[x].src = d /\ k.edges[x].name = n => LeadsToNothing(k, x)
    <3>1. \A x \in DOMAIN k.dirs : k.dirs[x] # i
      BY <1>1, <1>2 DEF Tree, DirsPaired, IsDirInode
    <3>2. LeadsToNothing(k, e)
      BY <3>1 DEF LeadsToNothing, i
    <3> QED BY <2>2, <3>2 DEF UserEdges
  <2> QED BY <1>14, <2>1, <2>3, <2>4, <2>5, <2>6 DEF Vacates
<1> QED BY <1>20, <1>21, VacatesThenSameTree

LEMMA RmdirSound ==
  ASSUME NEW k, Sound(k), NEW d, NEW n, rmdir_ok(k, d, n)
  PROVE  Sound(rmdir(k, d, n)) /\ Vacates(k, rmdir(k, d, n), d, n)
<1> DEFINE m == rmdir_nodes(k, d, n)
           h == rmdir(k, d, n)
<1>1. Sound(m) /\ Vacates(k, m, d, n)
  BY RmdirNodesSound
<1>2. h = record_prov(update_quota(m, d, -1), "Rmdir", resolve_name(k, d, n))
  BY DEF rmdir
<1> HIDE DEF m, h
<1>3. Sound(h) /\ SameTree(m, h) /\ SameIds(m, h)
  BY <1>1, <1>2, FinishSound
<1>4. Sound(h) /\ Vacates(k, h, d, n)
  BY <1>1, <1>3, VacatesThenSameTree
<1> QED BY <1>4 DEF h

LEMMA UnlinkSound ==
  ASSUME NEW k, Sound(k), NEW d, NEW n, unlink_ok(k, d, n)
  PROVE  Sound(unlink(k, d, n)) /\ Vacates(k, unlink(k, d, n), d, n)
<1> DEFINE m == unlink_nodes(k, d, n)
           h == unlink(k, d, n)
<1>1. Sound(m) /\ Vacates(k, m, d, n)
  BY UnlinkNodesSound
<1>2. \E i : h = record_prov(m, "Unlink", i)
  BY DEF unlink
<1> HIDE DEF m, h
<1>3. Sound(h) /\ SameTree(m, h) /\ SameIds(m, h)
  BY <1>1, <1>2, FinishSound
<1>4. Sound(h) /\ Vacates(k, h, d, n)
  BY <1>1, <1>3, VacatesThenSameTree
<1> QED BY <1>4 DEF h

\* RENAME first frees the new name; a destination that refuses stays.
LEMMA ReplaceSound ==
  ASSUME NEW k, Sound(k), NEW d, NEW n
  PROVE  LET r == replace_destination(k, d, n)
         IN /\ ~r.ok => r.graph = k
            /\ r.ok => Sound(r.graph) /\ Vacates(k, r.graph, d, n)
<1> DEFINE r == replace_destination(k, d, n)
<1>1. CASE resolve_name(k, d, n) = None
  <2>1. r.ok /\ r.graph = k
    BY <1>1 DEF replace_destination, Done
  <2>2. <<d, n>> \notin DOMAIN k.dir_name_idx /\ NamesExact(k)
    BY <1>1, SoundGraph, ResolvedBy
  <2>3. \A e \in UserEdges(k) : ~(k.edges[e].src = d /\ k.edges[e].name = n)
    BY <2>2 DEF NamesExact, UserEdges
  <2>4. Vacates(k, k, d, n)
    BY <2>2, <2>3 DEF Vacates, SameIds
  <2> QED BY <2>1, <2>4
<1>2. CASE resolve_name(k, d, n) # None
  <2>1. \/ rmdir_ok(k, d, n) /\ r = Done(rmdir(k, d, n))
        \/ unlink_ok(k, d, n) /\ r = Done(unlink(k, d, n))
        \/ r = Fail(k)
    BY <1>2 DEF replace_destination
  <2> HIDE DEF r
  <2>2. \/ rmdir_ok(k, d, n) /\ r.ok /\ r.graph = rmdir(k, d, n)
        \/ unlink_ok(k, d, n) /\ r.ok /\ r.graph = unlink(k, d, n)
        \/ ~r.ok /\ r.graph = k
    BY <2>1 DEF Done, Fail
  <2>3. (~r.ok => r.graph = k) /\ (r.ok => Sound(r.graph) /\ Vacates(k, r.graph, d, n))
    BY <2>2, RmdirSound, UnlinkSound
  <2> QED BY <2>3 DEF r
<1> QED BY <1>1, <1>2

\* The entries but e and the one of name n in directory d.
OtherEntries(k, e, d, n) ==
  {x \in UserEdges(k) : x # e /\ ~(k.edges[x].src = d /\ k.edges[x].name = n)}

\* Step from k to h that gives the object of entry e the name n in directory d
\* and takes the name it had, and what had the new name before.
Moves(k, h, e, d, n) ==
  /\ e \in UserEdges(k) /\ ~(k.edges[e].src = d /\ k.edges[e].name = n)
  /\ \A x \in UserEdges(k) :
       k.edges[x].src = d /\ k.edges[x].name = n => LeadsToNothing(k, x)
  /\ \E y : /\ UserEdges(h) = OtherEntries(k, e, d, n) \cup {y}
            /\ y \notin OtherEntries(k, e, d, n)
            /\ h.edges[y].src = d /\ h.edges[y].name = n
            /\ h.edges[y].tgt = k.edges[e].tgt
            /\ \A x \in UserEdges(h) \ {y} : h.edges[x] = k.edges[x]
  /\ \A x \in DOMAIN h.dirs : x \in DOMAIN k.dirs /\ h.dirs[x] = k.dirs[x]
  /\ \A i \in DOMAIN h.inodes : /\ i \in DOMAIN k.inodes
                                /\ h.inodes[i].vtype = k.inodes[i].vtype

LEMMA MovesThenSameTree ==
  ASSUME NEW k, NEW m, NEW h, NEW e, NEW d, NEW n, Moves(k, m, e, d, n),
         SameTree(m, h)
  PROVE  Moves(k, h, e, d, n)
<1>1. /\ UserEdges(h) = UserEdges(m)
      /\ \A x \in UserEdges(m) : h.edges[x] = m.edges[x]
  BY DEF SameTree, UserEdges
<1>2. PICK y : /\ UserEdges(m) = OtherEntries(k, e, d, n) \cup {y}
               /\ y \notin OtherEntries(k, e, d, n)
               /\ m.edges[y].src = d /\ m.edges[y].name = n
               /\ m.edges[y].tgt = k.edges[e].tgt
               /\ \A x \in UserEdges(m) \ {y} : m.edges[x] = k.edges[x]
  BY DEF Moves
<1>3. /\ UserEdges(h) = OtherEntries(k, e, d, n) \cup {y}
      /\ y \notin OtherEntries(k, e, d, n)
      /\ h.edges[y].src = d /\ h.edges[y].name = n
      /\ h.edges[y].tgt = k.edges[e].tgt
      /\ \A x \in UserEdges(h) \ {y} : h.edges[x] = k.edges[x]
  BY <1>1, <1>2
<1> QED BY <1>3 DEF Moves, SameTree

\* The new name is freed first; then the entry moves.
LEMMA VacatesThenMoves ==
  ASSUME NEW k, NEW m, NEW h, NEW d, NEW n, Vacates(k, m, d, n), NEW e,
         e \in UserEdges(m), NEW y, UserEdges(h) = (UserEdges(m) \ {e}) \cup {y},
         h.edges[y].src = d, h.edges[y].name = n, h.edges[y].tgt = m.edges[e].tgt,
         \A x \in UserEdges(m) \ {e} : x # y /\ h.edges[x] = m.edges[x],
         SameObjects(m, h)
  PROVE  Moves(k, h, e, d, n)
<1>1. /\ e \in UserEdges(k) /\ ~(k.edges[e].src = d /\ k.edges[e].name = n)
      /\ UserEdges(m) = {x \in UserEdges(k) :
                            ~(k.edges[x].src = d /\ k.edges[x].name = n)}
      /\ \A x \in UserEdges(m) : m.edges[x] = k.edges[x]
  BY DEF Vacates
<1>2. /\ OtherEntries(k, e, d, n) = UserEdges(m) \ {e}
      /\ UserEdges(h) = OtherEntries(k, e, d, n) \cup {y}
      /\ y \notin OtherEntries(k, e, d, n)
      /\ h.edges[y].tgt = k.edges[e].tgt
      /\ \A x \in UserEdges(h) \ {y} : h.edges[x] = k.edges[x]
  BY <1>1 DEF OtherEntries
<1>3. /\ \A x \in DOMAIN h.dirs : x \in DOMAIN k.dirs /\ h.dirs[x] = k.dirs[x]
      /\ \A i \in DOMAIN h.inodes : /\ i \in DOMAIN k.inodes
                                    /\ h.inodes[i].vtype = k.inodes[i].vtype
  BY DEF SameObjects, Vacates
<1>4. \A x \in UserEdges(k) :
        k.edges[x].src = d /\ k.edges[x].name = n => LeadsToNothing(k, x)
  BY DEF Vacates
<1> QED BY <1>1, <1>2, <1>3, <1>4 DEF Moves

\* The entry to be renamed is still there when the new name has been freed.
LEMMA SourceEntryIs ==
  ASSUME NEW k, Sound(k), NEW m, Sound(m), NEW d, NEW n, n \notin Dots,
         NEW d2, NEW n2, Vacates(k, m, d2, n2), ~(d = d2 /\ n = n2),
         NEW i, i = resolve_name(k, d, n), i # None
  PROVE  /\ source_entries(m, d, i, n) # {}
         /\ First(source_entries(m, d, i, n)) \in UserEdges(m)
         /\ m.edges[First(source_entries(m, d, i, n))].src = d
         /\ m.edges[First(source_entries(m, d, i, n))].name = n
         /\ m.edges[First(source_entries(m, d, i, n))].tgt = i
<1> DEFINE E == source_entries(m, d, i, n)
<1>1. PICK s \in ContainsEdges(k) : /\ k.edges[s].src = d /\ k.edges[s].name = n
                                    /\ k.edges[s].tgt = i
  BY ResolvedEntry
<1>2. s \in UserEdges(k)
  BY <1>1 DEF UserEdges
<1>3. s \in UserEdges(m) /\ m.edges[s] = k.edges[s]
  BY <1>1, <1>2 DEF Vacates
<1>4. ListingsExact(m) /\ FieldsTyped(m) /\ IdsIssued(m)
  BY SoundGraph
<1>5. E = {x \in ContainsEdges(m) : /\ m.edges[x].src = d /\ m.edges[x].tgt = i
                                    /\ m.edges[x].name = n}
  BY <1>4, EntriesAre DEF source_entries
<1>6. E # {}
  BY <1>1, <1>3, <1>5 DEF UserEdges
<1>7. E \subseteq Nat
  BY <1>4, <1>5, EdgeIdsAreNat DEF ContainsEdges
<1>8. First(E) \in E
  <2> HIDE DEF E
  <2> QED BY <1>6, <1>7, FirstIn
<1> HIDE DEF E
<1>9. /\ First(E) \in UserEdges(m) /\ m.edges[First(E)].src = d
      /\ m.edges[First(E)].name = n /\ m.edges[First(E)].tgt = i
  BY <1>5, <1>8 DEF UserEdges
<1> QED BY <1>6, <1>9 DEF E

LEMMA RenameSameDirSound ==
  ASSUME NEW k, Sound(k), NEW d, NEW src \in AllNames \ Dots,
         NEW dst \in AllNames \ Dots
  PROVE  LET r == rename_same_dir(k, d, src, dst)
         IN /\ ~r.ok => r.graph = k
            /\ Sound(r.graph) /\ SameIds(k, r.graph)
            /\ \/ r.graph = k
               \/ \E e : /\ Moves(k, r.graph, e, d, dst) /\ k.edges[e].src = d
                         /\ k.edges[e].name = src
<1> DEFINE r == rename_same_dir(k, d, src, dst)
           i == resolve_name(k, d, src)
           p == replace_destination(k, d, dst)
           m == p.graph
           E == source_entries(m, d, i, src)
           e == First(E)
           h == rename_contains_edge(m, e, dst)
<1>1. SameIds(k, k)
  BY DEF SameIds
<1>2. CASE i = None \/ src = dst \/ ~p.ok
  <2>1. ~p.ok => m = k
    BY ReplaceSound
  <2>2. r.graph = k
    BY <1>2 DEF rename_same_dir, Done, Fail
  <2> QED BY <1>1, <2>2
<1>3. CASE i # None /\ src # dst /\ p.ok
  <2>1. Sound(m) /\ Vacates(k, m, d, dst)
    BY <1>3, ReplaceSound
  <2>2. r = IF E = {} THEN Fail(m) ELSE Done(h)
    BY <1>3 DEF rename_same_dir
  <2> HIDE DEF m, r, i
  <2>3. /\ E # {} /\ e \in UserEdges(m) /\ m.edges[e].src = d /\ m.edges[e].tgt = i
        /\ m.edges[e].name = src
    BY <1>3, <2>1, SourceEntryIs DEF i
  <2> HIDE DEF E
  <2>4. r.ok /\ r.graph = h
    BY <2>2, <2>3 DEF Done
  <2> HIDE DEF e
  <2>5. /\ FieldsTyped(m) /\ IdsIssued(m) /\ Indexed(m) /\ Tree(m) /\ NamesExact(m)
        /\ IsFiniteSet(DOMAIN m.edges)
    BY <2>1, SoundGraph
  <2>6. e \in ContainsEdges(m) /\ <<m.edges[e].src, dst>> \notin DOMAIN m.dir_name_idx
    BY <2>1, <2>3 DEF UserEdges, Vacates
  <2>7. /\ Indexed(h) /\ SameObjects(m, h) /\ SameIds(m, h)
        /\ DOMAIN h.edges = DOMAIN m.edges
        /\ ContainsEdges(h) = ContainsEdges(m)
        /\ \A x \in ContainsEdges(m) : x # e => h.edges[x] = m.edges[x]
        /\ h.edges[e] = [m.edges[e] EXCEPT !.name = dst]
    BY <2>5, <2>6, RenameContainsEdge
  <2>8. Issues(m, h)
    BY <2>5, <2>6, RenameContainsEdgeKeeps, IssuesNothing DEF ContainsEdges
  <2> HIDE DEF h
  <2>9. /\ h.edges[e].src = m.edges[e].src /\ h.edges[e].tgt = m.edges[e].tgt
        /\ h.edges[e].name = dst
    <3>1. m.edges[e] \in Edge
      BY <2>5, <2>6 DEF FieldsTyped, ContainsEdges
    <3> QED BY <2>7, <3>1 DEF Edge
  <2>10. Tree(h)
    <3>1. /\ h.inodes = m.inodes /\ h.dirs = m.dirs /\ NamesExact(h)
          /\ h.dir_for_inode_idx = m.dir_for_inode_idx /\ IsFiniteSet(DOMAIN h.edges)
      BY <2>5, <2>7 DEF SameObjects, Indexed
    <3> QED BY <2>3, <2>5, <2>7, <2>9, <3>1, RenameTree
  <2>11. Sound(h)
    BY <2>5, <2>7, <2>8, <2>10, SoundIf
  <2>12. SameIds(k, h)
    BY <2>1, <2>7 DEF Vacates, SameIds
  <2>13. Moves(k, h, e, d, dst) /\ k.edges[e].src = d /\ k.edges[e].name = src
    <3>1. UserEdges(h) = UserEdges(m) /\ e \in UserEdges(h)
      <4>1. \A x \in ContainsEdges(m) :
              h.edges[x].name \notin Dots <=> m.edges[x].name \notin Dots
        BY <2>3, <2>7, <2>9 DEF UserEdges
      <4> QED BY <2>3, <2>7, <4>1 DEF UserEdges
    <3>2. UserEdges(h) = (UserEdges(m) \ {e}) \cup {e}
      BY <3>1
    <3>3. \A x \in UserEdges(m) \ {e} : x # e /\ h.edges[x] = m.edges[x]
      BY <2>7 DEF UserEdges
    <3>4. Moves(k, h, e, d, dst)
      BY <2>1, <2>3, <2>7, <2>9, <3>2, <3>3, VacatesThenMoves
    <3>5. m.edges[e] = k.edges[e]
      BY <2>1, <2>3 DEF Vacates
    <3> QED BY <2>3, <3>4, <3>5
  <2> QED BY <2>4, <2>11, <2>12, <2>13 DEF r
<1> QED BY <1>2, <1>3

-----------------------------------------------------------------------------
(***************************************************************************)
(* RENAME across directories.                                              *)
(***************************************************************************)
LEMMA MoveEntryIs ==
  ASSUME NEW k, Sound(k), NEW e \in ContainsEdges(k), NEW d, NEW n,
         <<d, n>> \notin DOMAIN k.dir_name_idx, k.next_edge < EDGE_CAPACITY,
         NEW h, h = move_entry(k, e, d, n)
  PROVE  /\ Indexed(h) /\ SameObjects(k, h)
         /\ h.next_dir = k.next_dir /\ h.next_inode = k.next_inode
         /\ h.next_edge = k.next_edge + 1
         /\ k.next_edge \notin ContainsEdges(k)
         /\ DOMAIN h.edges = (DOMAIN k.edges \ {e}) \cup {k.next_edge}
         /\ ContainsEdges(h) = (ContainsEdges(k) \ {e}) \cup {k.next_edge}
         /\ h.edges[k.next_edge] = ContainsEdge(d, k.edges[e].tgt, n)
         /\ \A x \in ContainsEdges(k) \ {e} : h.edges[x] = k.edges[x]
<1> DEFINE i == k.edges[e].tgt
           e2 == k.next_edge
           m0 == drop_contains(k, {e})
           m == [m0 EXCEPT !.next_edge = e2 + 1]
<1>1. /\ IsGraph(k) /\ Indexed(k) /\ e2 \notin DOMAIN k.edges
  BY SoundGraph
<1>2. h = add_contains(m, e2, d, i, n)
  BY DEF move_entry
<1>3. /\ Indexed(m0) /\ SameObjects(k, m0) /\ SameIds(k, m0)
      /\ DOMAIN m0.edges = DOMAIN k.edges \ {e}
      /\ ContainsEdges(m0) = ContainsEdges(k) \ {e}
      /\ \A x \in DOMAIN m0.edges : m0.edges[x] = k.edges[x]
      /\ \A q : q \in DOMAIN m0.dir_name_idx <=>
                  q \in DOMAIN k.dir_name_idx /\ k.dir_name_idx[q] \notin {e}
  BY <1>1, DropContains
<1>4. IsGraph(m0)
  BY <1>1 DEF drop_contains, remove_edge, IsGraph, GraphFields
<1> HIDE DEF m0
<1>5. /\ IsGraph(m) /\ m.edges = m0.edges /\ m.dir_contains = m0.dir_contains
      /\ m.dir_name_idx = m0.dir_name_idx
      /\ m.inode_incoming_contains = m0.inode_incoming_contains
      /\ SameObjects(m0, m) /\ m.next_dir = m0.next_dir
      /\ m.next_inode = m0.next_inode /\ m.next_edge = e2 + 1
  BY <1>4 DEF IsGraph, GraphFields, SameObjects
<1> HIDE DEF m
<1>6. Indexed(m) /\ ContainsEdges(m) = ContainsEdges(m0)
  BY <1>3, <1>5, IndexedSame
<1>7. /\ e2 \notin DOMAIN m.edges /\ e2 < EDGE_CAPACITY
      /\ <<d, n>> \notin DOMAIN m.dir_name_idx
  BY <1>1, <1>3, <1>5
<1>8. /\ Indexed(h) /\ SameObjects(m, h) /\ SameIds(m, h)
      /\ DOMAIN h.edges = DOMAIN m.edges \cup {e2}
      /\ ContainsEdges(h) = ContainsEdges(m) \cup {e2}
      /\ h.edges[e2] = ContainsEdge(d, i, n)
      /\ \A x \in ContainsEdges(m) : h.edges[x] = m.edges[x] /\ x # e2
  <2> HIDE DEF e2, i
  <2> QED BY <1>2, <1>5, <1>6, <1>7, AddContains
<1>9. e2 \notin ContainsEdges(k)
  BY <1>1 DEF ContainsEdges
<1>10. /\ DOMAIN h.edges = (DOMAIN k.edges \ {e}) \cup {e2}
       /\ ContainsEdges(h) = (ContainsEdges(k) \ {e}) \cup {e2}
       /\ \A x \in ContainsEdges(k) \ {e} : h.edges[x] = k.edges[x]
  BY <1>3, <1>5, <1>6, <1>8 DEF ContainsEdges
<1>11. /\ SameObjects(k, h) /\ h.next_dir = k.next_dir /\ h.next_inode = k.next_inode
       /\ h.next_edge = e2 + 1
  BY <1>3, <1>5, <1>8 DEF SameObjects, SameIds
<1> QED BY <1>8, <1>9, <1>10, <1>11

\* An entry gets another target and moves from one incoming set to the other.
Redirects(k, x, t, h) ==
  /\ Indexed(h) /\ SameObjects(k, h) /\ SameIds(k, h)
  /\ DOMAIN h.edges = DOMAIN k.edges
  /\ ContainsEdges(h) = ContainsEdges(k)
  /\ \A y \in ContainsEdges(k) :
       /\ h.edges[y].src = k.edges[y].src /\ h.edges[y].name = k.edges[y].name
       /\ h.edges[y].tgt = IF y = x THEN t ELSE k.edges[y].tgt
  /\ \A y \in ContainsEdges(k) \ {x} : h.edges[y] = k.edges[y]

LEMMA RedirectIs ==
  ASSUME NEW k, FieldsTyped(k), Indexed(k), NEW x \in ContainsEdges(k), NEW t, NEW J,
         J = [j \in DOMAIN k.inode_incoming_contains |->
                IF j = k.edges[x].tgt THEN k.inode_incoming_contains[j] \ {x}
                                      ELSE k.inode_incoming_contains[j]],
         NEW h, h = [k EXCEPT !.edges[x].tgt = t,
                              !.inode_incoming_contains = IndexAdd(J, t, x)]
  PROVE  Redirects(k, x, t, h)
<1> DEFINE P == [k.edges EXCEPT ![x].tgt = t]
           I == IndexAdd(J, t, x)
<1>1. h = [k EXCEPT !.edges = P, !.inode_incoming_contains = I]
  OBVIOUS
<1>2. \A y \in DOMAIN k.edges : k.edges[y] \in Edge
  BY DEF FieldsTyped
<1>3. /\ DOMAIN P = DOMAIN k.edges
      /\ \A y \in DOMAIN k.edges :
           /\ P[y].kind = k.edges[y].kind
           /\ P[y].src = k.edges[y].src /\ P[y].name = k.edges[y].name
           /\ P[y].tgt = IF y = x THEN t ELSE k.edges[y].tgt
           /\ y # x => P[y] = k.edges[y]
  BY <1>2 DEF Edge, ContainsEdges
<1>4. /\ DOMAIN I = DOMAIN J \cup {t}
      /\ \A j \in DOMAIN I : I[j] = IF j = t THEN SetAt(J, t) \cup {x} ELSE J[j]
  BY DEF IndexAdd, Put
<1> HIDE DEF P, I
<1>5. SameExcept(k, h, {"edges", "inode_incoming_contains"})
      /\ h.edges = P /\ h.inode_incoming_contains = I
  BY <1>1 DEF SameExcept, FieldsTyped, IsGraph, GraphFields
<1>6. /\ h.dir_contains = k.dir_contains /\ h.dir_name_idx = k.dir_name_idx
      /\ SameObjects(k, h) /\ SameIds(k, h)
  BY <1>5 DEF SameExcept, GraphFields, SameObjects, SameIds
<1>7. ContainsEdges(h) = ContainsEdges(k)
  BY <1>3, <1>5 DEF ContainsEdges
<1>8. /\ DOMAIN h.edges = DOMAIN k.edges
      /\ \A y \in ContainsEdges(k) :
           /\ h.edges[y].src = k.edges[y].src /\ h.edges[y].name = k.edges[y].name
           /\ h.edges[y].tgt = IF y = x THEN t ELSE k.edges[y].tgt
      /\ \A y \in ContainsEdges(k) \ {x} : h.edges[y] = k.edges[y]
  BY <1>3, <1>5 DEF ContainsEdges
<1>9. ListingsExact(h)
  BY <1>6, <1>7, <1>8 DEF Indexed, ListingsExact
<1>10. NamesExact(h)
  <2>1. /\ NamesExact(k) /\ h.dir_name_idx = k.dir_name_idx
        /\ \A y \in ContainsEdges(k) : <<h.edges[y].src, h.edges[y].name>> =
                                        <<k.edges[y].src, k.edges[y].name>>
    BY <1>6, <1>8 DEF Indexed
  <2>2. \A y \in ContainsEdges(k) :
          /\ <<k.edges[y].src, k.edges[y].name>> \in DOMAIN k.dir_name_idx
          /\ k.dir_name_idx[<<k.edges[y].src, k.edges[y].name>>] = y
    BY <2>1 DEF NamesExact
  <2>3. \A q \in DOMAIN k.dir_name_idx :
          /\ k.dir_name_idx[q] \in ContainsEdges(k)
          /\ q = <<k.edges[k.dir_name_idx[q]].src, k.edges[k.dir_name_idx[q]].name>>
    BY <2>1 DEF NamesExact
  <2>4. \A y \in ContainsEdges(h) :
          /\ <<h.edges[y].src, h.edges[y].name>> \in DOMAIN h.dir_name_idx
          /\ h.dir_name_idx[<<h.edges[y].src, h.edges[y].name>>] = y
    BY <1>7, <2>1, <2>2
  <2>5. \A q \in DOMAIN h.dir_name_idx :
          /\ h.dir_name_idx[q] \in ContainsEdges(h)
          /\ q = <<h.edges[h.dir_name_idx[q]].src, h.edges[h.dir_name_idx[q]].name>>
    BY <1>7, <2>1, <2>3
  <2> QED BY <2>4, <2>5 DEF NamesExact
<1>11. IncomingExact(h)
  <2>1. \A y \in ContainsEdges(k) : y \in SetAt(k.inode_incoming_contains, k.edges[y].tgt)
    BY DEF Indexed, IncomingExact
  <2>2. \A j \in DOMAIN k.inode_incoming_contains : \A y \in k.inode_incoming_contains[j] :
          y \in ContainsEdges(k) /\ k.edges[y].tgt = j
    BY DEF Indexed, IncomingExact
  <2>3. /\ DOMAIN J = DOMAIN k.inode_incoming_contains
        /\ \A j \in DOMAIN J : \A y : y \in J[j] <=>
             y \in k.inode_incoming_contains[j] /\ y # x
    <3>1. ASSUME NEW j \in DOMAIN k.inode_incoming_contains
          PROVE  \A y : y \in J[j] <=> y \in k.inode_incoming_contains[j] /\ y # x
      <4>1. CASE j = k.edges[x].tgt
        BY <4>1
      <4>2. CASE j # k.edges[x].tgt
        <5>1. x \notin k.inode_incoming_contains[j]
          BY <2>2, <4>2
        <5>2. J[j] = k.inode_incoming_contains[j]
          BY <4>2
        <5> QED BY <5>1, <5>2
      <4> QED BY <4>1, <4>2
    <3> QED BY <3>1
  <2>4. \A y \in ContainsEdges(k) : y # x => y \in SetAt(J, k.edges[y].tgt)
    BY <2>1, <2>3 DEF SetAt
  <2>5. \A y \in ContainsEdges(h) : y \in SetAt(I, h.edges[y].tgt)
    <3> DEFINE K == SetAt(J, t)
    <3>1. K = IF t \in DOMAIN J THEN J[t] ELSE {}
      BY DEF SetAt
    <3>2. \A j \in DOMAIN I : I[j] = IF j = t THEN K \cup {x} ELSE J[j]
      BY <1>4
    <3> HIDE DEF K
    <3>3. \A j \in DOMAIN J : J[j] \subseteq I[j] /\ j \in DOMAIN I
      BY <1>4, <3>1, <3>2, ZenonT(30)
    <3>4. x \in I[t] /\ t \in DOMAIN I
      BY <1>4, <3>2
    <3>5. ASSUME NEW y \in ContainsEdges(k), y # x
          PROVE  y \in SetAt(I, k.edges[y].tgt)
      BY <2>4, <3>3, <3>5 DEF SetAt
    <3>6. ASSUME NEW y \in ContainsEdges(h)
          PROVE  y \in SetAt(I, h.edges[y].tgt)
      <4>1. CASE y = x
        <5>1. h.edges[y].tgt = t
          BY <1>8, <4>1
        <5> QED BY <3>4, <4>1, <5>1 DEF SetAt
      <4>2. CASE y # x
        <5>1. y \in ContainsEdges(k) /\ h.edges[y] = k.edges[y]
          BY <1>7, <1>8, <4>2
        <5> QED BY <3>5, <4>2, <5>1
      <4> QED BY <4>1, <4>2
    <3> QED BY <3>6
  <2>6. \A j \in DOMAIN J : \A y \in J[j] :
          y \in ContainsEdges(k) /\ k.edges[y].tgt = j /\ y # x
    BY <2>2, <2>3
  <2>7. ASSUME NEW j \in DOMAIN I, NEW y \in I[j]
        PROVE  y \in ContainsEdges(h) /\ h.edges[y].tgt = j
    <3>1. (y = x /\ j = t) \/ (j \in DOMAIN J /\ y \in J[j])
      <4>1. CASE j = t
        <5>1. y \in SetAt(J, t) \cup {x}
          BY <1>4, <2>7, <4>1
        <5> QED BY <4>1, <5>1 DEF SetAt
      <4>2. CASE j # t
        BY <1>4, <2>7, <4>2
      <4> QED BY <4>1, <4>2
    <3>2. CASE y = x /\ j = t
      BY <1>7, <1>8, <3>2
    <3>3. CASE j \in DOMAIN J /\ y \in J[j]
      <4>1. y \in ContainsEdges(k) /\ k.edges[y].tgt = j /\ y # x
        BY <2>6, <3>3
      <4> QED BY <1>7, <1>8, <4>1
    <3> QED BY <3>1, <3>2, <3>3
  <2> QED BY <1>5, <2>5, <2>7 DEF IncomingExact
<1> QED BY <1>6, <1>7, <1>8, <1>9, <1>10, <1>11 DEF Indexed, Redirects

\* The ".." of a moved directory.
LEMMA MoveDotdotIs ==
  ASSUME NEW k, FieldsTyped(k), Indexed(k), DirsPaired(k),
         NEW c \in DOMAIN k.dirs, c # None, NEW i, i = k.dirs[c],
         NEW d \in DOMAIN k.dirs, NEW x \in ContainsEdges(k), x \in Nat,
         k.edges[x].src = c, k.edges[x].name = ".."
  PROVE  Redirects(k, x, k.dirs[d], move_dotdot(k, i, d))
<1> DEFINE D == {e \in entries(k, c) : k.edges[e].name = ".."}
           t == k.dirs[d]
           J == [j \in DOMAIN k.inode_incoming_contains |->
                   IF j = k.edges[x].tgt THEN k.inode_incoming_contains[j] \ {x}
                                         ELSE k.inode_incoming_contains[j]]
           h == move_dotdot(k, i, d)
<1>1. IsDirInode(k, i) /\ dir_for_inode(k, i) = c
  BY DEF DirsPaired, dir_for_inode
<1>2. D = {x}
  <2>1. entries(k, c) = {e \in ContainsEdges(k) : k.edges[e].src = c}
    BY EntriesAre DEF Indexed
  <2>2. NamesExact(k)
    BY DEF Indexed
  <2>3. \A e \in ContainsEdges(k) : k.edges[e].src = c /\ k.edges[e].name = ".." => e = x
    BY <2>2, NamesDiffer
  <2> QED BY <2>1, <2>3
<1>3. First(D) = x
  BY <1>2 DEF First
<1>4. h = [k EXCEPT !.edges[x].tgt = t, !.inode_incoming_contains = IndexAdd(J, t, x)]
  <2>1. D # {}
    BY <1>2
  <2> HIDE DEF D
  <2>2. h = [k EXCEPT !.edges[First(D)].tgt = t,
                      !.inode_incoming_contains =
                         IndexAdd([j \in DOMAIN k.inode_incoming_contains |->
                                     IF j = k.edges[First(D)].tgt
                                     THEN k.inode_incoming_contains[j] \ {First(D)}
                                     ELSE k.inode_incoming_contains[j]], t, First(D))]
    BY <1>1, <2>1 DEF move_dotdot, D
  <2> QED BY <1>3, <2>2
<1> HIDE DEF h, J, t
<1>5. Redirects(k, x, t, h)
  BY <1>4, RedirectIs DEF J
<1> QED BY <1>5 DEF h, t

LEMMA SameEdge ==
  ASSUME NEW k, FieldsTyped(k), NEW h, FieldsTyped(h),
         NEW x \in ContainsEdges(k), x \in ContainsEdges(h),
         h.edges[x].src = k.edges[x].src, h.edges[x].name = k.edges[x].name,
         h.edges[x].tgt = k.edges[x].tgt
  PROVE  h.edges[x] = k.edges[x]
<1>1. h.edges[x] \in Edge /\ k.edges[x] \in Edge
  BY DEF FieldsTyped, ContainsEdges
<1>2. h.edges[x].kind = k.edges[x].kind
  BY DEF ContainsEdges
<1> QED BY <1>1, <1>2 DEF Edge

\* The entry has moved and ".." has followed.
LEMMA MoveSound ==
  ASSUME NEW k, Sound(k), NEW e \in UserEdges(k), NEW i, i = k.edges[e].tgt,
         NEW d \in DOMAIN k.dirs, NEW n \in AllNames \ Dots,
         <<d, n>> \notin DOMAIN k.dir_name_idx, k.next_edge < EDGE_CAPACITY,
         NEW T, KeepsClearOf(k, i, d, T),
         NEW h, h = move_dotdot(move_entry(k, e, d, n), i, d)
  PROVE  /\ Sound(h) /\ h.next_edge = k.next_edge + 1
         /\ h.next_dir = k.next_dir /\ h.next_inode = k.next_inode
         /\ SameObjects(k, h)
         /\ \E y : /\ UserEdges(h) = (UserEdges(k) \ {e}) \cup {y}
                   /\ h.edges[y].src = d /\ h.edges[y].name = n /\ h.edges[y].tgt = i
                   /\ \A x \in UserEdges(k) \ {e} :
                        x # y /\ h.edges[x] = k.edges[x]
<1> DEFINE e2 == k.next_edge
           m == move_entry(k, e, d, n)
<1>1. /\ FieldsTyped(k) /\ IdsIssued(k) /\ Indexed(k) /\ Tree(k) /\ NamesExact(k)
      /\ DirsPaired(k) /\ DotEdges(k) /\ Named(k)
      /\ IsFiniteSet(DOMAIN k.edges) /\ IsFiniteSet(ContainsEdges(k))
      /\ e \in ContainsEdges(k) /\ k.edges[e].name \notin Dots /\ d \in Nat
      /\ DOMAIN k.edges \subseteq Nat
  BY SoundGraph, EdgeIdsAreNat DEF Tree, UserEdges
<1>2. Issues(k, m)
  BY <1>1, MoveEntryIssues DEF ContainsEdges
<1>3. FieldsTyped(m) /\ IdsIssued(m)
  BY <1>1, <1>2, IssuesIds DEF Issues
<1>4. /\ Indexed(m) /\ SameObjects(k, m)
      /\ m.next_dir = k.next_dir /\ m.next_inode = k.next_inode
      /\ m.next_edge = k.next_edge + 1
      /\ e2 \notin ContainsEdges(k)
      /\ DOMAIN m.edges = (DOMAIN k.edges \ {e}) \cup {e2}
      /\ ContainsEdges(m) = (ContainsEdges(k) \ {e}) \cup {e2}
      /\ m.edges[e2] = ContainsEdge(d, i, n)
      /\ \A x \in ContainsEdges(k) \ {e} : m.edges[x] = k.edges[x]
  BY <1>1, MoveEntryIs
<1> HIDE DEF m, e2
<1>5. Issues(k, h)
  BY <1>1, <1>2, <1>3, MoveDotdotKeeps, IssuesThenKeeps DEF m
<1>6. /\ Indexed(h) /\ SameObjects(k, h) /\ h.next_edge = k.next_edge + 1
      /\ h.next_dir = k.next_dir /\ h.next_inode = k.next_inode
      /\ DOMAIN h.edges = DOMAIN m.edges /\ ContainsEdges(h) = ContainsEdges(m)
      /\ h.edges[e2] = ContainsEdge(d, i, n)
      /\ \A x \in ContainsEdges(k) \ {e} :
           /\ h.edges[x].src = k.edges[x].src /\ h.edges[x].name = k.edges[x].name
           /\ h.edges[x].tgt = IF k.edges[x].name = ".." /\ k.dirs[k.edges[x].src] = i
                               THEN k.dirs[d] ELSE k.edges[x].tgt
  <2>1. CASE ~IsDirInode(k, i)
    <3>1. h = m
      BY <1>4, <2>1 DEF move_dotdot, IsDirInode, SameObjects, m
    <3>2. \A x \in ContainsEdges(k) : k.dirs[k.edges[x].src] # i
      BY <1>1, <2>1 DEF Tree, Endpoints, DirsPaired
    <3> QED BY <1>4, <3>1, <3>2
  <2>2. CASE IsDirInode(k, i)
    <3>1. PICK c \in DOMAIN k.dirs : k.dirs[c] = i
      BY <1>1, <2>2 DEF DirsPaired, IsDirInode
    <3>2. c # RootDir /\ c # None
      BY <1>1, <3>1 DEF Named, DirsPaired, IdsIssued, None
    <3>3. PICK x \in ContainsEdges(k) : k.edges[x].src = c /\ k.edges[x].name = ".."
      <4>1. <<c, "..">> \in DOMAIN k.dir_name_idx
        BY <1>1, <3>2 DEF DotEdges
      <4> QED BY <1>1, <4>1 DEF NamesExact
    <3>4. x # e /\ x # e2 /\ x \in Nat
      BY <1>1, <1>4, <3>3 DEF Dots, ContainsEdges
    <3>5. x \in ContainsEdges(m) /\ m.edges[x] = k.edges[x]
      BY <1>4, <3>3, <3>4
    <3>6. /\ DirsPaired(m) /\ m.dirs = k.dirs
      BY <1>1, <1>4 DEF SameObjects, DirsPaired, IsDirInode
    <3>7. Redirects(m, x, k.dirs[d], h)
      <4>1. /\ c \in DOMAIN m.dirs /\ i = m.dirs[c] /\ d \in DOMAIN m.dirs
            /\ m.edges[x].src = c /\ m.edges[x].name = ".." /\ m.dirs[d] = k.dirs[d]
        BY <3>1, <3>3, <3>5, <3>6
      <4>2. Redirects(m, x, m.dirs[d], move_dotdot(m, i, d))
        BY <1>3, <1>4, <3>2, <3>4, <3>5, <3>6, <4>1, MoveDotdotIs
      <4> QED BY <4>1, <4>2 DEF m
    <3>8. /\ Indexed(h) /\ SameObjects(m, h) /\ SameIds(m, h)
          /\ DOMAIN h.edges = DOMAIN m.edges
          /\ ContainsEdges(h) = ContainsEdges(m)
          /\ \A y \in ContainsEdges(m) :
               /\ h.edges[y].src = m.edges[y].src /\ h.edges[y].name = m.edges[y].name
               /\ h.edges[y].tgt = IF y = x THEN k.dirs[d] ELSE m.edges[y].tgt
          /\ \A y \in ContainsEdges(m) \ {x} : h.edges[y] = m.edges[y]
      BY <3>7 DEF Redirects
    <3>9. \A y \in ContainsEdges(k) :
            y = x <=> k.edges[y].name = ".." /\ k.dirs[k.edges[y].src] = i
      <4>1. ASSUME NEW y \in ContainsEdges(k), k.edges[y].name = "..",
                   k.dirs[k.edges[y].src] = i
            PROVE  y = x
        <5>1. k.edges[y].src \in DOMAIN k.dirs
          BY <1>1 DEF Tree, Endpoints
        <5>2. k.edges[y].src = c
          BY <1>1, <3>1, <4>1, <5>1, DirsDiffer
        <5> QED BY <1>1, <3>3, <4>1, <5>2, NamesDiffer
      <4> QED BY <3>1, <3>3, <4>1
    <3>10. \A y \in ContainsEdges(k) \ {e} :
             /\ h.edges[y].src = k.edges[y].src /\ h.edges[y].name = k.edges[y].name
             /\ h.edges[y].tgt = IF y = x THEN k.dirs[d] ELSE k.edges[y].tgt
      BY <1>4, <3>8
    <3>11. h.edges[e2] = ContainsEdge(d, i, n)
      BY <1>4, <3>4, <3>8
    <3>12. /\ SameObjects(k, h) /\ h.next_edge = k.next_edge + 1
           /\ h.next_dir = k.next_dir /\ h.next_inode = k.next_inode
      BY <1>4, <3>8 DEF SameObjects, SameIds
    <3> QED BY <3>8, <3>9, <3>10, <3>11, <3>12
  <2> QED BY <2>1, <2>2
<1>7. IsFiniteSet(DOMAIN h.edges)
  <2>1. IsFiniteSet(DOMAIN k.edges \ {e})
    BY <1>1, FS_Subset
  <2> QED BY <1>4, <1>6, <2>1, FS_AddElement, SMTT(30)
<1>8. Tree(h)
  <2>1. /\ h.inodes = k.inodes /\ h.dirs = k.dirs /\ NamesExact(h)
        /\ h.dir_for_inode_idx = k.dir_for_inode_idx /\ n \notin Dots
        /\ ContainsEdges(h) = (ContainsEdges(k) \ {e}) \cup {e2}
    BY <1>4, <1>6 DEF SameObjects, Indexed
  <2>2. MoveStep(k, h, e, i, e2, d, n)
    BY <1>1, <1>4, <1>6, <1>7, <2>1 DEF MoveStep
  <2> QED BY <1>1, <2>1, <2>2, MoveTree
<1>9. Sound(h)
  BY <1>1, <1>5, <1>6, <1>8, SoundIf
<1>10. /\ UserEdges(h) = (UserEdges(k) \ {e}) \cup {e2}
       /\ h.edges[e2].src = d /\ h.edges[e2].name = n /\ h.edges[e2].tgt = i
       /\ \A x \in UserEdges(k) \ {e} : x # e2 /\ h.edges[x] = k.edges[x]
  <2>1. h.edges[e2].src = d /\ h.edges[e2].name = n /\ h.edges[e2].tgt = i
    BY <1>6 DEF ContainsEdge
  <2>2. /\ ContainsEdges(h) = (ContainsEdges(k) \ {e}) \cup {e2}
        /\ \A x \in ContainsEdges(k) \ {e} :
             /\ h.edges[x].src = k.edges[x].src /\ h.edges[x].name = k.edges[x].name
             /\ k.edges[x].name \notin Dots => h.edges[x].tgt = k.edges[x].tgt
    BY <1>4, <1>6 DEF Dots
  <2>3. UserEdges(h) = (UserEdges(k) \ {e}) \cup {e2}
    <3>1. e2 \in UserEdges(h)
      <4>1. n \notin Dots
        BY <1>4
      <4>2. e2 \in ContainsEdges(h)
        BY <2>2
      <4> QED BY <2>1, <4>1, <4>2 DEF UserEdges
    <3>2. \A x \in ContainsEdges(k) \ {e} : x \in UserEdges(h) <=> x \in UserEdges(k)
      BY <2>2 DEF UserEdges
    <3>3. UserEdges(h) \subseteq ContainsEdges(h) /\ UserEdges(k) \subseteq ContainsEdges(k)
      BY DEF UserEdges
    <3> QED BY <2>2, <3>1, <3>2, <3>3
  <2>4. FieldsTyped(h)
    BY <1>5 DEF Issues
  <2>5. ASSUME NEW x \in UserEdges(k) \ {e} PROVE x # e2 /\ h.edges[x] = k.edges[x]
    <3>1. x \in ContainsEdges(k) \ {e} /\ k.edges[x].name \notin Dots
      BY DEF UserEdges
    <3>2. x \in ContainsEdges(h) /\ x # e2
      BY <1>4, <2>2, <3>1
    <3>3. h.edges[x] = k.edges[x]
      BY <1>1, <2>2, <2>4, <3>1, <3>2, SameEdge
    <3> QED BY <3>2, <3>3
  <2> QED BY <2>1, <2>3, <2>5
<1> QED BY <1>6, <1>9, <1>10

-----------------------------------------------------------------------------
(***************************************************************************)
(* The ids an operation takes.  What the bounds of Within say of the graph *)
(* it leaves is how it is known that the pools had room.                   *)
(***************************************************************************)
TakesNothing(k, h) == IsGraph(h) /\ SameIds(k, h)

LEMMA HelpersTakeNothing ==
  ASSUME NEW k, IsGraph(k), NEW d, NEW e, NEW i, NEW n, NEW v, NEW S, NEW op
  PROVE  /\ TakesNothing(k, insert_inode(k, i, v))
         /\ TakesNothing(k, insert_dir(k, d, i))
         /\ TakesNothing(k, add_contains(k, e, d, i, n))
         /\ TakesNothing(k, drop_contains(k, S))
         /\ TakesNothing(k, move_dotdot(k, i, d))
         /\ TakesNothing(k, record_prov(k, op, i))
         /\ TakesNothing(k, update_quota(k, d, v))
<1>1. TakesNothing(k, insert_inode(k, i, v))
  BY DEF insert_inode, TakesNothing, IsGraph, GraphFields, SameIds
<1>2. TakesNothing(k, insert_dir(k, d, i))
  BY DEF insert_dir, TakesNothing, IsGraph, GraphFields, SameIds
<1>3. TakesNothing(k, add_contains(k, e, d, i, n))
  <2>1. TakesNothing(k, insert_edge(k, e, ContainsEdge(d, i, n)))
    BY DEF insert_edge, TakesNothing, IsGraph, GraphFields, SameIds
  <2> DEFINE m == insert_edge(k, e, ContainsEdge(d, i, n))
             h == add_contains(k, e, d, i, n)
  <2>2. \E x, y : h = [m EXCEPT !.dir_contains = x, !.inode_incoming_contains = y]
    BY DEF add_contains
  <2> HIDE DEF m, h
  <2>3. TakesNothing(m, h)
    BY <2>1, <2>2 DEF m, TakesNothing, IsGraph, GraphFields, SameIds
  <2> QED BY <2>1, <2>3 DEF m, h, TakesNothing, SameIds
<1>4. TakesNothing(k, drop_contains(k, S))
  <2>1. TakesNothing(k, remove_edge(k, S))
    BY DEF remove_edge, TakesNothing, IsGraph, GraphFields, SameIds
  <2> DEFINE m == remove_edge(k, S)
             h == drop_contains(k, S)
  <2>2. \E x, y : h = [m EXCEPT !.dir_contains = x, !.inode_incoming_contains = y]
    BY DEF drop_contains
  <2> HIDE DEF m, h
  <2>3. TakesNothing(m, h)
    BY <2>1, <2>2 DEF m, TakesNothing, IsGraph, GraphFields, SameIds
  <2> QED BY <2>1, <2>3 DEF m, h, TakesNothing, SameIds
<1>5. TakesNothing(k, move_dotdot(k, i, d))
  <2>1. \/ move_dotdot(k, i, d) = k
        \/ \E x, y : move_dotdot(k, i, d) =
                       [k EXCEPT !.edges = x, !.inode_incoming_contains = y]
    BY DEF move_dotdot
  <2> QED BY <2>1 DEF TakesNothing, IsGraph, GraphFields, SameIds
<1>6. TakesNothing(k, record_prov(k, op, i))
  <2>1. \/ record_prov(k, op, i) = k
        \/ \E x : record_prov(k, op, i) = [k EXCEPT !.prov_log = x]
    BY DEF record_prov
  <2> QED BY <2>1 DEF TakesNothing, IsGraph, GraphFields, SameIds
<1>7. TakesNothing(k, update_quota(k, d, v))
  <2>1. \E x : update_quota(k, d, v) = [k EXCEPT !.quotas = x]
    BY DEF update_quota
  <2> QED BY <2>1 DEF TakesNothing, IsGraph, GraphFields, SameIds
<1> QED BY <1>1, <1>2, <1>3, <1>4, <1>5, <1>6, <1>7

LEMMA FinishTakesNothing ==
  ASSUME NEW k, IsGraph(k), NEW d, NEW v, NEW op, NEW i
  PROVE  TakesNothing(k, record_prov(update_quota(k, d, v), op, i))
<1> DEFINE m == update_quota(k, d, v)
<1>1. TakesNothing(k, m)
  BY HelpersTakeNothing
<1> HIDE DEF m
<1>2. TakesNothing(m, record_prov(m, op, i))
  BY <1>1, HelpersTakeNothing DEF TakesNothing
<1> QED BY <1>1, <1>2 DEF TakesNothing, SameIds, m

LEMMA CreateNodeTakes ==
  ASSUME NEW k, IsGraph(k), NEW d, NEW n, NEW inode,
         NEW h, h = create_node(k, d, n, inode)
  PROVE  /\ IsGraph(h) /\ h.next_inode = k.next_inode + 1
         /\ h.next_dir = k.next_dir /\ h.next_edge = k.next_edge + 1
<1> DEFINE i == k.next_inode
           e == k.next_edge
           m0 == [k EXCEPT !.next_inode = i + 1, !.next_edge = e + 1]
           m == insert_inode(m0, i, inode)
<1>1. h = add_contains(m, e, d, i, n)
  BY DEF create_node
<1>2. /\ IsGraph(m0) /\ m0.next_inode = k.next_inode + 1
      /\ m0.next_dir = k.next_dir /\ m0.next_edge = k.next_edge + 1
  BY DEF IsGraph, GraphFields
<1> HIDE DEF m0
<1>3. TakesNothing(m0, m)
  BY <1>2, HelpersTakeNothing
<1> HIDE DEF m
<1>4. TakesNothing(m, h)
  BY <1>1, <1>3, HelpersTakeNothing DEF TakesNothing
<1> QED BY <1>2, <1>3, <1>4 DEF TakesNothing, SameIds

LEMMA CreateFileTakes ==
  ASSUME NEW k, IsGraph(k), NEW d, NEW n, NEW mode, NEW u,
         NEW h, h = create_file(k, d, n, mode, u)
  PROVE  /\ h.next_inode = k.next_inode + 1
         /\ h.next_dir = k.next_dir /\ h.next_edge = k.next_edge + 1
<1> DEFINE m == create_node(k, d, n, NewInode("Regular", 1, mode, u, u, 0))
<1>1. h = record_prov(update_quota(m, d, 1), "Create", k.next_inode)
  BY DEF create_file
<1>2. /\ IsGraph(m) /\ m.next_inode = k.next_inode + 1
      /\ m.next_dir = k.next_dir /\ m.next_edge = k.next_edge + 1
  BY CreateNodeTakes
<1> HIDE DEF m
<1>3. TakesNothing(m, h)
  BY <1>1, <1>2, FinishTakesNothing
<1> QED BY <1>2, <1>3 DEF TakesNothing, SameIds

LEMMA SymlinkTakes ==
  ASSUME NEW k, IsGraph(k), NEW d, NEW n, NEW t, NEW u,
         NEW h, h = symlink(k, d, n, t, u)
  PROVE  /\ h.next_inode = k.next_inode + 1
         /\ h.next_dir = k.next_dir /\ h.next_edge = k.next_edge + 1
<1> DEFINE m0 == create_node(k, d, n, NewInode("Symlink", 1, SymlinkMode, u, u, Len(t)))
           m == [m0 EXCEPT !.symlink_targets = Put(@, k.next_inode, t)]
<1>1. h = record_prov(update_quota(m, d, 1), "Symlink", k.next_inode)
  BY DEF symlink
<1>2. /\ IsGraph(m0) /\ m0.next_inode = k.next_inode + 1
      /\ m0.next_dir = k.next_dir /\ m0.next_edge = k.next_edge + 1
  BY CreateNodeTakes
<1> HIDE DEF m0
<1>3. TakesNothing(m0, m)
  BY <1>2 DEF TakesNothing, IsGraph, GraphFields, SameIds
<1> HIDE DEF m
<1>4. TakesNothing(m, h)
  BY <1>1, <1>3, FinishTakesNothing DEF TakesNothing
<1> QED BY <1>2, <1>3, <1>4 DEF TakesNothing, SameIds

LEMMA MkdirTakes ==
  ASSUME NEW k, IsGraph(k), NEW d, NEW n, NEW mode, NEW u,
         NEW h, h = mkdir(k, d, n, mode, u)
  PROVE  /\ h.next_inode = k.next_inode + 1
         /\ h.next_dir = k.next_dir + 1 /\ h.next_edge = k.next_edge + 3
<1> DEFINE i == k.next_inode
           c == k.next_dir
           e == k.next_edge
           m0 == [k EXCEPT !.next_inode = i + 1, !.next_dir = c + 1,
                           !.next_edge = e + 3]
           m1 == insert_inode(m0, i, NewInode("Directory", 2, mode, u, u, 0))
           m2 == insert_dir(m1, c, i)
           m3 == add_contains(m2, e, d, i, n)
           m4 == add_contains(m3, e + 1, c, i, ".")
           m5 == add_contains(m4, e + 2, c, k.dirs[d], "..")
<1>1. h = record_prov(update_quota(m5, d, 1), "Mkdir", i)
  BY DEF mkdir, mkdir_nodes
<1>2. /\ IsGraph(m0) /\ m0.next_inode = i + 1
      /\ m0.next_dir = c + 1 /\ m0.next_edge = e + 3
  BY DEF IsGraph, GraphFields
<1> HIDE DEF m0
<1>3. TakesNothing(m0, m1)
  BY <1>2, HelpersTakeNothing
<1> HIDE DEF m1
<1>4. TakesNothing(m1, m2)
  BY <1>3, HelpersTakeNothing DEF TakesNothing
<1> HIDE DEF m2
<1>5. TakesNothing(m2, m3)
  BY <1>4, HelpersTakeNothing DEF TakesNothing
<1> HIDE DEF m3
<1>6. TakesNothing(m3, m4)
  BY <1>5, HelpersTakeNothing DEF TakesNothing
<1> HIDE DEF m4
<1>7. TakesNothing(m4, m5)
  BY <1>6, HelpersTakeNothing DEF TakesNothing
<1> HIDE DEF m5
<1>8. TakesNothing(m5, h)
  BY <1>1, <1>7, FinishTakesNothing DEF TakesNothing
<1> QED BY <1>2, <1>3, <1>4, <1>5, <1>6, <1>7, <1>8 DEF TakesNothing, SameIds

LEMMA LinkTakes ==
  ASSUME NEW k, IsGraph(k), NEW d, NEW n, NEW i, NEW h, h = link(k, d, n, i)
  PROVE  h.next_edge = k.next_edge + 1
<1> DEFINE e == k.next_edge
           m0 == [k EXCEPT !.next_edge = e + 1]
           m1 == add_contains(m0, e, d, i, n)
           m == Counted(m1, i, 1)
<1>1. h = record_prov(m, "Link", i)
  BY DEF link, link_nodes, Counted
<1>2. IsGraph(m0) /\ m0.next_edge = e + 1
  BY DEF IsGraph, GraphFields
<1> HIDE DEF m0
<1>3. TakesNothing(m0, m1)
  BY <1>2, HelpersTakeNothing
<1> HIDE DEF m1
<1>4. TakesNothing(m1, m)
  <2>1. \E x : m = [m1 EXCEPT !.inodes = x]
    BY DEF Counted
  <2> HIDE DEF m
  <2> QED BY <1>3, <2>1 DEF TakesNothing, IsGraph, GraphFields, SameIds
<1> HIDE DEF m
<1>5. TakesNothing(m, h)
  BY <1>1, <1>4, HelpersTakeNothing DEF TakesNothing
<1> QED BY <1>2, <1>3, <1>4, <1>5 DEF TakesNothing, SameIds

LEMMA MoveTakes ==
  ASSUME NEW k, IsGraph(k), NEW e, NEW i, NEW d, NEW n
  PROVE  move_dotdot(move_entry(k, e, d, n), i, d).next_edge = k.next_edge + 1
<1> DEFINE m0 == drop_contains(k, {e})
           m1 == [m0 EXCEPT !.next_edge = k.next_edge + 1]
           m == add_contains(m1, k.next_edge, d, k.edges[e].tgt, n)
<1>1. TakesNothing(k, m0)
  BY HelpersTakeNothing
<1>2. m = move_entry(k, e, d, n)
  BY DEF move_entry
<1> HIDE DEF m0
<1>3. IsGraph(m1) /\ m1.next_edge = k.next_edge + 1
  BY <1>1 DEF TakesNothing, IsGraph, GraphFields
<1> HIDE DEF m1
<1>4. TakesNothing(m1, m)
  BY <1>3, HelpersTakeNothing
<1> HIDE DEF m
<1>5. TakesNothing(m, move_dotdot(m, i, d))
  BY <1>4, HelpersTakeNothing DEF TakesNothing
<1> QED BY <1>2, <1>3, <1>4, <1>5 DEF TakesNothing, SameIds

-----------------------------------------------------------------------------
\* What the cycle check has excluded: the directories below the moved one form
\* a set that the destination is not in, also when its name has been freed.
LEMMA NoCycleMeansClear ==
  ASSUME NEW k, Sound(k), NEW m, Sound(m), NEW d2, NEW n2, Vacates(k, m, d2, n2),
         NEW i, NEW d, ~would_create_cycle(k, i, d)
  PROVE  \E T : KeepsClearOf(m, i, d, T)
<1>1. /\ FieldsTyped(k) /\ IdsIssued(k) /\ ListingsExact(k) /\ DirsPaired(k)
  BY SoundGraph
<1>2. /\ \A x \in DOMAIN m.dirs : x \in DOMAIN k.dirs /\ m.dirs[x] = k.dirs[x]
      /\ \A e \in UserEdges(m) : e \in UserEdges(k) /\ m.edges[e] = k.edges[e]
  BY DEF Vacates
<1>3. CASE \E c \in DOMAIN k.dirs : k.dirs[c] = i
  <2>1. PICK c \in DOMAIN k.dirs : k.dirs[c] = i
    BY <1>3
  <2>2. IsDirInode(k, i) /\ dir_for_inode(k, i) = c /\ c # None
    BY <1>1, <2>1 DEF DirsPaired, dir_for_inode, IdsIssued, None
  <2>3. ~is_ancestor(k, c, d)
    BY <2>2 DEF would_create_cycle
  <2>4. PICK T \in SUBSET (DOMAIN k.dirs \cup {c, d}) :
          c \in T /\ DownClosed(k, T) /\ d \notin T
    BY <2>3 DEF is_ancestor
  <2>5. \A x \in T : \A y \in DOMAIN k.dirs : Holds(k, x, y) => y \in T
    BY <1>1, <2>4, ChildDirsAre DEF DownClosed
  <2>6. \A x, y : y \in DOMAIN m.dirs /\ Holds(m, x, y) => Holds(k, x, y)
    BY <1>2 DEF Holds
  <2>7. \A x \in T : \A y \in DOMAIN m.dirs : Holds(m, x, y) => y \in T
    BY <1>2, <2>5, <2>6
  <2>8. \A z \in DOMAIN m.dirs : m.dirs[z] = i => z = c
    BY <1>1, <1>2, <2>1, DirsDiffer
  <2>9. KeepsClearOf(m, i, d, T)
    BY <2>4, <2>7, <2>8 DEF KeepsClearOf
  <2> QED BY <2>9
<1>4. CASE ~\E c \in DOMAIN k.dirs : k.dirs[c] = i
  <2>1. KeepsClearOf(m, i, d, {})
    BY <1>2, <1>4 DEF KeepsClearOf
  <2> QED BY <2>1
<1> QED BY <1>3, <1>4

\* Step from k to h that moves entry e, and not below the directory it leads to.
MovesEntry(k, h, e, sd, src, dd, dst) ==
  /\ Moves(k, h, e, dd, dst) /\ k.edges[e].src = sd /\ k.edges[e].name = src
  /\ sd # dd => ~would_create_cycle(k, k.edges[e].tgt, dd)

\* A call that needs an edge id finds the pool full or a slot for it; what
\* does not succeed has changed nothing either way.
LEMMA RenameCrossDirSound ==
  ASSUME NEW k, Sound(k), NEW sd, NEW src \in AllNames \ Dots,
         NEW dd \in DOMAIN k.dirs, NEW dst \in AllNames \ Dots, sd # dd
  PROVE  LET r == rename_cross_dir(k, sd, src, dd, dst)
         IN /\ ~r.ok => r.graph = k
            /\ r.ok => r.graph.next_edge = k.next_edge + 1
            /\ r.ok /\ k.next_edge < EDGE_CAPACITY =>
                 /\ Sound(r.graph) /\ r.graph.next_dir = k.next_dir
                 /\ r.graph.next_inode = k.next_inode
                 /\ \E e : MovesEntry(k, r.graph, e, sd, src, dd, dst)
<1> DEFINE r == rename_cross_dir(k, sd, src, dd, dst)
           i == resolve_name(k, sd, src)
           p == replace_destination(k, dd, dst)
           m == p.graph
           E == source_entries(m, sd, i, src)
           e == First(E)
           h == move_dotdot(move_entry(m, e, dd, dst), i, dd)
<1>1. CASE i = None \/ would_create_cycle(k, i, dd) \/ ~p.ok
  <2>1. ~p.ok => m = k
    BY ReplaceSound
  <2>2. r.graph = k /\ ~r.ok
    BY <1>1 DEF rename_cross_dir, Fail
  <2> QED BY <2>2
<1>2. CASE i # None /\ ~would_create_cycle(k, i, dd) /\ p.ok
  <2>1. Sound(m) /\ Vacates(k, m, dd, dst)
    BY <1>2, ReplaceSound
  <2>2. r = IF E = {} THEN Fail(m) ELSE Done(h)
    BY <1>2 DEF rename_cross_dir
  <2> HIDE DEF m, r, i
  <2>3. /\ E # {} /\ e \in UserEdges(m) /\ m.edges[e].src = sd /\ m.edges[e].tgt = i
        /\ m.edges[e].name = src
    BY <1>2, <2>1, SourceEntryIs DEF i
  <2> HIDE DEF E
  <2>4. r.ok /\ r.graph = h
    BY <2>2, <2>3 DEF Done
  <2> HIDE DEF e
  <2>5. IsGraph(m) /\ SameIds(k, m)
    BY <2>1, SoundGraph DEF Vacates
  <2>6. h.next_edge = k.next_edge + 1
    BY <2>5, MoveTakes DEF SameIds
  <2>7. ASSUME k.next_edge < EDGE_CAPACITY
        PROVE  /\ Sound(h) /\ h.next_dir = k.next_dir /\ h.next_inode = k.next_inode
               /\ MovesEntry(k, h, e, sd, src, dd, dst)
    <3>1. dd \in DOMAIN m.dirs /\ <<dd, dst>> \notin DOMAIN m.dir_name_idx
      BY <2>1 DEF Vacates
    <3>2. PICK T : KeepsClearOf(m, i, dd, T)
      BY <1>2, <2>1, NoCycleMeansClear
    <3>3. m.next_edge < EDGE_CAPACITY
      BY <2>5, <2>7 DEF SameIds
    <3>4. /\ Sound(h) /\ h.next_edge = m.next_edge + 1
          /\ h.next_dir = m.next_dir /\ h.next_inode = m.next_inode
          /\ SameObjects(m, h)
          /\ \E y : /\ UserEdges(h) = (UserEdges(m) \ {e}) \cup {y}
                    /\ h.edges[y].src = dd /\ h.edges[y].name = dst
                    /\ h.edges[y].tgt = i
                    /\ \A x \in UserEdges(m) \ {e} :
                         x # y /\ h.edges[x] = m.edges[x]
      BY <2>1, <2>3, <3>1, <3>2, <3>3, MoveSound
    <3>5. m.edges[e] = k.edges[e]
      BY <2>1, <2>3 DEF Vacates
    <3>6. Moves(k, h, e, dd, dst)
      <4> HIDE DEF h
      <4> QED BY <2>1, <2>3, <3>4, VacatesThenMoves
    <3>7. MovesEntry(k, h, e, sd, src, dd, dst)
      BY <1>2, <2>3, <3>5, <3>6 DEF MovesEntry
    <3> QED BY <2>5, <3>4, <3>7 DEF SameIds
  <2> HIDE DEF h
  <2> QED BY <2>4, <2>6, <2>7 DEF r
<1> QED BY <1>1, <1>2

LEMMA RenameSound ==
  ASSUME NEW k, Sound(k), NEW sd \in DOMAIN k.dirs, NEW src \in AllNames,
         NEW dd \in DOMAIN k.dirs, NEW dst \in AllNames
  PROVE  LET r == rename(k, sd, src, dd, dst)
         IN /\ ~r.ok => r.graph = k
            /\ r.graph.next_edge <= EDGE_CAPACITY =>
                 /\ Sound(r.graph) /\ r.graph.next_dir = k.next_dir
                 /\ r.graph.next_inode = k.next_inode
                 /\ \/ SameTree(k, r.graph)
                    \/ \E e : MovesEntry(k, r.graph, e, sd, src, dd, dst)
<1> DEFINE p == IF sd = dd THEN rename_same_dir(k, sd, src, dst)
                           ELSE rename_cross_dir(k, sd, src, dd, dst)
           r == rename(k, sd, src, dd, dst)
<1>1. CASE ~require_cap(k, "WRITE") \/ {src, dst} \cap Dots # {}
  <2>1. r.graph = k
    BY <1>1 DEF rename, Fail
  <2>2. SameTree(k, k)
    BY DEF SameTree
  <2> QED BY <2>1, <2>2
<1>2. CASE require_cap(k, "WRITE") /\ {src, dst} \cap Dots = {}
  <2>1. src \in AllNames \ Dots /\ dst \in AllNames \ Dots
    BY <1>2
  <2>2. k.next_edge \in Int /\ EDGE_CAPACITY \in Int
    BY SoundGraph, CapacityAssumption
  <2>3. /\ ~p.ok => p.graph = k
        /\ p.ok => p.graph.next_edge \in {k.next_edge, k.next_edge + 1}
        /\ p.ok /\ p.graph.next_edge <= EDGE_CAPACITY =>
             /\ Sound(p.graph) /\ p.graph.next_dir = k.next_dir
             /\ p.graph.next_inode = k.next_inode
             /\ \/ p.graph = k
                \/ \E e : MovesEntry(k, p.graph, e, sd, src, dd, dst)
    <3>1. CASE sd = dd
      <4>1. /\ ~p.ok => p.graph = k
            /\ Sound(p.graph) /\ SameIds(k, p.graph)
            /\ \/ p.graph = k
               \/ \E e : /\ Moves(k, p.graph, e, sd, dst) /\ k.edges[e].src = sd
                         /\ k.edges[e].name = src
        BY <2>1, <3>1, RenameSameDirSound
      <4> HIDE DEF p
      <4>2. p.graph = k \/ \E e : MovesEntry(k, p.graph, e, sd, src, dd, dst)
        BY <3>1, <4>1 DEF MovesEntry
      <4> QED BY <4>1, <4>2 DEF SameIds
    <3>2. CASE sd # dd
      <4>1. /\ ~p.ok => p.graph = k
            /\ p.ok => p.graph.next_edge = k.next_edge + 1
            /\ p.ok /\ k.next_edge < EDGE_CAPACITY =>
                 /\ Sound(p.graph) /\ p.graph.next_dir = k.next_dir
                 /\ p.graph.next_inode = k.next_inode
                 /\ \E e : MovesEntry(k, p.graph, e, sd, src, dd, dst)
        BY <2>1, <3>2, RenameCrossDirSound
      <4> HIDE DEF p
      <4> QED BY <2>2, <4>1
    <3> QED BY <3>1, <3>2
  <2> DEFINE h == record_prov(p.graph, "Rename", resolve_name(p.graph, dd, dst))
  <2>4. r = IF ~p.ok THEN p ELSE Done(h)
    BY <1>2 DEF rename
  <2> HIDE DEF p
  <2>5. ~p.ok => r.graph = k
    BY <2>3, <2>4
  <2>6. ASSUME p.ok
        PROVE  r.ok /\ r.graph = h /\ TakesNothing(p.graph, h)
    <3>1. r.ok /\ r.graph = h
      BY <2>4, <2>6 DEF Done
    <3>2. IsGraph(p.graph)
      <4>1. Issues(k, p.graph)
        BY SoundGraph, EdgeIdsAreNat, RenameSameDirIssues, RenameCrossDirIssues DEF p
      <4> QED BY <4>1 DEF Issues, FieldsTyped
    <3> QED BY <3>1, <3>2, HelpersTakeNothing
  <2>7. ASSUME p.ok, r.graph.next_edge <= EDGE_CAPACITY
        PROVE  /\ Sound(r.graph) /\ r.graph.next_dir = k.next_dir
               /\ r.graph.next_inode = k.next_inode
               /\ \/ SameTree(k, r.graph)
                  \/ \E e : MovesEntry(k, r.graph, e, sd, src, dd, dst)
    <3>1. /\ Sound(p.graph) /\ p.graph.next_dir = k.next_dir
          /\ p.graph.next_inode = k.next_inode
          /\ \/ p.graph = k
             \/ \E e : MovesEntry(k, p.graph, e, sd, src, dd, dst)
      BY <2>3, <2>6, <2>7 DEF TakesNothing, SameIds
    <3>2. Sound(h) /\ SameTree(p.graph, h)
      BY <3>1, FinishSound
    <3> HIDE DEF h
    <3>3. SameTree(k, h) \/ \E e : MovesEntry(k, h, e, sd, src, dd, dst)
      BY <3>1, <3>2, MovesThenSameTree DEF MovesEntry
    <3> QED BY <2>6, <2>7, <3>1, <3>2, <3>3 DEF TakesNothing, SameIds
  <2>8. ~r.ok => r.graph = k
    BY <2>5, <2>6
  <2>9. SameTree(k, k)
    BY DEF SameTree
  <2> HIDE DEF r, h
  <2> QED BY <2>5, <2>7, <2>8, <2>9 DEF r
<1> QED BY <1>1, <1>2

-----------------------------------------------------------------------------
(***************************************************************************)
(* Edges that are not entries, and attributes of inodes.                   *)
(***************************************************************************)
LEMMA OtherEdgeSameTree ==
  ASSUME NEW k, IsGraph(k), NEW e, e \notin DOMAIN k.edges, NEW kind,
         kind # "Contains", NEW s, NEW t,
         NEW h, h = insert_edge(k, e, OtherEdge(kind, s, t))
  PROVE  SameTree(k, h) /\ TakesNothing(k, h)
<1> DEFINE P == insert_at(k.edges, e, OtherEdge(kind, s, t), EDGE_CAPACITY)
<1>1. h = [k EXCEPT !.edges = P, !.dir_name_idx = k.dir_name_idx]
  BY DEF insert_edge, OtherEdge
<1>2. {x \in DOMAIN P : P[x].kind = "Contains"} =
        {x \in DOMAIN k.edges : k.edges[x].kind = "Contains"}
  BY DEF insert_at, Put, OtherEdge
<1>3. \A x \in DOMAIN k.edges : P[x] = k.edges[x]
  BY DEF insert_at, Put
<1> HIDE DEF P
<1>4. /\ SameExcept(k, h, {"edges"}) /\ h.edges = P
      /\ h.dir_name_idx = k.dir_name_idx
  BY <1>1 DEF SameExcept, IsGraph, GraphFields
<1>5. /\ h.dirs = k.dirs /\ h.dir_for_inode_idx = k.dir_for_inode_idx
      /\ h.dir_contains = k.dir_contains /\ h.inodes = k.inodes
      /\ h.inode_incoming_contains = k.inode_incoming_contains
      /\ SameIds(k, h) /\ IsGraph(h)
  BY <1>4 DEF SameExcept, GraphFields, SameIds
<1>6. /\ ContainsEdges(h) = ContainsEdges(k)
      /\ \A x \in ContainsEdges(k) : h.edges[x] = k.edges[x]
  BY <1>2, <1>3, <1>4 DEF ContainsEdges
<1> QED BY <1>4, <1>5, <1>6 DEF SameTree, TakesNothing

LEMMA OtherEdgesGone ==
  ASSUME NEW k, IsGraph(k), NEW S, \A x \in S \cap DOMAIN k.edges :
                                     k.edges[x].kind # "Contains",
         NEW h, h = remove_edge(k, S)
  PROVE  SameTree(k, h) /\ TakesNothing(k, h)
<1>1. Keys(k, S \cap DOMAIN k.edges) = {}
  BY DEF Keys
<1>2. /\ SameExcept(k, h, {"edges", "dir_name_idx"})
      /\ h.edges = Del(k.edges, S)
      /\ h.dir_name_idx = Del(k.dir_name_idx, Keys(k, S \cap DOMAIN k.edges))
  BY DEF remove_edge, SameExcept, IsGraph, GraphFields
<1>3. /\ h.dirs = k.dirs /\ h.dir_for_inode_idx = k.dir_for_inode_idx
      /\ h.dir_contains = k.dir_contains /\ h.inodes = k.inodes
      /\ h.inode_incoming_contains = k.inode_incoming_contains
      /\ SameIds(k, h) /\ IsGraph(h)
  BY <1>2 DEF SameExcept, GraphFields, SameIds
<1>4. /\ DOMAIN h.edges = DOMAIN k.edges \ S
      /\ \A x \in DOMAIN h.edges : h.edges[x] = k.edges[x]
      /\ DOMAIN h.dir_name_idx = DOMAIN k.dir_name_idx
      /\ \A q \in DOMAIN k.dir_name_idx : h.dir_name_idx[q] = k.dir_name_idx[q]
  BY <1>1, <1>2 DEF Del
<1>5. /\ ContainsEdges(h) = ContainsEdges(k)
      /\ \A x \in ContainsEdges(k) : h.edges[x] = k.edges[x]
  BY <1>4 DEF ContainsEdges
<1> QED BY <1>3, <1>4, <1>5 DEF SameTree, TakesNothing

LEMMA AttributesSameTree ==
  ASSUME NEW k, IsGraph(k), NEW P, DOMAIN P = DOMAIN k.inodes,
         \A i \in DOMAIN P : /\ P[i].vtype = k.inodes[i].vtype
                             /\ P[i].link_count = k.inodes[i].link_count,
         NEW h, h = [k EXCEPT !.inodes = P]
  PROVE  SameTree(k, h) /\ TakesNothing(k, h)
<1>1. SameExcept(k, h, {"inodes"}) /\ h.inodes = P
  BY DEF SameExcept, IsGraph, GraphFields
<1>2. /\ h.dirs = k.dirs /\ h.dir_for_inode_idx = k.dir_for_inode_idx
      /\ h.dir_contains = k.dir_contains /\ h.edges = k.edges
      /\ h.inode_incoming_contains = k.inode_incoming_contains
      /\ h.dir_name_idx = k.dir_name_idx /\ SameIds(k, h) /\ IsGraph(h)
  BY <1>1 DEF SameExcept, GraphFields, SameIds
<1> QED BY <1>1, <1>2 DEF SameTree, ContainsEdges, TakesNothing

\* A step from k to h that the tree does not notice.
Unnoticed(k, h) ==
  IsGraph(h) /\ SameTree(k, h) /\ h.next_dir = k.next_dir

LEMMA UnnoticedTrans ==
  ASSUME NEW k, NEW m, NEW h, Unnoticed(k, m), Unnoticed(m, h)
  PROVE  Unnoticed(k, h)
BY SameTreeTrans DEF Unnoticed

LEMMA UnnoticedIf ==
  ASSUME NEW k, NEW h
  PROVE  /\ SameTree(k, h) /\ TakesNothing(k, h) => Unnoticed(k, h)
         /\ SameExcept(k, h, Apart) /\ h.next_dir = k.next_dir => Unnoticed(k, h)
<1>1. SameExcept(k, h, Apart) => SameTree(k, h)
  BY ApartIsSameTree
<1> QED BY <1>1 DEF Unnoticed, TakesNothing, SameIds, SameExcept

LEMMA RecordUnnoticed ==
  ASSUME NEW k, FieldsTyped(k), NEW op, NEW i
  PROVE  Unnoticed(k, record_prov(k, op, i))
<1>1. IsGraph(k)
  BY DEF FieldsTyped
<1>2. SameTree(k, record_prov(k, op, i))
  BY FinishSameTree
<1>3. TakesNothing(k, record_prov(k, op, i))
  BY <1>1, HelpersTakeNothing
<1> QED BY <1>2, <1>3, UnnoticedIf

-----------------------------------------------------------------------------
(***************************************************************************)
(* The operations on contents, attributes, xattrs and ACLs.                *)
(***************************************************************************)
LEMMA WriteBlockUnnoticed ==
  ASSUME NEW k, Sound(k), NEW i
  PROVE  Unnoticed(k, write_block(k, i))
<1> DEFINE b == k.next_block
           e == k.next_edge
           m == [k EXCEPT !.next_block = b + 1, !.next_edge = e + 1,
                          !.blocks = insert_at(k.blocks, b, 1, NODE_CAPACITY),
                          !.inode_points_to = IndexAdd(k.inode_points_to, i, e)]
           h == insert_edge(m, e, OtherEdge("PointsTo", i, b))
<1>1. IsGraph(k) /\ e \notin DOMAIN k.edges
  BY SoundGraph
<1>2. h = write_block(k, i)
  BY <1>1 DEF write_block, IsGraph, GraphFields
<1>3. /\ SameExcept(k, m, Apart) /\ m.next_dir = k.next_dir /\ m.edges = k.edges
      /\ IsGraph(m)
  BY <1>1 DEF SameExcept, IsGraph, GraphFields, Apart, Counters
<1> HIDE DEF m
<1>4. SameTree(m, h) /\ TakesNothing(m, h)
  BY <1>1, <1>3, OtherEdgeSameTree
<1> HIDE DEF h
<1>5. Unnoticed(k, m) /\ Unnoticed(m, h)
  BY <1>3, <1>4, UnnoticedIf
<1> QED BY <1>2, <1>5, UnnoticedTrans

LEMMA NewXattrUnnoticed ==
  ASSUME NEW k, Sound(k), NEW i \in Nat, NEW key, NEW value
  PROVE  Unnoticed(k, new_xattr(k, i, key, value))
<1> DEFINE x == k.next_xattr
           e == k.next_edge
           m == [k EXCEPT !.next_xattr = x + 1, !.next_edge = e + 1,
                          !.xattrs = Put(@, x, [key |-> key, value |-> value]),
                          !.inode_xattrs = IndexAdd(@, i, x)]
           n == insert_edge(m, e, OtherEdge("HasXattr", i, x))
           h == new_xattr(k, i, key, value)
<1>1. IsGraph(k) /\ e \notin DOMAIN k.edges
  BY SoundGraph
<1>2. h = record_prov(n, "Setxattr", i)
  BY DEF new_xattr
<1>3. /\ SameExcept(k, m, Apart) /\ m.next_dir = k.next_dir /\ m.edges = k.edges
      /\ IsGraph(m)
  BY <1>1 DEF SameExcept, IsGraph, GraphFields, Apart, Counters
<1> HIDE DEF m, h
<1>4. SameTree(m, n) /\ TakesNothing(m, n)
  BY <1>1, <1>3, OtherEdgeSameTree
<1> HIDE DEF n
<1>5. TakesNothing(n, h)
  BY <1>2, <1>4, HelpersTakeNothing DEF TakesNothing
<1>6. SameTree(n, h)
  <2>1. SameExcept(n, h, {"prov_log"})
    BY <1>2, <1>4 DEF TakesNothing, record_prov, SameExcept, IsGraph, GraphFields
  <2>2. SameExcept(n, h, Apart)
    BY <2>1 DEF SameExcept, Apart
  <2> QED BY <2>2, ApartIsSameTree
<1>7. Unnoticed(k, m) /\ Unnoticed(m, n) /\ Unnoticed(n, h)
  BY <1>3, <1>4, <1>5, <1>6, UnnoticedIf
<1> QED BY <1>7, UnnoticedTrans DEF h

LEMMA SetxattrUnnoticed ==
  ASSUME NEW k, Sound(k), NEW i \in Nat, NEW key, NEW value
  PROVE  Unnoticed(k, setxattr(k, i, key, value))
<1>1. \/ setxattr(k, i, key, value) = new_xattr(k, i, key, value)
      \/ \E x : setxattr(k, i, key, value) = [k EXCEPT !.xattrs = x]
  BY DEF setxattr
<1>2. ASSUME NEW h, \E x : h = [k EXCEPT !.xattrs = x]
      PROVE  Unnoticed(k, h)
  <2>1. IsGraph(k)
    BY SoundGraph
  <2>2. SameExcept(k, h, {"xattrs"})
    BY <1>2, <2>1 DEF SameExcept, IsGraph, GraphFields
  <2>3. SameExcept(k, h, Apart) /\ h.next_dir = k.next_dir
    BY <2>2 DEF SameExcept, Apart, GraphFields
  <2> QED BY <2>3, UnnoticedIf
<1> QED BY <1>1, <1>2, NewXattrUnnoticed

LEMMA RemovexattrUnnoticed ==
  ASSUME NEW k, Sound(k), NEW i, NEW key
  PROVE  Unnoticed(k, removexattr(k, i, key))
<1> DEFINE x == First(xattrs_with_key(k, i, key))
           E == {e \in DOMAIN k.edges : k.edges[e] = OtherEdge("HasXattr", i, x)}
           m == [k EXCEPT !.xattrs = Del(@, {x}), !.inode_xattrs[i] = @ \ {x}]
           n == IF E = {} THEN m ELSE remove_edge(m, {First(E)})
           h == removexattr(k, i, key)
<1>1. IsGraph(k) /\ FieldsTyped(k) /\ IdsIssued(k)
  BY SoundGraph
<1>2. h = record_prov(n, "Removexattr", i)
  BY DEF removexattr
<1>3. E \subseteq Nat /\ \A e \in E : k.edges[e].kind = "HasXattr"
  BY <1>1, EdgeIdsAreNat DEF OtherEdge
<1>4. /\ SameExcept(k, m, {"xattrs", "inode_xattrs"}) /\ IsGraph(m)
  BY <1>1 DEF SameExcept, IsGraph, GraphFields
<1>5. /\ SameExcept(k, m, Apart) /\ m.next_dir = k.next_dir /\ m.edges = k.edges
  BY <1>4 DEF SameExcept, GraphFields, Apart
<1> HIDE DEF m, h, E
<1>6. SameTree(m, n) /\ TakesNothing(m, n)
  <2>1. CASE E = {}
    BY <1>4, <2>1 DEF SameTree, TakesNothing, SameIds
  <2>2. CASE E # {}
    <3>1. First(E) \in E
      BY <1>3, <2>2, FirstIn
    <3>2. \A e \in {First(E)} \cap DOMAIN m.edges : m.edges[e].kind # "Contains"
      BY <1>3, <1>5, <3>1
    <3> QED BY <1>4, <2>2, <3>2, OtherEdgesGone
  <2> QED BY <2>1, <2>2
<1> HIDE DEF n
<1>7. TakesNothing(n, h)
  BY <1>2, <1>6, HelpersTakeNothing DEF TakesNothing
<1>8. SameTree(n, h)
  <2>1. SameExcept(n, h, {"prov_log"})
    BY <1>2, <1>6 DEF TakesNothing, record_prov, SameExcept, IsGraph, GraphFields
  <2>2. SameExcept(n, h, Apart)
    BY <2>1 DEF SameExcept, Apart
  <2> QED BY <2>2, ApartIsSameTree
<1>9. Unnoticed(k, m) /\ Unnoticed(m, n) /\ Unnoticed(n, h)
  BY <1>5, <1>6, <1>7, <1>8, UnnoticedIf
<1> QED BY <1>9, UnnoticedTrans DEF h

LEMMA SetBytesUnnoticed ==
  ASSUME NEW k, Sound(k), NEW i, NEW buf \in Seq(Nat), NEW op
  PROVE  Unnoticed(k, record_prov(SetBytes(k, i, buf), op, i))
<1> DEFINE m0 == [k EXCEPT !.file_data = Put(k.file_data, i, buf)]
           P == [k.inodes EXCEPT ![i].size = Len(buf)]
           m == SetBytes(k, i, buf)
<1>1. IsGraph(k) /\ FieldsTyped(k)
  BY SoundGraph
<1>2. \A j \in DOMAIN k.inodes : k.inodes[j] \in Inode
  BY <1>1 DEF FieldsTyped
<1>3. /\ DOMAIN P = DOMAIN k.inodes
      /\ \A j \in DOMAIN P : /\ P[j].vtype = k.inodes[j].vtype
                             /\ P[j].link_count = k.inodes[j].link_count
  BY <1>2 DEF Inode
<1>4. SameExcept(k, m0, {"file_data"}) /\ IsGraph(m0)
  BY <1>1 DEF SameExcept, IsGraph, GraphFields
<1>5. SameExcept(k, m0, Apart) /\ m0.next_dir = k.next_dir /\ m0.inodes = k.inodes
  BY <1>4 DEF SameExcept, Apart, GraphFields
<1>6. m = [m0 EXCEPT !.inodes = P]
  BY <1>1 DEF SetBytes, IsGraph, GraphFields
<1>7. FieldsTyped(m)
  BY <1>1, SetBytesKeeps, KeepsTyped
<1> HIDE DEF m, m0, P
<1>8. SameTree(m0, m) /\ TakesNothing(m0, m)
  BY <1>3, <1>4, <1>5, <1>6, AttributesSameTree
<1>9. Unnoticed(k, m0) /\ Unnoticed(m0, m)
  BY <1>5, <1>8, UnnoticedIf
<1>10. Unnoticed(m, record_prov(m, op, i))
  BY <1>7, RecordUnnoticed
<1>11. Unnoticed(k, record_prov(m, op, i))
  BY <1>9, <1>10, UnnoticedTrans
<1> QED BY <1>11 DEF m

LEMMA ChmodUnnoticed ==
  ASSUME NEW k, Sound(k), NEW i, NEW mode \in Modes
  PROVE  Unnoticed(k, chmod(k, i, mode))
<1> DEFINE P == [k.inodes EXCEPT ![i].mode = mode]
           m == [k EXCEPT !.inodes = P]
           h == chmod(k, i, mode)
<1>1. IsGraph(k) /\ FieldsTyped(k)
  BY SoundGraph
<1>2. \A j \in DOMAIN k.inodes : k.inodes[j] \in Inode
  BY <1>1 DEF FieldsTyped
<1>3. /\ DOMAIN P = DOMAIN k.inodes
      /\ \A j \in DOMAIN P : /\ P[j].vtype = k.inodes[j].vtype
                             /\ P[j].link_count = k.inodes[j].link_count
  BY <1>2 DEF Inode
<1>4. h = record_prov(m, "Chmod", i)
  BY DEF chmod
<1> HIDE DEF P, m, h
<1>5. SameTree(k, m) /\ TakesNothing(k, m)
  BY <1>1, <1>3, AttributesSameTree DEF m
<1>6. TakesNothing(m, h) /\ SameTree(m, h)
  <2>1. TakesNothing(m, h)
    BY <1>4, <1>5, HelpersTakeNothing DEF TakesNothing
  <2>2. SameExcept(m, h, {"prov_log"})
    BY <1>4, <1>5 DEF TakesNothing, record_prov, SameExcept, IsGraph, GraphFields
  <2>3. SameExcept(m, h, Apart)
    BY <2>2 DEF SameExcept, Apart
  <2> QED BY <2>1, <2>3, ApartIsSameTree
<1> QED BY <1>5, <1>6, UnnoticedIf, UnnoticedTrans DEF h

LEMMA ChownUnnoticed ==
  ASSUME NEW k, Sound(k), NEW i, NEW u, NEW v
  PROVE  Unnoticed(k, chown(k, i, u, v))
<1> DEFINE P == [k.inodes EXCEPT ![i].uid = u, ![i].gid = v]
           m == [k EXCEPT !.inodes = P]
           h == chown(k, i, u, v)
<1>1. IsGraph(k) /\ FieldsTyped(k)
  BY SoundGraph
<1>2. \A j \in DOMAIN k.inodes : k.inodes[j] \in Inode
  BY <1>1 DEF FieldsTyped
<1>3. /\ DOMAIN P = DOMAIN k.inodes
      /\ \A j \in DOMAIN P : /\ P[j].vtype = k.inodes[j].vtype
                             /\ P[j].link_count = k.inodes[j].link_count
  BY <1>2 DEF Inode
<1>4. h = record_prov(m, "Chown", i)
  BY <1>1 DEF chown, IsGraph, GraphFields
<1> HIDE DEF P, m, h
<1>5. SameTree(k, m) /\ TakesNothing(k, m)
  BY <1>1, <1>3, AttributesSameTree DEF m
<1>6. TakesNothing(m, h) /\ SameTree(m, h)
  <2>1. TakesNothing(m, h)
    BY <1>4, <1>5, HelpersTakeNothing DEF TakesNothing
  <2>2. SameExcept(m, h, {"prov_log"})
    BY <1>4, <1>5 DEF TakesNothing, record_prov, SameExcept, IsGraph, GraphFields
  <2>3. SameExcept(m, h, Apart)
    BY <2>2 DEF SameExcept, Apart
  <2> QED BY <2>1, <2>3, ApartIsSameTree
<1> QED BY <1>5, <1>6, UnnoticedIf, UnnoticedTrans DEF h

LEMMA SetaclUnnoticed ==
  ASSUME NEW k, Sound(k), NEW i, NEW acl
  PROVE  Unnoticed(k, setacl(k, i, acl))
<1> DEFINE E == {e \in DOMAIN k.edges :
                   k.edges[e].kind = "Grants" /\ k.edges[e].tgt = i}
           m1 == remove_edge(k, E)
           m2 == [purge_grants(k, i) EXCEPT !.acls = Put(@, i, acl)]
           m3 == grant_all(m2, i, acl)
           h == setacl(k, i, acl)
<1>1. IsGraph(k) /\ FieldsTyped(k) /\ IdsIssued(k)
  BY SoundGraph
<1>2. h = record_prov(m3, "SetAcl", i)
  BY DEF setacl
<1>3. SameTree(k, m1) /\ TakesNothing(k, m1)
  BY <1>1, OtherEdgesGone
<1>4. m1.edges = Del(k.edges, E)
  BY <1>1 DEF remove_edge, IsGraph, GraphFields
<1>5. \E x, y, z : m2 = [[m1 EXCEPT !.cap_grants = x, !.caps = y] EXCEPT !.acls = z]
  BY DEF purge_grants
<1> HIDE DEF m1, m2, h
<1>6. /\ SameExcept(m1, m2, {"cap_grants", "caps", "acls"})
      /\ IsGraph(m2) /\ m2.edges = m1.edges /\ m2.next_edge = m1.next_edge
      /\ m2.next_dir = m1.next_dir
  BY <1>3, <1>5 DEF TakesNothing, SameExcept, IsGraph, GraphFields
<1>7. SameExcept(m1, m2, Apart)
  BY <1>6 DEF SameExcept, Apart
<1>8. Unnoticed(m2, m3)
  <2> DEFINE c == m2.next_cap
             e == m2.next_edge
             N == Cardinality(granted(acl))
             news == {x \in e .. e + N - 1 : x < EDGE_CAPACITY}
             P == [x \in DOMAIN m2.edges \cup news |->
                     IF x \in news THEN OtherEdge("Grants", c + x - e, i)
                     ELSE m2.edges[x]]
  <2>1. \E x, y, z, w : m3 = [m2 EXCEPT !.next_cap = x, !.next_edge = y, !.caps = z,
                                        !.edges = P, !.cap_grants = w]
    BY DEF grant_all
  <2>2. news \cap DOMAIN m2.edges = {}
    <3>1. e = k.next_edge /\ e \in Nat
      BY <1>3, <1>6, SoundGraph DEF TakesNothing, SameIds
    <3>2. DOMAIN m2.edges \subseteq DOMAIN k.edges
      BY <1>4, <1>6 DEF Del
    <3>3. \A x \in DOMAIN k.edges : x < k.next_edge /\ x \in Int
      BY <1>1, <3>1 DEF IdsIssued
    <3>4. \A x \in news : x >= e /\ x \in Int
      OBVIOUS
    <3> QED BY <3>1, <3>2, <3>3, <3>4
  <2>3. /\ \A x \in DOMAIN m2.edges : x \in DOMAIN P /\ P[x] = m2.edges[x]
        /\ \A x \in DOMAIN P : x \in DOMAIN m2.edges \/ P[x].kind = "Grants"
    BY <2>2 DEF OtherEdge
  <2> HIDE DEF P, m3
  <2>4. SameExcept(m2, m3, {"next_cap", "next_edge", "caps", "edges", "cap_grants"})
        /\ m3.edges = P
    BY <1>6, <2>1 DEF SameExcept, IsGraph, GraphFields
  <2>5. /\ m3.dirs = m2.dirs /\ m3.dir_for_inode_idx = m2.dir_for_inode_idx
        /\ m3.dir_contains = m2.dir_contains /\ m3.inodes = m2.inodes
        /\ m3.inode_incoming_contains = m2.inode_incoming_contains
        /\ m3.dir_name_idx = m2.dir_name_idx /\ m3.next_dir = m2.next_dir
        /\ IsGraph(m3)
    BY <2>4 DEF SameExcept, GraphFields
  <2>6. /\ ContainsEdges(m3) = ContainsEdges(m2)
        /\ \A x \in ContainsEdges(m2) : m3.edges[x] = m2.edges[x]
    <3>1. \A x \in DOMAIN P : P[x].kind = "Contains" => x \in DOMAIN m2.edges
      BY <2>3
    <3> QED BY <2>3, <2>4, <3>1 DEF ContainsEdges
  <2>7. SameTree(m2, m3)
    BY <2>5, <2>6 DEF SameTree
  <2> QED BY <2>5, <2>7 DEF Unnoticed
<1> HIDE DEF m3
<1>9. Unnoticed(m3, h)
  <2>1. IsGraph(m3)
    BY <1>8 DEF Unnoticed
  <2>2. TakesNothing(m3, h)
    BY <1>2, <2>1, HelpersTakeNothing
  <2>3. SameExcept(m3, h, {"prov_log"})
    BY <1>2, <2>1 DEF record_prov, SameExcept, IsGraph, GraphFields
  <2>4. SameExcept(m3, h, Apart)
    BY <2>3 DEF SameExcept, Apart
  <2> QED BY <2>2, <2>4, ApartIsSameTree, UnnoticedIf
<1>10. Unnoticed(k, m1) /\ Unnoticed(m1, m2)
  BY <1>3, <1>6, <1>7, UnnoticedIf
<1> QED BY <1>8, <1>9, <1>10, UnnoticedTrans DEF h

LEMMA WriteDataUnnoticed ==
  ASSUME NEW k, Sound(k), NEW i, NEW offset \in Nat, NEW data \in Seq(Nat)
  PROVE  Unnoticed(k, write_data(k, i, offset, data))
<1> DEFINE buf == FileBytes(k, i)
           end == offset + Len(data)
           ext == IF Len(buf) < end THEN Resized(buf, end) ELSE buf
           new == [x \in 1..Len(ext) |-> IF x \in offset + 1 .. end
                                         THEN data[x - offset] ELSE ext[x]]
<1>1. buf \in Seq(Nat) /\ end \in Nat
  BY SoundGraph, BytesTyped
<1>2. ext \in Seq(Nat)
  BY <1>1, ResizedTyped
<1>3. new \in Seq(Nat)
  <2> HIDE DEF ext
  <2>1. \A x \in 1 .. Len(ext) : new[x] \in Nat
    BY <1>2
  <2> QED BY <1>2, <2>1
<1>4. write_data(k, i, offset, data) = record_prov(SetBytes(k, i, new), "Write", i)
  BY DEF write_data
<1> HIDE DEF new
<1> QED BY <1>3, <1>4, SetBytesUnnoticed

LEMMA TruncateUnnoticed ==
  ASSUME NEW k, Sound(k), NEW i, NEW n \in Nat
  PROVE  Unnoticed(k, truncate(k, i, n))
<1>1. Resized(FileBytes(k, i), n) \in Seq(Nat)
  BY SoundGraph, BytesTyped, ResizedTyped
<1> QED BY <1>1, SetBytesUnnoticed DEF truncate

LEMMA QuotaAndContextUnnoticed ==
  ASSUME NEW k, Sound(k), NEW h,
         \E x : h = [k EXCEPT !.quotas = x] \/ h = [k EXCEPT !.cap_ctx = x]
  PROVE  Unnoticed(k, h)
<1>1. SameExcept(k, h, {"quotas", "cap_ctx"})
  BY SoundGraph DEF SameExcept, IsGraph, GraphFields
<1>2. SameExcept(k, h, Apart) /\ h.next_dir = k.next_dir
  BY <1>1 DEF SameExcept, Apart, GraphFields
<1> QED BY <1>2, UnnoticedIf

-----------------------------------------------------------------------------
(***************************************************************************)
(* The specification.  Its inductive invariant is Sound(g), and that there *)
(* are no more directory ids than inode ids: mkdir takes one of each, so   *)
(* that the directory pool has room when the inode pool has.               *)
(***************************************************************************)
SoundState == Sound(g) /\ g.next_dir <= g.next_inode

\* Callers look a directory up before each call, and the pools are larger
\* than the ids a behaviour takes: insert_at never refuses a slot.
PoolsHaveRoom ==
  /\ ResolvedHandles
  /\ MaxInode \in Int /\ MaxInode < NODE_CAPACITY
  /\ MaxEdge \in Int /\ MaxEdge < EDGE_CAPACITY

\* CREATE-ROOT is a well-formed tree of one directory.
LEMMA RootIsWellFormed ==
  ASSUME NEW mode, NEW owner,
         NEW k, k = new_graph(mode, owner)
  PROVE  Indexed(k) /\ Tree(k) /\ k.next_dir = k.next_inode
<1>1. /\ k.edges = [e \in {1} |-> ContainsEdge(1, 1, ".")]
      /\ k.dirs = [d \in {1} |-> 1] /\ k.dir_for_inode_idx = [i \in {1} |-> 1]
      /\ k.dir_contains = [d \in {1} |-> {1}]
      /\ k.inode_incoming_contains = [i \in {1} |-> {1}]
      /\ k.dir_name_idx = [q \in {<<1, ".">>} |-> 1]
      /\ k.next_dir = 2 /\ k.next_inode = 2
      /\ k.inodes = [i \in {1} |-> NewInode("Directory", 1, mode, owner, owner, 0)]
  BY DEF new_graph, RootDir, RootInode
<1>2. /\ ContainsEdges(k) = {1} /\ k.edges[1].src = 1 /\ k.edges[1].tgt = 1
      /\ k.edges[1].name = "." /\ DOMAIN k.edges = {1}
  BY <1>1 DEF ContainsEdges, ContainsEdge
<1>3. UserEdges(k) = {}
  BY <1>2 DEF UserEdges, Dots
<1>4. /\ DOMAIN k.inodes = {1} /\ k.inodes[1].vtype = "Directory"
      /\ k.inodes[1].link_count = 1
  BY <1>1 DEF NewInode
<1>5. ListingsExact(k) /\ IncomingExact(k)
  BY <1>1, <1>2 DEF ListingsExact, IncomingExact, SetAt
<1>6. NamesExact(k)
  BY <1>1, <1>2 DEF NamesExact
<1>7. DirsPaired(k) /\ Endpoints(k)
  BY <1>1, <1>2, <1>4 DEF DirsPaired, Endpoints, IsDirInode, RootDir, RootInode
<1>8. DotEdges(k)
  BY <1>1, <1>2, <1>3 DEF DotEdges, RootDir
<1>9. Named(k)
  BY <1>3, <1>4 DEF Named, RootInode
<1>10. LinksCounted(k)
  <2>1. LinksTo(k, 1) = {1}
    BY <1>2 DEF LinksTo
  <2>2. Cardinality({1}) = 1 /\ IsFiniteSet({1})
    BY FS_Singleton
  <2> QED BY <1>2, <1>4, <2>1, <2>2 DEF LinksCounted
<1>11. Acyclic(k)
  BY <1>3 DEF Acyclic, Holds
<1> QED BY <1>1, <1>5, <1>6, <1>7, <1>8, <1>9, <1>10, <1>11 DEF Indexed, Tree

LEMMA InitSound == Init => SoundState
<1> DEFINE k == new_graph(CHOOSE m \in Modes : TRUE, CHOOSE u \in Users : TRUE)
<1> SUFFICES ASSUME Init PROVE SoundState
  OBVIOUS
<1>1. FieldsTyped(g) /\ IdsIssued(g)
  BY InitTyped DEF TypeOK
<1>2. Indexed(k) /\ Tree(k) /\ k.next_dir = k.next_inode
  BY RootIsWellFormed
<1>3. IsGraph(k)
  BY DEF IsGraph, GraphFields, new_graph
<1>4. \E x : g = [k EXCEPT !.prov_log = x]
  BY <1>3 DEF Init
<1> HIDE DEF k
<1>5. /\ g.edges = k.edges /\ g.dirs = k.dirs /\ g.inodes = k.inodes
      /\ g.dir_for_inode_idx = k.dir_for_inode_idx
      /\ g.dir_contains = k.dir_contains /\ g.dir_name_idx = k.dir_name_idx
      /\ g.inode_incoming_contains = k.inode_incoming_contains
      /\ g.next_dir = k.next_dir /\ g.next_inode = k.next_inode
  BY <1>3, <1>4 DEF IsGraph, GraphFields
<1>6. Indexed(g) /\ ContainsEdges(g) = ContainsEdges(k)
  BY <1>2, <1>5, IndexedSame
<1>7. UserEdges(g) = UserEdges(k)
  BY <1>5, <1>6 DEF UserEdges
<1>8. Tree(g)
  <2>1. DirsPaired(g) /\ Endpoints(g)
    BY <1>2, <1>5, <1>6 DEF Tree, DirsPaired, Endpoints, IsDirInode
  <2>2. DotEdges(g) /\ Named(g)
    BY <1>2, <1>5, <1>6, <1>7 DEF Tree, DotEdges, Named, IsDirInode
  <2>3. LinksCounted(g)
    BY <1>2, <1>5, <1>6 DEF Tree, LinksCounted, LinksTo
  <2>4. Acyclic(g)
    BY <1>2, <1>5, <1>7 DEF Tree, Acyclic, Holds
  <2> QED BY <2>1, <2>2, <2>3, <2>4 DEF Tree
<1>9. WellFormed(g)
  BY <1>1, <1>6, <1>8, WellFormedIs
<1>10. g.next_dir <= g.next_inode
  BY <1>1, <1>2, <1>5 DEF FieldsTyped, Ids
<1> QED BY <1>1, <1>9, <1>10 DEF Sound, SoundState

\* What a call may do to the entries: make one, for an object that is new or
\* no directory, remove one, or move one; or the tree does not notice.
EntryAdded(k, h) ==
  \E d \in DOMAIN k.dirs, n \in AllNames \ Dots : \E i :
    /\ resolve_name(k, d, n) = None
    /\ i \in DOMAIN k.inodes => k.inodes[i].vtype # "Directory"
    /\ Adds(k, h, d, n, i)

EntryRemoved(k, h) ==
  \E e \in UserEdges(k) : Vacates(k, h, k.edges[e].src, k.edges[e].name)

EntryMoved(k, h) ==
  \E dd \in DOMAIN k.dirs, dst \in AllNames : \E e, sd, src :
    MovesEntry(k, h, e, sd, src, dd, dst)

OneEntryAtMost(k, h) ==
  SameTree(k, h) \/ EntryAdded(k, h) \/ EntryRemoved(k, h) \/ EntryMoved(k, h)

\* A step that the tree does not notice.
LEMMA UnnoticedSound ==
  ASSUME SoundState, Issues(g, g'), Unnoticed(g, g')
  PROVE  SoundState' /\ OneEntryAtMost(g, g')
<1>1. Sound(g')
  BY SameTreeSound DEF SoundState, Unnoticed
<1>2. g.next_inode \in Nat /\ g.next_dir \in Nat /\ g'.next_inode \in Nat
  BY <1>1, SoundGraph DEF SoundState
<1> QED BY <1>1, <1>2 DEF SoundState, Issues, Unnoticed, OneEntryAtMost

\* What the bounds say of a step: whatever it took was in reach of the pools.
LEMMA RoomFor ==
  ASSUME PoolsHaveRoom, SoundState, NEW h, Within(h),
         h.next_inode \in Int, h.next_edge \in Int
  PROVE  h.next_inode <= NODE_CAPACITY /\ h.next_edge <= EDGE_CAPACITY
BY CapacityAssumption DEF PoolsHaveRoom, Within

\* The calls on contents and attributes are not noticed in the tree.
LEMMA NextUnnoticed ==
  ASSUME SoundState, Next
  PROVE  \/ CreateFile \/ Symlink \/ Mkdir \/ Rmdir \/ Link \/ Unlink \/ Rename
         \/ Unnoticed(g, g')
<1>1. Sound(g) /\ InodeIds \subseteq Nat
  BY SoundGraph DEF SoundState, InodeIds
<1>2. CASE WriteBlock
  <2>1. PICK i : g' = write_block(g, i)
    BY <1>2 DEF WriteBlock, Step
  <2> QED BY <1>1, <2>1, WriteBlockUnnoticed
<1>3. CASE WriteData
  <2>1. PICK i \in InodeIds, w \in Writes : g' = write_data(g, i, w[1], w[2])
    BY <1>3 DEF WriteData, Step
  <2> QED BY <1>1, <2>1, WriteDataUnnoticed, InputAssumption
<1>4. CASE Truncate
  <2>1. PICK i \in InodeIds, n \in Sizes : g' = truncate(g, i, n)
    BY <1>4 DEF Truncate, Step
  <2> QED BY <1>1, <2>1, TruncateUnnoticed, InputAssumption
<1>5. CASE Chmod
  <2>1. PICK i \in InodeIds, m \in Modes : g' = chmod(g, i, m)
    BY <1>5 DEF Chmod, Step
  <2> QED BY <1>1, <2>1, ChmodUnnoticed
<1>6. CASE Chown
  <2>1. PICK i, u, v : g' = chown(g, i, u, v)
    BY <1>6 DEF Chown, Step
  <2> QED BY <1>1, <2>1, ChownUnnoticed
<1>7. CASE Setxattr
  <2>1. PICK i \in InodeIds, k \in XattrKeys, v \in Values : g' = setxattr(g, i, k, v)
    BY <1>7 DEF Setxattr, Step
  <2> QED BY <1>1, <2>1, SetxattrUnnoticed
<1>8. CASE Removexattr
  <2>1. PICK i, k : g' = removexattr(g, i, k)
    BY <1>8 DEF Removexattr, Step
  <2> QED BY <1>1, <2>1, RemovexattrUnnoticed
<1>9. CASE Setacl
  <2>1. PICK i, acl : g' = setacl(g, i, acl)
    BY <1>9 DEF Setacl, Step
  <2> QED BY <1>1, <2>1, SetaclUnnoticed
<1>10. CASE SetQuota \/ SetCapCtx
  <2>1. \E x : g' = [g EXCEPT !.quotas = x] \/ g' = [g EXCEPT !.cap_ctx = x]
    BY <1>10 DEF SetQuota, SetCapCtx, Step, set_quota
  <2> QED BY <1>1, <2>1, QuotaAndContextUnnoticed
<1> QED BY <1>2, <1>3, <1>4, <1>5, <1>6, <1>7, <1>8, <1>9, <1>10 DEF Next

LEMMA NextSound ==
  ASSUME PoolsHaveRoom, SoundState, Next
  PROVE  SoundState' /\ OneEntryAtMost(g, g')
<1>1. Sound(g) /\ Issues(g, g') /\ IsGraph(g)
  <2>1. TypeOK
    BY DEF SoundState, Sound, TypeOK
  <2> QED BY <2>1, NextIssues, SoundGraph DEF SoundState
<1>2. /\ DirHandles = DOMAIN g.dirs
      /\ InodeIds \subseteq Nat
      /\ g.next_inode \in Nat /\ g.next_dir \in Nat /\ g.next_edge \in Nat
      /\ g.next_inode \notin DOMAIN g.inodes
      /\ NODE_CAPACITY \in Nat /\ EDGE_CAPACITY \in Nat
  BY <1>1, SoundGraph, CapacityAssumption DEF DirHandles, InodeIds, PoolsHaveRoom
<1>3. g'.next_inode \in Nat /\ g'.next_edge \in Nat
  BY <1>1 DEF Issues, FieldsTyped, Ids
<1>4. Within(g') => g'.next_inode <= NODE_CAPACITY /\ g'.next_edge <= EDGE_CAPACITY
  BY <1>3, RoomFor
<1>5. CASE CreateFile
  <2>1. PICK d \in DOMAIN g.dirs, n \in AllNames, m \in Modes, u \in Users :
          new_entry_ok(g, d, n) /\ Step(create_file(g, d, n, m, u))
    BY <1>2, <1>5 DEF CreateFile
  <2>2. g' = create_file(g, d, n, m, u) /\ Within(g')
    BY <2>1 DEF Step
  <2>3. g'.next_inode = g.next_inode + 1 /\ g'.next_edge = g.next_edge + 1
    BY <1>1, <2>2, CreateFileTakes
  <2>4. g.next_inode < NODE_CAPACITY /\ g.next_edge < EDGE_CAPACITY
    BY <1>2, <1>4, <2>2, <2>3
  <2>5. Sound(g') /\ g'.next_dir = g.next_dir
    BY <1>1, <2>1, <2>2, <2>4, CreateFileSound
  <2>6. Adds(g, g', d, n, g.next_inode)
    BY <1>1, <2>1, <2>2, <2>4, CreateFileSound
  <2>7. n \in AllNames \ Dots /\ resolve_name(g, d, n) = None
    BY <2>1, NameAssumption DEF new_entry_ok
  <2>8. OneEntryAtMost(g, g')
    BY <1>2, <2>6, <2>7 DEF OneEntryAtMost, EntryAdded
  <2> QED BY <1>2, <2>3, <2>5, <2>8 DEF SoundState
<1>6. CASE Symlink
  <2>1. PICK d \in DOMAIN g.dirs, n \in AllNames, t \in Targets, u \in Users :
          new_entry_ok(g, d, n) /\ Step(symlink(g, d, n, t, u))
    BY <1>2, <1>6 DEF Symlink
  <2>2. g' = symlink(g, d, n, t, u) /\ Within(g')
    BY <2>1 DEF Step
  <2>3. g'.next_inode = g.next_inode + 1 /\ g'.next_edge = g.next_edge + 1
    BY <1>1, <2>2, SymlinkTakes
  <2>4. g.next_inode < NODE_CAPACITY /\ g.next_edge < EDGE_CAPACITY
    BY <1>2, <1>4, <2>2, <2>3
  <2>5. Sound(g') /\ g'.next_dir = g.next_dir
    BY <1>1, <2>1, <2>2, <2>4, SymlinkSound
  <2>6. Adds(g, g', d, n, g.next_inode)
    BY <1>1, <2>1, <2>2, <2>4, SymlinkSound
  <2>7. n \in AllNames \ Dots /\ resolve_name(g, d, n) = None
    BY <2>1, NameAssumption DEF new_entry_ok
  <2>8. OneEntryAtMost(g, g')
    BY <1>2, <2>6, <2>7 DEF OneEntryAtMost, EntryAdded
  <2> QED BY <1>2, <2>3, <2>5, <2>8 DEF SoundState
<1>7. CASE Mkdir
  <2>1. PICK d \in DOMAIN g.dirs, n \in AllNames, m \in Modes, u \in Users :
          new_entry_ok(g, d, n) /\ Step(mkdir(g, d, n, m, u))
    BY <1>2, <1>7 DEF Mkdir
  <2>2. g' = mkdir(g, d, n, m, u) /\ Within(g')
    BY <2>1 DEF Step
  <2>3. g'.next_inode = g.next_inode + 1 /\ g'.next_edge = g.next_edge + 3
    BY <1>1, <2>2, MkdirTakes
  <2>4. /\ g.next_inode < NODE_CAPACITY /\ g.next_dir < NODE_CAPACITY
        /\ g.next_edge + 2 < EDGE_CAPACITY
    BY <1>2, <1>4, <2>2, <2>3 DEF SoundState
  <2>5. /\ Sound(g') /\ g'.next_dir = g.next_dir + 1
        /\ g'.next_inode = g.next_inode + 1
    BY <1>1, <2>1, <2>2, <2>4, MkdirSound
  <2>6. Adds(g, g', d, n, g.next_inode)
    BY <1>1, <2>1, <2>2, <2>4, MkdirSound
  <2>7. n \in AllNames \ Dots /\ resolve_name(g, d, n) = None
    BY <2>1, NameAssumption DEF new_entry_ok
  <2>8. OneEntryAtMost(g, g')
    BY <1>2, <2>6, <2>7 DEF OneEntryAtMost, EntryAdded
  <2> QED BY <1>2, <2>5, <2>8 DEF SoundState
<1>8. CASE Rmdir
  <2>1. PICK d, n : rmdir_ok(g, d, n) /\ g' = rmdir(g, d, n)
    BY <1>8 DEF Rmdir, Step
  <2>2. Sound(g') /\ Vacates(g, g', d, n)
    BY <1>1, <2>1, RmdirSound
  <2>3. resolve_name(g, d, n) # None /\ n \notin Dots
    BY <1>1, <2>1, SoundGraph DEF rmdir_ok, IsDirInode, IdsIssued, None
  <2>4. PICK e \in UserEdges(g) : g.edges[e].src = d /\ g.edges[e].name = n
    BY <1>1, <2>3, ResolvedEntry DEF UserEdges
  <2>5. OneEntryAtMost(g, g')
    BY <2>2, <2>4 DEF OneEntryAtMost, EntryRemoved
  <2> QED BY <2>2, <2>5 DEF SoundState, Vacates, SameIds
<1>9. CASE Link
  <2>1. PICK d \in DOMAIN g.dirs, n \in AllNames, i \in InodeIds :
          link_ok(g, d, n, i) /\ Step(link(g, d, n, i))
    BY <1>2, <1>9 DEF Link
  <2>2. g' = link(g, d, n, i) /\ Within(g')
    BY <2>1 DEF Step
  <2>3. g'.next_edge = g.next_edge + 1
    BY <1>1, <2>2, LinkTakes
  <2>4. g.next_edge < EDGE_CAPACITY
    BY <1>2, <1>4, <2>2, <2>3
  <2>5. Sound(g') /\ g'.next_dir = g.next_dir /\ g'.next_inode = g.next_inode
    BY <1>1, <2>1, <2>2, <2>4, LinkSound
  <2>6. Adds(g, g', d, n, i)
    BY <1>1, <2>1, <2>2, <2>4, LinkSound
  <2>7. /\ n \in AllNames \ Dots /\ resolve_name(g, d, n) = None
        /\ g.inodes[i].vtype # "Directory"
    BY <2>1 DEF link_ok
  <2>8. OneEntryAtMost(g, g')
    BY <2>6, <2>7 DEF OneEntryAtMost, EntryAdded
  <2> QED BY <2>5, <2>8 DEF SoundState
<1>10. CASE Unlink
  <2>1. PICK d, n : unlink_ok(g, d, n) /\ g' = unlink(g, d, n)
    BY <1>10 DEF Unlink, Step
  <2>2. Sound(g') /\ Vacates(g, g', d, n)
    BY <1>1, <2>1, UnlinkSound
  <2>3. scan_name(g, d, n) # None /\ n \notin Dots
    BY <2>1 DEF unlink_ok
  <2>4. PICK e \in UserEdges(g) : g.edges[e].src = d /\ g.edges[e].name = n
    BY <1>1, <2>3, ScanFinds DEF UserEdges
  <2>5. OneEntryAtMost(g, g')
    BY <2>2, <2>4 DEF OneEntryAtMost, EntryRemoved
  <2> QED BY <2>2, <2>5 DEF SoundState, Vacates, SameIds
<1>11. CASE Rename
  <2>1. PICK sd \in DOMAIN g.dirs, dd \in DOMAIN g.dirs,
             src \in AllNames, dst \in AllNames :
          Step(rename(g, sd, src, dd, dst).graph)
    BY <1>2, <1>11 DEF Rename
  <2>2. g' = rename(g, sd, src, dd, dst).graph /\ Within(g')
    BY <2>1 DEF Step
  <2>3. /\ Sound(g') /\ g'.next_dir = g.next_dir
        /\ g'.next_inode = g.next_inode
        /\ \/ SameTree(g, g')
           \/ \E e : MovesEntry(g, g', e, sd, src, dd, dst)
    BY <1>1, <1>4, <2>2, RenameSound
  <2>4. OneEntryAtMost(g, g')
    BY <2>1, <2>3 DEF OneEntryAtMost, EntryMoved
  <2> QED BY <2>3, <2>4 DEF SoundState
<1>12. CASE Unnoticed(g, g')
  BY <1>1, <1>12, UnnoticedSound
<1> QED BY <1>5, <1>6, <1>7, <1>8, <1>9, <1>10, <1>11, <1>12, NextUnnoticed

LEMMA SoundAlways ==
  ASSUME PoolsHaveRoom
  PROVE  Spec => []SoundState
<1>1. SoundState /\ [Next]_g => SoundState'
  <2> SUFFICES ASSUME SoundState, [Next]_g PROVE SoundState'
    OBVIOUS
  <2>1. CASE Next
    BY <2>1, NextSound
  <2>2. CASE UNCHANGED g
    <3>1. Sound(g')
      BY <2>2 DEF SoundState
    <3> QED BY <2>2, <3>1 DEF SoundState
  <2> QED BY <2>1, <2>2
<1> QED BY <1>1, InitSound, PTL DEF Spec

\* Whatever calls are made, one after the other: the indexes are exact,
\* directories and their inodes are paired, "." and ".." lead where they
\* should, every object has a name, link counts are right, and no directory
\* lies below itself.
THEOREM NamespaceSound ==
  ASSUME PoolsHaveRoom
  PROVE  Spec => []NamespaceWellFormed
<1>1. SoundState => NamespaceWellFormed
  BY DEF SoundState, Sound, NamespaceWellFormed
<1> QED BY <1>1, SoundAlways, PTL

\* A rename that is refused (by a destination that is not empty, by the cycle
\* check, for want of its source) has changed nothing: the destination it
\* would have replaced is still there.
THEOREM FailedRenameLeavesNoTrace ==
  ASSUME PoolsHaveRoom
  PROVE  Spec => []RenameFailureIsAtomic
<1>1. SoundState => RenameFailureIsAtomic
  <2> SUFFICES ASSUME SoundState,
                      NEW sd \in DirHandles, NEW dd \in DirHandles,
                      NEW src \in AllNames, NEW dst \in AllNames
               PROVE  LET r == rename(g, sd, src, dd, dst)
                      IN r.ok \/ r.graph = g
    BY DEF RenameFailureIsAtomic
  <2>1. sd \in DOMAIN g.dirs /\ dd \in DOMAIN g.dirs
    BY DEF DirHandles, PoolsHaveRoom
  <2> QED BY <2>1, RenameSound DEF SoundState
<1> QED BY <1>1, SoundAlways, PTL

-----------------------------------------------------------------------------
(***************************************************************************)
(* Reachability.  What the cycle check excludes is a set of directories    *)
(* each of which holds another one of the set; since graphs are finite     *)
(* there is no set in which each is held by another one either, and a walk *)
(* up from any directory can only end at the root.                         *)
(***************************************************************************)
LEMMA HoldersAre ==
  ASSUME NEW k, Sound(k), NEW x \in DOMAIN k.dirs, x # RootDir
  PROVE  \E p \in DOMAIN k.dirs : Holds(k, p, x) /\ parent_dir(k, x) = p /\ p # None
<1>1. /\ Tree(k) /\ NamesExact(k) /\ DirsPaired(k) /\ DotEdges(k) /\ Endpoints(k)
      /\ IdsIssued(k)
  BY SoundGraph
<1>2. k.dirs[x] \in DOMAIN k.inodes \ {RootInode}
  BY <1>1, DirsDiffer DEF DirsPaired, IsDirInode
<1>3. PICK f \in UserEdges(k) : k.edges[f].tgt = k.dirs[x]
  BY <1>1, <1>2 DEF Tree, Named
<1> DEFINE p == k.edges[f].src
<1>4. p \in DOMAIN k.dirs /\ Holds(k, p, x)
  BY <1>1, <1>3 DEF Endpoints, UserEdges, Holds
<1>5. <<x, "..">> \in DOMAIN k.dir_name_idx
  BY <1>1 DEF DotEdges
<1>6. PICK e \in ContainsEdges(k) : /\ e = k.dir_name_idx[<<x, "..">>]
                                    /\ k.edges[e].src = x /\ k.edges[e].name = ".."
  BY <1>1, <1>5 DEF NamesExact
<1>7. resolve_name(k, x, "..") = k.dirs[p]
  <2>1. resolve_name(k, x, "..") = k.edges[e].tgt
    BY <1>5, <1>6 DEF resolve_name, lookup_name
  <2>2. k.edges[e].tgt = k.dirs[p]
    BY <1>1, <1>3, <1>6 DEF DotEdges
  <2> QED BY <2>1, <2>2
<1>8. parent_dir(k, x) = p /\ p # None
  BY <1>1, <1>4, <1>7 DEF parent_dir, dir_for_inode, DirsPaired, IdsIssued, None
<1> QED BY <1>4, <1>8

LEMMA NoRingOfHolders ==
  ASSUME NEW k, Sound(k), NEW U \in SUBSET DOMAIN k.dirs,
         \A x \in U : \E p \in U : Holds(k, p, x)
  PROVE  U = {}
<1> DEFINE F == DOMAIN k.dirs
           Held(X) == X # {} /\ \A x \in X : \E p \in X : Holds(k, p, x)
           T == {X \in SUBSET F : Held(X)}
           R == StrictSubsetOrdering(F)
<1>1. IsFiniteSet(F) /\ Acyclic(k)
  BY SoundGraph, FiniteIds DEF Tree
<1>2. IsWellFoundedOn(R, SUBSET F)
  BY <1>1, FS_FiniteSubsetsOfFinite, FS_StrictSubsetOrderingWellFounded
<1>3. SUFFICES ASSUME T # {} PROVE FALSE
  OBVIOUS
<1>4. \E X \in T : \A Y \in T : ~(<<Y, X>> \in R)
  <2> HIDE DEF R, T, F
  <2>1. T \subseteq SUBSET F
    BY DEF T
  <2> QED BY <1>2, <1>3, <2>1, WFMin
<1>5. PICK X \in T : \A Y \in T : ~(<<Y, X>> \in R)
  BY <1>4
<1>6. PICK x \in X : \A y \in X : ~Holds(k, x, y)
  BY <1>1, <1>5 DEF Acyclic
<1> DEFINE Y == X \ {x}
<1>7. \A y \in Y : \E p \in Y : Holds(k, p, y)
  BY <1>5, <1>6
<1>8. Y # {}
  BY <1>5, <1>6
<1>9. Y \in T
  BY <1>5, <1>7, <1>8
<1>10. <<Y, X>> \in R
  <2>1. Y \in SUBSET F /\ X \in SUBSET F /\ Y \subseteq X /\ Y # X
    BY <1>5, <1>6
  <2> HIDE DEF Y, F
  <2> QED BY <2>1 DEF StrictSubsetOrdering
<1> QED BY <1>5, <1>9, <1>10

LEMMA EachIsBelowTheRoot ==
  ASSUME NEW k, Sound(k), NEW d \in DOMAIN k.dirs
  PROVE  is_ancestor(k, RootDir, d)
<1> SUFFICES ASSUME NEW S \in SUBSET (DOMAIN k.dirs \cup {RootDir, d}),
                    RootDir \in S, DownClosed(k, S), d \notin S
             PROVE  FALSE
  BY DEF is_ancestor
<1> DEFINE U == DOMAIN k.dirs \ S
<1>1. ASSUME NEW x \in U PROVE \E p \in U : Holds(k, p, x)
  <2>1. PICK p \in DOMAIN k.dirs : Holds(k, p, x)
    BY HoldersAre
  <2>2. x \in child_dirs(k, p)
    BY <2>1, SoundGraph, ChildDirsAre
  <2>3. p \notin S
    BY <2>2 DEF DownClosed
  <2> QED BY <2>1, <2>3
<1>2. U \in SUBSET DOMAIN k.dirs /\ U # {}
  OBVIOUS
<1> HIDE DEF U
<1> QED BY <1>1, <1>2, NoRingOfHolders

LEMMA WalksUpEndAtTheRoot ==
  ASSUME NEW k, Sound(k), NEW d \in DOMAIN k.dirs
  PROVE  on_parent_chain(k, d, RootDir)
<1> SUFFICES ASSUME NEW S \in SUBSET (DOMAIN k.dirs \cup {d}),
                    d \in S, UpClosed(k, S), RootDir \notin S
             PROVE  FALSE
  BY DEF on_parent_chain
<1>1. ASSUME NEW x \in S PROVE \E p \in S : Holds(k, p, x)
  <2>1. PICK p \in DOMAIN k.dirs : Holds(k, p, x) /\ parent_dir(k, x) = p /\ p # None
    BY HoldersAre
  <2> QED BY <2>1 DEF UpClosed
<1>2. S \in SUBSET DOMAIN k.dirs /\ S # {}
  OBVIOUS
<1> QED BY <1>1, <1>2, NoRingOfHolders

\* No call, and no order of calls, ever loses an object: each directory can be
\* reached from the root and each inode has a name in some directory.  And the
\* quota walks over "..", which have no visited set, arrive at the root.
THEOREM NothingIsLost ==
  ASSUME PoolsHaveRoom
  PROVE  Spec => []NothingUnreachable
<1>1. SoundState => NothingUnreachable
  <2> SUFFICES ASSUME SoundState PROVE NothingUnreachable
    OBVIOUS
  <2>1. Sound(g) /\ Tree(g) /\ ListingsExact(g) /\ Endpoints(g)
    BY SoundGraph DEF SoundState
  <2>2. \A d \in DOMAIN g.dirs :
          is_ancestor(g, RootDir, d) /\ on_parent_chain(g, d, RootDir)
    BY <2>1, EachIsBelowTheRoot, WalksUpEndAtTheRoot
  <2>3. ASSUME NEW i \in DOMAIN g.inodes \ {RootInode}
        PROVE  \E d \in DOMAIN g.dirs : \E e \in user_entries(g, d) : g.edges[e].tgt = i
    <3>1. PICK e \in UserEdges(g) : g.edges[e].tgt = i
      BY <2>1 DEF Tree, Named
    <3>2. g.edges[e].src \in DOMAIN g.dirs
      BY <2>1 DEF Endpoints, UserEdges
    <3>3. user_entries(g, g.edges[e].src) =
            {x \in UserEdges(g) : g.edges[x].src = g.edges[e].src}
      BY <2>1, EntriesAre
    <3>4. e \in user_entries(g, g.edges[e].src)
      BY <3>1, <3>3, SMTT(30)
    <3> QED BY <3>1, <3>2, <3>4, ZenonT(30)
  <2> QED BY <2>2, <2>3 DEF NothingUnreachable
<1> QED BY <1>1, SoundAlways, PTL
=============================================================================
