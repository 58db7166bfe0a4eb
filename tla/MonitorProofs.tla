---------------------------- MODULE MonitorProofs ---------------------------
(***************************************************************************)
(* Proofs about the monitors.                                              *)
(*                                                                         *)
(* The curvature report is kept up to date: the curvature of an edge       *)
(* depends on the edges at its two ends and no more.  So it is enough that *)
(* each node where an edge came or went is near one that the call is said  *)
(* to affect, or is no end of an edge any longer, or is among those left   *)
(* out.  The first part is about graphs and edges, the second follows each *)
(* call from edge to edge.                                                 *)
(*                                                                         *)
(* The projections show what they promise, of every sound graph: the last  *)
(* part.                                                                   *)
(***************************************************************************)
EXTENDS Curvature, ProjectionProperties, ObjectProofs

-----------------------------------------------------------------------------
(***************************************************************************)
(* Adjacency.                                                              *)
(***************************************************************************)
Ends(h, e) == {src_node(h.edges[e]), tgt_node(h.edges[e])}

\* Edge e leads from u to v.
Leads(h, e, u, v) ==
  /\ e \in DOMAIN h.edges
  /\ src_node(h.edges[e]) = u
  /\ tgt_node(h.edges[e]) = v

\* Neighbours are what an edge has at its other end.
LEMMA Neighbours ==
  ASSUME NEW h
  PROVE  /\ \A n : n \in DOMAIN adjacency(h) <=> \E e \in DOMAIN h.edges : n \in Ends(h, e)
         /\ \A n \in DOMAIN adjacency(h) : \A m :
              m \in adjacency(h)[n] <=> \E e : Leads(h, e, n, m) \/ Leads(h, e, m, n)
<1> DEFINE ends == {<<src_node(h.edges[e]), tgt_node(h.edges[e])>> : e \in DOMAIN h.edges}
           nodes == UNION {{p[1], p[2]} : p \in ends}
           at(n) == {p[2] : p \in {q \in ends : q[1] = n}} \cup
                    {p[1] : p \in {q \in ends : q[2] = n}}
<1>1. adjacency(h) = [n \in nodes |-> at(n)]
  BY DEF adjacency
<1>2. \A p : p \in ends <=> \E e : Leads(h, e, p[1], p[2]) /\ p = <<p[1], p[2]>>
  BY DEF Leads
<1>3. \A u, v : <<u, v>> \in ends <=> \E e : Leads(h, e, u, v)
  BY DEF Leads
<1>4. \A n : n \in nodes <=> \E e \in DOMAIN h.edges : n \in Ends(h, e)
  <2>1. \A n : n \in nodes <=> \E p \in ends : n = p[1] \/ n = p[2]
    OBVIOUS
  <2>2. ASSUME NEW n, NEW e \in DOMAIN h.edges, n \in Ends(h, e) PROVE n \in nodes
    <3> DEFINE p == <<src_node(h.edges[e]), tgt_node(h.edges[e])>>
    <3>1. p \in ends /\ (n = p[1] \/ n = p[2])
      BY <2>2 DEF Ends
    <3> HIDE DEF ends, p
    <3> QED BY <2>1, <3>1
  <2>3. ASSUME NEW n, n \in nodes PROVE \E e \in DOMAIN h.edges : n \in Ends(h, e)
    <3>1. PICK p \in ends : n = p[1] \/ n = p[2]
      BY <2>1, <2>3
    <3>2. PICK e \in DOMAIN h.edges : p = <<src_node(h.edges[e]), tgt_node(h.edges[e])>>
      BY <3>1
    <3> HIDE DEF ends
    <3> QED BY <3>1, <3>2 DEF Ends
  <2> HIDE DEF nodes
  <2> QED BY <2>2, <2>3
<1>5. \A n, m : m \in at(n) <=> <<n, m>> \in ends \/ <<m, n>> \in ends
  <2>1. \A p \in ends : p = <<p[1], p[2]>>
    OBVIOUS
  <2> HIDE DEF ends
  <2> TAKE n, m
  <2>2. m \in at(n) <=> \/ \E p \in ends : p[1] = n /\ m = p[2]
                        \/ \E p \in ends : p[2] = n /\ m = p[1]
    OBVIOUS
  <2>3. <<n, m>>[1] = n /\ <<n, m>>[2] = m
    OBVIOUS
  <2> HIDE DEF at
  <2> QED BY <2>1, <2>2, <2>3
<1> HIDE DEF ends, nodes, at
<1>6. DOMAIN adjacency(h) = nodes /\ \A n \in nodes : adjacency(h)[n] = at(n)
  BY <1>1
<1> QED BY <1>3, <1>4, <1>5, <1>6, ZenonT(30)

-----------------------------------------------------------------------------
(***************************************************************************)
(* From k to h, edges come and go, and change their ends, at W only.       *)
(***************************************************************************)
Edits(k, h, W) ==
  \A e \in DOMAIN k.edges \cup DOMAIN h.edges :
    \/ /\ e \in DOMAIN k.edges /\ e \in DOMAIN h.edges
       /\ src_node(h.edges[e]) = src_node(k.edges[e])
       /\ tgt_node(h.edges[e]) = tgt_node(k.edges[e])
    \/ /\ e \in DOMAIN k.edges => Ends(k, e) \subseteq W
       /\ e \in DOMAIN h.edges => Ends(h, e) \subseteq W

LEMMA EditsTrans ==
  ASSUME NEW k, NEW m, NEW h, NEW V, NEW W, Edits(k, m, V), Edits(m, h, W)
  PROVE  Edits(k, h, V \cup W)
<1> SUFFICES ASSUME NEW e \in DOMAIN k.edges \cup DOMAIN h.edges
             PROVE  \/ /\ e \in DOMAIN k.edges /\ e \in DOMAIN h.edges
                       /\ src_node(h.edges[e]) = src_node(k.edges[e])
                       /\ tgt_node(h.edges[e]) = tgt_node(k.edges[e])
                    \/ /\ e \in DOMAIN k.edges => Ends(k, e) \subseteq V \cup W
                       /\ e \in DOMAIN h.edges => Ends(h, e) \subseteq V \cup W
  BY DEF Edits
<1>1. CASE e \in DOMAIN m.edges
  BY <1>1 DEF Edits, Ends
<1>2. CASE e \notin DOMAIN m.edges
  BY <1>2 DEF Edits, Ends
<1> QED BY <1>1, <1>2

LEMMA EditsMore ==
  ASSUME NEW k, NEW h, NEW V, NEW W, Edits(k, h, V), V \subseteq W
  PROVE  Edits(k, h, W)
BY DEF Edits

\* Elsewhere nothing changes: the same nodes are ends, with the same neighbours.
LEMMA EditsElsewhere ==
  ASSUME NEW k, NEW h, NEW W, Edits(k, h, W), NEW n, n \notin W,
         n \in DOMAIN adjacency(h)
  PROVE  n \in DOMAIN adjacency(k) /\ adjacency(k)[n] = adjacency(h)[n]
<1>1. PICK e0 \in DOMAIN h.edges : n \in Ends(h, e0)
  BY Neighbours
<1>2. \A e, m : /\ Leads(h, e, n, m) <=> Leads(k, e, n, m)
                /\ Leads(h, e, m, n) <=> Leads(k, e, m, n)
  BY DEF Edits, Leads, Ends
<1>3. e0 \in DOMAIN k.edges /\ n \in Ends(k, e0)
  BY <1>1 DEF Edits, Ends
<1>4. n \in DOMAIN adjacency(k)
  BY <1>3, Neighbours
<1>5. \A m : m \in adjacency(k)[n] <=> m \in adjacency(h)[n]
  BY <1>2, <1>4, Neighbours
<1>6. /\ adjacency(k) = [x \in DOMAIN adjacency(k) |-> adjacency(k)[x]]
      /\ adjacency(h) = [x \in DOMAIN adjacency(h) |-> adjacency(h)[x]]
  BY DEF adjacency
<1> QED BY <1>4, <1>5

-----------------------------------------------------------------------------
(***************************************************************************)
(* Reports.                                                                *)
(***************************************************************************)
\* The nodes within two steps of A.
Near(h, A) == step_from(adjacency(h), step_from(adjacency(h), A))

\* Both ends of an edge at A are near, and so is A itself.
LEMMA NearHolds ==
  ASSUME NEW h, NEW A
  PROVE  /\ A \subseteq Near(h, A)
         /\ \A e \in DOMAIN h.edges : Ends(h, e) \cap A # {} => Ends(h, e) \subseteq Near(h, A)
<1> DEFINE adj == adjacency(h)
           B == step_from(adj, A)
<1>1. A \subseteq B /\ B \subseteq Near(h, A)
  BY DEF step_from, Near
<1>2. ASSUME NEW e \in DOMAIN h.edges, NEW n, n \in Ends(h, e), n \in A
      PROVE  Ends(h, e) \subseteq B
  <2>1. n \in DOMAIN adj
    BY <1>2, Neighbours
  <2>2. \/ n = src_node(h.edges[e]) /\ Leads(h, e, n, tgt_node(h.edges[e]))
        \/ n = tgt_node(h.edges[e]) /\ Leads(h, e, src_node(h.edges[e]), n)
    BY <1>2 DEF Ends, Leads
  <2>3. \A m \in Ends(h, e) : m = n \/ m \in adj[n]
    BY <2>1, <2>2, Neighbours DEF Ends
  <2> QED BY <1>2, <2>1, <2>3 DEF step_from
<1> HIDE DEF B
<1> QED BY <1>1, <1>2

\* r has the right value for each edge that has no end in M.
FreshBut(h, r, M) ==
  /\ DOMAIN r = DOMAIN h.edges
  /\ \A e \in DOMAIN h.edges : \/ r[e] = kappa(h, adjacency(h), e)
                               \/ Ends(h, e) \cap M # {}

LEMMA FullScan ==
  ASSUME NEW h
  PROVE  compute_curvatures(h) = [e \in DOMAIN h.edges |-> kappa(h, adjacency(h), e)]
BY DEF compute_curvatures

LEMMA Recomputed ==
  ASSUME NEW h, NEW A, NEW prev
  PROVE  recompute_incremental(h, A, prev) =
           updated(h, adjacency(h), edges_in_2hop_neighborhood(h, adjacency(h), A), prev)
<1> DEFINE s(a) == [adj |-> a, dirty |-> edges_in_2hop_neighborhood(h, a, A)]
           S == {s(a) : a \in {adjacency(h)}}
<1>1. S = {s(adjacency(h))}
  OBVIOUS
<1>2. recompute_incremental(h, A, prev) =
        CHOOSE r \in {updated(h, x.adj, x.dirty, prev) : x \in S} : TRUE
  BY DEF recompute_incremental
<1>3. /\ s(adjacency(h)).adj = adjacency(h)
      /\ s(adjacency(h)).dirty = edges_in_2hop_neighborhood(h, adjacency(h), A)
  OBVIOUS
<1> HIDE DEF s, S
<1> DEFINE u(x) == updated(h, x.adj, x.dirty, prev)
<1>4. {u(x) : x \in S} = {u(s(adjacency(h)))}
  BY <1>1
<1>5. recompute_incremental(h, A, prev) = u(s(adjacency(h)))
  BY <1>2, <1>4
<1> QED BY <1>3, <1>5

\* Of each node where an edge came or went: it is near, or left out, or alone.
Covered(h, A, B, W) ==
  \A w \in W : \/ w \in Near(h, A) \cup B
               \/ \A e \in DOMAIN h.edges : w \notin Ends(h, e)

LEMMA RecomputedIsFresh ==
  ASSUME NEW k, NEW h, NEW W, Edits(k, h, W), NEW A, NEW B, Covered(h, A, B, W),
         NEW prev, NEW M, FreshBut(k, prev, M)
  PROVE  FreshBut(h, recompute_incremental(h, A, prev), M \cup B)
<1> DEFINE adj == adjacency(h)
           dirty == edges_in_2hop_neighborhood(h, adj, A)
           r == recompute_incremental(h, A, prev)
<1>1. r = updated(h, adj, dirty, prev)
  BY Recomputed
<1>2. /\ DOMAIN r = DOMAIN h.edges
      /\ \A e \in DOMAIN h.edges :
           r[e] = IF e \in dirty \/ e \notin DOMAIN prev THEN kappa(h, adj, e) ELSE prev[e]
  BY <1>1 DEF updated
<1>3. ASSUME NEW e \in DOMAIN h.edges, r[e] # kappa(h, adj, e), Ends(h, e) \cap B = {}
      PROVE  Ends(h, e) \cap M # {}
  <2>1. e \notin dirty /\ e \in DOMAIN k.edges /\ r[e] = prev[e]
    BY <1>2, <1>3 DEF FreshBut
  <2>2. Ends(h, e) \cap Near(h, A) = {}
    BY <2>1 DEF edges_in_2hop_neighborhood, Near, Ends
  <2>3. Ends(h, e) \cap W = {}
    BY <1>3, <2>2 DEF Covered
  <2>4. /\ src_node(h.edges[e]) = src_node(k.edges[e])
        /\ tgt_node(h.edges[e]) = tgt_node(k.edges[e])
    BY <2>1, <2>3 DEF Edits, Ends
  <2> DEFINE u == src_node(h.edges[e])
             v == tgt_node(h.edges[e])
  <2>5. u \in DOMAIN adj /\ v \in DOMAIN adj /\ u \notin W /\ v \notin W
    BY <2>3, Neighbours DEF Ends
  <2>6. adjacency(k)[u] = adj[u] /\ adjacency(k)[v] = adj[v]
    BY <2>5, EditsElsewhere
  <2>7. kappa(k, adjacency(k), e) = kappa(h, adj, e)
    BY <2>4, <2>6 DEF kappa, compute_edge_curvature
  <2>8. Ends(k, e) = Ends(h, e)
    BY <2>4 DEF Ends
  <2> QED BY <1>3, <2>1, <2>7, <2>8 DEF FreshBut
<1> HIDE DEF r
<1> QED BY <1>2, <1>3 DEF FreshBut, r

-----------------------------------------------------------------------------
(***************************************************************************)
(* What the helpers do to the edges.                                       *)
(***************************************************************************)
Dir(d) == <<"dirs", d>>
Ino(i) == <<"inodes", i>>

LEMMA EntryEnds ==
  ASSUME NEW h, NEW e \in ContainsEdges(h)
  PROVE  /\ src_node(h.edges[e]) = Dir(h.edges[e].src)
         /\ tgt_node(h.edges[e]) = Ino(h.edges[e].tgt)
         /\ Ends(h, e) = {Dir(h.edges[e].src), Ino(h.edges[e].tgt)}
<1>1. h.edges[e].kind = "Contains"
  BY DEF ContainsEdges
<1>2. src_node(h.edges[e]) = Dir(h.edges[e].src)
  BY <1>1 DEF src_node, Dir
<1>3. tgt_node(h.edges[e]) = Ino(h.edges[e].tgt)
  BY <1>1 DEF tgt_node, Ino
<1> QED BY <1>2, <1>3 DEF Ends

LEMMA EdgesKept ==
  ASSUME NEW k, NEW h, h.edges = k.edges
  PROVE  Edits(k, h, {})
BY DEF Edits

LEMMA EdgesStay ==
  ASSUME NEW k, IsGraph(k), NEW d, NEW i, NEW v, NEW op
  PROVE  /\ insert_inode(k, i, v).edges = k.edges
         /\ insert_dir(k, d, i).edges = k.edges
         /\ remove_inode(k, i).edges = k.edges
         /\ remove_dir(k, d).edges = k.edges
         /\ update_quota(k, d, v).edges = k.edges
         /\ record_prov(k, op, i).edges = k.edges
         /\ update_quota(k, d, v).dirs = k.dirs
         /\ record_prov(k, op, i).dirs = k.dirs
<1>1. insert_inode(k, i, v).edges = k.edges /\ insert_dir(k, d, i).edges = k.edges
  BY DEF insert_inode, insert_dir, IsGraph, GraphFields
<1>2. remove_inode(k, i).edges = k.edges /\ remove_dir(k, d).edges = k.edges
  BY DEF remove_inode, remove_dir, IsGraph, GraphFields
<1>3. update_quota(k, d, v).edges = k.edges /\ update_quota(k, d, v).dirs = k.dirs
  BY DEF update_quota, IsGraph, GraphFields
<1>4. record_prov(k, op, i).edges = k.edges /\ record_prov(k, op, i).dirs = k.dirs
  BY DEF record_prov, IsGraph, GraphFields
<1> QED BY <1>1, <1>2, <1>3, <1>4

\* The quota walk and the log end an operation.
LEMMA FinishEdits ==
  ASSUME NEW k, NEW m, IsGraph(m), NEW W, Edits(k, m, W), NEW d, NEW v, NEW op, NEW i
  PROVE  /\ Edits(k, record_prov(m, op, i), W)
         /\ Edits(k, update_quota(m, d, v), W)
         /\ Edits(k, record_prov(update_quota(m, d, v), op, i), W)
<1> DEFINE q == update_quota(m, d, v)
<1>1. IsGraph(q) /\ q.edges = m.edges
  BY EdgesStay, HelpersTakeNothing DEF TakesNothing
<1> HIDE DEF q
<1>2. /\ record_prov(m, op, i).edges = m.edges
      /\ record_prov(q, op, i).edges = m.edges
  BY <1>1, EdgesStay
<1>3. \A h : h.edges = m.edges => Edits(k, h, W)
  BY DEF Edits, Ends
<1> QED BY <1>1, <1>2, <1>3 DEF q

LEMMA AddEdits ==
  ASSUME NEW k, IsGraph(k), NEW e, e \notin DOMAIN k.edges, NEW d, NEW i, NEW n,
         NEW h, h = add_contains(k, e, d, i, n)
  PROVE  /\ IsGraph(h) /\ Edits(k, h, {Dir(d), Ino(i)})
         /\ DOMAIN h.edges \subseteq DOMAIN k.edges \cup {e}
<1>1. IsGraph(h)
  BY HelpersTakeNothing DEF TakesNothing
<1> DEFINE x == ContainsEdge(d, i, n)
           m == insert_edge(k, e, x)
<1>2. IsGraph(m) /\ m.edges = insert_at(k.edges, e, x, EDGE_CAPACITY)
  BY DEF insert_edge, IsGraph, GraphFields
<1>3. h.edges = m.edges
  <2> HIDE DEF m
  <2>1. \E P, Q : h = [m EXCEPT !.dir_contains = P, !.inode_incoming_contains = Q]
    BY DEF add_contains, m
  <2> QED BY <1>2, <2>1 DEF IsGraph, GraphFields
<1>4. src_node(x) = Dir(d) /\ tgt_node(x) = Ino(i)
  BY DEF ContainsEdge, src_node, tgt_node, Dir, Ino
<1> HIDE DEF x, m
<1>5. \/ h.edges = k.edges
      \/ /\ DOMAIN h.edges = DOMAIN k.edges \cup {e} /\ h.edges[e] = x
         /\ \A y \in DOMAIN k.edges : h.edges[y] = k.edges[y]
  BY <1>2, <1>3 DEF insert_at, Put
<1> QED BY <1>1, <1>4, <1>5 DEF Edits, Ends

LEMMA DropEdits ==
  ASSUME NEW k, IsGraph(k), NEW S, NEW W, \A e \in S \cap DOMAIN k.edges : Ends(k, e) \subseteq W,
         NEW h, h.edges = Del(k.edges, S)
  PROVE  Edits(k, h, W)
BY DEF Edits, Del, Ends

LEMMA DropContainsIs ==
  ASSUME NEW k, IsGraph(k), NEW S, NEW h, h = drop_contains(k, S)
  PROVE  IsGraph(h) /\ h.edges = Del(k.edges, S) /\ h.dirs = k.dirs
<1>1. IsGraph(h)
  BY HelpersTakeNothing DEF TakesNothing
<1> DEFINE m == remove_edge(k, S)
<1>2. IsGraph(m) /\ m.edges = Del(k.edges, S) /\ m.dirs = k.dirs
  BY DEF remove_edge, IsGraph, GraphFields
<1>3. \E P, Q : h = [m EXCEPT !.dir_contains = P, !.inode_incoming_contains = Q]
  BY DEF drop_contains
<1> HIDE DEF m
<1> QED BY <1>1, <1>2, <1>3 DEF IsGraph, GraphFields

-----------------------------------------------------------------------------
(***************************************************************************)
(* Where each call makes and takes edges.                                  *)
(***************************************************************************)
LEMMA CreateEdits ==
  ASSUME NEW k, Sound(k), NEW d, NEW n, NEW mode, NEW u
  PROVE  Edits(k, create_file(k, d, n, mode, u), {Dir(d), Ino(k.next_inode)})
<1> DEFINE i == k.next_inode
           e == k.next_edge
           m0 == [k EXCEPT !.next_inode = i + 1, !.next_edge = e + 1]
           m1 == insert_inode(m0, i, NewInode("Regular", 1, mode, u, u, 0))
           m == add_contains(m1, e, d, i, n)
           W == {Dir(d), Ino(i)}
<1>1. create_file(k, d, n, mode, u) =
        record_prov(update_quota(m, d, 1), "Create", i)
  BY DEF create_file, create_node
<1>2. IsGraph(k) /\ e \notin DOMAIN k.edges
  BY SoundGraph
<1>3. IsGraph(m0) /\ m0.edges = k.edges
  BY <1>2 DEF IsGraph, GraphFields
<1> HIDE DEF m0
<1>4. IsGraph(m1) /\ m1.edges = k.edges
  BY <1>3, EdgesStay, HelpersTakeNothing DEF TakesNothing
<1> HIDE DEF m1
<1>5. /\ IsGraph(m) /\ Edits(m1, m, {Dir(d), Ino(i)})
      /\ DOMAIN m.edges \subseteq DOMAIN m1.edges \cup {e}
  BY <1>2, <1>4, AddEdits
<1> HIDE DEF m
<1>6. Edits(k, m, W)
  BY <1>4, <1>5 DEF Edits, Ends
<1> HIDE DEF W
<1> QED BY <1>1, <1>5, <1>6, FinishEdits DEF W

LEMMA MkdirEdits ==
  ASSUME NEW k, Sound(k), NEW d, NEW n, NEW mode, NEW u
  PROVE  Edits(k, mkdir(k, d, n, mode, u),
               {Dir(d), Ino(k.next_inode), Dir(k.next_dir), Ino(k.dirs[d])})
<1> DEFINE i == k.next_inode
           c == k.next_dir
           e == k.next_edge
           m0 == [k EXCEPT !.next_inode = i + 1, !.next_dir = c + 1,
                           !.next_edge = e + 3]
           m1 == insert_inode(m0, i, NewInode("Directory", 2, mode, u, u, 0))
           m2 == insert_dir(m1, c, i)
           m3 == add_contains(m2, e, d, i, n)
           m4 == add_contains(m3, e + 1, c, i, ".")
           m5 == add_contains(m4, e + 2, c, k.dirs[d], "..")
           W == {Dir(d), Ino(i), Dir(c), Ino(k.dirs[d])}
<1>1. mkdir(k, d, n, mode, u) = record_prov(update_quota(m5, d, 1), "Mkdir", i)
  BY DEF mkdir, mkdir_nodes
<1>2. /\ IsGraph(k) /\ e \in Nat
      /\ e \notin DOMAIN k.edges /\ e + 1 \notin DOMAIN k.edges /\ e + 2 \notin DOMAIN k.edges
  BY SoundGraph
<1>3. IsGraph(m0) /\ m0.edges = k.edges
  BY <1>2 DEF IsGraph, GraphFields
<1> HIDE DEF m0
<1>4. IsGraph(m1) /\ m1.edges = k.edges
  BY <1>3, EdgesStay, HelpersTakeNothing DEF TakesNothing
<1> HIDE DEF m1
<1>5. IsGraph(m2) /\ m2.edges = k.edges
  BY <1>4, EdgesStay, HelpersTakeNothing DEF TakesNothing
<1> HIDE DEF m2
<1>6. /\ IsGraph(m3) /\ Edits(m2, m3, {Dir(d), Ino(i)})
      /\ DOMAIN m3.edges \subseteq DOMAIN k.edges \cup {e}
  BY <1>2, <1>5, AddEdits
<1> HIDE DEF m3, e
<1>7. e + 1 \notin DOMAIN m3.edges /\ e + 2 \notin DOMAIN m3.edges /\ e + 1 # e + 2
  BY <1>2, <1>6
<1>8. /\ IsGraph(m4) /\ Edits(m3, m4, {Dir(c), Ino(i)})
      /\ DOMAIN m4.edges \subseteq DOMAIN m3.edges \cup {e + 1}
  BY <1>6, <1>7, AddEdits
<1> HIDE DEF m4
<1>9. IsGraph(m5) /\ Edits(m4, m5, {Dir(c), Ino(k.dirs[d])})
  BY <1>7, <1>8, AddEdits
<1> HIDE DEF m5
<1>10. Edits(k, m3, {Dir(d), Ino(i)})
  BY <1>5, <1>6 DEF Edits, Ends
<1>11. Edits(m3, m5, {Dir(c), Ino(i)} \cup {Dir(c), Ino(k.dirs[d])})
  BY <1>8, <1>9, EditsTrans
<1>12. Edits(k, m5, {Dir(d), Ino(i)} \cup ({Dir(c), Ino(i)} \cup {Dir(c), Ino(k.dirs[d])}))
  BY <1>10, <1>11, EditsTrans
<1>13. Edits(k, m5, W)
  BY <1>12, EditsMore
<1> HIDE DEF W
<1> QED BY <1>1, <1>9, <1>13, FinishEdits DEF W

LEMMA LinkEdits ==
  ASSUME NEW k, Sound(k), NEW d, NEW n, NEW i
  PROVE  Edits(k, link(k, d, n, i), {Dir(d), Ino(i)})
<1> DEFINE e == k.next_edge
           m0 == [k EXCEPT !.next_edge = e + 1]
           m1 == add_contains(m0, e, d, i, n)
           m == Counted(m1, i, 1)
           W == {Dir(d), Ino(i)}
<1>1. link(k, d, n, i) = record_prov(m, "Link", i)
  BY DEF link, link_nodes, Counted
<1>2. IsGraph(k) /\ e \notin DOMAIN k.edges
  BY SoundGraph
<1>3. IsGraph(m0) /\ m0.edges = k.edges
  BY <1>2 DEF IsGraph, GraphFields
<1> HIDE DEF m0
<1>4. /\ IsGraph(m1) /\ Edits(m0, m1, {Dir(d), Ino(i)})
      /\ DOMAIN m1.edges \subseteq DOMAIN m0.edges \cup {e}
  BY <1>2, <1>3, AddEdits
<1> HIDE DEF m1
<1>5. IsGraph(m) /\ m.edges = m1.edges
  BY <1>4 DEF Counted, IsGraph, GraphFields
<1> HIDE DEF m
<1>6. Edits(k, m, W)
  BY <1>3, <1>4, <1>5 DEF Edits, Ends
<1> HIDE DEF W
<1> QED BY <1>1, <1>5, <1>6, FinishEdits DEF W

\* Either the edge pool is full and the block has no edge, or it has one.
LEMMA WriteBlockEdits ==
  ASSUME NEW k, Sound(k), NEW i, NEW h, h = write_block(k, i)
  PROVE  \/ h.edges = k.edges
         \/ LET e == k.next_edge
                x == OtherEdge("PointsTo", i, k.next_block)
            IN /\ e \notin DOMAIN k.edges /\ h.edges = Put(k.edges, e, x)
               /\ Ends(h, e) = {Ino(i), Ino(k.next_block)}
               /\ Edits(k, h, {Ino(i), Ino(k.next_block)})
<1> DEFINE b == k.next_block
           e == k.next_edge
           x == OtherEdge("PointsTo", i, b)
           m == [k EXCEPT !.next_block = b + 1, !.next_edge = e + 1,
                          !.blocks = insert_at(@, b, 1, NODE_CAPACITY),
                          !.inode_points_to = IndexAdd(@, i, e)]
<1>1. h = insert_edge(m, e, x)
  BY DEF write_block
<1>2. IsGraph(k) /\ e \notin DOMAIN k.edges
  BY SoundGraph
<1>3. IsGraph(m) /\ m.edges = k.edges
  BY <1>2 DEF IsGraph, GraphFields
<1> HIDE DEF m
<1>4. h.edges = insert_at(k.edges, e, x, EDGE_CAPACITY)
  BY <1>1, <1>3 DEF insert_edge, IsGraph, GraphFields
<1>5. h.edges = k.edges \/ h.edges = Put(k.edges, e, x)
  BY <1>4 DEF insert_at
<1>6. src_node(x) = Ino(i) /\ tgt_node(x) = Ino(b)
  BY DEF OtherEdge, src_node, tgt_node, Ino
<1> HIDE DEF x
<1>7. h.edges = Put(k.edges, e, x) =>
        /\ Ends(h, e) = {Ino(i), Ino(b)} /\ Edits(k, h, {Ino(i), Ino(b)})
  BY <1>2, <1>6 DEF Put, Edits, Ends
<1> QED BY <1>2, <1>5, <1>7 DEF x

\* The edges from i to its blocks go, and they are i's own.
LEMMA CollectEdits ==
  ASSUME NEW m, IsGraph(m), PointersOwned(m), NEW i, NEW h, h = collect_inode(m, i)
  PROVE  IsGraph(h) /\ Edits(m, h, {Ino(i)} \cup block_nodes(m, i))
<1> DEFINE P == {e \in SetAt(m.inode_points_to, i) \cap DOMAIN m.edges :
                   m.edges[e].kind = "PointsTo"}
           left(b) == m.blocks[b] - Cardinality({e \in P : m.edges[e].tgt = b})
           hit  == {m.edges[e].tgt : e \in P}
           B == [b \in {b \in DOMAIN m.blocks : b \in hit => left(b) > 0} |-> left(b)]
           n == remove_edge(m, P)
           r == release_blocks(m, i)
<1>1. IsGraph(n) /\ n.edges = Del(m.edges, P)
  BY DEF remove_edge, IsGraph, GraphFields
<1>2. r = [n EXCEPT !.inode_points_to = Del(@, {i}), !.blocks = B]
  BY DEF release_blocks
<1>3. \A e \in P \cap DOMAIN m.edges : Ends(m, e) \subseteq {Ino(i)} \cup block_nodes(m, i)
  <2> TAKE e \in P \cap DOMAIN m.edges
  <2>1. e \in DOMAIN m.edges /\ m.edges[e].kind = "PointsTo" /\ m.edges[e].src = i
    BY DEF PointersOwned, SetAt
  <2>2. src_node(m.edges[e]) = Ino(i)
    BY <2>1 DEF src_node, Ino
  <2>3. tgt_node(m.edges[e]) \in block_nodes(m, i)
    BY <2>1 DEF block_nodes
  <2> QED BY <2>2, <2>3 DEF Ends
<1> HIDE DEF n, B, r, P
<1>4. IsGraph(r) /\ r.edges = n.edges
  BY <1>1, <1>2 DEF IsGraph, GraphFields
<1>5. IsGraph(h) /\ h.edges = r.edges
  BY <1>4 DEF collect_inode, remove_inode, IsGraph, GraphFields, r
<1> QED BY <1>1, <1>3, <1>4, <1>5, DropEdits

\* What an entry that is not "." or ".." leads to.
LEMMA EntryLeadsTo ==
  ASSUME NEW k, Sound(k), NEW d, NEW n, NEW e \in ContainsEdges(k),
         k.edges[e].src = d, k.edges[e].name = n
  PROVE  resolve_name(k, d, n) = k.edges[e].tgt /\ k.edges[e].tgt # None
<1>1. /\ FieldsTyped(k) /\ IdsIssued(k) /\ NamesExact(k) /\ Endpoints(k)
      /\ DirsPaired(k) /\ DotEdges(k)
  BY SoundGraph
<1>2. /\ resolve_name(k, d, n) = None <=> <<d, n>> \notin DOMAIN k.dir_name_idx
      /\ \A x \in ContainsEdges(k) : k.edges[x].src = d /\ k.edges[x].name = n
           => resolve_name(k, d, n) = k.edges[x].tgt
  BY <1>1, ResolvedBy
<1>3. k.edges[e].tgt # None
  BY <1>1 DEF Endpoints, IdsIssued, None
<1> QED BY <1>2, <1>3

LEMMA UnlinkEdits ==
  ASSUME NEW k, Sound(k), PointersOwned(k), NEW d, NEW n, unlink_ok(k, d, n)
  PROVE  Edits(k, unlink(k, d, n),
               {Dir(d), Ino(resolve_name(k, d, n))} \cup block_nodes(k, resolve_name(k, d, n)))
<1> DEFINE e  == scan_name(k, d, n)
           i  == k.edges[e].tgt
           m1 == drop_contains(k, {e})
           m2 == Counted(m1, i, -1)
           m3 == collect_inode(m2, i)
           m4 == update_quota(m3, d, -1)
           m  == unlink_nodes(k, d, n)
           W  == {Dir(d), Ino(i)} \cup block_nodes(k, i)
<1>1. m = m2 \/ m = m4
  BY DEF unlink_nodes, Counted
<1>2. unlink(k, d, n) = record_prov(m, "Unlink", i)
  BY DEF unlink
<1>3. IsGraph(k) /\ e \in ContainsEdges(k) /\ k.edges[e].src = d /\ k.edges[e].name = n
  BY SoundGraph, ScanFinds DEF unlink_ok
<1>4. resolve_name(k, d, n) = i
  BY <1>3, EntryLeadsTo
<1>5. /\ m2.edges = m1.edges /\ m2.inode_points_to = m1.inode_points_to
      /\ m2.next_edge = m1.next_edge /\ IsGraph(m2)
  <2>1. IsGraph(m1)
    BY <1>3, DropContainsIs
  <2> HIDE DEF m1, i
  <2> QED BY <2>1 DEF Counted, IsGraph, GraphFields
<1> HIDE DEF m, i, e, m2
<1>6. IsGraph(m1) /\ m1.edges = Del(k.edges, {e})
  BY <1>3, DropContainsIs
<1>7. Ends(k, e) = {Dir(d), Ino(i)}
  BY <1>3, EntryEnds DEF i
<1>8. Edits(k, m1, {Dir(d), Ino(i)})
  BY <1>3, <1>6, <1>7, DropEdits
<1>9. m1.inode_points_to = k.inode_points_to /\ m1.next_edge = k.next_edge
  BY <1>3 DEF drop_contains, remove_edge, IsGraph, GraphFields
<1> HIDE DEF m1
<1>10. Edits(k, m2, {Dir(d), Ino(i)})
  BY <1>5, <1>8 DEF Edits, Ends
<1>11. PointersOwned(m2)
  <2>1. /\ m2.inode_points_to = k.inode_points_to /\ m2.next_edge = k.next_edge
        /\ m2.edges = Del(k.edges, {e})
    BY <1>5, <1>6, <1>9
  <2> QED BY <2>1 DEF PointersOwned, Del
<1>12. block_nodes(m2, i) \subseteq block_nodes(k, i)
  <2>1. m2.edges = Del(k.edges, {e})
    BY <1>5, <1>6
  <2> QED BY <2>1 DEF block_nodes, Del
<1>13. IsGraph(m3) /\ Edits(m2, m3, {Ino(i)} \cup block_nodes(m2, i))
  BY <1>5, <1>11, CollectEdits
<1> HIDE DEF m3
<1>14. Edits(k, m3, {Dir(d), Ino(i)} \cup ({Ino(i)} \cup block_nodes(m2, i)))
  BY <1>10, <1>13, EditsTrans
<1>15. Edits(k, m2, W) /\ Edits(k, m3, W)
  BY <1>10, <1>12, <1>14, EditsMore
<1> HIDE DEF W
<1>16. IsGraph(m4) /\ Edits(k, m4, W)
  BY <1>13, <1>15, FinishEdits, HelpersTakeNothing DEF TakesNothing
<1> HIDE DEF m4
<1>17. IsGraph(m) /\ Edits(k, m, W)
  BY <1>1, <1>5, <1>15, <1>16
<1>18. Edits(k, unlink(k, d, n), W)
  BY <1>2, <1>17, FinishEdits
<1> QED BY <1>4, <1>18 DEF W

\* The directory c goes with its two entries.
LEMMA RmdirEdits ==
  ASSUME NEW k, Sound(k), NEW d, NEW n, rmdir_ok(k, d, n),
         NEW i, i = resolve_name(k, d, n), NEW c, c = dir_for_inode(k, i)
  PROVE  /\ Edits(k, rmdir(k, d, n), {Dir(d), Ino(i), Dir(c), Ino(k.dirs[d])})
         /\ c \notin DOMAIN rmdir(k, d, n).dirs
         /\ d \in DOMAIN rmdir(k, d, n).dirs
         /\ rmdir(k, d, n).dirs[d] = k.dirs[d]
<1> DEFINE S == {x \in entries(k, d) : k.edges[x].tgt = i /\ k.edges[x].name = n}
                  \cup entries(k, c)
           m == drop_contains(k, S)
           h == rmdir_nodes(k, d, n)
           W == {Dir(d), Ino(i), Dir(c), Ino(k.dirs[d])}
<1>1. /\ IsGraph(k) /\ DirsPaired(k) /\ DotEdges(k) /\ Endpoints(k) /\ ListingsExact(k)
  BY SoundGraph
<1>2. /\ n \notin Dots /\ IsDirInode(k, i) /\ c # None /\ user_entries(k, c) = {}
  BY DEF rmdir_ok
<1>3. c \in DOMAIN k.dirs /\ k.dirs[c] = i
  BY <1>1, <1>2 DEF dir_for_inode, DirsPaired
<1>4. i # None
  BY <1>2, SoundGraph DEF IsDirInode, IdsIssued, None
<1>5. PICK e \in ContainsEdges(k) : /\ k.edges[e].src = d /\ k.edges[e].name = n
                                    /\ k.edges[e].tgt = i
  BY <1>4, ResolvedEntry
<1>6. e \in UserEdges(k) /\ d \in DOMAIN k.dirs
  BY <1>1, <1>2, <1>5 DEF UserEdges, Endpoints
<1>7. /\ entries(k, d) = {x \in ContainsEdges(k) : k.edges[x].src = d}
      /\ entries(k, c) = {x \in ContainsEdges(k) : k.edges[x].src = c}
      /\ user_entries(k, c) = {x \in UserEdges(k) : k.edges[x].src = c}
  BY <1>1, EntriesAre
<1>8. d # c
  BY <1>2, <1>5, <1>6, <1>7
<1>9. \A x \in S \cap DOMAIN k.edges : Ends(k, x) \subseteq W
  <2> TAKE x \in S \cap DOMAIN k.edges
  <2>1. x \in ContainsEdges(k)
    BY <1>7
  <2>2. CASE k.edges[x].src = d /\ k.edges[x].tgt = i
    BY <2>1, <2>2, EntryEnds
  <2>3. CASE k.edges[x].src = c
    <3>1. x \notin UserEdges(k)
      BY <1>2, <1>7, <2>3
    <3>2. k.edges[x].name = "." \/ k.edges[x].name = ".."
      BY <2>1, <3>1 DEF UserEdges, Dots
    <3>3. k.edges[x].tgt = i \/ k.edges[x].tgt = k.dirs[d]
      BY <1>1, <1>3, <1>5, <1>6, <2>1, <2>3, <3>2 DEF DotEdges
    <3> QED BY <2>1, <2>3, <3>3, EntryEnds
  <2> QED BY <1>7, <2>2, <2>3
<1>10. h = [remove_dir(remove_inode(m, i), c) EXCEPT !.dir_contains = Del(@, {c}),
                                         !.inode_incoming_contains = Del(@, {i})]
  BY DEF rmdir_nodes
<1> HIDE DEF S, h
<1>11. IsGraph(m) /\ m.edges = Del(k.edges, S) /\ m.dirs = k.dirs
  BY <1>1, DropContainsIs
<1> HIDE DEF m
<1>12. IsGraph(h) /\ h.edges = m.edges /\ h.dirs = Del(k.dirs, {c})
  BY <1>3, <1>10, <1>11 DEF remove_dir, remove_inode, IsGraph, GraphFields
<1>13. Edits(k, h, W)
  BY <1>1, <1>9, <1>11, <1>12, DropEdits
<1> HIDE DEF W
<1>14. Edits(k, rmdir(k, d, n), W)
  BY <1>12, <1>13, FinishEdits DEF rmdir, h
<1> DEFINE q == update_quota(h, d, -1)
<1>15. IsGraph(q) /\ q.dirs = h.dirs
  BY <1>12, EdgesStay, HelpersTakeNothing DEF TakesNothing
<1>16. rmdir(k, d, n) = record_prov(q, "Rmdir", resolve_name(k, d, n))
  BY DEF rmdir, h
<1> HIDE DEF q
<1>17. rmdir(k, d, n).dirs = Del(k.dirs, {c})
  BY <1>12, <1>15, <1>16, EdgesStay
<1> QED BY <1>6, <1>8, <1>14, <1>17 DEF W, Del

-----------------------------------------------------------------------------
(***************************************************************************)
(* Why a node is near, left out or alone, in terms of directories.         *)
(***************************************************************************)
Touched(h, A, B, w) ==
  \/ w \in A \cup B
  \/ \E x \in DOMAIN h.dirs : Dir(x) \in A /\ w = Ino(h.dirs[x])
  \/ \E x \in DOMAIN h.dirs : Ino(h.dirs[x]) \in A /\ w = Dir(x)
  \/ \E x : x \notin DOMAIN h.dirs /\ w = Dir(x)

EditsNear(k, h, A, B) == \E W : Edits(k, h, W) /\ \A w \in W : Touched(h, A, B, w)

\* "." is an edge between a directory and its inode; a directory that is gone
\* is the end of no edge.
LEMMA TouchedIsCovered ==
  ASSUME NEW h, Sound(h), NEW A, NEW B, NEW w, Touched(h, A, B, w)
  PROVE  \/ w \in Near(h, A) \cup B
         \/ \A e \in DOMAIN h.edges : w \notin Ends(h, e)
<1>1. DirsPaired(h) /\ DotEdges(h) /\ NamesExact(h) /\ Endpoints(h)
  BY SoundGraph
<1>2. A \subseteq Near(h, A)
  BY NearHolds
<1>3. ASSUME NEW x \in DOMAIN h.dirs, Dir(x) \in A \/ Ino(h.dirs[x]) \in A
      PROVE  Dir(x) \in Near(h, A) /\ Ino(h.dirs[x]) \in Near(h, A)
  <2>1. PICK e \in ContainsEdges(h) : h.edges[e].src = x /\ h.edges[e].name = "."
    BY <1>1 DEF DotEdges, NamesExact
  <2>2. h.edges[e].tgt = h.dirs[x] /\ e \in DOMAIN h.edges
    BY <1>1, <2>1 DEF DotEdges, ContainsEdges
  <2>3. Ends(h, e) = {Dir(x), Ino(h.dirs[x])}
    BY <2>1, <2>2, EntryEnds
  <2> QED BY <1>3, <2>2, <2>3, NearHolds
<1>4. ASSUME NEW x, x \notin DOMAIN h.dirs, NEW e \in DOMAIN h.edges, Dir(x) \in Ends(h, e)
      PROVE  FALSE
  <2>1. CASE e \in ContainsEdges(h)
    <3>1. Ends(h, e) = {Dir(h.edges[e].src), Ino(h.edges[e].tgt)}
      BY <2>1, EntryEnds
    <3>2. h.edges[e].src \in DOMAIN h.dirs
      BY <1>1, <2>1 DEF Endpoints
    <3> QED BY <1>4, <3>1, <3>2 DEF Dir, Ino
  <2>2. CASE e \notin ContainsEdges(h)
    <3>1. h.edges[e].kind # "Contains"
      BY <2>2 DEF ContainsEdges
    <3>2. src_node(h.edges[e])[1] # "dirs" /\ tgt_node(h.edges[e])[1] # "dirs"
      BY <3>1 DEF src_node, tgt_node
    <3> QED BY <1>4, <3>2 DEF Ends, Dir
  <2> QED BY <2>1, <2>2
<1> QED BY <1>2, <1>3, <1>4 DEF Touched

\* One step after another, when the first has the directories of the last.
LEMMA NearEditsCompose ==
  ASSUME NEW k, NEW m, NEW h, NEW A, NEW B, EditsNear(k, m, A, B), EditsNear(m, h, A, B),
         h.dirs = m.dirs
  PROVE  EditsNear(k, h, A, B)
<1>1. PICK V : Edits(k, m, V) /\ \A w \in V : Touched(m, A, B, w)
  BY DEF EditsNear
<1>2. PICK W : Edits(m, h, W) /\ \A w \in W : Touched(h, A, B, w)
  BY DEF EditsNear
<1>3. Edits(k, h, V \cup W)
  BY <1>1, <1>2, EditsTrans
<1>4. \A w \in V \cup W : Touched(h, A, B, w)
  BY <1>1, <1>2 DEF Touched
<1> QED BY <1>3, <1>4 DEF EditsNear

-----------------------------------------------------------------------------
(***************************************************************************)
(* Renames.                                                                *)
(***************************************************************************)
besides(k, old) == IF old = None THEN {} ELSE {Ino(old)} \cup block_nodes(k, old)

LEMMA ReplaceEdits ==
  ASSUME NEW k, Sound(k), PointersOwned(k), NEW d, NEW n,
         NEW p, p = replace_destination(k, d, n), p.ok, NEW A, Dir(d) \in A
  PROVE  EditsNear(k, p.graph, A, besides(k, resolve_name(k, d, n)))
<1> DEFINE i == resolve_name(k, d, n)
           c == dir_for_inode(k, i)
           B == besides(k, i)
           h == p.graph
<1>1. CASE i = None
  <2>1. h = k
    BY <1>1 DEF replace_destination, Done
  <2>2. Edits(k, h, {})
    BY <2>1, EdgesKept
  <2> QED BY <2>2 DEF EditsNear
<1>2. CASE i # None /\ IsDirInode(k, i)
  <2>1. rmdir_ok(k, d, n) /\ h = rmdir(k, d, n)
    BY <1>2 DEF replace_destination, Done, Fail
  <2>2. /\ Edits(k, h, {Dir(d), Ino(i), Dir(c), Ino(k.dirs[d])})
        /\ c \notin DOMAIN h.dirs /\ d \in DOMAIN h.dirs /\ h.dirs[d] = k.dirs[d]
    BY <2>1, RmdirEdits
  <2>3. Ino(i) \in B
    BY <1>2 DEF besides
  <2> HIDE DEF B, h, c, i
  <2>4. \A w \in {Dir(d), Ino(i), Dir(c), Ino(k.dirs[d])} : Touched(h, A, B, w)
    BY <2>2, <2>3 DEF Touched
  <2> QED BY <2>2, <2>4 DEF EditsNear, h, B, i
<1>3. CASE i # None /\ ~IsDirInode(k, i)
  <2>1. unlink_ok(k, d, n) /\ h = unlink(k, d, n)
    BY <1>3 DEF replace_destination, Done, Fail
  <2>2. Edits(k, h, {Dir(d), Ino(i)} \cup block_nodes(k, i))
    BY <2>1, UnlinkEdits
  <2>3. B = {Ino(i)} \cup block_nodes(k, i)
    BY <1>3 DEF besides
  <2> HIDE DEF B, h, c, i
  <2>4. \A w \in {Dir(d), Ino(i)} \cup block_nodes(k, i) : Touched(h, A, B, w)
    BY <2>3 DEF Touched
  <2> QED BY <2>2, <2>4 DEF EditsNear, h, B, i
<1> QED BY <1>1, <1>2, <1>3

\* The ".." of a moved directory led to the inode of its old holder.
LEMMA MoveEdits ==
  ASSUME NEW k, Sound(k), NEW e \in UserEdges(k), NEW i, i = k.edges[e].tgt,
         NEW d \in DOMAIN k.dirs, NEW n \in AllNames \ Dots,
         <<d, n>> \notin DOMAIN k.dir_name_idx, k.next_edge < EDGE_CAPACITY,
         NEW h, h = move_dotdot(move_entry(k, e, d, n), i, d),
         NEW A, {Dir(k.edges[e].src), Dir(d), Ino(i)} \subseteq A, NEW B
  PROVE  EditsNear(k, h, A, B) /\ h.dirs = k.dirs /\ IsGraph(h)
<1> DEFINE s == k.edges[e].src
           e2 == k.next_edge
           m0 == drop_contains(k, {e})
           m1 == [m0 EXCEPT !.next_edge = e2 + 1]
           m == move_entry(k, e, d, n)
           c == dir_for_inode(m, i)
           D == {x \in entries(m, c) : m.edges[x].name = ".."}
           x == First(D)
<1>1. /\ IsGraph(k) /\ FieldsTyped(k) /\ IdsIssued(k) /\ Indexed(k)
      /\ DirsPaired(k) /\ DotEdges(k) /\ Endpoints(k)
      /\ e \in ContainsEdges(k) /\ e2 \notin DOMAIN k.edges /\ DOMAIN k.edges \subseteq Nat
      /\ e2 \in Nat
  BY SoundGraph, EdgeIdsAreNat DEF UserEdges
<1>2. s \in DOMAIN k.dirs
  BY <1>1 DEF Endpoints
<1>3. /\ Indexed(m) /\ SameObjects(k, m)
      /\ ContainsEdges(m) = (ContainsEdges(k) \ {e}) \cup {e2}
      /\ m.edges[e2] = ContainsEdge(d, i, n)
      /\ \A y \in ContainsEdges(k) \ {e} : m.edges[y] = k.edges[y]
  BY <1>1, MoveEntryIs
<1>4. IsGraph(m) /\ Edits(k, m, {Dir(s), Ino(i)} \cup {Dir(d), Ino(i)})
  <2>1. IsGraph(m0) /\ m0.edges = Del(k.edges, {e})
    BY <1>1, DropContainsIs
  <2>2. Ends(k, e) = {Dir(s), Ino(i)}
    BY <1>1, EntryEnds
  <2>3. m = add_contains(m1, e2, d, i, n)
    BY DEF move_entry
  <2> HIDE DEF m0, m, s
  <2>4. IsGraph(m1) /\ m1.edges = m0.edges
    BY <2>1 DEF IsGraph, GraphFields
  <2> HIDE DEF m1
  <2>5. Edits(k, m1, {Dir(s), Ino(i)})
    BY <1>1, <2>1, <2>2, <2>4, DropEdits
  <2>6. e2 \notin DOMAIN m1.edges
    BY <1>1, <2>1, <2>4 DEF Del
  <2> HIDE DEF e2
  <2>7. /\ IsGraph(m) /\ Edits(m1, m, {Dir(d), Ino(i)})
        /\ DOMAIN m.edges \subseteq DOMAIN m1.edges \cup {e2}
    <3> DEFINE q == add_contains(m1, e2, d, i, n)
    <3>1. /\ IsGraph(q) /\ Edits(m1, q, {Dir(d), Ino(i)})
          /\ DOMAIN q.edges \subseteq DOMAIN m1.edges \cup {e2}
      BY <2>4, <2>6, AddEdits, SMTT(30)
    <3> QED BY <2>3, <3>1
  <2> QED BY <2>5, <2>7, EditsTrans
<1> HIDE DEF m0, m1, m
<1>5. m.dirs = k.dirs /\ m.dir_for_inode_idx = k.dir_for_inode_idx /\ m.inodes = k.inodes
  BY <1>3 DEF SameObjects
<1>6. IsGraph(h) /\ h = move_dotdot(m, i, d)
  BY <1>4, HelpersTakeNothing DEF TakesNothing, m
<1>7. ASSUME NEW V, Edits(m, h, V), h.dirs = k.dirs, \A w \in V : Touched(h, A, B, w)
      PROVE  EditsNear(k, h, A, B)
  <2>1. Edits(k, h, ({Dir(s), Ino(i)} \cup {Dir(d), Ino(i)}) \cup V)
    BY <1>4, <1>7, EditsTrans
  <2>2. \A w \in ({Dir(s), Ino(i)} \cup {Dir(d), Ino(i)}) \cup V : Touched(h, A, B, w)
    BY <1>7 DEF Touched
  <2> QED BY <2>1, <2>2 DEF EditsNear
<1>8. CASE ~(IsDirInode(m, i) /\ c # None /\ D # {})
  <2>1. h = m
    BY <1>6, <1>8 DEF move_dotdot
  <2>2. Edits(m, h, {})
    BY <2>1, EdgesKept
  <2> QED BY <1>5, <1>6, <1>7, <2>1, <2>2
<1>9. CASE IsDirInode(m, i) /\ c # None /\ D # {}
  <2>1. c \in DOMAIN k.dirs /\ k.dirs[c] = i
    BY <1>1, <1>5, <1>9 DEF dir_for_inode, DirsPaired
  <2>2. entries(m, c) = {y \in ContainsEdges(m) : m.edges[y].src = c}
    BY <1>3, EntriesAre DEF Indexed
  <2>3. D \subseteq Nat
    BY <1>1, <1>3, <2>2 DEF ContainsEdges
  <2>4. x \in D
    <3> HIDE DEF D
    <3> QED BY <1>9, <2>3, FirstIn
  <2>5. x \in ContainsEdges(m) /\ m.edges[x].src = c /\ m.edges[x].name = ".."
    BY <2>2, <2>4
  <2>6. x # e2
    <3>1. m.edges[e2].name = n /\ n # ".."
      BY <1>3 DEF ContainsEdge, Dots
    <3> HIDE DEF x, e2
    <3> QED BY <2>5, <3>1
  <2>7. x \in ContainsEdges(k) /\ m.edges[x] = k.edges[x]
    BY <1>3, <2>5, <2>6
  <2>8. m.edges[x].tgt = k.dirs[s]
    <3> HIDE DEF x, c
    <3>1. k.edges[x].src = c /\ k.edges[x].name = ".."
      BY <2>5, <2>7
    <3>2. k.edges[e].tgt = k.dirs[k.edges[x].src]
      BY <2>1, <3>1
    <3>3. k.edges[x].tgt = k.dirs[k.edges[e].src]
      BY <1>1, <2>7, <3>1, <3>2 DEF DotEdges
    <3> QED BY <2>7, <3>3
  <2>9. Ends(m, x) = {Dir(c), Ino(k.dirs[s])}
    <3> HIDE DEF x, c
    <3> QED BY <2>5, <2>8, EntryEnds
  <2>10. h = [m EXCEPT !.edges[x].tgt = k.dirs[d],
                       !.inode_incoming_contains =
                          IndexAdd([j \in DOMAIN @ |-> IF j = m.edges[x].tgt
                                                       THEN @[j] \ {x} ELSE @[j]],
                                   k.dirs[d], x)]
    BY <1>5, <1>6, <1>9 DEF move_dotdot
  <2> HIDE DEF x, D, c
  <2>11. h.edges = [m.edges EXCEPT ![x].tgt = k.dirs[d]] /\ h.dirs = k.dirs
    BY <1>4, <1>5, <2>10 DEF IsGraph, GraphFields
  <2>12. x \in DOMAIN m.edges /\ DOMAIN h.edges = DOMAIN m.edges
         /\ \A y \in DOMAIN m.edges \ {x} : h.edges[y] = m.edges[y]
    BY <2>5, <2>11 DEF ContainsEdges
  <2>13. h.edges[x] = [m.edges[x] EXCEPT !.tgt = k.dirs[d]]
    BY <2>11, <2>12
  <2>14. m.edges[x] \in Edge
    BY <1>1, <2>7 DEF FieldsTyped, ContainsEdges
  <2>15. /\ h.edges[x].kind = "Contains" /\ h.edges[x].src = c
         /\ h.edges[x].tgt = k.dirs[d]
    BY <2>5, <2>13, <2>14 DEF ContainsEdges, Edge
  <2>16. Ends(h, x) = {Dir(c), Ino(k.dirs[d])}
    BY <2>12, <2>15, EntryEnds DEF ContainsEdges
  <2> DEFINE V == {Dir(c), Ino(k.dirs[s]), Ino(k.dirs[d])}
  <2>17. Edits(m, h, V)
    BY <2>9, <2>12, <2>16 DEF Edits
  <2>18. \A w \in V : Touched(h, A, B, w)
    BY <1>2, <2>1, <2>11 DEF Touched
  <2> HIDE DEF V
  <2> QED BY <1>6, <1>7, <2>11, <2>17, <2>18
<1> QED BY <1>8, <1>9

LEMMA RenamedEdits ==
  ASSUME NEW m, FieldsTyped(m), NEW e \in DOMAIN m.edges, NEW n,
         NEW h, h = rename_contains_edge(m, e, n), NEW A, NEW B
  PROVE  EditsNear(m, h, A, B) /\ h.dirs = m.dirs /\ IsGraph(h)
<1>1. IsGraph(m) /\ m.edges[e] \in Edge
  BY DEF FieldsTyped
<1>2. CASE m.edges[e].name = n
  <2>1. h = m
    BY <1>2 DEF rename_contains_edge
  <2>2. Edits(m, h, {})
    BY <2>1, EdgesKept
  <2> QED BY <1>1, <2>1, <2>2 DEF EditsNear
<1>3. CASE m.edges[e].name # n
  <2> DEFINE N == Put(Del(m.dir_name_idx, {<<m.edges[e].src, m.edges[e].name>>}),
                      <<m.edges[e].src, n>>, e)
  <2>1. h = [m EXCEPT !.edges[e].name = n, !.dir_name_idx = N]
    BY <1>3 DEF rename_contains_edge
  <2> HIDE DEF N
  <2>2. h.edges = [m.edges EXCEPT ![e].name = n] /\ h.dirs = m.dirs /\ IsGraph(h)
    BY <1>1, <2>1 DEF IsGraph, GraphFields
  <2>3. /\ DOMAIN h.edges = DOMAIN m.edges
        /\ \A y \in DOMAIN m.edges \ {e} : h.edges[y] = m.edges[y]
        /\ h.edges[e] = [m.edges[e] EXCEPT !.name = n]
    BY <2>2
  <2>4. /\ h.edges[e].kind = m.edges[e].kind /\ h.edges[e].src = m.edges[e].src
        /\ h.edges[e].tgt = m.edges[e].tgt
    BY <1>1, <2>3 DEF Edge
  <2>5. /\ src_node(h.edges[e]) = src_node(m.edges[e])
        /\ tgt_node(h.edges[e]) = tgt_node(m.edges[e])
    BY <2>4 DEF src_node, tgt_node
  <2>6. Edits(m, h, {})
    BY <2>3, <2>5 DEF Edits
  <2> QED BY <2>2, <2>6 DEF EditsNear
<1> QED BY <1>2, <1>3

LEMMA SameDirEdits ==
  ASSUME NEW k, Sound(k), PointersOwned(k), NEW d, NEW src \in AllNames \ Dots,
         NEW dst \in AllNames \ Dots,
         NEW r, r = rename_same_dir(k, d, src, dst), r.ok, NEW A, Dir(d) \in A
  PROVE  EditsNear(k, r.graph, A, besides(k, resolve_name(k, d, dst))) /\ IsGraph(r.graph)
<1> DEFINE i == resolve_name(k, d, src)
           p == replace_destination(k, d, dst)
           E == source_entries(p.graph, d, i, src)
           B == besides(k, resolve_name(k, d, dst))
<1>1. CASE src = dst
  <2>1. r.graph = k
    BY <1>1 DEF rename_same_dir, Done, Fail
  <2>2. Edits(k, r.graph, {})
    BY <2>1, EdgesKept
  <2> QED BY <2>1, <2>2, SoundGraph DEF EditsNear
<1>2. CASE src # dst
  <2>1. /\ p.ok /\ E # {}
        /\ r.graph = rename_contains_edge(p.graph, First(E), dst)
    BY <1>2 DEF rename_same_dir, Done, Fail
  <2>2. Sound(p.graph) /\ EditsNear(k, p.graph, A, B)
    BY <2>1, ReplaceSound, ReplaceEdits
  <2>3. First(E) \in DOMAIN p.graph.edges /\ FieldsTyped(p.graph)
    BY <2>1, <2>2, SoundGraph, SourceEntryExists
  <2> HIDE DEF p, E, B
  <2>4. EditsNear(p.graph, r.graph, A, B) /\ r.graph.dirs = p.graph.dirs /\ IsGraph(r.graph)
    BY <2>1, <2>3, RenamedEdits
  <2> QED BY <2>2, <2>4, NearEditsCompose DEF B
<1> QED BY <1>1, <1>2

LEMMA CrossDirEdits ==
  ASSUME NEW k, Sound(k), PointersOwned(k), NEW sd, NEW src \in AllNames \ Dots,
         NEW dd \in DOMAIN k.dirs, NEW dst \in AllNames \ Dots, sd # dd,
         NEW r, r = rename_cross_dir(k, sd, src, dd, dst), r.ok,
         k.next_edge < EDGE_CAPACITY,
         NEW A, {Dir(sd), Dir(dd), Ino(resolve_name(k, sd, src))} \subseteq A
  PROVE  EditsNear(k, r.graph, A, besides(k, resolve_name(k, dd, dst))) /\ IsGraph(r.graph)
<1> DEFINE i == resolve_name(k, sd, src)
           p == replace_destination(k, dd, dst)
           m == p.graph
           E == source_entries(m, sd, i, src)
           e == First(E)
           h == move_dotdot(move_entry(m, e, dd, dst), i, dd)
           B == besides(k, resolve_name(k, dd, dst))
<1>1. i # None /\ p.ok /\ E # {} /\ r.graph = h
  BY DEF rename_cross_dir, Done, Fail
<1>2. Sound(m) /\ Vacates(k, m, dd, dst) /\ EditsNear(k, m, A, B)
  BY <1>1, ReplaceSound, ReplaceEdits
<1>3. /\ e \in UserEdges(m) /\ m.edges[e].src = sd /\ m.edges[e].tgt = i
  <2> HIDE DEF m
  <2> QED BY <1>1, <1>2, SourceEntryIs
<1>4. /\ dd \in DOMAIN m.dirs /\ <<dd, dst>> \notin DOMAIN m.dir_name_idx
      /\ m.next_edge < EDGE_CAPACITY
  BY <1>2 DEF Vacates, SameIds
<1>5. {Dir(m.edges[e].src), Dir(dd), Ino(i)} \subseteq A
  BY <1>3
<1> HIDE DEF B, e, m
<1>6. EditsNear(m, h, A, B) /\ h.dirs = m.dirs /\ IsGraph(h)
  BY <1>2, <1>3, <1>4, <1>5, MoveEdits, SMTT(30)
<1> HIDE DEF h
<1> QED BY <1>1, <1>2, <1>6, NearEditsCompose DEF B

LEMMA RenameEdits ==
  ASSUME NEW k, Sound(k), PointersOwned(k), NEW sd, NEW src \in AllNames,
         NEW dd \in DOMAIN k.dirs, NEW dst \in AllNames,
         NEW r, r = rename(k, sd, src, dd, dst), r.ok,
         r.graph.next_edge <= EDGE_CAPACITY
  PROVE  EditsNear(k, r.graph, affected_nodes_rename(sd, dd, resolve_name(k, sd, src)),
                   besides(k, resolve_name(k, dd, dst)))
<1> DEFINE p == IF sd = dd THEN rename_same_dir(k, sd, src, dst)
                           ELSE rename_cross_dir(k, sd, src, dd, dst)
           A == affected_nodes_rename(sd, dd, resolve_name(k, sd, src))
           B == besides(k, resolve_name(k, dd, dst))
           h == record_prov(p.graph, "Rename", resolve_name(p.graph, dd, dst))
<1>1. {src, dst} \cap Dots = {} /\ p.ok /\ r.graph = h
  BY DEF rename, Done, Fail
<1>2. src \in AllNames \ Dots /\ dst \in AllNames \ Dots
  BY <1>1
<1>3. {Dir(sd), Dir(dd), Ino(resolve_name(k, sd, src))} \subseteq A
  BY DEF affected_nodes_rename, Dir, Ino
<1> HIDE DEF A, B
<1>4. EditsNear(k, p.graph, A, B) /\ IsGraph(p.graph)
  <2>1. CASE sd = dd
    BY <1>1, <1>2, <1>3, <2>1, SameDirEdits DEF B
  <2>2. CASE sd # dd
    <3> DEFINE q == rename_cross_dir(k, sd, src, dd, dst)
    <3>1. p = q /\ q.ok
      BY <1>1, <2>2
    <3>2. q.graph.next_edge = k.next_edge + 1
      BY <1>2, <2>2, <3>1, RenameCrossDirSound
    <3>3. IsGraph(q.graph)
      <4>1. Issues(k, q.graph)
        BY SoundGraph, EdgeIdsAreNat, RenameCrossDirIssues
      <4> QED BY <4>1 DEF Issues, FieldsTyped
    <3>4. h.next_edge = q.graph.next_edge
      BY <3>1, <3>3, HelpersTakeNothing DEF TakesNothing, SameIds
    <3>5. k.next_edge < EDGE_CAPACITY
      <4>1. k.next_edge \in Nat /\ EDGE_CAPACITY \in Nat
        BY SoundGraph, CapacityAssumption
      <4> HIDE DEF q, h, p
      <4> QED BY <1>1, <3>2, <3>4, <4>1
    <3>6. EditsNear(k, q.graph, A, B)
      BY <1>2, <1>3, <2>2, <3>1, <3>5, CrossDirEdits DEF B
    <3> QED BY <3>1, <3>3, <3>6
  <2> QED BY <2>1, <2>2
<1> HIDE DEF p
<1>5. h.edges = p.graph.edges /\ h.dirs = p.graph.dirs
  BY <1>4, EdgesStay
<1>6. EditsNear(p.graph, h, A, B)
  BY <1>5, EdgesKept DEF EditsNear
<1>7. EditsNear(k, h, A, B)
  BY <1>4, <1>5, <1>6, NearEditsCompose
<1> QED BY <1>1, <1>7 DEF A, B

-----------------------------------------------------------------------------
(***************************************************************************)
(* The index of blocks.                                                    *)
(***************************************************************************)
LEMMA WriteBlockOwned ==
  ASSUME NEW k, Sound(k), PointersOwned(k), NEW i, NEW h, h = write_block(k, i)
  PROVE  PointersOwned(h)
<1> DEFINE b == k.next_block
           e == k.next_edge
           x == OtherEdge("PointsTo", i, b)
           m == [k EXCEPT !.next_block = b + 1, !.next_edge = e + 1,
                          !.blocks = insert_at(@, b, 1, NODE_CAPACITY),
                          !.inode_points_to = IndexAdd(@, i, e)]
<1>1. h = insert_edge(m, e, x)
  BY DEF write_block
<1>2. IsGraph(k) /\ e \notin DOMAIN k.edges /\ e \in Nat
  BY SoundGraph
<1>3. /\ IsGraph(m) /\ m.edges = k.edges /\ m.next_edge = e + 1
      /\ m.inode_points_to = IndexAdd(k.inode_points_to, i, e)
  BY <1>2 DEF IsGraph, GraphFields
<1> HIDE DEF m
<1>4. /\ h.edges = insert_at(k.edges, e, x, EDGE_CAPACITY) /\ h.next_edge = e + 1
      /\ h.inode_points_to = IndexAdd(k.inode_points_to, i, e)
  BY <1>1, <1>3 DEF insert_edge, IsGraph, GraphFields
<1>5. x.src = i
  BY DEF OtherEdge
<1> HIDE DEF x
<1>6. ASSUME NEW j \in DOMAIN h.inode_points_to, NEW f \in h.inode_points_to[j]
      PROVE  /\ f \in Nat /\ f < h.next_edge
             /\ f \in DOMAIN h.edges /\ h.edges[f].kind = "PointsTo" => h.edges[f].src = j
  <2>1. \/ f = e /\ j = i
        \/ j \in DOMAIN k.inode_points_to /\ f \in k.inode_points_to[j]
    BY <1>4 DEF IndexAdd, Put, SetAt
  <2>2. CASE f = e /\ j = i
    <3>1. f \in DOMAIN h.edges => h.edges[f] = x
      BY <1>2, <1>4, <2>2 DEF insert_at, Put
    <3> QED BY <1>2, <1>4, <1>5, <2>2, <3>1
  <2>3. CASE j \in DOMAIN k.inode_points_to /\ f \in k.inode_points_to[j]
    <3>1. f \in Nat /\ f < e
      BY <2>3 DEF PointersOwned
    <3>2. f \in DOMAIN h.edges => f \in DOMAIN k.edges /\ h.edges[f] = k.edges[f]
      BY <1>4, <3>1 DEF insert_at, Put
    <3>3. f < h.next_edge
      BY <1>2, <1>4, <3>1
    <3> QED BY <2>3, <3>1, <3>2, <3>3 DEF PointersOwned
  <2> QED BY <2>1, <2>2, <2>3
<1> QED BY <1>6 DEF PointersOwned

\* Blocks are not shared: the index of an inode is left alone but by a new
\* block of its own and by its end.
LEMMA NextOwned ==
  ASSUME PoolsHaveRoom, SoundState, PointersOwned(g), Next
  PROVE  PointersOwned(g')
<1>1. CASE WriteBlock
  <2>1. PICK i : g' = write_block(g, i)
    BY <1>1 DEF WriteBlock, Step
  <2> QED BY <2>1, WriteBlockOwned DEF SoundState
<1>2. CASE ~WriteBlock
  <2>1. NoNewBlocks(g, g')
    BY <1>2, NextMakesNoBlocks
  <2>2. g'.next_edge >= g.next_edge /\ g.next_edge \in Int /\ g'.next_edge \in Int
    <3>1. Issues(g, g')
      BY NextIssues DEF SoundState, Sound, TypeOK
    <3> QED BY <3>1, SoundGraph DEF Issues, FieldsTyped, Ids, SoundState
  <2>3. ASSUME NEW j \in DOMAIN g'.inode_points_to, NEW f \in g'.inode_points_to[j]
        PROVE  /\ f \in Nat /\ f < g'.next_edge
               /\ f \in DOMAIN g'.edges /\ g'.edges[f].kind = "PointsTo"
                    => g'.edges[f].src = j
    <3>1. j \in DOMAIN g.inode_points_to /\ f \in g.inode_points_to[j]
      BY <2>1 DEF NoNewBlocks
    <3>2. f \in Nat /\ f < g'.next_edge
      BY <2>2, <3>1 DEF PointersOwned
    <3>3. ASSUME f \in DOMAIN g'.edges, g'.edges[f].kind = "PointsTo"
          PROVE  g'.edges[f].src = j
      <4>1. f \in Pointers(g')
        BY <3>3 DEF Pointers, EdgesOf
      <4>2. f \in Pointers(g) /\ g'.edges[f] = g.edges[f]
        BY <2>1, <4>1 DEF NoNewBlocks
      <4> QED BY <3>1, <4>2 DEF PointersOwned, Pointers, EdgesOf
    <3> QED BY <3>2, <3>3
  <2> QED BY <2>3 DEF PointersOwned
<1> QED BY <1>1, <1>2

-----------------------------------------------------------------------------
(***************************************************************************)
(* The monitor.                                                            *)
(***************************************************************************)
\* The inductive invariant.
ReportInv == SoundState /\ PointersOwned(g) /\ FreshBut(g, report, missed)

\* What the monitor observes are calls.
LEMMA MonitoredCallsAreCalls ==
  ASSUME MonitorNext
  PROVE  Next
<1>1. CASE MonitoredCreate
  BY <1>1 DEF MonitoredCreate, CreateFile, Observe, AllNames, Next
<1>2. CASE MonitoredMkdir
  BY <1>2 DEF MonitoredMkdir, Mkdir, Observe, AllNames, Next
<1>3. CASE MonitoredRmdir
  BY <1>3 DEF MonitoredRmdir, Rmdir, Observe, AllNames, Next
<1>4. CASE MonitoredLink
  BY <1>4 DEF MonitoredLink, Link, Observe, AllNames, Next
<1>5. CASE MonitoredUnlink
  BY <1>5 DEF MonitoredUnlink, Unlink, Observe, AllNames, Next
<1>6. CASE MonitoredRename
  <2>1. PICK sd \in DirHandles, dd \in DirHandles, src \in Names, dst \in Names :
          Step(rename(g, sd, src, dd, dst).graph)
    BY <1>6 DEF MonitoredRename, Observe
  <2>2. Rename
    BY <1>6, <2>1 DEF MonitoredRename, Rename, AllNames
  <2> QED BY <2>2 DEF Next
<1>7. CASE MonitoredWriteBlock
  BY <1>7 DEF MonitoredWriteBlock, WriteBlock, Observe, Next
<1> QED BY <1>1, <1>2, <1>3, <1>4, <1>5, <1>6, <1>7 DEF MonitorNext

\* Each call changes edges near what it is said to affect, or what it takes
\* away besides.
LEMMA MonitoredNear ==
  ASSUME PoolsHaveRoom, SoundState, PointersOwned(g), Sound(g'), MonitorNext
  PROVE  \E A, B, W : /\ Edits(g, g', W) /\ Covered(g', A, B, W)
                      /\ report' = recompute_incremental(g', A, report)
                      /\ missed' = missed \cup B
<1>1. Sound(g) /\ DirHandles = DOMAIN g.dirs /\ IsGraph(g)
  BY SoundGraph DEF SoundState, PoolsHaveRoom, DirHandles
<1>0. ASSUME NEW A, NEW B, EditsNear(g, g', A, B)
      PROVE  \E W : Edits(g, g', W) /\ Covered(g', A, B, W)
  BY <1>0, TouchedIsCovered DEF EditsNear, Covered
<1>2. ASSUME NEW W, Edits(g, g', W), NEW A, NEW B, \A w \in W : Touched(g', A, B, w)
      PROVE  EditsNear(g, g', A, B)
  BY <1>2 DEF EditsNear
<1>3. g'.next_edge <= EDGE_CAPACITY /\ g'.next_inode <= NODE_CAPACITY
  <2>1. Within(g')
    BY DEF MonitorNext, MonitoredCreate, MonitoredMkdir, MonitoredRmdir, MonitoredLink,
           MonitoredUnlink, MonitoredRename, MonitoredWriteBlock, Observe, Step
  <2>2. g'.next_inode \in Int /\ g'.next_edge \in Int
    BY SoundGraph
  <2> QED BY <2>1, <2>2, RoomFor
<1>4. CASE MonitoredCreate
  <2>1. PICK d, n, m, u : /\ g' = create_file(g, d, n, m, u)
                          /\ Observe(g', affected_nodes_create(d, g.next_inode), {})
    BY <1>4 DEF MonitoredCreate, Observe, Step
  <2>2. Edits(g, g', {Dir(d), Ino(g.next_inode)})
    BY <1>1, <2>1, CreateEdits
  <2>3. affected_nodes_create(d, g.next_inode) = {Dir(d), Ino(g.next_inode)}
    BY DEF affected_nodes_create, Dir, Ino
  <2>4. EditsNear(g, g', affected_nodes_create(d, g.next_inode), {})
    BY <1>2, <2>2, <2>3 DEF Touched
  <2> QED BY <1>0, <2>1, <2>4 DEF Observe
<1>5. CASE MonitoredMkdir
  <2>1. PICK d \in DOMAIN g.dirs, n \in Names, m \in Modes, u \in Users :
          /\ new_entry_ok(g, d, n) /\ g' = mkdir(g, d, n, m, u)
          /\ Observe(g', affected_nodes_mkdir(d, g.next_inode, g.next_dir), {})
    BY <1>1, <1>5 DEF MonitoredMkdir, Observe, Step
  <2> DEFINE A == affected_nodes_mkdir(d, g.next_inode, g.next_dir)
             W == {Dir(d), Ino(g.next_inode), Dir(g.next_dir), Ino(g.dirs[d])}
  <2>2. Edits(g, g', W)
    BY <1>1, <2>1, MkdirEdits
  <2>3. d \in DOMAIN g'.dirs /\ g'.dirs[d] = g.dirs[d]
    <3>1. g'.next_inode = g.next_inode + 1 /\ g'.next_edge = g.next_edge + 3
      BY <1>1, <2>1, MkdirTakes
    <3>2. /\ g.next_inode \in Nat /\ g.next_dir \in Nat /\ g.next_edge \in Nat
          /\ NODE_CAPACITY \in Nat /\ EDGE_CAPACITY \in Nat
      BY <1>1, SoundGraph, CapacityAssumption
    <3>3. /\ g.next_inode < NODE_CAPACITY /\ g.next_dir < NODE_CAPACITY
          /\ g.next_edge + 2 < EDGE_CAPACITY
      BY <1>3, <3>1, <3>2 DEF SoundState
    <3>4. Adds(g, g', d, n, g.next_inode)
      BY <1>1, <2>1, <3>3, MkdirSound
    <3> QED BY <3>4 DEF Adds
  <2>4. A = {Dir(d), Ino(g.next_inode), Dir(g.next_dir)}
    BY DEF affected_nodes_mkdir, Dir, Ino
  <2> HIDE DEF A
  <2>5. \A w \in W : Touched(g', A, {}, w)
    BY <2>3, <2>4 DEF Touched
  <2> HIDE DEF W
  <2>6. EditsNear(g, g', A, {})
    BY <1>2, <2>2, <2>5
  <2> QED BY <1>0, <2>1, <2>6 DEF Observe, A
<1>6. CASE MonitoredRmdir
  <2>1. PICK d, n : \E i, c :
          /\ rmdir_ok(g, d, n) /\ g' = rmdir(g, d, n)
          /\ i = resolve_name(g, d, n) /\ c = dir_for_inode(g, i)
          /\ Observe(g', affected_nodes_rmdir(d, i, c), block_nodes(g, i))
    BY <1>6 DEF MonitoredRmdir, Observe, Step
  <2>2. PICK i, c :
          /\ rmdir_ok(g, d, n) /\ g' = rmdir(g, d, n)
          /\ i = resolve_name(g, d, n) /\ c = dir_for_inode(g, i)
          /\ Observe(g', affected_nodes_rmdir(d, i, c), block_nodes(g, i))
    BY <2>1
  <2> DEFINE A == affected_nodes_rmdir(d, i, c)
             W == {Dir(d), Ino(i), Dir(c), Ino(g.dirs[d])}
  <2>3. Edits(g, g', W) /\ d \in DOMAIN g'.dirs /\ g'.dirs[d] = g.dirs[d]
    BY <1>1, <2>2, RmdirEdits
  <2>4. A = {Dir(d), Ino(i), Dir(c)}
    BY DEF affected_nodes_rmdir, Dir, Ino
  <2> HIDE DEF A
  <2>5. \A w \in W : Touched(g', A, block_nodes(g, i), w)
    BY <2>3, <2>4 DEF Touched
  <2> HIDE DEF W
  <2>6. EditsNear(g, g', A, block_nodes(g, i))
    BY <1>2, <2>3, <2>5
  <2> QED BY <1>0, <2>2, <2>6 DEF Observe, A
<1>7. CASE MonitoredLink
  <2>1. PICK d, n, i : /\ g' = link(g, d, n, i)
                       /\ Observe(g', affected_nodes_link(d, i), {})
    BY <1>7 DEF MonitoredLink, Observe, Step
  <2>2. Edits(g, g', {Dir(d), Ino(i)})
    BY <1>1, <2>1, LinkEdits
  <2>3. affected_nodes_link(d, i) = {Dir(d), Ino(i)}
    BY DEF affected_nodes_link, Dir, Ino
  <2>4. EditsNear(g, g', affected_nodes_link(d, i), {})
    BY <1>2, <2>2, <2>3 DEF Touched
  <2> QED BY <1>0, <2>1, <2>4 DEF Observe
<1>8. CASE MonitoredUnlink
  <2>1. PICK d, n : \E i :
          /\ unlink_ok(g, d, n) /\ g' = unlink(g, d, n) /\ i = resolve_name(g, d, n)
          /\ Observe(g', affected_nodes_unlink(d, i), block_nodes(g, i))
    BY <1>8 DEF MonitoredUnlink, Observe, Step
  <2>2. PICK i :
          /\ unlink_ok(g, d, n) /\ g' = unlink(g, d, n) /\ i = resolve_name(g, d, n)
          /\ Observe(g', affected_nodes_unlink(d, i), block_nodes(g, i))
    BY <2>1
  <2>3. Edits(g, g', {Dir(d), Ino(i)} \cup block_nodes(g, i))
    BY <1>1, <2>2, UnlinkEdits
  <2>4. affected_nodes_unlink(d, i) = {Dir(d), Ino(i)}
    BY DEF affected_nodes_unlink, Dir, Ino
  <2>5. EditsNear(g, g', affected_nodes_unlink(d, i), block_nodes(g, i))
    BY <1>2, <2>3, <2>4 DEF Touched
  <2> QED BY <1>0, <2>2, <2>5 DEF Observe
<1>9. CASE MonitoredRename
  <2>1. PICK sd \in DOMAIN g.dirs, dd \in DOMAIN g.dirs, src \in Names, dst \in Names :
          \E r \in {rename(g, sd, src, dd, dst)}, old \in {resolve_name(g, dd, dst)} :
            /\ r.ok
            /\ Observe(r.graph, affected_nodes_rename(sd, dd, resolve_name(g, sd, src)),
                       IF old = None THEN {} ELSE {<<"inodes", old>>} \cup block_nodes(g, old))
    <3>1. PICK sd \in DirHandles, dd \in DirHandles, src \in Names, dst \in Names :
            \E r \in {rename(g, sd, src, dd, dst)}, old \in {resolve_name(g, dd, dst)} :
              /\ r.ok
              /\ Observe(r.graph, affected_nodes_rename(sd, dd, resolve_name(g, sd, src)),
                         IF old = None THEN {}
                         ELSE {<<"inodes", old>>} \cup block_nodes(g, old))
      BY <1>9 DEF MonitoredRename
    <3> QED BY <1>1, <3>1
  <2> DEFINE r == rename(g, sd, src, dd, dst)
             A == affected_nodes_rename(sd, dd, resolve_name(g, sd, src))
             B == besides(g, resolve_name(g, dd, dst))
  <2>2. r.ok /\ g' = r.graph /\ Observe(g', A, B)
    BY <2>1 DEF Observe, Step, besides, Ino
  <2>3. src \in AllNames /\ dst \in AllNames
    BY DEF AllNames
  <2>4. EditsNear(g, r.graph, A, B)
    BY <1>1, <1>3, <2>2, <2>3, RenameEdits
  <2> QED BY <1>0, <2>2, <2>4 DEF Observe
<1>10. CASE MonitoredWriteBlock
  <2>1. PICK i : /\ g' = write_block(g, i)
                 /\ Observe(g', affected_nodes_write_block(i, g.next_block), {})
    BY <1>10 DEF MonitoredWriteBlock, Observe, Step
  <2> DEFINE A == affected_nodes_write_block(i, g.next_block)
  <2>2. CASE g'.edges = g.edges
    <3>1. EditsNear(g, g', A, {})
      BY <2>2, EdgesKept DEF EditsNear
    <3> QED BY <1>0, <2>1, <3>1 DEF Observe
  <2>3. CASE g'.edges # g.edges
    <3> DEFINE e == g.next_edge
               W == {Ino(i), Ino(g.next_block)}
               x == OtherEdge("PointsTo", i, g.next_block)
    <3>1. g'.edges = Put(g.edges, e, x) /\ Ends(g', e) = W /\ Edits(g, g', W)
      BY <1>1, <2>1, <2>3, WriteBlockEdits
    <3>2. Ino(i) \in A
      BY DEF affected_nodes_write_block, Ino
    <3> HIDE DEF A, x
    <3>3. e \in DOMAIN g'.edges
      BY <3>1 DEF Put
    <3>4. W \subseteq Near(g', A)
      BY <3>1, <3>2, <3>3, NearHolds
    <3>5. Covered(g', A, {}, W)
      BY <3>4 DEF Covered
    <3> QED BY <2>1, <3>1, <3>5 DEF Observe, A
  <2> QED BY <2>2, <2>3
<1> QED BY <1>4, <1>5, <1>6, <1>7, <1>8, <1>9, <1>10 DEF MonitorNext

\* A report is fresh when it is computed.
LEMMA MonitorStarts ==
  ASSUME MonitorInit
  PROVE  ReportInv
<1>1. FileSystem(g)
  BY TreesAssumption DEF MonitorInit
<1>2. report = [e \in DOMAIN g.edges |-> kappa(g, adjacency(g), e)]
  BY FullScan DEF MonitorInit
<1>3. FreshBut(g, report, missed)
  BY <1>2 DEF FreshBut
<1> QED BY <1>1, <1>3 DEF ReportInv, SoundState, Sound, FileSystem

LEMMA MonitorStep ==
  ASSUME PoolsHaveRoom, ReportInv, MonitorNext
  PROVE  ReportInv'
<1>1. Next /\ SoundState /\ PointersOwned(g)
  BY MonitoredCallsAreCalls DEF ReportInv
<1>2. SoundState'
  BY <1>1, NextSound
<1>3. PointersOwned(g')
  BY <1>1, NextOwned
<1>4. PICK A, B, W : /\ Edits(g, g', W) /\ Covered(g', A, B, W)
                     /\ report' = recompute_incremental(g', A, report)
                     /\ missed' = missed \cup B
  BY <1>1, <1>2, MonitoredNear DEF SoundState
<1>5. FreshBut(g', report', missed')
  BY <1>4, RecomputedIsFresh DEF ReportInv
<1> QED BY <1>2, <1>3, <1>5 DEF ReportInv

LEMMA FreshButIsFresh == FreshBut(g, report, missed) => ReportIsFresh
BY FullScan DEF FreshBut, ReportIsFresh, Ends

\* The incremental report never differs from a full scan but at the inodes
\* that a rename replaced or that share the id of a block that is gone: of
\* the edges a call makes or takes, both ends are near an affected node.
THEOREM ReportFollowsTheGraph ==
  ASSUME PoolsHaveRoom
  PROVE  MonitorSpec => []ReportIsFresh
<1>1. MonitorInit => ReportInv
  BY MonitorStarts
<1>2. ReportInv /\ [MonitorNext]_<<g, report, missed>> => ReportInv'
  <2>1. ReportInv /\ UNCHANGED <<g, report, missed>> => ReportInv'
    BY DEF ReportInv, SoundState, FreshBut
  <2> QED BY <2>1, MonitorStep
<1>3. ReportInv => ReportIsFresh
  BY FreshButIsFresh DEF ReportInv
<1> QED BY <1>1, <1>2, <1>3, PTL DEF MonitorSpec

\* The assumption on Trees leaves nothing out: whatever the calls make of a
\* new file system is one that a report can be computed of.
THEOREM CallsMakeFileSystems ==
  ASSUME PoolsHaveRoom
  PROVE  Spec => []FileSystem(g)
<1> DEFINE I == SoundState /\ PointersOwned(g)
<1>1. Init => I
  <2>1. Init => SoundState
    BY InitSound
  <2>2. Init => g.inode_points_to = Empty
    BY DEF Init, new_graph
  <2>3. Init => PointersOwned(g)
    BY <2>2 DEF PointersOwned, Empty
  <2> QED BY <2>1, <2>3
<1>2. I /\ [Next]_g => I'
  <2>1. ASSUME I, Next PROVE I'
    BY <2>1, NextSound, NextOwned
  <2>2. I /\ UNCHANGED g => I'
    BY DEF SoundState
  <2> QED BY <2>1, <2>2
<1>3. I => FileSystem(g)
  BY DEF FileSystem, SoundState, Sound
<1> HIDE DEF I
<1> QED BY <1>1, <1>2, <1>3, PTL DEF Spec
-----------------------------------------------------------------------------
(***************************************************************************)
(* Listings.                                                               *)
(***************************************************************************)
\* An iteration over a set of ids meets each of them once.
LEMMA InOrderMeetsAll ==
  ASSUME NEW S, S \subseteq Int, IsFiniteSet(S)
  PROVE  /\ Cardinality(S) \in Nat /\ InOrder(S) \in [1 .. Cardinality(S) -> S]
         /\ \A x \in S : \E k \in 1 .. Cardinality(S) : InOrder(S)[k] = x
         /\ \A j, k \in 1 .. Cardinality(S) : InOrder(S)[j] = InOrder(S)[k] => j = k
<1> DEFINE at(k) == CHOOSE x \in S : Rank(S, x) = k - 1
           N == Cardinality(S)
<1>1. InOrder(S) = [k \in 1 .. N |-> at(k)]
  BY DEF InOrder, Rank
<1>2. /\ N \in Nat
      /\ \A x \in S : Rank(S, x) \in 0 .. N - 1
      /\ \A x, y \in S : Rank(S, x) = Rank(S, y) => x = y
      /\ \A n \in 0 .. N - 1 : \E x \in S : Rank(S, x) = n
  BY RankIsBijective
<1> HIDE DEF N
<1>3. \A k \in 1 .. N : at(k) \in S /\ Rank(S, at(k)) = k - 1
  <2> SUFFICES ASSUME NEW k \in 1 .. N PROVE at(k) \in S /\ Rank(S, at(k)) = k - 1
    OBVIOUS
  <2>1. k - 1 \in 0 .. N - 1
    BY <1>2
  <2> QED BY <1>2, <2>1
<1> HIDE DEF at
<1>4. \A x \in S : \E k \in 1 .. N : at(k) = x
  <2> SUFFICES ASSUME NEW x \in S PROVE \E k \in 1 .. N : at(k) = x
    OBVIOUS
  <2>1. PICK k \in 1 .. N : k - 1 = Rank(S, x)
    <3>1. Rank(S, x) \in 0 .. N - 1
      BY <1>2
    <3> DEFINE c == Rank(S, x) + 1
    <3>2. c \in 1 .. N /\ c - 1 = Rank(S, x)
      BY <1>2, <3>1
    <3> HIDE DEF c
    <3> QED BY <3>2
  <2>2. at(k) \in S /\ Rank(S, at(k)) = Rank(S, x)
    BY <1>3, <2>1
  <2>3. at(k) = x
    BY <1>2, <2>2
  <2> QED BY <2>3
<1>5. \A j, k \in 1 .. N : at(j) = at(k) => j = k
  <2> SUFFICES ASSUME NEW j \in 1 .. N, NEW k \in 1 .. N, at(j) = at(k) PROVE j = k
    OBVIOUS
  <2>1. j - 1 = k - 1
    BY <1>3
  <2> QED BY <1>2, <2>1
<1> QED BY <1>1, <1>2, <1>3, <1>4, <1>5 DEF N

\* A finite set of numbers has a last one.
LEMMA LastOf ==
  ASSUME NEW S, S \subseteq Int, IsFiniteSet(S), S # {}
  PROVE  \E m \in S : \A x \in S : x <= m
<1> DEFINE N == Cardinality(S)
<1>1. /\ N \in Nat
      /\ \A x \in S : Rank(S, x) \in 0 .. N - 1
      /\ \A n \in 0 .. N - 1 : \E x \in S : Rank(S, x) = n
  BY RankIsBijective
<1> HIDE DEF N
<1>2. N - 1 \in 0 .. N - 1
  <2>1. PICK x \in S : TRUE
    OBVIOUS
  <2>2. Rank(S, x) \in 0 .. N - 1
    BY <1>1
  <2> QED BY <1>1, <2>2
<1>3. PICK m \in S : Rank(S, m) = N - 1
  BY <1>1, <1>2
<1>4. ASSUME NEW x \in S PROVE x <= m
  <2>1. m < x => Rank(S, m) < Rank(S, x)
    BY RankGrows
  <2>2. Rank(S, x) <= N - 1 /\ Rank(S, x) \in Int
    BY <1>1
  <2>3. ~(m < x)
    BY <1>1, <1>3, <2>1, <2>2
  <2>4. m \in Int /\ x \in Int
    OBVIOUS
  <2> QED BY <2>3, <2>4
<1> QED BY <1>4

\* L lists the entries E, each once.
ListsEntries(k, L, E) ==
  \E p : /\ p \in [DOMAIN L -> E]
         /\ \A j \in DOMAIN L : L[j] = <<k.edges[p[j]].name, k.edges[p[j]].tgt>>
         /\ \A e \in E : \E j \in DOMAIN L : p[j] = e
         /\ \A i, j \in DOMAIN L : p[i] = p[j] => i = j

LEMMA ListingLists ==
  ASSUME NEW k, Sound(k), NEW d, NEW S,
         \A e \in entries(k, d) : k.edges[e].tgt \in S
  PROVE  /\ listing(k, d, S) \in Seq({<<k.edges[e].name, k.edges[e].tgt>> : e \in entries(k, d)})
         /\ Len(listing(k, d, S)) = Cardinality(entries(k, d))
         /\ ListsEntries(k, listing(k, d, S), entries(k, d))
<1> DEFINE E == entries(k, d)
           p == InOrder(E)
           n == Cardinality(E)
           L == [j \in 1 .. n |-> <<k.edges[p[j]].name, k.edges[p[j]].tgt>>]
<1>1. E \subseteq Int /\ IsFiniteSet(E)
  <2>1. E \subseteq ContainsEdges(k) /\ IsFiniteSet(ContainsEdges(k))
    BY SoundGraph DEF entries
  <2>2. ContainsEdges(k) \subseteq Int
    <3>1. k.next_edge \in Nat \ {0} /\ IdsIssued(k)
      BY SoundGraph
    <3> QED BY <3>1 DEF IdsIssued, ContainsEdges
  <2> HIDE DEF E
  <2> QED BY <2>1, <2>2, FS_Subset
<1>2. /\ n \in Nat /\ p \in [1 .. n -> E]
      /\ \A e \in E : \E j \in 1 .. n : p[j] = e
      /\ \A i, j \in 1 .. n : p[i] = p[j] => i = j
  <2> HIDE DEF E
  <2> QED BY <1>1, InOrderMeetsAll
<1>3. listing(k, d, S) = L
  <2>1. {e \in entries(k, d) : k.edges[e].tgt \in S} = E
    OBVIOUS
  <2>2. DOMAIN p = 1 .. n
    BY <1>2
  <2> QED BY <2>1, <2>2 DEF listing
<1> HIDE DEF E, p, n
<1>4. ListsEntries(k, L, E)
  BY <1>2 DEF ListsEntries
<1>5. L \in Seq({<<k.edges[e].name, k.edges[e].tgt>> : e \in E}) /\ Len(L) = n
  BY <1>2
<1> QED BY <1>3, <1>4, <1>5 DEF E, n

\* What can be said of a listing of entries: where it leads, and that no name
\* occurs twice.
LEMMA ListedOnce ==
  ASSUME NEW k, Sound(k), NEW d, NEW L, ListsEntries(k, L, entries(k, d))
  PROVE  /\ \A j \in DOMAIN L : \E e \in ContainsEdges(k) :
              /\ k.edges[e].src = d /\ L[j] = <<k.edges[e].name, k.edges[e].tgt>>
         /\ \A e \in ContainsEdges(k) : k.edges[e].src = d =>
              \E j \in DOMAIN L : L[j] = <<k.edges[e].name, k.edges[e].tgt>>
         /\ \A i, j \in DOMAIN L : L[i][1] = L[j][1] => i = j
<1>1. entries(k, d) = {e \in ContainsEdges(k) : k.edges[e].src = d}
  BY SoundGraph, EntriesAre
<1>2. PICK p : /\ p \in [DOMAIN L -> entries(k, d)]
               /\ \A j \in DOMAIN L : L[j] = <<k.edges[p[j]].name, k.edges[p[j]].tgt>>
               /\ \A e \in entries(k, d) : \E j \in DOMAIN L : p[j] = e
               /\ \A i, j \in DOMAIN L : p[i] = p[j] => i = j
  BY DEF ListsEntries
<1>3. \A i, j \in DOMAIN L : L[i][1] = L[j][1] => i = j
  <2> SUFFICES ASSUME NEW i \in DOMAIN L, NEW j \in DOMAIN L, L[i][1] = L[j][1]
               PROVE  p[i] = p[j]
    BY <1>2
  <2>1. p[i] \in entries(k, d) /\ p[j] \in entries(k, d)
    BY <1>2
  <2>2. k.edges[p[i]].name = k.edges[p[j]].name
    BY <1>2
  <2> QED BY <1>1, <2>1, <2>2, SoundGraph, NamesDiffer
<1> QED BY <1>1, <1>2, <1>3

-----------------------------------------------------------------------------
(***************************************************************************)
(* Restrict.                                                               *)
(***************************************************************************)
\* The directories from which ".." leads up to r are those the walk visits, and
\* but for r each of them is held by another.
LEMMA VisitedAreBelow ==
  ASSUME NEW k, Sound(k), NEW r \in DOMAIN k.dirs,
         NEW D, D = {d \in DOMAIN k.dirs : on_parent_chain(k, d, r)}
  PROVE  /\ visited_dirs(k, r) = D /\ r \in D
         /\ \A d \in D \ {r} : \E e \in UserEdges(k) :
              k.edges[e].src \in D /\ k.edges[e].tgt = k.dirs[d]
<1>1. DOMAIN k.dirs \cup {r} = DOMAIN k.dirs
  OBVIOUS
<1>2. \A S \in SUBSET DOMAIN k.dirs : walk(k, S) \subseteq S <=> DownClosed(k, S)
  BY DEF walk, DownClosed
<1>3. \A d \in DOMAIN k.dirs :
        (\A S \in SUBSET DOMAIN k.dirs : r \in S /\ walk(k, S) \subseteq S => d \in S)
          <=> on_parent_chain(k, d, r)
  <2> SUFFICES ASSUME NEW d \in DOMAIN k.dirs
               PROVE (\A S \in SUBSET DOMAIN k.dirs : r \in S /\ walk(k, S) \subseteq S => d \in S)
                       <=> on_parent_chain(k, d, r)
    OBVIOUS
  <2>1. DOMAIN k.dirs \cup {r, d} = DOMAIN k.dirs
    OBVIOUS
  <2>2. is_ancestor(k, r, d)
          <=> (\A S \in SUBSET DOMAIN k.dirs : r \in S /\ DownClosed(k, S) => d \in S)
    BY <2>1 DEF is_ancestor
  <2> QED BY <1>2, <2>2, ChainsAreAncestors
<1>4. visited_dirs(k, r) = D
  BY <1>1, <1>3 DEF visited_dirs
<1>5. r \in D
  BY DEF on_parent_chain
<1>6. ASSUME NEW d \in D \ {r}
      PROVE  \E e \in UserEdges(k) : k.edges[e].src \in D /\ k.edges[e].tgt = k.dirs[d]
  <2>1. d \in DOMAIN k.dirs /\ d # r /\ on_parent_chain(k, d, r)
    BY <1>6
  <2>2. parent_dir(k, d) # None
    <3> SUFFICES ASSUME parent_dir(k, d) = None PROVE FALSE
      OBVIOUS
    <3>1. UpClosed(k, {d})
      BY DEF UpClosed
    <3>2. {d} \in SUBSET (DOMAIN k.dirs \cup {d})
      OBVIOUS
    <3> QED BY <2>1, <3>1, <3>2 DEF on_parent_chain
  <2>3. d # RootDir
    BY <2>2, RootHasNoParent
  <2>4. PICK p \in DOMAIN k.dirs : Holds(k, p, d) /\ parent_dir(k, d) = p
    BY <2>1, <2>3, HoldersAre
  <2>5. on_parent_chain(k, p, r)
    <3> SUFFICES ASSUME NEW S \in SUBSET (DOMAIN k.dirs \cup {p}), p \in S, UpClosed(k, S)
                 PROVE  r \in S
      BY DEF on_parent_chain
    <3>1. UpClosed(k, S \cup {d})
      BY <2>4 DEF UpClosed
    <3>2. S \cup {d} \in SUBSET (DOMAIN k.dirs \cup {d})
      OBVIOUS
    <3>3. r \in S \cup {d}
      BY <2>1, <3>1, <3>2 DEF on_parent_chain
    <3> QED BY <2>1, <3>3
  <2>6. p \in D
    BY <2>5
  <2> QED BY <2>4, <2>6 DEF Holds
<1> QED BY <1>4, <1>5, <1>6

\* The inodes of the directories D below r: of the directories themselves with
\* all that they list, and of r with its parent and all that has a name in them.
ListedInodes(k, D) ==
  {k.dirs[d] : d \in D} \cup {k.edges[e].tgt : e \in UNION {entries(k, d) : d \in D}}

SubtreeInodes(k, r, D) ==
  ({k.dirs[r], resolve_name(k, r, "..")} \ {None}) \cup
    {k.edges[e].tgt : e \in UNION {user_entries(k, d) : d \in D}}

LEMMA RestrictedInodes ==
  ASSUME NEW k, Sound(k), NEW r \in DOMAIN k.dirs,
         NEW D, D = {d \in DOMAIN k.dirs : on_parent_chain(k, d, r)}
  PROVE  ListedInodes(k, D) = SubtreeInodes(k, r, D)
<1> DEFINE named == {k.edges[e].tgt : e \in UNION {user_entries(k, d) : d \in D}}
           top == {k.dirs[r], resolve_name(k, r, "..")} \ {None}
           own == {k.dirs[d] : d \in D}
           led == {k.edges[e].tgt : e \in UNION {entries(k, d) : d \in D}}
<1>1. /\ FieldsTyped(k) /\ IdsIssued(k) /\ NamesExact(k) /\ ListingsExact(k) /\ Tree(k)
      /\ DirsPaired(k) /\ Endpoints(k) /\ DotEdges(k) /\ k.next_inode \in Nat \ {0}
  BY SoundGraph
<1>2. /\ r \in D
      /\ \A d \in D \ {r} : \E e \in UserEdges(k) :
              k.edges[e].src \in D /\ k.edges[e].tgt = k.dirs[d]
  BY VisitedAreBelow
<1>3. \A d \in D : /\ entries(k, d) = {e \in ContainsEdges(k) : k.edges[e].src = d}
                   /\ user_entries(k, d) = {e \in UserEdges(k) : k.edges[e].src = d}
  BY <1>1, EntriesAre
<1>4. \A d \in DOMAIN k.dirs : k.dirs[d] # None
  BY <1>1 DEF DirsPaired, IsDirInode, IdsIssued, None
<1>5. own \subseteq top \cup named
  <2> SUFFICES ASSUME NEW d \in D, d # r PROVE k.dirs[d] \in named
    BY <1>4
  <2>1. PICK e \in UserEdges(k) : k.edges[e].src \in D /\ k.edges[e].tgt = k.dirs[d]
    BY <1>2
  <2>2. e \in UNION {user_entries(k, x) : x \in D}
    BY <1>3, <2>1
  <2> QED BY <2>1, <2>2
<1>6. ASSUME NEW d \in D, NEW e \in entries(k, d)
      PROVE  k.edges[e].tgt \in top \cup named \cup own
  <2>1. e \in ContainsEdges(k) /\ k.edges[e].src = d /\ d \in DOMAIN k.dirs
    BY <1>3
  <2>2. CASE k.edges[e].name \notin Dots
    <3>1. e \in user_entries(k, d)
      BY <2>2 DEF user_entries
    <3> QED BY <3>1
  <2>3. CASE k.edges[e].name = "."
    BY <1>1, <2>1, <2>3 DEF DotEdges
  <2>4. CASE k.edges[e].name = ".." /\ d = r
    <3>2. k.edges[e].tgt # None
      BY <1>1, <2>1 DEF Endpoints, IdsIssued, None
    <3>3. resolve_name(k, r, "..") = k.edges[e].tgt
      BY <2>1, <2>4, EntryLeadsTo
    <3> QED BY <3>2, <3>3
  <2>5. CASE k.edges[e].name = ".." /\ d # r
    <3>1. PICK f \in UserEdges(k) : k.edges[f].src \in D /\ k.edges[f].tgt = k.dirs[d]
      BY <1>2, <2>5
    <3>2. k.edges[e].tgt = k.dirs[k.edges[f].src]
      BY <1>1, <2>1, <2>5, <3>1 DEF DotEdges
    <3> QED BY <3>1, <3>2
  <2> QED BY <2>2, <2>3, <2>4, <2>5 DEF Dots
<1>7. led \subseteq top \cup named
  <2> SUFFICES ASSUME NEW d \in D, NEW e \in entries(k, d)
               PROVE  k.edges[e].tgt \in top \cup named
    OBVIOUS
  <2>1. k.edges[e].tgt \in top \cup named \cup own
    BY <1>6
  <2> HIDE DEF top, named, own
  <2> QED BY <1>5, <2>1
<1>8. named \subseteq led
  BY DEF user_entries
<1>9. top \subseteq own \cup led
  <2> SUFFICES ASSUME resolve_name(k, r, "..") # None
               PROVE  resolve_name(k, r, "..") \in led
    BY <1>2
  <2>1. PICK e \in ContainsEdges(k) : /\ k.edges[e].src = r
                                      /\ k.edges[e].tgt = resolve_name(k, r, "..")
    BY ResolvedEntry
  <2>2. e \in UNION {entries(k, d) : d \in D}
    BY <1>2, <1>3, <2>1
  <2> QED BY <2>1, <2>2
<1> HIDE DEF named, top, own, led
<1>10. own \cup led = top \cup named
  BY <1>5, <1>7, <1>8, <1>9
<1>11. ListedInodes(k, D) = own \cup led /\ SubtreeInodes(k, r, D) = top \cup named
  BY DEF named, top, own, led, ListedInodes, SubtreeInodes
<1> QED BY <1>10, <1>11

\* The view is one of the directories D below r.
ShowsDirs(k, r, D, view) ==
  /\ DOMAIN view.visible_entries = D
  /\ \A d \in D : Len(view.visible_entries[d]) = Cardinality(entries(k, d))
  /\ view.visible_inodes = SubtreeInodes(k, r, D)
  /\ check_projected_invariants(view)

LEMMA RestrictedViews ==
  ASSUME NEW k, Sound(k), NEW r \in DOMAIN k.dirs, NEW view, view = project_restrict(k, r),
         NEW D, D = {d \in DOMAIN k.dirs : on_parent_chain(k, d, r)}
  PROVE  ShowsDirs(k, r, D, view)
<1>1. /\ ListingsExact(k) /\ NamesExact(k) /\ DirsPaired(k) /\ Endpoints(k) /\ DotEdges(k)
      /\ Tree(k)
  BY SoundGraph
<1>2. visited_dirs(k, r) = D /\ D \subseteq DOMAIN k.dirs
  BY VisitedAreBelow
<1>3. D \subseteq DOMAIN k.dir_contains
  <2> SUFFICES ASSUME NEW d \in DOMAIN k.dirs PROVE d \in DOMAIN k.dir_contains
    BY <1>2
  <2>1. PICK e \in ContainsEdges(k) : k.edges[e].src = d
    BY <1>1 DEF DotEdges, NamesExact
  <2> QED BY <1>1, <2>1 DEF ListingsExact, SetAt
<1>4. \A d : \A e \in entries(k, d) : k.edges[e].tgt \in DOMAIN k.inodes
  BY <1>1 DEF Endpoints, entries
<1>5. D \cap DOMAIN k.dirs = D /\ D \cap DOMAIN k.dir_contains = D
  BY <1>2, <1>3
<1>6. view.visible_entries = [d \in D |-> listing(k, d, DOMAIN k.inodes)]
  BY <1>2, <1>5 DEF project_restrict, View
<1>7. view.visible_inodes =
        {k.dirs[d] : d \in D} \cup {k.edges[e].tgt : e \in UNION {entries(k, d) : d \in D}}
  <2>1. {k.dirs[d] : d \in D} \cap DOMAIN k.inodes = {k.dirs[d] : d \in D}
    BY <1>1, <1>2 DEF DirsPaired, IsDirInode
  <2>2. \A d : targets(k, d) = {k.edges[e].tgt : e \in entries(k, d)}
    BY <1>4 DEF targets
  <2>3. view.visible_inodes = {k.dirs[d] : d \in D} \cup UNION {targets(k, d) : d \in D}
    BY <1>2, <1>5, <2>1 DEF project_restrict, View
  <2>4. UNION {targets(k, d) : d \in D} = {k.edges[e].tgt : e \in UNION {entries(k, d) : d \in D}}
    BY <2>2
  <2> QED BY <2>3, <2>4
<1>8. \A d \in D : /\ Len(listing(k, d, DOMAIN k.inodes)) = Cardinality(entries(k, d))
                   /\ ListsEntries(k, listing(k, d, DOMAIN k.inodes), entries(k, d))
  BY <1>4, ListingLists
<1>9. check_projected_invariants(view)
  <2> SUFFICES ASSUME NEW d \in D, NEW L, L = listing(k, d, DOMAIN k.inodes)
               PROVE  /\ \A j \in DOMAIN L : L[j][2] \in view.visible_inodes
                      /\ \A i, j \in DOMAIN L : L[i][1] = L[j][1] => i = j
    BY <1>6 DEF check_projected_invariants
  <2>1. /\ \A j \in DOMAIN L : \E e \in ContainsEdges(k) :
              k.edges[e].src = d /\ L[j] = <<k.edges[e].name, k.edges[e].tgt>>
        /\ \A i, j \in DOMAIN L : L[i][1] = L[j][1] => i = j
    BY <1>8, ListedOnce
  <2>2. ASSUME NEW j \in DOMAIN L PROVE L[j][2] \in view.visible_inodes
    <3>1. PICK e \in ContainsEdges(k) :
              k.edges[e].src = d /\ L[j] = <<k.edges[e].name, k.edges[e].tgt>>
      BY <2>1
    <3>2. e \in UNION {entries(k, x) : x \in D}
      BY <1>1, <3>1, EntriesAre
    <3> QED BY <1>7, <3>1, <3>2
  <2> QED BY <2>1, <2>2
<1>10. ListedInodes(k, D) = SubtreeInodes(k, r, D)
  BY RestrictedInodes
<1>11. view.visible_inodes = SubtreeInodes(k, r, D)
  BY <1>7, <1>10 DEF ListedInodes
<1>12. /\ DOMAIN view.visible_entries = D
       /\ \A d \in D : Len(view.visible_entries[d]) = Cardinality(entries(k, d))
  BY <1>6, <1>8
<1> QED BY <1>9, <1>11, <1>12 DEF ShowsDirs

-----------------------------------------------------------------------------
(***************************************************************************)
(* Bait.                                                                   *)
(***************************************************************************)
\* What is listed of d: each of its entries, no name twice.
ListedAll(k, d, L) ==
  /\ Len(L) \in Nat /\ DOMAIN L = 1 .. Len(L)
  /\ L \in Seq({<<k.edges[e].name, k.edges[e].tgt>> : e \in entries(k, d)})
  /\ \A j \in DOMAIN L : \E e \in ContainsEdges(k) :
       k.edges[e].src = d /\ L[j] = <<k.edges[e].name, k.edges[e].tgt>>
  /\ \A e \in ContainsEdges(k) : k.edges[e].src = d =>
       \E j \in DOMAIN L : L[j] = <<k.edges[e].name, k.edges[e].tgt>>
  /\ \A i, j \in DOMAIN L : L[i][1] = L[j][1] => i = j

\* What the whole graph looks like: every directory has its entries listed.
LEMMA WholeGraph ==
  ASSUME NEW k, Sound(k)
  PROVE  /\ project_passthrough(k).visible_inodes = DOMAIN k.inodes
         /\ DOMAIN project_passthrough(k).visible_entries = DOMAIN k.dir_contains
         /\ DOMAIN k.dirs \subseteq DOMAIN k.dir_contains
         /\ \A d \in DOMAIN k.dir_contains :
              ListedAll(k, d, project_passthrough(k).visible_entries[d])
<1> DEFINE at(d) == listing(k, d, {k.edges[e].tgt : e \in entries(k, d)})
<1>1. /\ project_passthrough(k).visible_inodes = DOMAIN k.inodes
      /\ project_passthrough(k).visible_entries = [d \in DOMAIN k.dir_contains |-> at(d)]
  BY DEF project_passthrough, View
<1>2. DOMAIN k.dirs \subseteq DOMAIN k.dir_contains
  <2> SUFFICES ASSUME NEW d \in DOMAIN k.dirs PROVE d \in DOMAIN k.dir_contains
    OBVIOUS
  <2>1. DotEdges(k) /\ NamesExact(k) /\ ListingsExact(k)
    BY SoundGraph
  <2>2. PICK e \in ContainsEdges(k) : k.edges[e].src = d
    BY <2>1 DEF DotEdges, NamesExact
  <2> QED BY <2>1, <2>2 DEF ListingsExact, SetAt
<1>3. ASSUME NEW d
      PROVE  /\ at(d) \in Seq({<<k.edges[e].name, k.edges[e].tgt>> : e \in entries(k, d)})
             /\ Len(at(d)) \in Nat /\ DOMAIN at(d) = 1 .. Len(at(d))
             /\ ListsEntries(k, at(d), entries(k, d))
  <2>1. /\ at(d) \in Seq({<<k.edges[e].name, k.edges[e].tgt>> : e \in entries(k, d)})
        /\ ListsEntries(k, at(d), entries(k, d))
    BY ListingLists
  <2> HIDE DEF at
  <2> QED BY <2>1
<1> HIDE DEF at
<1>4. \A d \in DOMAIN k.dir_contains : project_passthrough(k).visible_entries[d] = at(d)
  BY <1>1
<1>5. ASSUME NEW d PROVE ListedAll(k, d, at(d))
  <2> DEFINE L == at(d)
  <2>1. /\ Len(L) \in Nat /\ DOMAIN L = 1 .. Len(L)
        /\ L \in Seq({<<k.edges[e].name, k.edges[e].tgt>> : e \in entries(k, d)})
        /\ ListsEntries(k, L, entries(k, d))
    BY <1>3
  <2> HIDE DEF L
  <2>2. /\ \A j \in DOMAIN L : \E e \in ContainsEdges(k) :
              k.edges[e].src = d /\ L[j] = <<k.edges[e].name, k.edges[e].tgt>>
        /\ \A e \in ContainsEdges(k) : k.edges[e].src = d =>
              \E j \in DOMAIN L : L[j] = <<k.edges[e].name, k.edges[e].tgt>>
        /\ \A i, j \in DOMAIN L : L[i][1] = L[j][1] => i = j
    BY <2>1, ListedOnce
  <2>3. ListedAll(k, d, L)
    BY <2>1, <2>2 DEF ListedAll
  <2> QED BY <2>3 DEF L
<1> QED BY <1>1, <1>2, <1>3, <1>4, <1>5

\* A lookup takes the first entry with the name, if there is one.
LEMMA LookupFirst ==
  ASSUME NEW view, NEW d \in DOMAIN view.visible_entries, NEW n, NEW j,
         j \in DOMAIN view.visible_entries[d], j \in Int,
         view.visible_entries[d][j][1] = n,
         \A i \in DOMAIN view.visible_entries[d] :
           i \in Int /\ (view.visible_entries[d][i][1] = n => j <= i)
  PROVE  projected_lookup(view, d, n) = view.visible_entries[d][j][2]
<1> DEFINE hits == {i \in DOMAIN view.visible_entries[d] : view.visible_entries[d][i][1] = n}
<1>1. j \in hits /\ \A i \in hits : i \in Int /\ j <= i
  OBVIOUS
<1>2. First(hits) = j
  <2> HIDE DEF hits
  <2> QED BY <1>1 DEF First
<1> QED BY <1>1, <1>2 DEF projected_lookup

\* The files that the name n stands for.
Taken(k, n) == {k.edges[e].tgt : e \in {x \in ContainsEdges(k) : k.edges[x].name = n}}

\* The entries L with t for the target of n.
Swapped(L, n, t) == [j \in DOMAIN L |-> IF L[j][1] = n THEN <<n, t>> ELSE L[j]]

\* The view in which n leads to t.
LeadsTo(k, n, t, view) ==
  /\ DOMAIN view.redirects = Taken(k, n)
  /\ \A i \in Taken(k, n) : view.redirects[i] = t
  /\ view.visible_inodes = DOMAIN k.inodes
  /\ DOMAIN view.visible_entries = DOMAIN k.dir_contains
  /\ \A d \in DOMAIN k.dir_contains :
       view.visible_entries[d] = Swapped(project_passthrough(k).visible_entries[d], n, t)

\* Nothing but t is put for any inode.
LEMMA RedirectsAre ==
  ASSUME NEW k, Sound(k), NEW n, NEW t, NEW names, DOMAIN names = {n}, names[n] = t,
         NEW view, view = project_redirect(k, names)
  PROVE  LeadsTo(k, n, t, view)
<1> DEFINE taken == Taken(k, n)
           P == project_passthrough(k)
           swap(x) == IF x[1] \in DOMAIN names THEN <<x[1], names[x[1]]>> ELSE x
           met == {e \in UNION {entries(k, d) : d \in DOMAIN k.dir_contains} :
                     k.edges[e].name \in DOMAIN names}
           before(f, e) == \/ k.edges[f].src < k.edges[e].src
                           \/ k.edges[f].src = k.edges[e].src /\ f <= e
           last(i) == CHOOSE e \in met : /\ k.edges[e].tgt = i
                                         /\ \A f \in met : k.edges[f].tgt = i => before(f, e)
<1>1. /\ view.redirects = [i \in {k.edges[e].tgt : e \in met} |-> names[k.edges[last(i)].name]]
      /\ view.visible_inodes = P.visible_inodes
      /\ view.visible_entries =
           [d \in DOMAIN P.visible_entries |->
              [j \in DOMAIN P.visible_entries[d] |-> swap(P.visible_entries[d][j])]]
  BY DEF project_redirect, View
<1>2. UNION {entries(k, d) : d \in DOMAIN k.dir_contains} = ContainsEdges(k)
  BY SoundGraph DEF entries, ListingsExact, SetAt
<1>3. met = {x \in ContainsEdges(k) : k.edges[x].name = n}
  BY <1>2
<1> HIDE DEF met
<1>4. ASSUME NEW i \in taken PROVE last(i) \in met
  <2> DEFINE M == {e \in met : k.edges[e].tgt = i}
             R == {k.edges[e].src : e \in M}
  <2>1. M # {} /\ IsFiniteSet(M) /\ M \subseteq Int
    <3>1. M \subseteq ContainsEdges(k)
      BY <1>3
    <3>2. IsFiniteSet(ContainsEdges(k))
      BY SoundGraph
    <3>3. ContainsEdges(k) \subseteq Int
      <4>1. k.next_edge \in Nat \ {0} /\ IdsIssued(k)
        BY SoundGraph
      <4> QED BY <4>1 DEF IdsIssued, ContainsEdges
    <3>4. M # {}
      BY <1>3 DEF Taken
    <3> HIDE DEF M
    <3> QED BY <3>1, <3>2, <3>3, <3>4, FS_Subset
  <2>2. R # {} /\ IsFiniteSet(R) /\ R \subseteq Int
    <3>1. \A e \in ContainsEdges(k) : k.edges[e].src \in Int
      <4>1. k.next_dir \in Nat \ {0} /\ IdsIssued(k) /\ Endpoints(k)
        BY SoundGraph
      <4> QED BY <4>1 DEF IdsIssued, Endpoints
    <3>2. M \subseteq ContainsEdges(k)
      BY <1>3
    <3> HIDE DEF M
    <3>3. \A e \in M : k.edges[e].src \in DOMAIN k.dirs
      <4>1. Endpoints(k)
        BY SoundGraph
      <4> QED BY <3>2, <4>1 DEF Endpoints
    <3>4. IsFiniteSet(DOMAIN k.dirs)
      BY SoundGraph, FiniteIds
    <3>5. R # {} /\ R \subseteq DOMAIN k.dirs /\ R \subseteq Int
      BY <2>1, <3>1, <3>2, <3>3
    <3> HIDE DEF R
    <3> QED BY <3>4, <3>5, FS_Subset
  <2>3. PICK s \in R : \A u \in R : u <= s
    <3> HIDE DEF R
    <3> QED BY <2>2, LastOf
  <2> DEFINE H == {e \in M : k.edges[e].src = s}
  <2>4. H # {} /\ IsFiniteSet(H) /\ H \subseteq Int
    <3>1. H # {} /\ H \subseteq M
      BY <2>3
    <3> HIDE DEF H, M
    <3> QED BY <2>1, <3>1, FS_Subset
  <2>5. PICK e \in H : \A f \in H : f <= e
    <3> HIDE DEF H
    <3> QED BY <2>4, LastOf
  <2>6. ASSUME NEW f \in met, k.edges[f].tgt = i PROVE before(f, e)
    <3>1. f \in M /\ k.edges[f].src \in R /\ k.edges[f].src <= s /\ k.edges[e].src = s
      BY <2>3, <2>5, <2>6
    <3>2. CASE k.edges[f].src = s
      BY <2>5, <3>1, <3>2
    <3>3. CASE k.edges[f].src # s
      <4>1. k.edges[f].src \in Int /\ s \in Int
        BY <2>2, <3>1
      <4> QED BY <3>1, <3>3, <4>1
    <3> QED BY <3>2, <3>3
  <2>7. e \in met /\ k.edges[e].tgt = i
    BY <2>5
  <2> HIDE DEF before
  <2> QED BY <2>6, <2>7
<1> HIDE DEF last
<1>5. \A i \in taken : k.edges[last(i)].name = n
  BY <1>3, <1>4
<1>6. {k.edges[e].tgt : e \in met} = taken
  BY <1>3 DEF Taken
<1>7. /\ P.visible_inodes = DOMAIN k.inodes
      /\ DOMAIN P.visible_entries = DOMAIN k.dir_contains
  BY WholeGraph
<1>8. \A x : swap(x) = IF x[1] = n THEN <<n, t>> ELSE x
  OBVIOUS
<1> HIDE DEF P, swap
<1>9. \A d \in DOMAIN k.dir_contains :
        view.visible_entries[d] = Swapped(P.visible_entries[d], n, t)
  <2> SUFFICES ASSUME NEW d \in DOMAIN k.dir_contains
               PROVE  view.visible_entries[d] =
                        [j \in DOMAIN P.visible_entries[d] |->
                           IF P.visible_entries[d][j][1] = n THEN <<n, t>>
                           ELSE P.visible_entries[d][j]]
    BY DEF Swapped
  <2>1. view.visible_entries[d] =
          [j \in DOMAIN P.visible_entries[d] |-> swap(P.visible_entries[d][j])]
    BY <1>1, <1>7
  <2> QED BY <1>8, <2>1
<1>10. DOMAIN view.redirects = taken /\ \A i \in taken : view.redirects[i] = t
  <2> HIDE DEF taken
  <2>1. view.redirects = [i \in taken |-> names[k.edges[last(i)].name]]
    BY <1>1, <1>6
  <2> QED BY <1>5, <2>1
<1>11. view.visible_inodes = DOMAIN k.inodes /\ DOMAIN view.visible_entries = DOMAIN k.dir_contains
  <2>1. DOMAIN view.visible_entries = DOMAIN P.visible_entries
    BY <1>1
  <2> QED BY <1>1, <1>7, <2>1
<1> QED BY <1>9, <1>10, <1>11 DEF P, LeadsTo

LEMMA RedirectsReach ==
  ASSUME NEW k, Sound(k), NEW n \in Names, NEW t
  PROVE  \E view \in {project_redirect(k, [x \in {n} |-> t])} :
           LET taken == {k.edges[e].tgt : e \in {x \in ContainsEdges(k) : k.edges[x].name = n}}
           IN /\ \A e \in ContainsEdges(k) :
                   LET i == k.edges[e].tgt
                   IN projected_source(view, projected_lookup(view, k.edges[e].src, k.edges[e].name)) =
                        (IF i \in taken THEN t ELSE i)
              /\ check_projected_invariants(view) <=> (taken = {} \/ t \in DOMAIN k.inodes)
<1> SUFFICES ASSUME NEW view, view = project_redirect(k, [x \in {n} |-> t]),
                    NEW taken,
                    taken = {k.edges[e].tgt :
                               e \in {x \in ContainsEdges(k) : k.edges[x].name = n}}
             PROVE  /\ \A e \in ContainsEdges(k) :
                         projected_source(view,
                             projected_lookup(view, k.edges[e].src, k.edges[e].name)) =
                           (IF k.edges[e].tgt \in taken THEN t ELSE k.edges[e].tgt)
                    /\ check_projected_invariants(view) <=> (taken = {} \/ t \in DOMAIN k.inodes)
  OBVIOUS
<1> DEFINE P == project_passthrough(k)
           names == [x \in {n} |-> t]
<1>t. taken = Taken(k, n)
  BY DEF Taken
<1>n. DOMAIN names = {n} /\ names[n] = t /\ view = project_redirect(k, names)
  OBVIOUS
<1>1. /\ DOMAIN view.redirects = taken
      /\ \A i \in taken : view.redirects[i] = t
      /\ view.visible_inodes = DOMAIN k.inodes
      /\ DOMAIN view.visible_entries = DOMAIN k.dir_contains
      /\ \A d \in DOMAIN k.dir_contains :
           view.visible_entries[d] = Swapped(P.visible_entries[d], n, t)
  <2> HIDE DEF names
  <2>1. LeadsTo(k, n, t, view)
    BY <1>n, RedirectsAre
  <2> QED BY <1>t, <2>1 DEF LeadsTo
<1>2. /\ DOMAIN k.dirs \subseteq DOMAIN k.dir_contains
      /\ \A d \in DOMAIN k.dir_contains : ListedAll(k, d, P.visible_entries[d])
  BY WholeGraph
<1>3. \A i \in DOMAIN k.inodes : i # None
  BY SoundGraph DEF IdsIssued, None
<1>e. Endpoints(k)
  BY SoundGraph
<1> HIDE DEF P
<1>4. ASSUME NEW e \in ContainsEdges(k)
      PROVE  projected_lookup(view, k.edges[e].src, k.edges[e].name) =
               IF k.edges[e].name = n THEN t ELSE k.edges[e].tgt
  <2> DEFINE d == k.edges[e].src
             L == P.visible_entries[d]
             V == view.visible_entries[d]
  <2>1. d \in DOMAIN k.dir_contains
    BY <1>2, <1>e DEF Endpoints
  <2>0. ListedAll(k, d, L) /\ k.edges[e].src = d
    BY <1>2, <2>1
  <2>4. V = [i \in DOMAIN L |-> IF L[i][1] = n THEN <<n, t>> ELSE L[i]]
    BY <1>1, <2>1 DEF Swapped
  <2> HIDE DEF L, V, d
  <2>2. PICK j \in DOMAIN L : L[j] = <<k.edges[e].name, k.edges[e].tgt>>
    BY <2>0 DEF ListedAll
  <2>3. DOMAIN L \subseteq Int /\ \A i \in DOMAIN L : L[i][1] = L[j][1] => i = j
    BY <2>0 DEF ListedAll
  <2>5. /\ DOMAIN V = DOMAIN L
        /\ \A i \in DOMAIN L : V[i][1] = L[i][1]
    BY <2>4
  <2>6. V[j] = IF k.edges[e].name = n THEN <<n, t>> ELSE <<k.edges[e].name, k.edges[e].tgt>>
    BY <2>2, <2>4
  <2>7. projected_lookup(view, d, k.edges[e].name) = V[j][2]
    <3>1. \A i \in DOMAIN V : i \in Int /\ (V[i][1] = k.edges[e].name => j <= i)
      BY <2>2, <2>3, <2>5
    <3>2. d \in DOMAIN view.visible_entries /\ j \in DOMAIN V /\ j \in Int
      BY <1>1, <2>1, <2>2, <2>3, <2>5
    <3>3. V[j][1] = k.edges[e].name
      BY <2>2, <2>5
    <3> QED BY <3>1, <3>2, <3>3, LookupFirst DEF V
  <2> QED BY <2>6, <2>7 DEF d
<1>5. ASSUME NEW e \in ContainsEdges(k)
      PROVE  projected_source(view, projected_lookup(view, k.edges[e].src, k.edges[e].name)) =
               (IF k.edges[e].tgt \in taken THEN t ELSE k.edges[e].tgt)
  <2>1. CASE k.edges[e].name = n
    <3>1. k.edges[e].tgt \in taken
      BY <2>1
    <3>2. projected_source(view, t) = t
      BY <1>1 DEF projected_source
    <3> QED BY <1>4, <2>1, <3>1, <3>2
  <2>2. CASE k.edges[e].name # n
    <3> QED BY <1>1, <1>4, <2>2 DEF projected_source
  <2> QED BY <2>1, <2>2
<1>6. ASSUME taken # {}, t \notin DOMAIN k.inodes PROVE ~check_projected_invariants(view)
  <2>1. PICK e \in ContainsEdges(k) : k.edges[e].name = n
    BY <1>6
  <2> DEFINE d == k.edges[e].src
             L == P.visible_entries[d]
  <2>2. d \in DOMAIN k.dir_contains
    BY <1>2, <1>e DEF Endpoints
  <2>0. ListedAll(k, d, L) /\ k.edges[e].src = d
    BY <1>2, <2>2
  <2>4. view.visible_entries[d] = [i \in DOMAIN L |-> IF L[i][1] = n THEN <<n, t>> ELSE L[i]]
    BY <1>1, <2>2 DEF Swapped
  <2> HIDE DEF L, d
  <2>3. PICK j \in DOMAIN L : L[j] = <<n, k.edges[e].tgt>>
    BY <2>0, <2>1 DEF ListedAll
  <2>5. j \in DOMAIN view.visible_entries[d] /\ view.visible_entries[d][j][2] = t
    BY <2>3, <2>4
  <2> QED BY <1>1, <1>6, <2>2, <2>5 DEF check_projected_invariants
<1>7. ASSUME taken = {} \/ t \in DOMAIN k.inodes PROVE check_projected_invariants(view)
  <2> SUFFICES ASSUME NEW d \in DOMAIN k.dir_contains
               PROVE  /\ \A j \in DOMAIN view.visible_entries[d] :
                           view.visible_entries[d][j][2] \in DOMAIN k.inodes
                      /\ \A i, j \in DOMAIN view.visible_entries[d] :
                           view.visible_entries[d][i][1] = view.visible_entries[d][j][1] => i = j
    BY <1>1 DEF check_projected_invariants
  <2> DEFINE L == P.visible_entries[d]
             V == view.visible_entries[d]
  <2>1. /\ \A j \in DOMAIN L : \E e \in ContainsEdges(k) :
              k.edges[e].src = d /\ L[j] = <<k.edges[e].name, k.edges[e].tgt>>
        /\ \A i, j \in DOMAIN L : L[i][1] = L[j][1] => i = j
    BY <1>2 DEF ListedAll
  <2>2. V = [i \in DOMAIN L |-> IF L[i][1] = n THEN <<n, t>> ELSE L[i]]
    BY <1>1 DEF Swapped
  <2> HIDE DEF L, V
  <2>3. DOMAIN V = DOMAIN L /\ \A i \in DOMAIN L : V[i][1] = L[i][1]
    BY <2>2
  <2>4. ASSUME NEW j \in DOMAIN L PROVE V[j][2] \in DOMAIN k.inodes
    <3>1. PICK e \in ContainsEdges(k) : L[j] = <<k.edges[e].name, k.edges[e].tgt>>
      BY <2>1
    <3>2. k.edges[e].tgt \in DOMAIN k.inodes
      BY <1>e DEF Endpoints
    <3>3. CASE k.edges[e].name = n
      <4>1. taken # {}
        BY <3>3
      <4>2. t \in DOMAIN k.inodes
        BY <1>7, <4>1
      <4>3. V[j] = <<n, t>>
        BY <2>2, <3>1, <3>3
      <4> QED BY <4>2, <4>3
    <3>4. CASE k.edges[e].name # n
      BY <2>2, <3>1, <3>2, <3>4
    <3> QED BY <3>3, <3>4
  <2> QED BY <2>1, <2>3, <2>4 DEF V
<1> QED BY <1>5, <1>6, <1>7

\* One made-up entry.
OneBait(d, n, x) == <<[parent_dir |-> d, name |-> n, inode |-> x]>>

\* The entries L with it after them, in d.
WithBait(L, c, d, n, x) == L \o (IF c = d THEN <<<<n, x>>>> ELSE <<>>)

\* The view with it.
Fabricated(k, d, n, x, view) ==
  /\ view.visible_inodes = DOMAIN k.inodes \cup {x}
  /\ DOMAIN view.visible_entries = DOMAIN k.dir_contains
  /\ \A c \in DOMAIN k.dir_contains :
       view.visible_entries[c] =
         WithBait(project_passthrough(k).visible_entries[c], c, d, n, x)

LEMMA LastAdded ==
  ASSUME NEW T, NEW L \in Seq(T), NEW y
  PROVE  /\ DOMAIN (L \o <<y>>) = 1 .. Len(L) + 1
         /\ Len(L) \in Nat /\ DOMAIN L = 1 .. Len(L)
         /\ \A j \in DOMAIN L : (L \o <<y>>)[j] = L[j]
         /\ (L \o <<y>>)[Len(L) + 1] = y
OBVIOUS

\* It comes last in its directory and nowhere else.
LEMMA FabricatedIs ==
  ASSUME NEW k, Sound(k), NEW d \in DOMAIN k.dirs, NEW n, NEW x, NEW view,
         view = project_fabricate(k, OneBait(d, n, x))
  PROVE  Fabricated(k, d, n, x, view)
<1> DEFINE P == project_passthrough(k)
           one == OneBait(d, n, x)
           baits(c) == InOrder({j \in DOMAIN one : one[j].parent_dir = c})
           bait(c) == [j \in DOMAIN baits(c) |-> <<one[baits(c)[j]].name, one[baits(c)[j]].inode>>]
           listed(c) == IF c \in DOMAIN P.visible_entries THEN P.visible_entries[c] ELSE <<>>
<1>1. /\ DOMAIN one = {1} /\ one[1].parent_dir = d /\ one[1].name = n /\ one[1].inode = x
  BY DEF OneBait
<1>2. view.visible_inodes = P.visible_inodes \cup {one[j].inode : j \in DOMAIN one}
  BY DEF project_fabricate, View
<1>3. view.visible_entries =
        [c \in DOMAIN P.visible_entries \cup {one[j].parent_dir : j \in DOMAIN one} |->
           listed(c) \o bait(c)]
  BY DEF project_fabricate, View
<1>4. bait(d) = <<<<n, x>>>>
  <2>1. {j \in DOMAIN one : one[j].parent_dir = d} = {1}
    BY <1>1
  <2>2. IsFiniteSet({1}) /\ Cardinality({1}) = 1 /\ {1} \subseteq Int
    <3>1. IsFiniteSet({1}) /\ Cardinality({1}) = 1
      BY FS_Singleton
    <3> QED BY <3>1
  <2>3. InOrder({1}) \in [1 .. 1 -> {1}]
    BY <2>2, InOrderMeetsAll
  <2>4. baits(d) \in [{1} -> {1}]
    BY <2>1, <2>3
  <2> HIDE DEF one, baits
  <2>5. bait(d) = [j \in {1} |-> <<n, x>>]
    BY <1>1, <2>4
  <2>6. [j \in {1} |-> <<n, x>>] = <<<<n, x>>>>
    OBVIOUS
  <2> QED BY <2>5, <2>6
<1>5. \A c : c # d => bait(c) = <<>>
  <2> SUFFICES ASSUME NEW c, c # d PROVE bait(c) = <<>>
    OBVIOUS
  <2>1. {j \in DOMAIN one : one[j].parent_dir = c} = {}
    BY <1>1
  <2>2. Cardinality({}) = 0
    BY FS_EmptySet
  <2>3. DOMAIN InOrder({}) = {}
    BY <2>2 DEF InOrder
  <2>4. DOMAIN baits(c) = {}
    BY <2>1, <2>3
  <2> HIDE DEF baits
  <2>5. bait(c) = [j \in {} |-> <<one[baits(c)[j]].name, one[baits(c)[j]].inode>>]
    BY <2>4
  <2> QED BY <2>5
<1>6. /\ P.visible_inodes = DOMAIN k.inodes
      /\ DOMAIN P.visible_entries = DOMAIN k.dir_contains
      /\ d \in DOMAIN k.dir_contains
  BY WholeGraph
<1>7. {one[j].parent_dir : j \in DOMAIN one} = {d} /\ {one[j].inode : j \in DOMAIN one} = {x}
  BY <1>1
<1> HIDE DEF P, one, bait
<1>8. DOMAIN view.visible_entries = DOMAIN k.dir_contains
  BY <1>3, <1>6, <1>7
<1>9. ASSUME NEW c \in DOMAIN k.dir_contains
      PROVE  view.visible_entries[c] = WithBait(P.visible_entries[c], c, d, n, x)
  <2>1. view.visible_entries[c] = P.visible_entries[c] \o bait(c)
    BY <1>3, <1>6
  <2>2. bait(c) = IF c = d THEN <<<<n, x>>>> ELSE <<>>
    BY <1>4, <1>5
  <2> QED BY <2>1, <2>2 DEF WithBait
<1> QED BY <1>2, <1>6, <1>7, <1>8, <1>9 DEF P, Fabricated

\* A scan finds a name exactly if an entry has it.
LEMMA ScanIsNone ==
  ASSUME NEW k, Sound(k), NEW d, NEW n
  PROVE  scan_name(k, d, n) # None
           <=> \E e \in ContainsEdges(k) : k.edges[e].src = d /\ k.edges[e].name = n
<1> DEFINE hits == {e \in entries(k, d) : k.edges[e].name = n}
<1>1. entries(k, d) = {e \in ContainsEdges(k) : k.edges[e].src = d}
  BY SoundGraph, EntriesAre
<1>2. scan_name(k, d, n) = IF hits = {} THEN None ELSE First(hits)
  BY DEF scan_name
<1>3. CASE hits = {}
  BY <1>1, <1>2, <1>3
<1>4. ASSUME NEW e \in hits PROVE First(hits) # None
  <2>1. \A f \in hits : f = e
    BY <1>1, SoundGraph, NamesDiffer
  <2>2. hits = {e}
    BY <2>1
  <2>3. e \in Int /\ e # None
    <3>1. k.next_edge \in Nat \ {0} /\ IdsIssued(k)
      BY SoundGraph
    <3> QED BY <1>1, <3>1 DEF IdsIssued, ContainsEdges, None
  <2>4. First({e}) = e
    BY <2>3 DEF First
  <2> QED BY <2>2, <2>3, <2>4
<1> QED BY <1>1, <1>2, <1>3, <1>4

LEMMA BaitIsShadowed ==
  ASSUME NEW k, Sound(k), NEW d \in DOMAIN k.dirs, NEW n, NEW x, x \notin DOMAIN k.inodes
  PROVE  \E view \in {project_fabricate(k, <<[parent_dir |-> d, name |-> n, inode |-> x]>>)} :
           /\ \A e \in ContainsEdges(k) :
                projected_lookup(view, k.edges[e].src, k.edges[e].name) = k.edges[e].tgt
           /\ check_projected_invariants(view) <=> scan_name(k, d, n) = None
           /\ check_projected_invariants(view) => projected_lookup(view, d, n) = x
<1> SUFFICES ASSUME NEW view,
                    view = project_fabricate(k, <<[parent_dir |-> d, name |-> n, inode |-> x]>>)
             PROVE  /\ \A e \in ContainsEdges(k) :
                         projected_lookup(view, k.edges[e].src, k.edges[e].name) = k.edges[e].tgt
                    /\ check_projected_invariants(view) <=> scan_name(k, d, n) = None
                    /\ check_projected_invariants(view) => projected_lookup(view, d, n) = x
  OBVIOUS
<1> DEFINE P == project_passthrough(k)
<1>1. /\ view.visible_inodes = DOMAIN k.inodes \cup {x}
      /\ DOMAIN view.visible_entries = DOMAIN k.dir_contains
      /\ \A c \in DOMAIN k.dir_contains :
           view.visible_entries[c] = WithBait(P.visible_entries[c], c, d, n, x)
  <2>1. view = project_fabricate(k, OneBait(d, n, x))
    BY DEF OneBait
  <2>2. Fabricated(k, d, n, x, view)
    BY <2>1, FabricatedIs
  <2> QED BY <2>2 DEF Fabricated
<1>2. /\ DOMAIN k.dirs \subseteq DOMAIN k.dir_contains
      /\ \A c \in DOMAIN k.dir_contains : ListedAll(k, c, P.visible_entries[c])
  BY WholeGraph
<1>e. Endpoints(k)
  BY SoundGraph
<1> HIDE DEF P
\* What a directory lists in the view.
<1> DEFINE Follows(c, L, V) ==
             /\ DOMAIN V = IF c = d THEN 1 .. Len(L) + 1 ELSE 1 .. Len(L)
             /\ Len(L) \in Nat /\ DOMAIN L = 1 .. Len(L)
             /\ \A j \in DOMAIN L : V[j] = L[j]
             /\ c = d => V[Len(L) + 1] = <<n, x>>
<1>3. \A c \in DOMAIN k.dir_contains : Follows(c, P.visible_entries[c], view.visible_entries[c])
  <2> SUFFICES ASSUME NEW c \in DOMAIN k.dir_contains,
                      NEW L, L = P.visible_entries[c], NEW V, V = view.visible_entries[c]
               PROVE  Follows(c, L, V)
    OBVIOUS
  <2> DEFINE T == {<<k.edges[e].name, k.edges[e].tgt>> : e \in entries(k, c)}
  <2>0. ListedAll(k, c, L)
    BY <1>2
  <2>1. /\ L \in Seq(T) /\ V = L \o (IF c = d THEN <<<<n, x>>>> ELSE <<>>)
    BY <1>1, <2>0 DEF ListedAll, WithBait
  <2> HIDE DEF T
  <2>2. CASE c = d
    <3> DEFINE y == <<n, x>>
    <3>1. V = L \o <<y>>
      BY <2>1, <2>2
    <3> HIDE DEF y
    <3>2. /\ DOMAIN (L \o <<y>>) = 1 .. Len(L) + 1
          /\ Len(L) \in Nat /\ DOMAIN L = 1 .. Len(L)
          /\ \A j \in DOMAIN L : (L \o <<y>>)[j] = L[j]
          /\ (L \o <<y>>)[Len(L) + 1] = y
      BY <2>1, LastAdded
    <3> QED BY <2>2, <3>1, <3>2 DEF y
  <2>3. CASE c # d
    <3>1. V = L
      BY <2>1, <2>3
    <3> QED BY <2>1, <2>3, <3>1
  <2> QED BY <2>2, <2>3
<1> HIDE DEF Follows
<1>4. ASSUME NEW e \in ContainsEdges(k)
      PROVE  projected_lookup(view, k.edges[e].src, k.edges[e].name) = k.edges[e].tgt
  <2> DEFINE c == k.edges[e].src
             L == P.visible_entries[c]
             V == view.visible_entries[c]
  <2>1. c \in DOMAIN k.dir_contains
    BY <1>2, <1>e DEF Endpoints
  <2>0. ListedAll(k, c, L) /\ k.edges[e].src = c
    BY <1>2, <2>1
  <2>4. /\ DOMAIN V = IF c = d THEN 1 .. Len(L) + 1 ELSE 1 .. Len(L)
        /\ Len(L) \in Nat /\ DOMAIN L = 1 .. Len(L)
        /\ \A i \in DOMAIN L : V[i] = L[i]
    <3>1. Follows(c, L, V)
      BY <1>3, <2>1
    <3> HIDE DEF L, V, c
    <3> QED BY <3>1 DEF Follows
  <2> HIDE DEF L, V, c
  <2>2. PICK j \in DOMAIN L : L[j] = <<k.edges[e].name, k.edges[e].tgt>>
    BY <2>0 DEF ListedAll
  <2>3. \A i \in DOMAIN L : L[i][1] = L[j][1] => i = j
    BY <2>0 DEF ListedAll
  <2>5. \A i \in DOMAIN V : i \in Int /\ (V[i][1] = k.edges[e].name => j <= i)
    <3> SUFFICES ASSUME NEW i \in DOMAIN V
                 PROVE  i \in Int /\ (V[i][1] = k.edges[e].name => j <= i)
      OBVIOUS
    <3>1. i \in 1 .. Len(L) + 1
      BY <2>4
    <3>2. CASE i \in DOMAIN L
      BY <2>2, <2>3, <2>4, <3>2
    <3>3. CASE i \notin DOMAIN L
      BY <2>4, <3>1, <3>3
    <3> QED BY <3>2, <3>3
  <2>6. c \in DOMAIN view.visible_entries /\ j \in DOMAIN V /\ j \in Int /\ V[j] = L[j]
    BY <1>1, <2>1, <2>2, <2>4
  <2>7. projected_lookup(view, c, k.edges[e].name) = V[j][2]
    BY <2>2, <2>5, <2>6, LookupFirst DEF V
  <2> QED BY <2>2, <2>6, <2>7 DEF c
<1> DEFINE L == P.visible_entries[d]
           V == view.visible_entries[d]
           z == Len(L) + 1
<1>5. /\ d \in DOMAIN k.dir_contains
      /\ DOMAIN V = 1 .. z /\ Len(L) \in Nat /\ DOMAIN L = 1 .. Len(L)
      /\ \A j \in DOMAIN L : V[j] = L[j]
      /\ V[z] = <<n, x>>
  <2>1. d \in DOMAIN k.dir_contains
    BY <1>2
  <2>2. Follows(d, L, V)
    BY <1>3, <2>1
  <2> HIDE DEF L, V
  <2> QED BY <2>1, <2>2 DEF Follows
<1>6. z \in DOMAIN V /\ z \notin DOMAIN L /\ \A j \in DOMAIN V : j = z \/ j \in DOMAIN L
  BY <1>5
<1>7. /\ \A j \in DOMAIN L : \E e \in ContainsEdges(k) :
            k.edges[e].src = d /\ L[j] = <<k.edges[e].name, k.edges[e].tgt>>
      /\ \A e \in ContainsEdges(k) : k.edges[e].src = d =>
            \E j \in DOMAIN L : L[j] = <<k.edges[e].name, k.edges[e].tgt>>
      /\ \A i, j \in DOMAIN L : L[i][1] = L[j][1] => i = j
  <2>1. ListedAll(k, d, L)
    BY <1>2, <1>5
  <2> HIDE DEF L
  <2> QED BY <2>1 DEF ListedAll
<1> HIDE DEF L, V, z
<1>8. scan_name(k, d, n) = None <=> \A j \in DOMAIN L : L[j][1] # n
  BY <1>7, ScanIsNone
<1>9. ASSUME \E j \in DOMAIN L : L[j][1] = n PROVE ~check_projected_invariants(view)
  <2>1. PICK j \in DOMAIN L : L[j][1] = n
    BY <1>9
  <2>2. j \in DOMAIN V /\ V[j][1] = V[z][1] /\ j # z
    BY <1>5, <1>6, <2>1
  <2>3. d \in DOMAIN view.visible_entries
    BY <1>1, <1>5
  <2> QED BY <1>6, <2>2, <2>3 DEF check_projected_invariants, V
<1>10. ASSUME \A j \in DOMAIN L : L[j][1] # n PROVE check_projected_invariants(view)
  <2> SUFFICES ASSUME NEW c \in DOMAIN k.dir_contains, NEW W, W = view.visible_entries[c]
               PROVE  /\ \A j \in DOMAIN W : W[j][2] \in DOMAIN k.inodes \cup {x}
                      /\ \A i, j \in DOMAIN W : W[i][1] = W[j][1] => i = j
    BY <1>1 DEF check_projected_invariants
  <2> DEFINE M == P.visible_entries[c]
  <2>1. /\ \A j \in DOMAIN M : \E e \in ContainsEdges(k) :
              M[j] = <<k.edges[e].name, k.edges[e].tgt>>
        /\ \A i, j \in DOMAIN M : M[i][1] = M[j][1] => i = j
    <3>1. ListedAll(k, c, M)
      BY <1>2
    <3> HIDE DEF M
    <3> QED BY <3>1 DEF ListedAll
  <2>2. \A j \in DOMAIN M : M[j][2] \in DOMAIN k.inodes
    BY <1>e, <2>1 DEF Endpoints
  <2>3. CASE c = d
    <3>1. M = L /\ W = V
      BY <2>3 DEF L, V
    <3>2. \A j \in DOMAIN W : W[j][2] \in DOMAIN k.inodes \cup {x}
      <4> SUFFICES ASSUME NEW j \in DOMAIN V PROVE V[j][2] \in DOMAIN k.inodes \cup {x}
        BY <3>1
      <4>1. CASE j = z
        BY <1>5, <4>1
      <4>2. CASE j \in DOMAIN L
        <5>1. V[j] = L[j] /\ L[j][2] \in DOMAIN k.inodes
          BY <1>5, <2>2, <3>1, <4>2
        <5> QED BY <5>1
      <4> QED BY <1>6, <4>1, <4>2
    <3>3. \A i, j \in DOMAIN W : W[i][1] = W[j][1] => i = j
      <4> SUFFICES ASSUME NEW i \in DOMAIN V, NEW j \in DOMAIN V, V[i][1] = V[j][1]
                   PROVE  i = j
        BY <3>1
      <4>1. V[z][1] = n /\ \A y \in DOMAIN L : V[y][1] = L[y][1] /\ L[y][1] # n
        BY <1>5, <1>10
      <4>2. (i = z \/ i \in DOMAIN L) /\ (j = z \/ j \in DOMAIN L)
        BY <1>6
      <4> QED BY <1>7, <4>1, <4>2
    <3> QED BY <3>2, <3>3
  <2>4. CASE c # d
    <3>1. DOMAIN W = DOMAIN M /\ \A j \in DOMAIN M : W[j] = M[j]
      <4>1. Follows(c, M, W)
        BY <1>3
      <4> HIDE DEF M
      <4> QED BY <2>4, <4>1 DEF Follows
    <3> QED BY <2>1, <2>2, <3>1
  <2> QED BY <2>3, <2>4
<1>11. ASSUME \A j \in DOMAIN L : L[j][1] # n PROVE projected_lookup(view, d, n) = x
  <2>1. \A j \in DOMAIN V : j \in Int /\ (V[j][1] = n => z <= j)
    <3> SUFFICES ASSUME NEW j \in DOMAIN V PROVE j \in Int /\ (V[j][1] = n => z <= j)
      OBVIOUS
    <3>1. CASE j \in DOMAIN L
      <4>1. j \in Int /\ V[j][1] = L[j][1] /\ L[j][1] # n
        BY <1>5, <1>11, <3>1
      <4> QED BY <4>1
    <3>2. CASE j = z
      BY <1>5, <3>2 DEF z
    <3> QED BY <1>6, <3>1, <3>2
  <2>2. d \in DOMAIN view.visible_entries /\ z \in Int /\ V[z][1] = n /\ V[z][2] = x
    BY <1>1, <1>5 DEF z
  <2> QED BY <1>6, <2>1, <2>2, LookupFirst DEF V
<1>12. check_projected_invariants(view) <=> scan_name(k, d, n) = None
  BY <1>8, <1>9, <1>10
<1>13. check_projected_invariants(view) => projected_lookup(view, d, n) = x
  BY <1>9, <1>11
<1> QED BY <1>4, <1>12, <1>13

\* A restricted view is the subtree, on every file system that the calls make:
\* the walk over the entries meets exactly the directories from which ".." leads
\* up to its start.
THEOREM RestrictShowsTheSubtree ==
  ASSUME PoolsHaveRoom
  PROVE  Spec => []RestrictedViewIsSubtree
<1>1. SoundState => RestrictedViewIsSubtree
  <2> SUFFICES ASSUME SoundState, NEW r \in DOMAIN g.dirs, NEW view, view = project_restrict(g, r),
                      NEW D, D = {d \in DOMAIN g.dirs : on_parent_chain(g, d, r)}
               PROVE  /\ DOMAIN view.visible_entries = D
                      /\ \A d \in D : Len(view.visible_entries[d]) = Cardinality(entries(g, d))
                      /\ view.visible_inodes =
                           ({g.dirs[r], resolve_name(g, r, "..")} \ {None}) \cup
                             {g.edges[e].tgt : e \in UNION {user_entries(g, d) : d \in D}}
                      /\ check_projected_invariants(view)
    BY DEF RestrictedViewIsSubtree
  <2>1. Sound(g)
    BY DEF SoundState
  <2>2. ShowsDirs(g, r, D, view)
    BY <2>1, RestrictedViews
  <2> QED BY <2>2 DEF ShowsDirs, SubtreeInodes
<1> QED BY <1>1, SoundAlways, PTL

\* Bait never hides a real entry, and a redirect reaches every link of the files
\* it is for, on every file system that the calls make.
THEOREM BaitIsExact ==
  ASSUME PoolsHaveRoom
  PROVE  Spec => []BaitedViewsAreExact
<1>1. ASSUME SoundState PROVE RedirectReachesEveryLink
  <2>1. Sound(g)
    BY <1>1 DEF SoundState
  <2> QED BY <2>1, RedirectsReach DEF RedirectReachesEveryLink
<1>2. ASSUME SoundState PROVE BaitIsShadowedByEntries
  <2>1. Sound(g) /\ g.next_inode \notin DOMAIN g.inodes
    <3>1. Sound(g)
      BY <1>2 DEF SoundState
    <3>2. g.next_inode \in Nat
      BY <3>1, SoundGraph
    <3> QED BY <3>1, <3>2, SoundGraph
  <2> QED BY <2>1, BaitIsShadowed DEF BaitIsShadowedByEntries
<1> QED BY <1>1, <1>2, SoundAlways, PTL DEF BaitedViewsAreExact

=============================================================================
