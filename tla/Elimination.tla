---------------------------- MODULE Elimination ----------------------------
(***************************************************************************)
(* Vertex elimination on an undirected graph by the min-degree rule        *)
(* (sotfs-monitor/src/treewidth.rs), and the skeleton of a type graph it   *)
(* is run on.  An undirected edge is a set of two nodes.  A node's         *)
(* neighbours are a set: the order of an adjacency list matters only when  *)
(* MAX_DEGREE entries are in use and fill edges are dropped, which no      *)
(* graph here comes near.                                                  *)
(***************************************************************************)
EXTENDS TypeGraph

neighbours(edges, v) == UNION {e \ {v} : e \in {x \in edges : v \in x}}

clique(S) == {{p[1], p[2]} : p \in {q \in S \X S : q[1] # q[2]}}

\* The element of a one-element set: its value, computed once.
Only(S) == CHOOSE x \in S : TRUE

MaxOf(s) == IF s = <<>> THEN 0
            ELSE CHOOSE x \in {s[k] : k \in DOMAIN s} :
                   \A k \in DOMAIN s : s[k] <= x

(***************************************************************************)
(* An elimination under way: the nodes by index, the indices that are left *)
(* (those with eliminated[i] unset), the edges among them with the fill so *)
(* far, and what was recorded: the nodes eliminated and the width (degree) *)
(* of each at its elimination.                                             *)
(***************************************************************************)
Start(nodes, edges) ==
  [nodes |-> nodes, left |-> DOMAIN nodes, edges |-> edges, order |-> <<>>, widths |-> <<>>]

\* The remaining neighbours of node k are connected to each other, then it goes.
eliminate(w, k) ==
  LET v == w.nodes[k]
  IN [nodes  |-> w.nodes,
      left   |-> w.left \ {k},
      edges  |-> {e \in w.edges : v \notin e} \cup clique(neighbours(w.edges, v)),
      order  |-> Append(w.order, v),
      widths |-> Append(w.widths, Cardinality(neighbours(w.edges, v)))]

\* A remaining node of minimum degree, the first one in index order.
min_degree(w) ==
  LET deg == [k \in w.left |-> Cardinality(neighbours(w.edges, w.nodes[k]))]
  IN CHOOSE k \in w.left :
       \A j \in w.left : deg[k] < deg[j] \/ (deg[k] = deg[j] /\ k <= j)

\* All that is left is eliminated by the rule.
greedy(w) ==
  LET run[k \in 0 .. Cardinality(w.left)] ==
        IF k = 0 THEN w
        ELSE Only({eliminate(p, min_degree(p)) : p \in {run[k - 1]}})
  IN run[Cardinality(w.left)]

\* The nodes of a given order are eliminated, those that are gone skipped.
replay(w, order) ==
  LET run[k \in 0 .. Len(order)] ==
        IF k = 0 THEN w
        ELSE LET at == {j \in DOMAIN w.nodes : w.nodes[j] = order[k]}
             IN Only({IF at = {} THEN p ELSE eliminate(p, Only(at)) : p \in {run[k - 1]}})
  IN run[Len(order)]

-----------------------------------------------------------------------------
(***************************************************************************)
(* The skeleton of a type graph: its nodes get numbers from 0, pool after  *)
(* pool, each pool in the order of its ids.  An edge with an end that has  *)
(* no number is left out: HasXattr edges, and PointsTo edges (tgt_node     *)
(* looks a block up among the inodes) unless an inode has the block's id.  *)
(***************************************************************************)
skeleton_nodes(h) ==
  LET n == Cardinality(DOMAIN h.inodes) + Cardinality(DOMAIN h.dirs)
             + Cardinality(DOMAIN h.caps) + Cardinality(DOMAIN h.blocks)
  IN [k \in 1 .. n |-> k - 1]

id_map(h) ==
  LET base == [inodes |-> 0,
               dirs   |-> Cardinality(DOMAIN h.inodes),
               caps   |-> Cardinality(DOMAIN h.inodes) + Cardinality(DOMAIN h.dirs)]
      nodes == UNION {{pool} \X DOMAIN h[pool] : pool \in DOMAIN base}
  IN [n \in nodes |-> base[n[1]] + Cardinality({x \in DOMAIN h[n[1]] : x < n[2]})]

skeleton_edges(h) ==
  LET ids   == id_map(h)
      ends  == {<<src_node(h.edges[e]), tgt_node(h.edges[e])>> : e \in DOMAIN h.edges}
      known == {p \in ends : {p[1], p[2]} \subseteq DOMAIN ids /\ p[1] # p[2]}
  IN {{ids[p[1]], ids[p[2]]} : p \in known}

\* The upper bound check_treewidth compares with its limit.
compute_treewidth(h) ==
  MaxOf(greedy(Start(skeleton_nodes(h), skeleton_edges(h))).widths)
=============================================================================
