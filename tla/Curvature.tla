----------------------------- MODULE Curvature -----------------------------
(***************************************************************************)
(* The curvature monitor (sotfs-monitor/src/curvature.rs): a report with   *)
(* the curvature of every edge, kept up to date by recomputing only near   *)
(* the nodes that the caller says a call has affected (the affected_nodes  *)
(* functions of sotfs-ops), as the tests of the module drive it.           *)
(*                                                                         *)
(* The mean, the extremes and the anomalies of a report are functions of   *)
(* its values and left out.                                                *)
(***************************************************************************)
EXTENDS Sotfs

CONSTANT Trees     \* the file systems a report is first computed of

\* The index inode_points_to lists only edges that exist or once did, and of
\* those that lead to a block now only those of the inode itself.
PointersOwned(h) ==
  \A i \in DOMAIN h.inode_points_to : \A e \in h.inode_points_to[i] :
    /\ e \in Nat /\ e < h.next_edge
    /\ e \in DOMAIN h.edges /\ h.edges[e].kind = "PointsTo" => h.edges[e].src = i

\* What calls make of a new file system.
FileSystem(h) ==
  /\ FieldsTyped(h) /\ IdsIssued(h) /\ WellFormed(h)
  /\ h.next_dir <= h.next_inode
  /\ PointersOwned(h)

ASSUME TreesAssumption == \A h \in Trees : FileSystem(h)

VARIABLES
  report,    \* the curvature of each edge
  missed     \* ghost: nodes that lost an edge without being near an affected one

-----------------------------------------------------------------------------
(***************************************************************************)
(* Curvature.  A neighbour set can hold the node itself (a PointsTo edge   *)
(* whose block has the id of the inode).  With alpha = 1/2 the curvature   *)
(* of an edge, 1/4 + (1/du + 1/dv)/8 + common/(4 max(du, dv)), is a        *)
(* multiple of 1/(8*2520) while degrees are at most 10.                    *)
(***************************************************************************)
adjacency(h) ==
  LET ends == {<<src_node(h.edges[e]), tgt_node(h.edges[e])>> : e \in DOMAIN h.edges}
      nodes == UNION {{p[1], p[2]} : p \in ends}
  IN [n \in nodes |-> {p[2] : p \in {q \in ends : q[1] = n}} \cup
                      {p[1] : p \in {q \in ends : q[2] = n}}]

Unit == 2520

compute_edge_curvature(adj, u, v) ==
  LET du == Cardinality(adj[u])
      dv == Cardinality(adj[v])
      common == Cardinality(adj[u] \cap adj[v])
  IN 2 * Unit + Unit \div du + Unit \div dv
       + 2 * common * (Unit \div (IF du >= dv THEN du ELSE dv))

kappa(h, adj, e) ==
  compute_edge_curvature(adj, src_node(h.edges[e]), tgt_node(h.edges[e]))

compute_curvatures(h) ==
  CHOOSE r \in {[e \in DOMAIN h.edges |-> kappa(h, adj, e)] : adj \in {adjacency(h)}} : TRUE

step_from(adj, S) == S \cup UNION {adj[n] : n \in S \cap DOMAIN adj}

\* The edges with an end within two steps of an affected node.
edges_in_2hop_neighborhood(h, adj, affected) ==
  LET near == step_from(adj, step_from(adj, affected))
  IN {e \in DOMAIN h.edges : {src_node(h.edges[e]), tgt_node(h.edges[e])} \cap near # {}}

updated(h, adj, dirty, prev) ==
  [e \in DOMAIN h.edges |->
     IF e \in dirty \/ e \notin DOMAIN prev THEN kappa(h, adj, e) ELSE prev[e]]

recompute_incremental(h, affected, prev) ==
  CHOOSE r \in
    {updated(h, s.adj, s.dirty, prev) : s \in
       {[adj |-> a, dirty |-> edges_in_2hop_neighborhood(h, a, affected)] :
          a \in {adjacency(h)}}} : TRUE

-----------------------------------------------------------------------------
(***************************************************************************)
(* The nodes each call is said to affect.                                  *)
(***************************************************************************)
affected_nodes_create(d, i) == {<<"dirs", d>>, <<"inodes", i>>}
affected_nodes_unlink_dir(d, i) == {<<"dirs", d>>}
affected_nodes_unlink(d, i) == {<<"dirs", d>>, <<"inodes", i>>}
affected_nodes_mkdir(d, i, c) == {<<"dirs", d>>, <<"inodes", i>>, <<"dirs", c>>}
affected_nodes_rmdir(d, i, c) == {<<"dirs", d>>, <<"inodes", i>>, <<"dirs", c>>}
affected_nodes_rename(sd, dd, i) == {<<"dirs", sd>>, <<"dirs", dd>>, <<"inodes", i>>}
affected_nodes_link(d, i) == {<<"dirs", d>>, <<"inodes", i>>}
affected_nodes_write_block(i, b) == {<<"inodes", i>>, <<"blocks", b>>}

-----------------------------------------------------------------------------
MonitorInit == /\ g \in Trees
               /\ report = compute_curvatures(g)
               /\ missed = {}

\* The inodes that a block of file i is taken for (see tgt_node).
block_nodes(h, i) ==
  {tgt_node(h.edges[e]) : e \in {x \in DOMAIN h.edges :
                                   h.edges[x].kind = "PointsTo" /\ h.edges[x].src = i}}

\* A call with the result h, and what it took away besides.
Observe(h, affected, besides) ==
  /\ Step(h)
  /\ report' = recompute_incremental(g', affected, report)
  /\ missed' = missed \cup besides

MonitoredCreate ==
  /\ "create_file" \in Calls(g)
  /\ \E d \in DirHandles, n \in Names, m \in Modes, u \in Users :
       /\ new_entry_ok(g, d, n)
       /\ \E h \in {create_file(g, d, n, m, u)} :
            Observe(h, affected_nodes_create(d, g.next_inode), {})

MonitoredMkdir ==
  /\ "mkdir" \in Calls(g)
  /\ \E d \in DirHandles, n \in Names, m \in Modes, u \in Users :
       /\ new_entry_ok(g, d, n)
       /\ \E h \in {mkdir(g, d, n, m, u)} :
            Observe(h, affected_nodes_mkdir(d, g.next_inode, g.next_dir), {})

MonitoredRmdir ==
  /\ "rmdir" \in Calls(g)
  /\ \E d \in DirHandles, n \in Names :
       /\ rmdir_ok(g, d, n)
       /\ \E h \in {rmdir(g, d, n)}, i \in {resolve_name(g, d, n)} :
            Observe(h, affected_nodes_rmdir(d, i, dir_for_inode(g, i)), block_nodes(g, i))

MonitoredLink ==
  /\ "link" \in Calls(g)
  /\ \E d \in DirHandles, n \in Names, i \in InodeIds :
       /\ link_ok(g, d, n, i)
       /\ \E h \in {link(g, d, n, i)} : Observe(h, affected_nodes_link(d, i), {})

\* The last link takes the blocks along.
MonitoredUnlink ==
  /\ "unlink" \in Calls(g)
  /\ \E d \in DirHandles, n \in Names :
       /\ unlink_ok(g, d, n)
       /\ \E h \in {unlink(g, d, n)}, i \in {resolve_name(g, d, n)} :
            Observe(h, affected_nodes_unlink(d, i), block_nodes(g, i))

\* What is replaced is not among the affected nodes.
MonitoredRename ==
  /\ "rename" \in Calls(g)
  /\ \E sd, dd \in DirHandles, src, dst \in Names :
       \E r \in {rename(g, sd, src, dd, dst)}, old \in {resolve_name(g, dd, dst)} :
         /\ r.ok
         /\ Observe(r.graph, affected_nodes_rename(sd, dd, resolve_name(g, sd, src)),
                    IF old = None THEN {} ELSE {<<"inodes", old>>} \cup block_nodes(g, old))

MonitoredWriteBlock ==
  /\ "write_block" \in Calls(g)
  /\ \E i \in InodeIds :
       /\ write_block_ok(g, i)
       /\ \E h \in {write_block(g, i)} :
            Observe(h, affected_nodes_write_block(i, g.next_block), {})

MonitorNext ==
  \/ MonitoredCreate \/ MonitoredMkdir \/ MonitoredRmdir \/ MonitoredLink
  \/ MonitoredUnlink \/ MonitoredRename \/ MonitoredWriteBlock

MonitorSpec == MonitorInit /\ [][MonitorNext]_<<g, report, missed>>

-----------------------------------------------------------------------------
\* The doc of edges_in_2hop_neighborhood: after any sequence of calls the
\* incremental report holds for every edge what a full scan would compute.
\* Two kinds of edges are left out, those of an inode that a rename has
\* replaced and those of an inode whose id is that of a block that is gone:
\* their values may be of an earlier graph, for affected_nodes_rename does not
\* name the first and tgt_node takes the second for the block.
ReportIsFresh ==
  /\ DOMAIN report = DOMAIN g.edges
  /\ \E fresh \in {compute_curvatures(g)} : \A e \in DOMAIN g.edges :
       \/ report[e] = fresh[e]
       \/ {src_node(g.edges[e]), tgt_node(g.edges[e])} \cap missed # {}

\* Without what is left out: holds no longer than nothing is replaced.
ReportAlwaysFresh == report = compute_curvatures(g)
=============================================================================
