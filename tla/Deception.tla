----------------------------- MODULE Deception -----------------------------
(***************************************************************************)
(* Projections of the graph for a domain (sotfs-monitor/src/deception.rs): *)
(* the whole graph, a subtree of it, the graph with made-up entries, and   *)
(* the graph with names that lead elsewhere.  A view is the inodes that    *)
(* can be seen and, for each directory, a list of (name, inode) entries;   *)
(* inode contents and the data of made-up files are left out.              *)
(***************************************************************************)
EXTENDS TypeGraph

View(inodes, listing, redirects) ==
  [visible_inodes |-> inodes, visible_entries |-> listing, redirects |-> redirects]

\* The entries of d with a target in S, in the order of their edges.
listing(h, d, S) ==
  LET order == InOrder({e \in entries(h, d) : h.edges[e].tgt \in S})
  IN [k \in DOMAIN order |-> <<h.edges[order[k]].name, h.edges[order[k]].tgt>>]

\* Every listing, also an entry whose target does not exist.
project_passthrough(h) ==
  View(DOMAIN h.inodes,
       [d \in DOMAIN h.dir_contains |->
          listing(h, d, {h.edges[e].tgt : e \in entries(h, d)})],
       Empty)

-----------------------------------------------------------------------------
(***************************************************************************)
(* Restrict: the directories a walk from r meets, each with its inode and  *)
(* with everything it lists, ".." included.                                *)
(***************************************************************************)
targets(h, d) == {h.edges[e].tgt : e \in entries(h, d)} \cap DOMAIN h.inodes

\* One step of the walk follows ".." as well.
walk_any(h, S) ==
  S \cup ({dir_for_inode(h, i) : i \in UNION {targets(h, d) : d \in S}} \ {None})

walk(h, S) == S \cup UNION {child_dirs(h, d) : d \in S}

\* The least set with r in it that the walk does not leave.
visited_dirs(h, r) ==
  LET all == DOMAIN h.dirs \cup {r}
  IN {d \in all : \A S \in SUBSET all : r \in S /\ walk(h, S) \subseteq S => d \in S}

project_restrict(h, r) ==
  LET D == visited_dirs(h, r)
      own == {h.dirs[d] : d \in D \cap DOMAIN h.dirs} \cap DOMAIN h.inodes
  IN View(own \cup UNION {targets(h, d) : d \in D},
          [d \in D \cap DOMAIN h.dir_contains |-> listing(h, d, DOMAIN h.inodes)],
          Empty)

-----------------------------------------------------------------------------
\* The made-up entries follow what their directory lists, whatever that holds.
project_fabricate(h, synthetic) ==
  LET view == project_passthrough(h)
      listed(d) == IF d \in DOMAIN view.visible_entries THEN view.visible_entries[d] ELSE <<>>
      baits(d) == InOrder({k \in DOMAIN synthetic : synthetic[k].parent_dir = d})
  IN View(view.visible_inodes \cup {synthetic[k].inode : k \in DOMAIN synthetic},
          [d \in DOMAIN view.visible_entries
                   \cup {synthetic[k].parent_dir : k \in DOMAIN synthetic} |->
             listed(d) \o [j \in DOMAIN baits(d) |->
                            <<synthetic[baits(d)[j]].name, synthetic[baits(d)[j]].inode>>]],
          Empty)

\* The names lead elsewhere, the inodes they led to do not.
project_redirect_names(h, names) ==
  LET view == project_passthrough(h)
      swap(x) == IF x[1] \in DOMAIN names THEN <<x[1], names[x[1]]>> ELSE x
  IN View(view.visible_inodes,
          [d \in DOMAIN view.visible_entries |->
             [k \in DOMAIN view.visible_entries[d] |-> swap(view.visible_entries[d][k])]],
          Empty)

\* Every entry with a redirected name leads elsewhere, and so does the inode it
\* led to: of several names with different targets for it the last one met.
project_redirect(h, names) ==
  LET view == project_passthrough(h)
      swap(x) == IF x[1] \in DOMAIN names THEN <<x[1], names[x[1]]>> ELSE x
      met == {e \in UNION {entries(h, d) : d \in DOMAIN h.dir_contains} :
                h.edges[e].name \in DOMAIN names}
      last(i) == CHOOSE e \in met :
                   /\ h.edges[e].tgt = i
                   /\ \A f \in met : h.edges[f].tgt = i =>
                        \/ h.edges[f].src < h.edges[e].src
                        \/ h.edges[f].src = h.edges[e].src /\ f <= e
  IN View(view.visible_inodes,
          [d \in DOMAIN view.visible_entries |->
             [k \in DOMAIN view.visible_entries[d] |-> swap(view.visible_entries[d][k])]],
          [i \in {h.edges[e].tgt : e \in met} |-> names[h.edges[last(i)].name]])

-----------------------------------------------------------------------------
\* No entry leads to an inode that cannot be seen, no name is listed twice.
check_projected_invariants(view) ==
  \A d \in DOMAIN view.visible_entries :
    LET es == view.visible_entries[d]
    IN /\ \A k \in DOMAIN es : es[k][2] \in view.visible_inodes
       /\ \A j, k \in DOMAIN es : es[j][1] = es[k][1] => j = k

\* The first entry with the name.
projected_lookup(view, d, n) ==
  LET hits == IF d \notin DOMAIN view.visible_entries THEN {}
              ELSE {k \in DOMAIN view.visible_entries[d] : view.visible_entries[d][k][1] = n}
  IN IF hits = {} THEN None ELSE view.visible_entries[d][First(hits)][2]

\* The inode whose bytes projected_read returns; made-up data apart.
projected_source(view, i) ==
  IF i \in DOMAIN view.redirects THEN view.redirects[i] ELSE i
=============================================================================
