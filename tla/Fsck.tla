-------------------------------- MODULE Fsck --------------------------------
(***************************************************************************)
(* fsck (sotfs-ops/src/lib.rs), the structural verifier of a graph in      *)
(* memory.  It repeats in code of its own what check_invariants checks and *)
(* reports what it finds, as pairs of an invariant's name and the id of    *)
(* the object; here also on graphs that no call can make.                  *)
(***************************************************************************)
EXTENDS TypeGraph

LOCAL Seqs == INSTANCE SequencesExt

dangling(g) ==
  {e \in DOMAIN g.edges :
     LET x == g.edges[e]
     IN \/ x.kind = "Contains" /\ ~(x.src \in DOMAIN g.dirs /\ x.tgt \in DOMAIN g.inodes)
        \/ x.kind = "PointsTo" /\ ~(x.src \in DOMAIN g.inodes /\ x.tgt \in DOMAIN g.blocks)}

miscounted(g) ==
  {i \in DOMAIN g.inodes :
     g.inodes[i].link_count #
       Cardinality({e \in incoming(g, i) : g.edges[e].name # ".."})}

duplicates(g) ==
  {d \in DOMAIN g.dir_contains :
     \E e, f \in entries(g, d) : e # f /\ g.edges[e].name = g.edges[f].name}

miscounted_blocks(g) ==
  {b \in DOMAIN g.blocks :
     g.blocks[b] # Cardinality({e \in DOMAIN g.edges :
                       g.edges[e].kind = "PointsTo" /\ g.edges[e].tgt = b})}

\* An edge whose Contains edge is gone still counts here.
orphans(g) ==
  {i \in DOMAIN g.inodes \ {RootInode} : SetAt(g.inode_incoming_contains, i) = {}}

\* The attributes of an inode that is gone, or that are gone themselves.
lost_xattrs(g) ==
  {i \in DOMAIN g.inode_xattrs :
     i \notin DOMAIN g.inodes \/ ~(g.inode_xattrs[i] \subseteq DOMAIN g.xattrs)}

-----------------------------------------------------------------------------
(***************************************************************************)
(* The search for a cycle, depth first, through the entries in the order   *)
(* of their ids.  A search that finds one returns at once, and leaves the  *)
(* directories it was in on the stack.                                     *)
(***************************************************************************)
subdirs(g, d) ==
  LET es == {e \in user_entries(g, d) : IsDirInode(g, g.edges[e].tgt)}
      order == Seqs!SetToSortSeq(es, <)
  IN SelectSeq([k \in DOMAIN order |-> dir_for_inode(g, g.edges[order[k]].tgt)],
               LAMBDA c : c # None)

\* A directory stays on the stack when its search ends.
RECURSIVE has_cycle_dfs_dirty(_, _, _)
has_cycle_dfs_dirty(g, d, walk) ==
  LET enter == [walk EXCEPT !.visited = @ \cup {d}, !.stack = @ \cup {d}]
      look(w, c) == IF w.found \/ c \in w.stack THEN [w EXCEPT !.found = TRUE]
                    ELSE IF c \in w.visited THEN w ELSE has_cycle_dfs_dirty(g, c, w)
  IN Seqs!FoldLeft(look, enter, subdirs(g, d))

RECURSIVE has_cycle_dfs(_, _, _)
has_cycle_dfs(g, d, walk) ==
  LET enter == [walk EXCEPT !.visited = @ \cup {d}, !.stack = @ \cup {d}]
      look(w, c) == IF w.found \/ c \in w.stack THEN [w EXCEPT !.found = TRUE]
                    ELSE IF c \in w.visited THEN w ELSE has_cycle_dfs(g, c, w)
      leave(w) == IF w.found THEN w ELSE [w EXCEPT !.stack = @ \ {d}]
  IN leave(Seqs!FoldLeft(look, enter, subdirs(g, d)))

\* One search from each directory that no earlier one has visited, all with
\* the same visited set and the same stack.
cyclic(g) ==
  LET search(w, d) ==
        IF d \in w.visited THEN w
        ELSE LET found == has_cycle_dfs(g, d, [w EXCEPT !.found = FALSE])
             IN IF found.found THEN [found EXCEPT !.reported = @ \cup {d}] ELSE found
      start == [visited |-> {}, stack |-> {}, found |-> FALSE, reported |-> {}]
  IN Seqs!FoldLeft(search, start, Seqs!SetToSortSeq(DOMAIN g.dirs, <)).reported

-----------------------------------------------------------------------------
errors(g) ==
  ({"NoDanglingEdges"} \X dangling(g)) \cup
  ({"LinkCountConsistent"} \X miscounted(g)) \cup
  ({"UniqueNamesPerDir"} \X duplicates(g)) \cup
  ({"NoDirCycles"} \X cyclic(g)) \cup
  ({"BlockRefcount"} \X miscounted_blocks(g)) \cup
  ({"XattrIntegrity"} \X lost_xattrs(g))

fsck(g) == [errors |-> errors(g), warnings |-> orphans(g),
            inode_count |-> Cardinality(DOMAIN g.inodes),
            dir_count   |-> Cardinality(DOMAIN g.dirs),
            edge_count  |-> Cardinality(DOMAIN g.edges)]
=============================================================================
