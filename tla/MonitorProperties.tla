------------------------- MODULE MonitorProperties -------------------------
(***************************************************************************)
(* What the tools that read a graph promise about the file systems of      *)
(* Sotfs: the verifier and the queries on the log.                         *)
(***************************************************************************)
EXTENDS SotfsProperties, ProjectionProperties, Fsck, Provenance

-----------------------------------------------------------------------------
(***************************************************************************)
(* fsck.                                                                   *)
(***************************************************************************)

\* fsck finds every cycle and nothing but cycles: on the file systems the calls
\* make it reports nothing; with one more entry, in x and for directory y, it
\* reports the link count of y, and a cycle exactly when y was above x or x
\* itself.  Two paths to one directory are not taken for a cycle, wherever the
\* search starts and whatever earlier searches left on its stack.
FsckFindsCycles ==
  /\ errors(g) = {} /\ orphans(g) = {}
  /\ \A x, y \in DOMAIN g.dirs :
       \E h \in {add_contains(g, g.next_edge, x, g.dirs[y], "-")} :
         {p[1] : p \in errors(h)} =
           {"LinkCountConsistent"} \cup
             (IF on_parent_chain(g, x, y) THEN {"NoDirCycles"} ELSE {})

\* The only thing fsck ever reports after a sequence of calls are the extended
\* attributes of files and directories that are gone: unlink, rmdir and rename
\* leave no other trace, of entries, links, blocks or contents, that it sees.
FsckReportsOnlyLostXattrs ==
  /\ \A p \in errors(g) : p[1] = "XattrIntegrity" /\ p[2] \notin DOMAIN g.inodes
  /\ orphans(g) = {}

-----------------------------------------------------------------------------
(***************************************************************************)
(* Queries.                                                                *)
(***************************************************************************)

\* Wall clocks that do not go back: one second per entry, bursts, a pause.
Clocks(n) == {[k \in 1 .. n |-> k], [k \in 1 .. n |-> k \div 2],
              [k \in 1 .. n |-> k * k], [k \in 1 .. n |-> 7]}

RECURSIVE Total(_)
Total(S) == IF S = {} THEN 0 ELSE LET x == CHOOSE y \in S : TRUE IN x[2] + Total(S \ {x})

\* The queries agree with each other about every log: the bursts of an inode
\* count each entry of its chain once, whatever the window; what a capability
\* touched (Q2) is what the inodes say it did (Q1); and the domains together
\* did what the summary counts.
QueriesAgree ==
  \A clock \in Clocks(Len(Log)) :
    \E log \in {Stamped(Log, clock)}, end \in {Len(Log) * Len(Log) + 7} :
      LET ids  == 1 .. g.next_inode - 1
          caps == 1 .. g.next_cap - 1
          sum  == activity_summary(log, 0, end)
      IN /\ \A i \in ids, w \in 1 .. 3 :
              Total(burst_detect(log, i, w)) = Len(provenance_chain(log, i))
         /\ \A c \in caps, i \in ids :
              Len(SelectSeq(inodes_touched_by_cap(log, c, 2, 7), LAMBDA x : x[1] = i)) =
              Len(SelectSeq(caps_for_inode_in_window(log, i, 2, 7), LAMBDA x : x[1] = c))
         /\ sum.total_ops = Total({<<u, Len(ops_by_domain(log, u, 0, end))>> : u \in Users})
         /\ sum.distinct_inodes = Cardinality({i \in ids : provenance_chain(log, i) # <<>>})
=============================================================================
