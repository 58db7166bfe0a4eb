----------------------------- MODULE Provenance -----------------------------
(***************************************************************************)
(* The queries on the provenance log (sotfs-graph/src/provenance.rs).  An  *)
(* entry has the fields of record_prov and a time, in seconds.             *)
(***************************************************************************)
EXTENDS TypeGraph

\* Time is read off the wall clock, once per entry.
Stamped(log, clock) ==
  [k \in DOMAIN log |-> [op |-> log[k].op, inode |-> log[k].inode, cap |-> log[k].cap,
                         domain |-> log[k].domain, time |-> clock[k]]]

In(x, t_start, t_end) == t_start <= x.time /\ x.time <= t_end

\* Q1: entries without a capability do not show.
caps_for_inode_in_window(log, i, t_start, t_end) ==
  LET hits == SelectSeq(log, LAMBDA x : /\ x.inode = i /\ In(x, t_start, t_end)
                                        /\ x.cap # None)
  IN [k \in DOMAIN hits |-> <<hits[k].cap, hits[k].op, hits[k].time>>]

\* Q2
inodes_touched_by_cap(log, c, t_start, t_end) ==
  LET hits == SelectSeq(log, LAMBDA x : In(x, t_start, t_end) /\ x.cap = c)
  IN [k \in DOMAIN hits |-> <<hits[k].inode, hits[k].op, hits[k].time>>]

\* Q3
provenance_chain(log, i) == SelectSeq(log, LAMBDA x : x.inode = i)

\* Q4
ops_by_domain(log, u, t_start, t_end) ==
  SelectSeq(log, LAMBDA x : x.domain = u /\ In(x, t_start, t_end))

\* An entry at the border of two windows counts in both.
burst_detect_closed(log, i, window_size) ==
  LET chain  == provenance_chain(log, i)
      first  == chain[1].time
      last   == chain[Len(chain)].time
      starts == {first + k * window_size : k \in 0 .. (last - first) \div window_size}
      count(t) == Cardinality({k \in DOMAIN chain :
                     t <= chain[k].time /\ chain[k].time <= t + window_size})
  IN IF chain = <<>> \/ last < first THEN {}
     ELSE {<<t, count(t)>> : t \in {s \in starts : count(s) > 0}}

\* Q5: the entries of an inode by windows of the given size, from the time of
\* its first entry to that of its last one; empty windows do not show.  (With
\* a size of 0 the loop does not end.)
burst_detect(log, i, window_size) ==
  LET chain  == provenance_chain(log, i)
      first  == chain[1].time
      last   == chain[Len(chain)].time
      starts == {first + k * window_size : k \in 0 .. (last - first) \div window_size}
      count(t) == Cardinality({k \in DOMAIN chain :
                     t <= chain[k].time /\ chain[k].time < t + window_size})
  IN IF chain = <<>> \/ last < first THEN {}
     ELSE {<<t, count(t)>> : t \in {s \in starts : count(s) > 0}}

\* Q6
activity_summary(log, t_start, t_end) ==
  LET hits == {k \in DOMAIN log : In(log[k], t_start, t_end)}
  IN [distinct_caps   |-> Cardinality({log[k].cap : k \in hits} \ {None}),
      distinct_inodes |-> Cardinality({log[k].inode : k \in hits}),
      total_ops       |-> Cardinality(hits)]
=============================================================================
