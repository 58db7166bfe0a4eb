----------------------------- MODULE Treewidth -----------------------------
(***************************************************************************)
(* DynamicTreewidth (sotfs-monitor/src/treewidth.rs): a tracker that keeps *)
(* the elimination ordering of the last run and, when the graph is edited, *)
(* runs the elimination again only from the first position an edit made    *)
(* dirty.                                                                  *)
(*                                                                         *)
(* The ordering may hold nodes that are gone, and the step widths before   *)
(* the dirty position are the ones of an earlier graph: what has to hold   *)
(* is that nobody can tell.                                                *)
(***************************************************************************)
EXTENDS Elimination

CONSTANTS
  Starts,     \* the graphs a tracker is loaded with, as [nodes, edges]
  NodeIds,        \* node ids the notifications name
  Pairs,      \* the edges, as two-element sets, that they may name
  MaxCalls    \* bound: notifications of a behaviour

ASSUME TrackerAssumption ==
  /\ \A s \in Starts : s.edges \subseteq clique({s.nodes[k] : k \in DOMAIN s.nodes})
  /\ \A s \in Starts : /\ s.nodes \in Seq({s.nodes[k] : k \in DOMAIN s.nodes})
                       /\ \A j, k \in DOMAIN s.nodes : s.nodes[j] = s.nodes[k] => j = k
  /\ NodeIds \subseteq Nat /\ Pairs \subseteq clique(NodeIds)
  /\ MaxCalls \in Nat

VARIABLES
  t,      \* the tracker; its dirty flags are clear between notifications
  calls   \* notifications so far

Known(s) == {s.nodes[k] : k \in DOMAIN s.nodes}

-----------------------------------------------------------------------------
(***************************************************************************)
(* Elimination, from the start or from a position of the ordering.         *)
(***************************************************************************)
load_type_graph(h) == [nodes |-> skeleton_nodes(h), edges |-> skeleton_edges(h)]

full_recompute(s) ==
  Only({[s EXCEPT !.ordering = w.order, !.step_width = w.widths,
                  !.bound = MaxOf(w.widths)] : w \in {greedy(Start(s.nodes, s.edges))}})

\* A new tracker on a graph that is loaded into it.
from_graph(s) ==
  full_recompute([nodes |-> s.nodes, edges |-> s.edges, ordering |-> <<>>,
                  step_width |-> <<>>, bound |-> 0])

\* Positions of the ordering that hold one of the nodes S.
positions(s, S) == {k \in DOMAIN s.ordering : s.ordering[k] \in S}

\* A node that the ordering does not hold yet is not looked for.
earliest_dirty_listed(s, dirty) ==
  LET held == {s.ordering[k] : k \in DOMAIN s.ordering}
  IN IF positions(s, dirty) # {} THEN First(positions(s, dirty))
     ELSE IF s.ordering[Len(s.ordering)] \notin Known(s)
     THEN First(positions(s, held \ Known(s)))
     ELSE None

\* The first position to eliminate again; None when the ordering stands.  A
\* node that is gone is looked for only if the last entry of all is one.
earliest_dirty(s, dirty) ==
  LET held == {s.ordering[k] : k \in DOMAIN s.ordering}
      last == Len(s.ordering)
  IN IF positions(s, dirty) # {} THEN First(positions(s, dirty))
     ELSE IF Known(s) \ held # {} THEN last + 1
     ELSE IF s.ordering[last] \notin Known(s) THEN First(positions(s, held \ Known(s)))
     ELSE None

\* The prefix before position k stays, with the widths it has; the rest of
\* the ordering is what min-degree makes of the graph after that prefix.
resume(s, k) ==
  Only({LET widths == SubSeq(s.step_width, 1, k - 1) \o SubSeq(w.widths, k, Len(w.widths))
        IN [s EXCEPT !.ordering = w.order, !.step_width = widths, !.bound = MaxOf(widths)] :
          w \in {greedy(replay(Start(s.nodes, s.edges), SubSeq(s.ordering, 1, k - 1)))}})

\* A prefix with a node that is gone is no prefix of an elimination of this
\* graph: everything is run again.
incremental_reeliminate(s, dirty) ==
  LET from == earliest_dirty(s, dirty)
  IN IF from = None THEN s
     ELSE IF \E k \in 1 .. from - 1 : s.ordering[k] \notin Known(s)
     THEN full_recompute(s)
     ELSE resume(s, from)

\* More than a fifth of the nodes dirty, or nothing cached: from the start.
maybe_update(s, dirty) ==
  IF s.nodes = <<>> THEN [s EXCEPT !.bound = 0, !.ordering = <<>>, !.step_width = <<>>]
  ELSE IF Cardinality(dirty) > (Len(s.nodes) + 4) \div 5 \/ s.ordering = <<>>
  THEN full_recompute(s)
  ELSE incremental_reeliminate(s, dirty)

-----------------------------------------------------------------------------
(***************************************************************************)
(* The notifications.  What they name as an edge connects nodes that the   *)
(* tracker knows: add_edge_internal on a strange id would add half an      *)
(* edge, and no caller does that.                                          *)
(***************************************************************************)
around(s, u, v) == {u, v} \cup neighbours(s.edges, u) \cup neighbours(s.edges, v)

add_edge_internal(s, u, v) == [s EXCEPT !.edges = @ \cup {{u, v}}]
remove_edge_internal(s, u, v) == [s EXCEPT !.edges = @ \ {{u, v}}]

add_node_internal(s, n) ==
  IF n \in Known(s) THEN s ELSE [s EXCEPT !.nodes = Append(@, n)]

\* The last node takes the index of the one removed.
remove_node_internal(s, n) ==
  IF n \notin Known(s) THEN s
  ELSE LET last == Len(s.nodes)
           moved == [s.nodes EXCEPT ![CHOOSE k \in DOMAIN s.nodes : s.nodes[k] = n] = s.nodes[last]]
       IN [s EXCEPT !.nodes = SubSeq(moved, 1, last - 1),
                    !.edges = {e \in @ : n \notin e}]

on_add_edge(s, u, v) ==
  Only({maybe_update(a, around(a, u, v)) : a \in {add_edge_internal(s, u, v)}})

on_remove_edge(s, u, v) ==
  Only({maybe_update(a, around(a, u, v)) : a \in {remove_edge_internal(s, u, v)}})

on_add_node(s, n) == maybe_update(add_node_internal(s, n), {n})

\* The neighbours are not marked.
remove_node_unmarked(s, n) == maybe_update(remove_node_internal(s, n), {})

\* The neighbours are marked while the edges to them are still there.
on_remove_node(s, n) ==
  maybe_update(remove_node_internal(s, n), neighbours(s.edges, n))

-----------------------------------------------------------------------------
TrackerInit == t \in {from_graph(s) : s \in Starts} /\ calls = 0

Notify(s) == calls < MaxCalls /\ t' = s /\ calls' = calls + 1

AddEdge ==
  \E u, v \in NodeIds \cap Known(t) :
    u < v /\ {u, v} \in Pairs /\ Notify(on_add_edge(t, u, v))

RemoveEdge ==
  \E u, v \in NodeIds \cap Known(t) :
    u < v /\ {u, v} \in Pairs /\ Notify(on_remove_edge(t, u, v))

AddNode == \E n \in NodeIds : Notify(on_add_node(t, n))

RemoveNode == \E n \in NodeIds : Notify(on_remove_node(t, n))

\* Also a public call.
Recompute == Notify(full_recompute(t))

TrackerNext == AddEdge \/ RemoveEdge \/ AddNode \/ RemoveNode \/ Recompute

TrackerSpec == TrackerInit /\ [][TrackerNext]_<<t, calls>>

-----------------------------------------------------------------------------
\* The ordering eliminates every node of the graph exactly once, although it
\* is stitched from a kept prefix and a new suffix and may hold nodes that are
\* gone: a node it left out, or held twice, would count with a wrong width.
EliminatesEveryNodeOnce ==
  \A n \in Known(t) : Cardinality(positions(t, {n})) = 1

\* The nodes from which position k is connected over nodes eliminated before.
Merged(k) ==
  LET before  == {t.ordering[j] : j \in 1 .. k - 1}
      grow[n \in 0 .. k] ==
        IF n = 0 THEN {t.ordering[k]}
        ELSE UNION {{v} \cup (neighbours(t.edges, v) \cap before) : v \in grow[n - 1]}
  IN grow[k]

\* "bound is always an upper bound on the treewidth of the tracked graph":
\* the cached width of every step is the one the ordering has on the graph as
\* it is now (the later nodes that are connected with it over earlier ones),
\* the widths an edit did not recompute included, and the bound is the largest.
WidthsMatchTheGraph ==
  LET later(k) == {t.ordering[j] : j \in k + 1 .. Len(t.ordering)}
      width(k) == Cardinality(later(k) \cap UNION {neighbours(t.edges, v) : v \in Merged(k)})
  IN /\ \A k \in DOMAIN t.ordering : t.step_width[k] = width(k)
     /\ t.bound = MaxOf(t.step_width)

\* The doc of DynamicTreewidth: after any incremental update the bound is what
\* a fresh full_recompute would produce.
BoundIsFresh == t.bound = full_recompute(t).bound
=============================================================================
