----------------------------- MODULE MCMonitors -----------------------------
(***************************************************************************)
(* The two monitors that keep state, for TLC, each in behaviours of its    *)
(* own: a treewidth tracker that is notified of edits, and a curvature     *)
(* report that follows the calls on a file system.                         *)
(***************************************************************************)
EXTENDS Treewidth, Curvature

\* The calls that have an affected_nodes function.
MonitoredCalls(h) ==
  {"create_file", "mkdir", "rmdir", "link", "unlink", "rename", "write_block"}

\* /d and /a, and a hard link /d/b to the file.
LinkedTree ==
  LET made == create_file(mkdir(new_graph("rw", 0), RootDir, "a", "rw", 0), RootDir, "b", "rw", 0)
  IN link(made, 2, "b", 3)

\* A file /b with a second name at the end of a path: /a/a/a/b.
DeepTree ==
  LET d1 == mkdir(new_graph("rw", 0), RootDir, "a", "rw", 0)
      d2 == mkdir(d1, 2, "a", "rw", 0)
      d3 == mkdir(d2, 3, "a", "rw", 0)
  IN link(create_file(d3, 4, "b", "rw", 0), RootDir, "b", 5)

SmallTrees == {LinkedTree, DeepTree}

Cycle(n) == [nodes |-> [k \in 1 .. n |-> k - 1],
             edges |-> {{k, (k + 1) % n} : k \in 0 .. n - 1}]

Path(n) == [nodes |-> [k \in 1 .. n |-> k - 1],
            edges |-> {{k, k + 1} : k \in 0 .. n - 2}]

\* A fifth of eleven nodes is three: an added edge leaves a prefix standing.
SmallStarts ==
  {[nodes |-> <<>>, edges |-> {}], load_type_graph(LinkedTree), Cycle(6), Path(11)}

SmallIds == 0 .. 6

SmallPairs == {{0, 1}, {1, 2}, {2, 3}, {3, 4}, {4, 5}, {0, 2}, {1, 4}, {0, 5}, {0, 6}}

SevenCycle == {Cycle(7)}
SevenIds   == 0 .. 6
SevenPairs == Cycle(7).edges

-----------------------------------------------------------------------------
VARIABLE role

RoleInit ==
  \/ /\ role = "tracker" /\ TrackerInit
     /\ g = [edges |-> Empty] /\ report = Empty /\ missed = {}
  \/ /\ role = "report" /\ MonitorInit
     /\ calls = 0 /\ t = from_graph([nodes |-> <<>>, edges |-> {}])

RoleNext ==
  \/ role = "tracker" /\ TrackerNext /\ UNCHANGED <<g, report, missed, role>>
  \/ /\ role = "report" /\ MonitorNext /\ UNCHANGED <<t, role>>
     /\ calls < 3 /\ calls' = calls + 1

RoleSpec == RoleInit /\ [][RoleNext]_<<t, calls, g, report, missed, role>>
=============================================================================
