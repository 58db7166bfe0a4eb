# sotFS in TLA+

A verification development for sotFS, a filesystem whose metadata is a typed
graph and whose POSIX operations are rewriting rules on it. The modules are
translated from the Rust sources; each definition that stands for code is
listed with its lines in `PROJECT.json` under `map`.

## 1. The system

| Part | State it keeps | Operations | Hard about it |
|---|---|---|---|
| Typed graph (`sotfs-graph/src/graph.rs`, `types.rs`) | pools of inodes, directories, capabilities, blocks, edges; six indexes kept by hand beside the pools; bytes, attributes, ACLs, quotas; id counters; provenance log; request context | insert, remove, rename an edge; lookups; admission; eight invariant checks | indexes that drift from the edges; ids; full pools |
| POSIX operations (`sotfs-ops/src/lib.rs`) | none of its own | create, mkdir, rmdir, link, unlink, rename, symlink, write, truncate, chmod, chown, xattrs, ACLs, quotas, fsck | link counts, cycles by rename, replacing renames that fail half-way, leftovers of removed objects, counters along `..` |
| Transactions (`sotfs-tx`) | a snapshot per transaction | begin, commit, rollback, `with_transaction` | nesting, invariants that fail after the closure |
| RCU graph (`sotfs-graph/src/rcu.rs`) | two copies of the graph, epochs, reader slots, a lock | `read`, `write` | readers between two atomic accesses, slots, the grace period |
| Arena (`sotfs-graph/src/arena.rs`) | slots, free list, bump pointer | `alloc`, `insert_at`, `remove`, iterate, clone | two interfaces over one free list, capacity |
| Provenance (`provenance.rs`) | the log | record, drain, queries Q1-Q6 | order and context of entries |
| Storage (`sotfs-storage`) | one redb file | save, load | atomicity, what is not saved |
| FUSE daemon (`sotfs-fuse/src/fs.rs`) | the mounted graph, open files, sidecar log | one callback per kernel request, persist, unmount | compound requests, errors that are swallowed, crash and remount |
| fsck (`sotfs-ops/src/lib.rs`) | none | seven checks over one graph | a depth-first search that shares its stack between starting points |
| Treewidth tracker (`sotfs-monitor/src/treewidth.rs`) | an undirected graph, an elimination ordering with the width of each step, a bound | load, recompute, four notifications of edits | a kept prefix of an ordering of an earlier graph |
| Curvature monitor (`curvature.rs`) | the last report | compute, update near the affected nodes | values carried over from an earlier graph |
| Projections (`deception.rs`) | none | passthrough, restrict, fabricate, redirect; lookup, read | names and inodes, hard links, `..` |
| Tools, export, experimental crate | none | printing | nothing |

**Interactions.** The daemon serialises callbacks with a mutex, puts the
request's identity into the graph's context (`set_cap_ctx`), resolves inode ids
to directory ids and calls one operation of `sotfs-ops`; an operation reads the
context for admission and for the provenance entries it appends. The operations
change the pools through the helpers of `graph.rs` and the indexes by hand.
Transactions and RCU wrap a whole graph and know nothing of its content. The
pools are arenas used through `insert_at` with ids that the graph issues.

**What makes each part correct.** The graph: indexes that mirror the edges,
link counts that mirror the entries, a tree rooted at `/`, ids that are issued
once. The operations: the POSIX namespace, atomic failures, attributes,
grants, quotas and blocks that follow their objects. Transactions: all or
nothing for whoever is outside. RCU: no lost write, no reader on a copy that
is being changed, calls that return. The daemon: names, log and image agree
after any remount. fsck: all it should find and nothing else. The tracker and
the report: what they keep is true of the graph as it is now. The projections:
each name leads where the policy says, and nowhere else.

## 2. The plan

In this order, the behaviour that most of the rest depends on first:

1. `TypeGraph`, `SotfsOps`, `Sotfs`: the graph, the operations, their state machine (done)
2. `SotfsProperties`: attributes, ACLs, contents, quotas, log (done)
3. `PosixNamespace` and `SotfsRefinement`: the abstract namespace, implemented by the graph (done)
4. `Gtxn` over `Sotfs`, with `AtomicStore` as its abstraction (done)
5. `Rcu`, `Arena` (done); `ArenaProofs`, `RcuProofs` (done)
6. `NamespaceProofs`, first part: types and freshness of ids (done)
7. `Daemon`: callbacks, persistence, crash, remount, over `SotfsProperties` (done)
8. `Fsck`, `Deception`, `Provenance` as algorithms over the graphs that the
   calls of `Sotfs` reach, with `MonitorProperties` (done)
9. `Elimination` and `Treewidth`, `Curvature`: the monitors that keep state (done)
10. `NamespaceProofs`: the namespace is well formed, for every order of calls
    (done); `RefinementProofs`: it implements `PosixNamespace` (done);
    `ObjectProofs`: attributes, ACLs, quotas, contents, blocks and the log (done)
11. `DaemonProofs`: what the daemon keeps over crashes and remounts (done);
    transactions against `AtomicStore`, in `RefinementProofs` (done);
    `MonitorProofs`: the curvature report is fresh, the projections show what
    they promise (done); `TreewidthProofs`: what the tracker keeps is true of
    the graph as it is (done)

## 3. Modules

- **`TypeGraph`** — the graph as one record with the field names of `struct
  TypeGraph`; helpers, lookups, admission, and the checks of
  `check_invariants`, one operator each. Walks over directories (a DFS with a
  visited set; a loop over `..`) are modelled by the least closed set that
  holds their start.
- **`SotfsOps`** — for each operation `op_ok`, the conjunction of what the code
  checks before it changes anything, and `op`, the graph it leaves. `rename`
  returns a pair, because it can fail after it has replaced the destination.
- **`Sotfs`** — the state machine: one action per operation, any argument.
  Callers either resolve a directory at the time of the call
  (`ResolvedHandles`) or may present any directory id ever issued. Its
  namespace properties are here.
- **`SotfsProperties`** — properties of attributes, ACLs, contents, quotas and
  provenance.
- **`PosixNamespace`** — the abstract namespace: a function from
  (directory, name) to objects. **`SotfsRefinement`** maps the graph to it.
- **`Gtxn`** — transactions over `Sotfs`: a stack of `with_transaction` calls
  and one manual `Gtxn`. **`AtomicStore`** is what a caller outside may see.
- **`Daemon`** — the mounted file system: each mutating callback with the
  context it sets, the directory it resolves, the operation it calls and the
  reply; `fsync` and `destroy` as the steps save, drain, write line by line;
  crashes between any two steps; I/O errors that nobody is told of; the next
  mount, which loads the image and rebuilds the name index. `history`,
  `disk_history`, `synced` and `faults` are history variables, read only by
  the properties.
- **`Rcu`** — readers and writers, each atomic access a step. Epochs are
  unbounded counters of which only the comparison with the writer's snapshot
  matters, so a stamp is *inactive*, *old* (not above the snapshot) or *new*.
  Objects stand for boxes, the value of one for the number of writes in it.
- **`Arena`** — a pool through `alloc` or through `insert_at`, or both
  (`Mixed`, which no run turns on: no caller mixes the two).
- **`Fsck`** — the verifier, as a function from graphs to reports. The search
  for a cycle is the recursive one of the code, with its visited set and the
  stack it leaves behind; the property compares it with the definition of a
  cycle by closed sets.
- **`Deception`** — the four projections, as functions from a graph and a
  policy to a view. An iteration over a `BTreeSet` is `InOrder`, and the loop
  of the walk is the least set that the walk does not leave. With
  `projected_lookup`, the inode that `projected_read`
  reads from, and the check of a view.
- **`Provenance`** — the queries Q1 to Q6 over a log with clock times.
- **`ProjectionProperties`**, **`MonitorProperties`** — properties of the
  projections, and of the verifier and the queries, stated of the graphs and
  logs that `Sotfs` reaches.
- **`Elimination`** — min-degree elimination, the skeleton of a graph,
  `compute_treewidth`. A neighbourhood is a set: the order of an adjacency
  array decides nothing until `MAX_DEGREE` (64) entries are in use.
  **`Treewidth`** — the incremental tracker, one action per notification. The
  dirty flags are set and cleared inside one notification, so they are an
  argument and not state.
- **`Curvature`** — the report over the graph of `Sotfs`, one action per call
  that has an `affected_nodes` function, as the tests of `curvature.rs` drive it. A
  curvature is an integer, a multiple of 1/20160, exact up to degree ten.
  `missed` is a history variable, read only by `ReportIsFresh`. The file systems
  a report starts from (`Trees`) are assumed to be what calls make of a new one;
  TLC evaluates that for the two of the run.
- **`MCSotfs`, `MCObjects`, `MCMonitors`, `MCGtxn`, `MCDaemon`** — the sets the
  runs use. `Calls` is an operator on the graph: in `MCObjects` it says which
  group of calls the user makes who is told by the root, the context and the
  log of the initial state, and a constraint bounds each user's ids; in
  `MCMonitors` a `role` separates the two monitors. The state spaces of the
  groups add up instead of multiplying. Steps past a constraint are still
  checked, but not continued.
- **`NamespaceProofs`, `ObjectProofs`** — theorems about
  `Sotfs` and the properties of `SotfsProperties`, each module on top of the one
  before. On top of them **`RefinementProofs`** (the abstract namespace, and
  transactions), **`DaemonProofs`** and **`MonitorProofs`** (curvature and
  projections).
  **`ArenaProofs`, `RcuProofs`, `TreewidthProofs`** — theorems about `Arena`,
  `Rcu` and `Treewidth`.

Operators whose name is that of another with a suffix (`walk_any`,
`ScanSlot_once`, ...) are mutants: a plausible mistake in the code that they
name. Each property is shown to notice one.

## 4. What the runs show

Deadlock checking is off throughout: a caller may stop calling, and the bounds
on issued ids end a behaviour. `NODE_CAPACITY` and `EDGE_CAPACITY` are out of
reach except in `full_pool`. The operations are run with directory ids that
callers look up for each call (`ResolvedHandles`), as the daemon does.

| Run | What it shows | Bounds |
|---|---|---|
| `namespace` | the tree stays a tree with exact counts, indexes and dot entries, nothing is lost, a failing rename changes nothing, and every call is one step of `PosixNamespace` or none; on each tree fsck finds exactly the cycles that one more entry closes, and views restrict, add and redirect as they should | three objects beside the root, nine edge ids, two names, `LINK_MAX` 2, symlinks included |
| `objects` | attributes, grants, quotas, contents, blocks and the log follow their objects; contexts confine; the queries on the log agree with each other; fsck reports only attributes of objects that are gone | five users: *attributes* (three inodes, six edges, two xattrs, two capabilities, one ACL, one byte), *quotas* (three inodes, nine edges, limits of 1 on nested directories, links, moves and replacing renames), *permissions* (two inodes, three ACLs with masks in different places, contexts live, revoked and absent), *contents* (three inodes, two blocks, links and replacing renames, writes at 0 and 2, sizes 0, 1 and 3), *audited* (the log on, five entries, two domains, one with the capability of an ACL) |
| `monitors` | the tracker's ordering is one of the graph with true widths; the report is fresh but for what a rename replaces | trackers of nothing, a small file system, a ring of six and a path of eleven, five edits; reports on a deep and a linked tree, three calls |
| `transactions` | transactions implement `AtomicStore` when nothing fails the checks | two levels of nesting, and a manual transaction |
| `rcu` | no write is lost, slots have one reader, no reader of a snapshot is left behind, no panic, calls return | two readers for two slots, two writers, three writes |
| `daemon` | names survive remounts, the sidecar follows the image and replays to the namespace, what fsync saved survives, entries name their requester, errors change nothing | one object beside the root, two names, two users, two log entries, two mounts, one fault |
| `arena` | the free list is exact and iteration sees every live slot | capacity four |

Why these are enough: the smallest cases of the namespace hazards need three
objects (a directory moved under another one, or onto one that is not empty; a
file with two links in two directories), two names (so that a rename can
replace), and one edge id more for each step of a behaviour; a rename that
closes a cycle needs two directories, one that leaves a stale index a third
step. The hazards of the daemon are about the order of persisting: one entry
before a save and one after it, one fault, and one mount after it. An object
is enough there because the operations are checked on their own. The tracker
runs everything again when more than a fifth of the nodes are dirty, and an
edge has at least two dirty ends: only from six nodes on does an edit keep a
prefix, and on the path of eleven an edit with three dirty nodes does. The
curvature of an edge depends on what is two steps away; the deep tree has a
file whose two names are further apart than that.

Runs that find the code at odds with what the repository says:

| Run | Counterexample |
|---|---|
| `full_pool` | past the capacity a creation succeeds without storing the inode, and the callback that asserts the opposite panics |
| `txn_invariants` | `with_transaction` keeps the changes when the checks fail |
| `rcu_grace` | a reader that arrives between the epoch and the swap sees the copy the next writer changes |
| `treewidth_fresh` | the third node of a ring of seven is removed: the first node was eliminated with width 2 and still is, at a bound of 2, where a fresh run of the remaining path has 1 |
| `curvature_stale` | `/b` and `/a/a/a/b` are one file; a directory is renamed onto `/b`, and the edge at the far end keeps the curvature it had when the file had two links |

Observations made while modelling, for which no run is kept. The models
contain the behaviour; the properties are stated so that they hold with it.

- `unlink` and `rmdir` leave xattrs with their `HasXattr` edges, ACL, grants,
  quota and bytes of the object behind; `check_no_dangling_edges` then fails.
  `NewObjectsStartClean` shows that they stay without effect.
- `tgt_node` looks up the block of a `PointsTo` edge among the inodes: the
  monitors take an inode with the id of a block for the block
  (`ReportIsFresh` leaves out the edges of such an inode once the block is
  gone), and `compute_treewidth` drops most `PointsTo` edges.
- fsck reports the attributes of removed files (`FsckReportsOnlyLostXattrs`),
  after legal calls. Its doc also lists capability monotonicity, which the
  code does not check.
- A redirect is given by name and kept by inode: every hard link of the file
  leads to the target, and so does what leads to that inode by another
  redirect (`RedirectReachesEveryLink`). A restricted view still shows the
  inode of the parent, by `..`. A made-up entry is shadowed by a real one.
- `check_indistinguishability` compares entries with all edges of a graph: a
  passthrough view of files with attributes or blocks counts as deviating.
- The curvature of every edge is above 1/4 by its formula; the comments
  and the name of a test expect negative values.
- `burst_detect` does not end for a window of 0, and finds nothing when the
  clock has gone back over the whole log.
- Fill edges beyond `MAX_DEGREE` are dropped without a word, so that on a
  graph with a node of more than 64 neighbours after fill a width can be too
  small; no instance here comes near.
- A rename does not move the quota charge of what it moves, though `types.rs`
  calls the counters cumulative for the subtree: `UsageFollowsSubtree` counts
  what is made and removed below the directory, not what is moved.
- `write_block`, the in-place update of an attribute and `set_quota` leave no
  provenance entry, though the log is described as a record of every mutation.
- `link` and a cross-directory `rename` do not check that their `DirId` still
  exists (`ResolvedHandles = FALSE`).
- `rollback` after `commit` undoes later work (`RollbackAfterCommit = TRUE`).
- `alloc` after `insert_at` can return an occupied slot (`Mixed = TRUE`).
- `fsync` replies ok when the save or the sidecar failed
  (`SyncedHistorySurvives` is about saves that worked).
- Entries that were drained when a write fails or the daemon crashes are lost
  (`AuditReplaysToNamespace` is about behaviours without such a fault).

**Fairness.** Only `Rcu` has liveness properties. A thread inside `read` or
`write` takes its next step eventually (weak fairness of each thread's steps
after the first): the code blocks only by spinning, and closures end. Starting
a call is not fair, and neither is taking the writer's lock: a compare-exchange
in a spin loop may lose every race, so `WritesReturn` starts where the lock is
held.

## 5. What is proved

With TLAPS, for all values of the constants:

- `NamespaceProofs!TypeCorrect` (`Spec => []TypeOK`) and `IdsAreFresh`
  (`Spec => IdsNeverReused`). `TypeOK` is inductive as it stands: the types of
  the fields, and that every id found anywhere was issued. There is one lemma
  per helper of `TypeGraph`, which says how it changes types and ids, and one
  per operation; the step theorem has one step per action. The assumptions are
  those of `TypeGraph` and `Sotfs` on the constants.
- `NamespaceProofs!NamespaceSound`, `FailedRenameLeavesNoTrace`,
  `NothingIsLost` (`NamespaceWellFormed`, `RenameFailureIsAtomic` and
  `NothingUnreachable`, always). The inductive invariant is `SoundState`:
  types, ids, the well-formed namespace, and that no more directory ids than
  inode ids were issued (mkdir takes one of each, so its directory finds room
  when its inode does). The proof splits well-formedness in two.
  `Indexed` (the edge pool against its three indexes) survives each helper, also
  inside an operation; `Tree` (pairing, dot entries, names, link counts, no
  cycle) only each operation as a whole, so there is one `...Tree` lemma per
  shape of operation and one `...Sound` lemma per operation. Operations on
  contents, attributes, ACLs and quotas do not touch what either speaks of
  (`SameTree`). For rename the point is the cycle check: the directories the
  walk from the moved directory visits (`KeepsClearOf`) are closed under
  "holds" and without the destination, so the one new edge closes no ring.
  Reachability then follows because in a finite graph a set of directories of
  which each is held by another in the set would contain a ring.
- `RefinementProofs!CallsImplementPosixNamespace` (`Spec =>
  ImplementsPosixNamespace`). The lemmas of `NamespaceProofs` also say what a
  call did to the entry edges: at most one was added, removed or moved
  (`OneEntryAtMost`). With `SoundState` the keys of entries are unique and every
  object but the root has one, and each shape is a step of the abstract tree.
  The abstract rename forbids that a directory ends up below itself; that the
  code's check excludes that across directories, and that within one directory
  no check is needed, is `NotBelow` and `ParentNotBelow`.

  These assume `PoolsHaveRoom`: callers look a directory up for each call
  (`ResolvedHandles`, what the FUSE adapter does), and the ids a behaviour may
  issue are below the capacities of the pools. The second is a limit of the
  code and not of the proof: `insert_at` refuses a slot past the capacity and
  its callers ignore that, and the run `full_pool` shows what comes of it. The
  cfg of the run `namespace` satisfies both.
- `ObjectProofs`, ten theorems for the properties of `SotfsProperties`.
  Its first part says who changes what: a frame lemma per helper and operation
  (`Leaves`, `Owners`), summed up in `WhoChangesWhat`, so that an invariant has
  to be shown again only for the calls that touch its fields.
  - `XattrsAreBacked`, from `XattrsExact`: attributes have one owner, one edge
    and one key per owner, and their ids were issued.
  - `ObjectsStartClean`, from `LeftoversIssued`: whatever is kept under an id,
    live or gone, is kept under one that was issued.
  - `AclsAreServed`, from `GrantsExact`: capabilities and `Grants` edges pair
    up, and those of an inode are the entries its ACL grants, in order. The
    code hands out capabilities in the order of the ACL; that this numbering
    is one to one is an argument about ranks in a finite set (`nth_granted`).
    `ContextConfines` rests on the same invariant: no capability holds GRANT.
  - `LimitsHold`, from `QuotasHeld`. Admission walks up `..` in the graph
    before the call, the charge in the graph after it: the two walks meet the
    same directories (`ChainsAgree`). `UsageIsTheSubtree` adds that the walk up
    from a directory meets exactly those of which it is a descendant
    (`ChainsAreAncestors`), so what the counter moves by is what came or went
    below.
  - `ContentsAreKept`, from `SizesExact` and `LeftoversIssued`.
  - `LogIsAppended`, and `LogTellsTheNamespace`, from `LogFits`: counting
    entries of an inode, a live directory was made and never removed, a live
    file has as many names as it was given less those taken away, what is gone
    has none, and no entry is about an id that was not issued.

  - `BlocksGoWithTheirFile`, from `BlocksExact`: block ids are issued, a block is
    held by one `PointsTo` edge of a live inode, and `inode_points_to` lists
    those edges. It is not so for all calls: `write_block` accepts a directory,
    and `rmdir` frees nothing. So the theorem says it of the behaviours in which
    at every state only files, or the root, have blocks (`OnlyFilesHaveBlocks`);
    the run `objects` has such behaviours, its users of blocks make no
    directories.

  The ten assume `PoolsHaveRoom`; `AclsAreServed`, `ContextConfines` and
  `BlocksGoWithTheirFile` also that there is room for capabilities and blocks
  (`CapsHaveRoom`): past the capacity `grant_all` leaves edges and indexes
  without one. Of the inputs they use what
  the assumptions of `Sotfs` say: lengths and limits are numbers, an ACL is a
  sequence of entries with a tag and rights.
- `RcuProofs!RcuTyped`, `WritesKept`, `SlotsExclusive`, `GracePeriod` and
  `NoPanic`, for any number of readers, writers, slots and writes, all five
  from one inductive invariant of the algorithm. To the types it adds that one
  writer at most is past the lock and that what it remembers (the index of the
  active copy, the copy it made) is still so (`OneWriter`, `WriterKnows`,
  `ObjectsCounted`); that a slot is taken by the one reader that wrote it
  (`Owned`); that a reader of the old copy from before the snapshot sits at or
  after the slot that the scan has come to (`ScanCovers`); and, for the panic,
  that from every position of the array on there are as many slots as readers
  that have come that far (`RoomFor`). The lemma about a step has one step per
  action and one per conjunct that the action can disturb.
- `ArenaProofs!ArenaTyped`, `FreeListIsExact`, `IterationIsComplete`. The
  inductive invariant adds to the properties a count: live slots plus listed
  ones never exceed the bump pointer. It is needed for the case that the free
  list is full, which would otherwise drop a slot.

- `RefinementProofs`, for transactions. `GraphsSound`: the live graph and every
  snapshot on the stack or kept by a `Gtxn` are sound; a call changes the live
  one and a rollback puts a snapshot back, so `TransactionsKeepTheTree`. The
  refinement of `AtomicStore` needs that the check after a closure passes. Six of
  its eight parts follow from soundness; dangling edges and reference counts do
  not, and the code breaks the first after legal calls (the run
  `txn_invariants`). `SoundTransactionsAreAtomic` has them as a hypothesis on the
  states (`EdgesLead`); `NamespaceTransactionsAreAtomic` has callers who make no
  edges besides entries instead (`OnlyEntries`: no blocks, xattrs or ACLs), as
  in the run `transactions`. Both exclude a rollback after a commit, which the
  code allows and which is no step of an atomic store.
- `DaemonProofs`, seven theorems from one inductive invariant, `DaemonInv`:
  - `GraphInv`: the graph is sound, indexed and logs in the current context.
    Callbacks are reduced to what they call (`Served`): a call of `Sotfs` with
    the context of the request, or one of its failures. This gives
    `CallbacksReply`, and with `Loads` (what a mount would load is sound; the
    rebuilt index is the saved one, `RebuiltNames`) `RemountsKeepNames`.
  - `HistoryInv`: `synced`, `disk_history` and `history` are prefixes of one
    another, and between a save and the reply the last two are equal unless the
    save failed. `SyncedCallsSurvive`.
  - `BufferInv`, `SidecarInv`: drained lines exist only while they are written,
    and sidecar, drained lines and log are a subsequence of `history`. Not a
    prefix: lines of a failed write or of a crash are lost for good.
    `SidecarIsBehindTheImage`.
  - `AuditInv`: without such losses the three together fit the graph (`Fits`,
    the invariant behind `LogTellsTheNamespace`), and after a crash what the
    next mount loads fits the sidecar. `SidecarTellsTheNamespace`, for a daemon
    with a sidecar (`Sidecar`).

  `EntriesNameTheirRequester` and `ErrorsChangeNoTree` are about one step each,
  from a state with `DaemonInv`; the second needs that `truncate` cannot fail
  after what `setattr` tested. All seven assume `MountsHaveRoom` (ids a behaviour
  may issue are below the capacities; `full_pool` is the case where they are
  not), and that `setattr` is asked for modes, sizes and users of the right type
  (`RequestAssumption`).
- `MonitorProofs!ReportFollowsTheGraph`. The curvature of an edge depends on
  the neighbourhoods of its two ends. `Edits(k, h, W)` says that a step of the
  graph makes and takes only edges whose ends are in `W`, so that nodes outside
  `W` keep their neighbours; there is one such lemma per call. Then an edge
  whose value moved has an end in `W`, or new edges besides, and if each node of
  `W` is affected, next to an affected node by an edge that is still there, or
  reported as missed (`Covered`), the two steps of the recomputation reach that
  edge (`RecomputedIsFresh`). The invariant is `ReportInv`: the report is fresh
  but at missed nodes (`FreshBut`), the graph is sound, and `inode_points_to`
  lists only issued edges and no block of another file (`PointersOwned`), so that
  a removed file takes only its own edges along. It assumes `PoolsHaveRoom`, and
  of the first graphs what `CallsMakeFileSystems` shows of every graph that
  calls make of a new one.
- `MonitorProofs!RestrictShowsTheSubtree`, `MonitorProofs!BaitIsExact`. A
  listing meets each entry of a directory once (`InOrderMeetsAll`, from the
  bijection between a finite set of ids and the ranks in it), so that no name
  occurs twice in it. The walk down the entries from `r` and the chain of ".."
  up to `r` meet the same directories (`VisitedAreBelow`, from
  `ChainsAreAncestors` of `NamespaceProofs`); the inodes in sight are then those
  named below `r`, with `r` and its parent (`RestrictedInodes`). A redirect
  changes exactly the entries with its name, and for each file they led to there
  is a last such entry, which decides (`LastOf`, `RedirectsAre`); a made-up
  entry comes after the real ones, so that a lookup meets it only without one of
  the same name (`FabricatedIs`, `BaitIsShadowed`). Both are about every graph
  that is `Sound`, and assume what makes each reachable one so.

- `TreewidthProofs!OrderingIsComplete`, `WidthsAreExact`,
  `BoundCoversEveryStep`, from one inductive invariant, `TrackerInv`: the
  ordering holds each node once, and each width is the one its step has when the
  nodes before it are eliminated from the graph as it is (`Coherent`). The
  argument is about one fact of elimination: after the nodes `X` are gone, two
  others are joined just if they are connected over nodes of `X` (`FillStep`).
  A width then depends only on which nodes went before and on their neighbours
  (`SameWidth`), not on the order they went in. An edit marks each node that
  stays and whose neighbours change (`Marks`, one lemma per notification), and
  no position before the one that an update resumes at is marked
  (`EarliestIs`). So the kept prefix keeps its widths, and the elimination that
  resumes after it computes the others (`ResumeIs`); nodes that are gone may
  stay in the ordering only where nothing is connected with them any more. What
  the property calls `Merged`, grown in `k` passes, is the whole component:
  until it is, each pass adds a node (`MergedIs`). The recursive functions of
  `Elimination` are shown to exist as runs and to agree with one (`GreedyIs`,
  `ReplayIs`); induction goes along an interval of positions (`UpTo`, from the
  least element of a set). Assumed is what `Treewidth` says of its constants:
  node ids are numbers, and the nodes of a first graph are distinct.

Model-checked only: liveness (outside the prover's reach), and what depends on
a recursion over data that no invariant of a position describes: the
depth-first search of `Fsck` (`FsckFindsCycles`, `FsckReportsOnlyLostXattrs`)
and the bursts and sums of the queries (`QueriesAgree`).

## 6. What is not modelled

Time stamps and formatting; the transaction, version and capability-derivation
pools, which no operation fills; weak memory orders (each atomic access of
`Rcu` is sequentially consistent); the redb file format; the table of open
files, which the daemon fills and never reads. What happens to a daemon after
a panic is left open: the model stops there. The byte contents of
`write_data` are short sequences; a block is its reference count. Ids are
unbounded naturals: the code's are `u64`.

Of the monitors: the mean, extremes and anomalies of a curvature report
(floating-point statistics of its values), the ready-made deception profiles
(data), `check_indistinguishability`, `calibrate_timing` and
`check_honeypot_access` (a formula or a string match each, without state).
`load_type_graph` on a tracker in use, the fill edges a tracker records and
never reads, and the limits `MAX_NODES` and `MAX_DEGREE` (assertions).

Whole parts: the command-line tools (argument parsing and printing around the
storage crate), the graph export (formatting, no state), the experimental
crate (type-state handles whose rules the Rust compiler enforces; nothing uses
it), and the repository's own TLA+ and Coq models (design, not code).
