------------------------------- MODULE Daemon -------------------------------
(***************************************************************************)
(* The FUSE daemon (sotfs-fuse/src/fs.rs) with its storage                 *)
(* (sotfs-storage/src/backend.rs): the callbacks that change the graph, the *)
(* steps of persist and persist_prov_log, unmount, crash and remount.      *)
(* Callbacks take &mut self and run one at a time.  The table of open      *)
(* files is left out: no callback ever reads it.                           *)
(***************************************************************************)
EXTENDS SotfsProperties

CONSTANTS
  Sidecar,              \* TRUE: SOTFS_PROV_SIDECAR names a file
  SetattrRequests,      \* setattr calls: each field a set, empty if not given
  MaxRecorded, MaxMounts, MaxFaults \* bounds: entries recorded, mounts, faults

ASSUME RequestAssumption ==
  \A a \in SetattrRequests : /\ a.mode \subseteq Modes /\ a.size \subseteq Nat
                              /\ a.uid \cup a.gid \subseteq Users

VARIABLES
  phase,      \* "up", the steps of persisting, "down", "panicked"
  unmounting, \* TRUE: destroy is persisting, and not fsync
  pending,    \* drained entries not yet written to the sidecar
  disk,       \* the image the redb file holds, if any
  sidecar,    \* the lines of the sidecar file
  last,       \* who asked for a callback that just returned, and the reply
  mounts, recorded, \* mounts and log entries so far
  history,      \* what the graph's operations recorded, since the first mount
  disk_history, \* the history of the image on disk
  synced,       \* the history when fsync last replied after a save
  faults        \* what went wrong: a save, a write, a crash half-way

persisting == <<unmounting, pending, disk, sidecar>>
counters   == <<mounts, recorded>>
ghosts     == <<disk_history, synced, faults>>
vars == <<g, phase, persisting, last, counters, history, ghosts>>

NoReply == [uid |-> 0, res |-> "none"]

-----------------------------------------------------------------------------
(***************************************************************************)
(* Callbacks.  The kernel names a directory by the number of its inode,    *)
(* any inode it has been told of; it resolves "." and ".." itself.         *)
(***************************************************************************)
\* The operation runs in whatever context the last request left.
ctx_not_set(u) == g

ctx_from_req(u) == [g EXCEPT !.cap_ctx = [cap_id |-> None, domain_id |-> u]]

Recorded(h) ==
  SubSeq(h.prov_log.entries, Len(g.prov_log.entries) + 1, Len(h.prov_log.entries))

Reply(u, res, h) ==
  /\ phase = "up" /\ Within(h)
  /\ g' = h
  /\ recorded' = recorded + Len(Recorded(h)) /\ recorded' <= MaxRecorded
  /\ history' = history \o Recorded(h)
  /\ last' = [uid |-> u, res |-> res]
  /\ phase' = IF res = "panic" THEN "panicked" ELSE "up"
  /\ UNCHANGED <<persisting, mounts, ghosts>>

\* The operation refuses, or it leaves graph h.
Answer(u, ok, h) ==
  IF ok THEN Reply(u, "ok", h) ELSE Reply(u, "error", ctx_from_req(u))

\* The reply carries the attributes of inode i: get_inode(i).expect(..).
AnswerEntry(u, ok, h, i) ==
  IF ok /\ i \notin DOMAIN h.inodes THEN Reply(u, "panic", h) ELSE Answer(u, ok, h)

OnMkdir ==
  /\ "mkdir" \in Calls(g)
  /\ \E p \in InodeIds, n \in Names, m \in Modes, u \in Users :
     \E d \in {dir_for_inode(g, p)}, h \in {ctx_from_req(u)} :
       AnswerEntry(u, d # None /\ new_entry_ok(h, d, n), mkdir(h, d, n, m, u),
                   g.next_inode)

OnCreate ==
  /\ "create_file" \in Calls(g)
  /\ \E p \in InodeIds, n \in Names, m \in Modes, u \in Users :
     \E d \in {dir_for_inode(g, p)}, h \in {ctx_from_req(u)} :
       AnswerEntry(u, d # None /\ new_entry_ok(h, d, n),
                   create_file(h, d, n, m, u), g.next_inode)

OnSymlink ==
  /\ "symlink" \in Calls(g)
  /\ \E p \in InodeIds, n \in Names, t \in Targets, u \in Users :
     \E d \in {dir_for_inode(g, p)}, h \in {ctx_from_req(u)} :
       AnswerEntry(u, d # None /\ new_entry_ok(h, d, n), symlink(h, d, n, t, u),
                   g.next_inode)

OnLink ==
  /\ "link" \in Calls(g)
  /\ \E i, p \in InodeIds, n \in Names, u \in Users :
     \E d \in {dir_for_inode(g, p)}, h \in {ctx_from_req(u)} :
       AnswerEntry(u, d # None /\ link_ok(h, d, n, i), link(h, d, n, i), i)

OnRmdir ==
  /\ "rmdir" \in Calls(g)
  /\ \E p \in InodeIds, n \in Names, u \in Users :
     \E d \in {dir_for_inode(g, p)}, h \in {ctx_from_req(u)} :
       Answer(u, d # None /\ rmdir_ok(h, d, n), rmdir(h, d, n))

OnUnlink ==
  /\ "unlink" \in Calls(g)
  /\ \E p \in InodeIds, n \in Names, u \in Users :
     \E d \in {dir_for_inode(g, p)}, h \in {ctx_from_req(u)} :
       Answer(u, d # None /\ unlink_ok(h, d, n), unlink(h, d, n))

\* On an error the graph is what the operation left of it.
AnswerResult(u, r) == Reply(u, IF r.ok THEN "ok" ELSE "error", r.graph)

OnRename ==
  /\ "rename" \in Calls(g)
  /\ \E p, q \in InodeIds, src, dst \in Names, u \in Users :
     \E sd \in {dir_for_inode(g, p)}, dd \in {dir_for_inode(g, q)},
        h \in {ctx_from_req(u)} :
       IF None \in {sd, dd} THEN AnswerResult(u, Fail(h))
       ELSE \E r \in {rename(h, sd, src, dd, dst)} : AnswerResult(u, r)

OnWrite ==
  /\ "write_data" \in Calls(g)
  /\ \E i \in InodeIds, w \in Writes, u \in Users :
     \E h \in {ctx_from_req(u)} :
       Answer(u, regular_ok(h, i), write_data(h, i, w[1], w[2]))

OnSetxattr ==
  /\ "setxattr" \in Calls(g)
  /\ \E i \in InodeIds, k \in XattrKeys, v \in Values, u \in Users :
     \E h \in {ctx_from_req(u)} :
       Answer(u, setxattr_ok(h, i), setxattr(h, i, k, v))

OnRemovexattr ==
  /\ "removexattr" \in Calls(g)
  /\ \E i \in InodeIds, k \in XattrKeys, u \in Users :
     \E h \in {ctx_from_req(u)} :
       Answer(u, removexattr_ok(h, i, k), removexattr(h, i, k))

\* One change of a setattr, if it was asked for and the earlier ones worked.
Then(r, given, ok, h) ==
  IF given = {} \/ ~r.ok THEN r ELSE IF ok THEN Done(h) ELSE Fail(r.graph)

The(S, default) == IF S = {} THEN default ELSE CHOOSE x \in S : TRUE

\* setattr: the mode, the owner and the size in turn; the changes before the
\* one that fails stay.
setattr(h, i, a) ==
  LET r1 == Then(Done(h), a.mode, attr_ok(h, i), chmod(h, i, The(a.mode, 0)))
      h1 == r1.graph
      r2 == Then(r1, a.uid \cup a.gid, attr_ok(h1, i),
                 chown(h1, i, The(a.uid, h1.inodes[i].uid),
                              The(a.gid, h1.inodes[i].gid)))
      h2 == r2.graph
      r3 == Then(r2, a.size, regular_ok(h2, i), truncate(h2, i, The(a.size, 0)))
  IN [r3 EXCEPT !.ok = @ /\ i \in DOMAIN h.inodes]

OnSetattr ==
  /\ "setattr" \in Calls(g)
  /\ \E i \in InodeIds, a \in SetattrRequests, u \in Users :
     \E r \in {setattr(ctx_from_req(u), i, a)} : AnswerResult(u, r)

Callback ==
  \/ OnMkdir \/ OnCreate \/ OnSymlink \/ OnLink \/ OnRmdir \/ OnUnlink
  \/ OnRename \/ OnWrite \/ OnSetxattr \/ OnRemovexattr \/ OnSetattr

-----------------------------------------------------------------------------
(***************************************************************************)
(* fsync and destroy: persist, then persist_prov_log; no error of either   *)
(* reaches the reply.                                                      *)
(***************************************************************************)
\* What serde writes: the index, the log and the context are skipped.
Saved(h) ==
  [h EXCEPT !.dir_name_idx = Empty, !.prov_log = NoLog, !.cap_ctx = AnonymousCtx]

\* Only the log is written, as for a datasync.
Persist_log_only(destroy) ==
  /\ phase = "up"
  /\ phase' = "draining" /\ unmounting' = destroy /\ last' = NoReply
  /\ UNCHANGED <<g, pending, disk, sidecar, counters, history, ghosts>>

Persist(destroy) ==
  /\ phase = "up"
  /\ phase' = "saving" /\ unmounting' = destroy /\ last' = NoReply
  /\ UNCHANGED <<g, pending, disk, sidecar, counters, history, ghosts>>

OnFsync   == Persist(FALSE)
OnDestroy == Persist(TRUE)

\* An image that exists is not written again.
Save_once ==
  /\ phase = "saving" /\ phase' = "draining"
  /\ disk' = IF disk = {} THEN {Saved(g)} ELSE disk
  /\ disk_history' = IF disk = {} THEN history ELSE disk_history
  /\ UNCHANGED <<g, unmounting, pending, sidecar, last, counters, history, synced,
                 faults>>

\* One redb transaction: all of the image or nothing.
Save ==
  /\ phase = "saving" /\ phase' = "draining"
  /\ disk' = {Saved(g)} /\ disk_history' = history
  /\ UNCHANGED <<g, unmounting, pending, sidecar, last, counters, history, synced,
                 faults>>

Note(f) == faults' = faults \cup f /\ Cardinality(faults') <= MaxFaults

SaveFails ==
  /\ phase = "saving" /\ phase' = "draining"
  /\ Note({"save"})
  /\ UNCHANGED <<g, persisting, last, counters, history, disk_history, synced>>

\* The log is read but not emptied.
Drain_copying ==
  /\ phase = "draining" /\ phase' = "writing"
  /\ pending' = IF Sidecar THEN Log ELSE pending
  /\ UNCHANGED <<g, unmounting, disk, sidecar, last, counters, history, ghosts>>

\* The log is emptied before anything is written.
Drain ==
  /\ phase = "draining" /\ phase' = "writing"
  /\ IF Sidecar
     THEN pending' = Log /\ g' = [g EXCEPT !.prov_log.entries = <<>>]
     ELSE UNCHANGED <<g, pending>>
  /\ UNCHANGED <<unmounting, disk, sidecar, last, counters, history, ghosts>>

WriteLine ==
  /\ phase = "writing" /\ pending # <<>>
  /\ sidecar' = Append(sidecar, Head(pending)) /\ pending' = Tail(pending)
  /\ UNCHANGED <<g, phase, unmounting, disk, last, counters, history, ghosts>>

\* The file cannot be opened or a write fails: the other entries are dropped.
WriteFails ==
  /\ phase = "writing" /\ pending # <<>>
  /\ pending' = <<>> /\ Note({"write"})
  /\ UNCHANGED <<g, phase, unmounting, disk, sidecar, last, counters, history,
                 disk_history, synced>>

\* reply.ok(), whatever happened.
FsyncReplies ==
  /\ phase = "writing" /\ pending = <<>> /\ ~unmounting
  /\ phase' = "up"
  /\ synced' = IF "save" \in faults THEN synced ELSE history
  /\ UNCHANGED <<g, persisting, last, counters, history, disk_history, faults>>

-----------------------------------------------------------------------------
(***************************************************************************)
(* The end of a mount and the next one.                                    *)
(***************************************************************************)
NewGraph == new_graph(CHOOSE m \in Modes : TRUE, CHOOSE u \in Users : TRUE)

\* What was in memory is gone.
GoDown ==
  /\ phase' = "down" /\ g' = NewGraph
  /\ pending' = <<>> /\ unmounting' = FALSE /\ last' = NoReply
  /\ UNCHANGED <<disk, sidecar, counters, history, disk_history, synced>>

Unmounted ==
  /\ phase = "writing" /\ pending = <<>> /\ unmounting
  /\ GoDown /\ UNCHANGED faults

\* "crash" is noted when it separates the saved image from its entries.
Crash ==
  /\ phase \notin {"down", "panicked"} /\ GoDown
  /\ Note(IF phase \in {"draining", "writing"} THEN {"crash"} ELSE {})

\* The index is not rebuilt.
load_without_rebuild(image) == image

load(image) == rebuild_dir_name_idx(image)

\* with_db: the stored graph, or a new one; then enable_prov_log.
Mount ==
  /\ phase = "down" /\ mounts < MaxMounts
  /\ LET loaded == IF disk = {} THEN NewGraph
                   ELSE load(CHOOSE image \in disk : TRUE)
     IN g' = [loaded EXCEPT !.prov_log.on = Logging]
  /\ phase' = "up" /\ mounts' = mounts + 1 /\ history' = disk_history
  /\ UNCHANGED <<persisting, last, recorded, ghosts>>

DaemonInit ==
  /\ Init
  /\ phase = "up" /\ unmounting = FALSE /\ pending = <<>>
  /\ disk = {} /\ sidecar = <<>> /\ last = NoReply /\ mounts = 1 /\ recorded = 0
  /\ history = <<>> /\ disk_history = <<>> /\ synced = <<>> /\ faults = {}

DaemonNext ==
  \/ Callback
  \/ OnFsync \/ OnDestroy \/ Save \/ SaveFails \/ Drain \/ WriteLine \/ WriteFails
  \/ FsyncReplies \/ Unmounted \/ Crash \/ Mount

DaemonSpec == DaemonInit /\ [][DaemonNext]_vars

-----------------------------------------------------------------------------
(***************************************************************************)
(* Properties.                                                             *)
(***************************************************************************)

\* dir_name_idx is not saved: after every remount, and all that is done after
\* it, a lookup through the index finds for each name what a scan of the
\* directory does (it falls back to the scan only while the index is empty),
\* and the graph is as well formed as before.
NamesSurviveRemount ==
  phase \notin {"down", "panicked"} =>
    /\ WellFormed(g)
    /\ \A d \in DOMAIN g.dirs, n \in AllNames : lookup_name(g, d, n) = scan_name(g, d, n)

\* SOTFS_PROV_SIDECAR: "the provenance log is drained to this path": as long
\* as no I/O fails and no crash falls between the save and the last line, the
\* lines with what is still in memory replay to the mounted namespace, across
\* any number of unmounts, crashes and remounts.
AuditReplaysToNamespace ==
  Logging /\ faults = {} /\ phase \notin {"down", "panicked"} =>
    Replays(sidecar \o pending \o Log, g)

\* s is t with entries left out.
Subsequence(s, t) ==
  \E f \in [DOMAIN s -> DOMAIN t] : \A j, k \in DOMAIN s :
    s[j] = t[f[j]] /\ (j < k => f[j] < f[k])

\* persist runs before persist_prov_log: the sidecar is never ahead of the
\* image, so that the ids in it do not come to mean other objects after a
\* crash; nor does it hold a line twice or out of order.
SidecarFollowsDisk ==
  "save" \notin faults => Subsequence(sidecar, disk_history)

\* What fsync has replied for, after saves that worked, is in the graph of
\* every later moment, whatever crashes come.
SyncedHistorySurvives ==
  phase \notin {"down", "panicked"} =>
    /\ Len(synced) <= Len(history)
    /\ SubSeq(history, 1, Len(synced)) = synced

\* "Each Linux uid acts as its own security domain": an entry names the user
\* whose request made it, not that of an earlier request.
EntriesNameTheRequester ==
  [][ \A k \in Len(history) + 1 .. Len(history') :
        history'[k].domain = last'.uid ]_vars

\* An error reply means that nothing was done, but for a setattr: of one that
\* fails, the mode and the owner may have been set, and nothing else.
ErrorsLeaveTheTree ==
  [][ last'.res = "error" /\ phase = "up" /\ phase' = "up" =>
        LET same(i) == [g'.inodes[i] EXCEPT !.mode = g.inodes[i].mode,
                                            !.uid  = g.inodes[i].uid,
                                            !.gid  = g.inodes[i].gid]
        IN /\ DOMAIN g'.inodes = DOMAIN g.inodes
           /\ \A i \in DOMAIN g.inodes : same(i) = g.inodes[i]
           /\ g' = [g EXCEPT !.inodes = g'.inodes, !.cap_ctx = g'.cap_ctx,
                             !.prov_log = g'.prov_log] ]_vars

\* The assertions of the callbacks, "mkdir returned unknown inode" and the
\* like: an operation that succeeded has stored the inode it returns.
NoCallbackPanics == phase # "panicked"
=============================================================================
