-------------------------- MODULE SotfsProperties --------------------------
(***************************************************************************)
(* What the calls of Sotfs promise about extended attributes, ACLs and     *)
(* capabilities, file contents and blocks, quotas and the provenance log.  *)
(***************************************************************************)
EXTENDS Sotfs

-----------------------------------------------------------------------------
(***************************************************************************)
(* Extended attributes, ACLs and capabilities.                             *)
(***************************************************************************)
EdgesOf(h, kind) == {e \in DOMAIN h.edges : h.edges[e].kind = kind}

\* inode_xattrs, the xattr pool and the HasXattr edges are three records of
\* one relation: each attribute has one owner and exactly one edge from it, no
\* edge outlives its attribute, and no owner has two attributes with one key
\* (getxattr returns the first it finds).  setxattr and removexattr keep them
\* in step by hand, also for an inode that unlink has already collected.
XattrsBackedByEdges ==
  LET owned == {p \in (DOMAIN g.inode_xattrs) \X (DOMAIN g.xattrs) :
                  p[2] \in g.inode_xattrs[p[1]]}
      linked(e) == <<g.edges[e].src, g.edges[e].tgt>>
  IN /\ \A i \in DOMAIN g.inode_xattrs : g.inode_xattrs[i] \subseteq DOMAIN g.xattrs
     /\ {linked(e) : e \in EdgesOf(g, "HasXattr")} = owned
     /\ \A e, f \in EdgesOf(g, "HasXattr") : linked(e) = linked(f) => e = f
     /\ \A x \in DOMAIN g.xattrs : \E p \in owned : p[2] = x
     /\ \A p, q \in owned : p[2] = q[2] => p = q
     /\ \A i \in DOMAIN g.inode_xattrs, k \in XattrKeys :
          Cardinality(xattrs_with_key(g, i, k)) <= 1

\* The doc of setacl: each ACL entry with rights left after the mask has
\* exactly one capability with one Grants edge to the inode, and repeated
\* calls leave no orphan capability behind.
GrantsMatchAcls ==
  LET granting(i, r) == {e \in EdgesOf(g, "Grants") :
                           g.edges[e].tgt = i /\ g.caps[g.edges[e].src] = r}
      entitled(i, r) == {k \in granted(g.acls[i]) :
                           effective_rights(g.acls[i], g.acls[i][k]) = r}
  IN /\ DOMAIN g.cap_grants = DOMAIN g.caps
     /\ \A c \in DOMAIN g.caps :
          /\ g.cap_grants[c] \in EdgesOf(g, "Grants")
          /\ g.edges[g.cap_grants[c]].src = c
     /\ \A e \in EdgesOf(g, "Grants") :
          /\ g.edges[e].src \in DOMAIN g.caps
          /\ g.cap_grants[g.edges[e].src] = e
          /\ g.edges[e].tgt \in DOMAIN g.acls
     /\ \A i \in DOMAIN g.acls, r \in SUBSET AclRights :
          r # {} => Cardinality(granting(i, r)) = Cardinality(entitled(i, r))

\* require_cap: under a capability that an ACL made, nothing can be done that
\* needs GRANT (no ACL, quota, mode or owner changes: an ACL cannot be used to
\* widen itself), and under one that is revoked or cannot write nothing
\* changes at all, although setacl may have run in between.
ConfinedByContext ==
  [][ LET c == g.cap_ctx.cap_id
          mute == c \notin DOMAIN g.caps \/ "WRITE" \notin g.caps[c]
      IN c # None =>
           /\ g'.acls = g.acls /\ g'.caps = g.caps
           /\ DOMAIN g'.quotas = DOMAIN g.quotas
           /\ \A i \in DOMAIN g.inodes \cap DOMAIN g'.inodes :
                \A f \in {"mode", "uid", "gid"} : g'.inodes[i][f] = g.inodes[i][f]
           /\ mute => g' = [g EXCEPT !.cap_ctx = g'.cap_ctx] ]_g

\* What unlink and rmdir leave behind under an id (attributes, an ACL with its
\* grants, contents, a symlink target, a quota) never shows up on an object
\* that is created later.
NewObjectsStartClean ==
  [][ /\ \A i \in DOMAIN g'.inodes \ DOMAIN g.inodes :
           /\ i \notin DOMAIN g.inode_xattrs \cup DOMAIN g.acls
           /\ i \notin DOMAIN g.file_data \cup DOMAIN g.symlink_targets
           /\ \A e \in EdgesOf(g, "Grants") : g.edges[e].tgt # i
      /\ \A d \in DOMAIN g'.dirs \ DOMAIN g.dirs : d \notin DOMAIN g.quotas ]_g

-----------------------------------------------------------------------------
(***************************************************************************)
(* Contents and blocks.                                                    *)
(***************************************************************************)

\* A file gets shorter only by losing its tail, never by a write before its
\* end; no call touches the bytes of two files; and the size that is reported
\* stays the length of the bytes, whatever mix of writes with holes and
\* truncations there was.
ShrinkingKeepsThePrefix ==
  [][ LET changed == {i \in DOMAIN g'.file_data : FileBytes(g', i) # FileBytes(g, i)}
      IN /\ Cardinality(changed) <= 1
         /\ \A i \in changed :
              LET old == FileBytes(g, i)
                  new == FileBytes(g', i)
              IN Len(new) < Len(old) => new = SubSeq(old, 1, Len(new))
         /\ \A i \in DOMAIN g'.inodes : g'.inodes[i].vtype = "Regular" =>
              g'.inodes[i].size = Len(FileBytes(g', i)) ]_g

\* check_block_refcount, and what it trusts: inode_points_to holds exactly the
\* PointsTo edges, a block lives as long as something points to it, and the
\* blocks of a file go with its last link (and not before), also when the
\* last link is one that rename replaces.
BlocksFollowTheirFile ==
  LET P == EdgesOf(g, "PointsTo")
  IN /\ check_block_refcount(g)
     /\ \A e \in P : /\ g.edges[e].tgt \in DOMAIN g.blocks
                     /\ g.edges[e].src \in DOMAIN g.inodes
                     /\ e \in SetAt(g.inode_points_to, g.edges[e].src)
     /\ \A i \in DOMAIN g.inode_points_to :
          g.inode_points_to[i] = {e \in P : g.edges[e].src = i}
     /\ \A b \in DOMAIN g.blocks : \E e \in P : g.edges[e].tgt = b

-----------------------------------------------------------------------------
(***************************************************************************)
(* Quotas.                                                                 *)
(***************************************************************************)
Below(h, q) == {d \in DOMAIN h.dirs : is_ancestor(h, q, d)}

\* The inodes with a name in the subtree of directory q, q itself left out.
Subtree(h, q) ==
  {h.edges[e].tgt : e \in {x \in UserEdges(h) : h.edges[x].src \in Below(h, q)}}

\* check_quota_inode tests every quota on the path to the root, so no creation
\* takes a subtree past a limit set anywhere above it.
QuotaWithinLimit ==
  \A q \in DOMAIN g.quotas :
    g.quotas[q].limit = 0 \/ g.quotas[q].usage <= g.quotas[q].limit

\* types.rs of Quota: the counter of each quota directory is cumulative for
\* its entire subtree: until set_quota resets it, it moves by the inodes that
\* are made and that go for good below the directory, whichever of their names
\* went last and also when a rename replaces them (down to 0: what was there
\* before the quota was set is not counted).  What a rename or a link only
\* brings into the subtree or takes out of it charges nobody.
UsageFollowsSubtree ==
  [][ \A q \in DOMAIN g.quotas \cap DOMAIN g.dirs \cap DOMAIN g'.dirs :
        LET made == Subtree(g', q) \ DOMAIN g.inodes
            gone == Subtree(g, q) \ DOMAIN g'.inodes
        IN \/ \E n \in Limits : g' = set_quota(g, q, n)
           \/ g'.quotas[q] = charge(g.quotas[q], Cardinality(made) - Cardinality(gone)) ]_g

-----------------------------------------------------------------------------
(***************************************************************************)
(* The provenance log.                                                     *)
(***************************************************************************)
Log == g.prov_log.entries

Logged(log, ops, i) ==
  Cardinality({k \in DOMAIN log : log[k].op \in ops /\ log[k].inode = i})

\* The log tells which objects of h exist and how many links each file has.
Replays(log, h) ==
  \A i \in 2 .. h.next_inode - 1 :
    LET links == Logged(log, {"Create", "Symlink", "Link"}, i)
                   - Logged(log, {"Unlink"}, i)
    IN IF Logged(log, {"Mkdir"}, i) > 0
       THEN i \in DOMAIN h.inodes <=> Logged(log, {"Rmdir"}, i) = 0
       ELSE /\ i \in DOMAIN h.inodes <=> links > 0
            /\ i \in DOMAIN h.inodes => h.inodes[i].link_count = links

\* The log alone tells the namespace: nothing is created, linked or removed
\* without its entry, not even what a rename replaces.
LogReplaysToNamespace == g.prov_log.on => Replays(Log, g)

\* "Append-only audit trail": no entry changes or goes, every change of the
\* directory tree adds one, and an entry names the capability and the domain
\* in whose context the call ran, not those set since.
LogIsAppendedInContext ==
  [][ LET old == Log
          new == Log'
      IN /\ Len(new) >= Len(old) /\ SubSeq(new, 1, Len(old)) = old
         /\ \A k \in Len(old) + 1 .. Len(new) :
              /\ new[k].cap = g.cap_ctx.cap_id
              /\ new[k].domain = g.cap_ctx.domain_id
         /\ g.prov_log.on /\ g'.dir_name_idx # g.dir_name_idx => Len(new) > Len(old) ]_g

=============================================================================
