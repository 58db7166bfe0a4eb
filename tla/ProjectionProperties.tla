------------------------ MODULE ProjectionProperties ------------------------
(***************************************************************************)
(* What the projections promise about the file systems of Sotfs.           *)
(***************************************************************************)
EXTENDS Sotfs, Deception

\* "Restrict: domain sees only a subtree": the directories that are listed are
\* those from which ".." leads up to r, each with all of its entries, and the
\* inodes seen are those of the subtree, with the one of r's own parent, to
\* which ".." of r still leads.  The view is one of a file system.
RestrictedViewIsSubtree ==
  \A r \in DOMAIN g.dirs : \E view \in {project_restrict(g, r)} :
    LET D == {d \in DOMAIN g.dirs : on_parent_chain(g, d, r)}
    IN /\ DOMAIN view.visible_entries = D
       /\ \A d \in D : Len(view.visible_entries[d]) = Cardinality(entries(g, d))
       /\ view.visible_inodes =
            ({g.dirs[r], resolve_name(g, r, "..")} \ {None}) \cup
              {g.edges[e].tgt : e \in UNION {user_entries(g, d) : d \in D}}
       /\ check_projected_invariants(view)

\* A name that is redirected leads to its target wherever it stands, and so
\* does every other name of the files it stood for: what is read is the target
\* for all links of such a file and the file itself for all others.  The view
\* passes as a file system unless the target does not exist.
RedirectReachesEveryLink ==
  \A n \in Names, t \in 1 .. g.next_inode :
    \E view \in {project_redirect(g, [x \in {n} |-> t])} :
      LET taken == {g.edges[e].tgt : e \in {x \in ContainsEdges(g) : g.edges[x].name = n}}
      IN /\ \A e \in ContainsEdges(g) :
              LET i == g.edges[e].tgt
              IN projected_source(view, projected_lookup(view, g.edges[e].src, g.edges[e].name)) =
                   (IF i \in taken THEN t ELSE i)
         /\ check_projected_invariants(view) <=> (taken = {} \/ t \in DOMAIN g.inodes)

\* A made-up entry hides nothing: every real name still leads where it did, and
\* the made-up one leads to its inode exactly if no real entry has its name,
\* which is also when the view passes as a file system.
BaitIsShadowedByEntries ==
  \A d \in DOMAIN g.dirs, n \in Names :
    \E view \in {project_fabricate(g, <<[parent_dir |-> d, name |-> n, inode |-> g.next_inode]>>)} :
      /\ \A e \in ContainsEdges(g) :
           projected_lookup(view, g.edges[e].src, g.edges[e].name) = g.edges[e].tgt
      /\ check_projected_invariants(view) <=> scan_name(g, d, n) = None
      /\ check_projected_invariants(view) => projected_lookup(view, d, n) = g.next_inode

\* Views with bait in them, by name or by made-up entry.
BaitedViewsAreExact == RedirectReachesEveryLink /\ BaitIsShadowedByEntries
=============================================================================
