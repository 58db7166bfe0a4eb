-------------------------- MODULE SotfsRefinement --------------------------
(***************************************************************************)
(* The calls of Sotfs implement PosixNamespace.  An object is an inode, an *)
(* entry a Contains edge that is not a dot entry, and a directory is known *)
(* by its inode.                                                           *)
(***************************************************************************)
EXTENDS Sotfs

kind == [i \in DOMAIN g.inodes |-> g.inodes[i].vtype]

\* An entry whose directory node is gone is an entry of None.
DirInode(d) == IF d \in DOMAIN g.dirs THEN g.dirs[d] ELSE None

ent ==
  LET key(e) == <<DirInode(g.edges[e].src), g.edges[e].name>>
  IN [k \in {key(e) : e \in UserEdges(g)} |->
        g.edges[CHOOSE e \in UserEdges(g) : key(e) = k].tgt]

P == INSTANCE PosixNamespace WITH Root <- RootInode, Dir <- "Directory"

\* Every call, a rename with all the calls it makes included, is one step of
\* the abstract tree or leaves it alone: the code's edges, two id spaces, four
\* indexes and stored link counts never show.
ImplementsPosixNamespace == P!Spec
=============================================================================
