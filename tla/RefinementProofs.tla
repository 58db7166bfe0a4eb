-------------------------- MODULE RefinementProofs --------------------------
(***************************************************************************)
(* Proof that the calls of Sotfs implement PosixNamespace: every step of   *)
(* the graph is a step of the abstract tree, or leaves the tree alone.     *)
(* The lemmas of NamespaceProofs say what a call does to the entry edges   *)
(* (Adds, Vacates, Moves, SameTree); here that is read as what it does to  *)
(* the entries of the tree.                                                *)
(***************************************************************************)
EXTENDS SotfsRefinement, Gtxn, ObjectProofs

\* The refinement mapping as a function of the graph.
KindOf(k) == [i \in DOMAIN k.inodes |-> k.inodes[i].vtype]

EntOf(k) ==
  LET inode(d) == IF d \in DOMAIN k.dirs THEN k.dirs[d] ELSE None
      key(e) == <<inode(k.edges[e].src), k.edges[e].name>>
  IN [q \in {key(e) : e \in UserEdges(k)} |->
        k.edges[CHOOSE e \in UserEdges(k) : key(e) = q].tgt]

LEMMA MappingIs ==
  /\ kind = KindOf(g) /\ ent = EntOf(g)
  /\ kind' = KindOf(g') /\ ent' = EntOf(g')
BY DEF kind, ent, KindOf, EntOf, DirInode

\* The name an entry edge is known by.
Name(k, e) == <<k.dirs[k.edges[e].src], k.edges[e].name>>

\* Function E has the entries of graph k, by their names.
Lists(k, E) ==
  /\ E = [q \in DOMAIN E |-> E[q]]
  /\ \A e \in UserEdges(k) : Name(k, e) \in DOMAIN E /\ E[Name(k, e)] = k.edges[e].tgt
  /\ \A q \in DOMAIN E : \E e \in UserEdges(k) : q = Name(k, e)

\* The entries E with name q for object i, without q, with r instead of q.
Entered(E, q, i) == [x \in DOMAIN E \cup {q} |-> IF x = q THEN i ELSE E[x]]
Left(E, q) == [x \in DOMAIN E \ {q} |-> E[x]]
Renamed(E, q, r) == [x \in (DOMAIN E \ {q}) \cup {r} |-> IF x = r THEN E[q] ELSE E[x]]

LEMMA NamesAreKeys ==
  ASSUME NEW k, Sound(k), NEW e \in UserEdges(k), NEW f \in UserEdges(k),
         Name(k, e) = Name(k, f)
  PROVE  e = f
<1>1. k.edges[e].src \in DOMAIN k.dirs /\ k.edges[f].src \in DOMAIN k.dirs
  BY SoundGraph DEF Endpoints, UserEdges
<1>2. k.edges[e].src = k.edges[f].src /\ k.edges[e].name = k.edges[f].name
  BY <1>1, SoundGraph, DirsDiffer DEF Name
<1> QED BY <1>2, SoundGraph, NamesDiffer DEF UserEdges

LEMMA EntLists ==
  ASSUME NEW k, Sound(k)
  PROVE  Lists(k, EntOf(k))
<1> DEFINE inode(d) == IF d \in DOMAIN k.dirs THEN k.dirs[d] ELSE None
           key(e) == <<inode(k.edges[e].src), k.edges[e].name>>
           E == EntOf(k)
<1>1. E = [q \in {key(e) : e \in UserEdges(k)} |->
             k.edges[CHOOSE e \in UserEdges(k) : key(e) = q].tgt]
  BY DEF EntOf
<1>2. \A e \in UserEdges(k) : key(e) = Name(k, e)
  BY SoundGraph DEF Name, Endpoints, UserEdges
<1> HIDE DEF E, key
<1>3. DOMAIN E = {key(e) : e \in UserEdges(k)}
  BY <1>1
<1>4. ASSUME NEW e \in UserEdges(k)
      PROVE  key(e) \in DOMAIN E /\ E[key(e)] = k.edges[e].tgt
  <2> DEFINE f == CHOOSE x \in UserEdges(k) : key(x) = key(e)
  <2>1. f \in UserEdges(k) /\ key(f) = key(e)
    OBVIOUS
  <2> HIDE DEF f
  <2>2. f = e
    BY <1>2, <2>1, NamesAreKeys
  <2>3. E[key(e)] = k.edges[f].tgt
    BY <1>1, <1>3 DEF f
  <2> QED BY <1>3, <2>2, <2>3
<1>5. E = [q \in DOMAIN E |-> E[q]]
  BY <1>1
<1> QED BY <1>2, <1>3, <1>4, <1>5 DEF Lists, E

LEMMA SameFunction ==
  ASSUME NEW e, NEW f, e = [q \in DOMAIN e |-> e[q]], f = [q \in DOMAIN f |-> f[q]],
         DOMAIN e = DOMAIN f, \A q \in DOMAIN e : e[q] = f[q]
  PROVE  e = f
OBVIOUS

-----------------------------------------------------------------------------
(***************************************************************************)
(* What a call does to the entries.                                        *)
(***************************************************************************)
LEMMA SameTreeLists ==
  ASSUME NEW k, NEW h, SameTree(k, h), NEW E, Lists(k, E), NEW F, Lists(h, F),
         Endpoints(k)
  PROVE  F = E /\ KindOf(h) = KindOf(k)
<1>1. /\ UserEdges(h) = UserEdges(k)
      /\ \A e \in UserEdges(k) : h.edges[e] = k.edges[e] /\ Name(h, e) = Name(k, e)
  BY DEF SameTree, UserEdges, Name
<1>2. DOMAIN F = DOMAIN E /\ \A q \in DOMAIN E : F[q] = E[q]
  BY <1>1 DEF Lists
<1>3. F = E
  BY <1>2, SameFunction DEF Lists
<1> QED BY <1>3 DEF SameTree, KindOf

LEMMA AddsLists ==
  ASSUME NEW k, Sound(k), NEW h, Sound(h), NEW d \in DOMAIN k.dirs, NEW n,
         n \notin Dots, resolve_name(k, d, n) = None, NEW i, Adds(k, h, d, n, i),
         NEW E, Lists(k, E), NEW F, Lists(h, F), NEW q, q = <<k.dirs[d], n>>
  PROVE  /\ q \notin DOMAIN E
         /\ F = Entered(E, q, i)
<1>1. PICK e : /\ UserEdges(h) = UserEdges(k) \cup {e} /\ e \notin UserEdges(k)
               /\ h.edges[e] = ContainsEdge(d, i, n)
  BY DEF Adds
<1>2. \A x \in UserEdges(k) : h.edges[x] = k.edges[x] /\ k.edges[x].src \in DOMAIN k.dirs
  BY SoundGraph DEF Adds, Endpoints, UserEdges
<1>3. \A x \in UserEdges(k) : Name(h, x) = Name(k, x)
  BY <1>2 DEF Adds, Name
<1>4. Name(h, e) = q /\ h.edges[e].tgt = i
  BY <1>1 DEF Adds, Name, ContainsEdge
<1>5. ASSUME NEW x \in UserEdges(k) PROVE Name(k, x) # q
  <2>1. SUFFICES ASSUME Name(k, x) = q PROVE FALSE
    OBVIOUS
  <2>2. k.edges[x].src = d /\ k.edges[x].name = n
    BY <1>2, <2>1, SoundGraph, DirsDiffer DEF Name
  <2>3. x \in ContainsEdges(k) /\ <<d, n>> \notin DOMAIN k.dir_name_idx
    BY SoundGraph, ResolvedBy DEF UserEdges
  <2> QED BY <2>2, <2>3, SoundGraph DEF NamesExact
<1>6. q \notin DOMAIN E
  BY <1>5 DEF Lists
<1>7. \A x \in DOMAIN E : x \in DOMAIN F /\ F[x] = E[x]
  BY <1>1, <1>2, <1>3 DEF Lists
<1>8. q \in DOMAIN F /\ F[q] = i
  BY <1>1, <1>4 DEF Lists
<1>9. DOMAIN F = DOMAIN E \cup {q}
  <2>1. \A x \in DOMAIN F : x \in DOMAIN E \/ x = q
    BY <1>1, <1>3, <1>4 DEF Lists
  <2> QED BY <1>7, <1>8, <2>1
<1> DEFINE G == Entered(E, q, i)
<1>10. DOMAIN G = DOMAIN F /\ \A x \in DOMAIN G : G[x] = F[x]
  BY <1>7, <1>8, <1>9 DEF Entered
<1>11. G = [x \in DOMAIN G |-> G[x]]
  BY DEF Entered
<1> HIDE DEF G
<1>12. F = G
  BY <1>10, <1>11, SameFunction DEF Lists
<1> QED BY <1>6, <1>12 DEF G

\* The objects that are left are the root and those with a name.
LEMMA LeftAreNamed ==
  ASSUME NEW k, NEW h, Sound(h), NEW F, Lists(h, F), NEW K, K = KindOf(k),
         \A i \in DOMAIN h.inodes : /\ i \in DOMAIN k.inodes
                                    /\ h.inodes[i].vtype = k.inodes[i].vtype
  PROVE  KindOf(h) = [o \in {x \in DOMAIN K :
                               x = RootInode \/ \E y \in DOMAIN F : F[y] = x} |-> K[o]]
<1> DEFINE S == {x \in DOMAIN K : x = RootInode \/ \E y \in DOMAIN F : F[y] = x}
<1>1. DOMAIN K = DOMAIN k.inodes
  BY DEF KindOf
<1>2. \A e \in UserEdges(h) : h.edges[e].tgt \in DOMAIN h.inodes
  BY SoundGraph DEF Endpoints, UserEdges
<1>3. RootInode \in DOMAIN h.inodes
  BY SoundGraph DEF DirsPaired, IsDirInode
<1>4. \A y \in DOMAIN F : F[y] \in DOMAIN h.inodes
  BY <1>2 DEF Lists
<1>5. ASSUME NEW i \in DOMAIN h.inodes PROVE i \in S
  <2>1. CASE i = RootInode
    BY <1>1, <2>1
  <2>2. CASE i # RootInode
    <3>1. PICK e \in UserEdges(h) : h.edges[e].tgt = i
      BY <2>2, SoundGraph DEF Tree, Named
    <3> QED BY <1>1, <3>1 DEF Lists
  <2> QED BY <2>1, <2>2
<1>6. DOMAIN h.inodes = S
  BY <1>1, <1>3, <1>4, <1>5
<1>7. \A i \in DOMAIN h.inodes : h.inodes[i].vtype = K[i]
  BY DEF KindOf
<1> QED BY <1>6, <1>7 DEF KindOf

\* The name of what is removed goes, and it led to nothing.
LEMMA NothingBelow ==
  ASSUME NEW k, Sound(k), NEW E, Lists(k, E), NEW e \in UserEdges(k),
         LeadsToNothing(k, e), IsDirInode(k, k.edges[e].tgt), NEW q \in DOMAIN E
  PROVE  q[1] # k.edges[e].tgt
<1>1. PICK f \in UserEdges(k) : q = Name(k, f)
  BY DEF Lists
<1>2. k.edges[f].src \in DOMAIN k.dirs /\ q[1] = k.dirs[k.edges[f].src]
  BY <1>1, SoundGraph DEF Endpoints, UserEdges, Name
<1> QED BY <1>2 DEF LeadsToNothing

LEMMA VacatesLists ==
  ASSUME NEW k, Sound(k), NEW h, Sound(h), NEW d, NEW n, Vacates(k, h, d, n),
         NEW e \in UserEdges(k), k.edges[e].src = d, k.edges[e].name = n,
         NEW E, Lists(k, E), NEW F, Lists(h, F), NEW q, q = Name(k, e)
  PROVE  /\ q \in DOMAIN E /\ E[q] = k.edges[e].tgt
         /\ F = Left(E, q)
<1>1. UserEdges(h) = UserEdges(k) \ {e}
  BY SoundGraph, NamesDiffer DEF Vacates, UserEdges
<1>2. ASSUME NEW x \in UserEdges(h)
      PROVE  /\ x \in UserEdges(k) /\ h.edges[x] = k.edges[x]
             /\ Name(h, x) = Name(k, x) /\ Name(k, x) # q
  <2>1. x \in UserEdges(k) /\ x # e /\ h.edges[x] = k.edges[x]
    BY <1>1 DEF Vacates
  <2>2. h.edges[x].src \in DOMAIN h.dirs
    BY SoundGraph DEF Endpoints, UserEdges
  <2> QED BY <2>1, <2>2, NamesAreKeys DEF Vacates, Name
<1>3. q \in DOMAIN E /\ E[q] = k.edges[e].tgt
  BY DEF Lists
<1>4. \A x \in DOMAIN F : x \in DOMAIN E \ {q} /\ F[x] = E[x]
  BY <1>2 DEF Lists
<1>5. \A x \in DOMAIN E \ {q} : x \in DOMAIN F
  BY <1>1, <1>2 DEF Lists
<1> DEFINE G == Left(E, q)
<1>6. DOMAIN G = DOMAIN F /\ \A x \in DOMAIN G : G[x] = F[x]
  BY <1>4, <1>5 DEF Left
<1>7. G = [x \in DOMAIN G |-> G[x]]
  BY DEF Left
<1> HIDE DEF G
<1>8. F = G
  BY <1>6, <1>7, SameFunction DEF Lists
<1> QED BY <1>3, <1>8 DEF G

\* Like P!Rename: q is the old name, r the new one.
LEMMA MovesLists ==
  ASSUME NEW k, Sound(k), NEW h, Sound(h), NEW e, NEW d \in DOMAIN k.dirs, NEW n,
         Moves(k, h, e, d, n),
         NEW E, Lists(k, E), NEW F, Lists(h, F),
         NEW q, q = Name(k, e), NEW r, r = <<k.dirs[d], n>>
  PROVE  /\ q \in DOMAIN E /\ E[q] = k.edges[e].tgt /\ q # r
         /\ F = Renamed(E, q, r)
         /\ r \in DOMAIN E => \E t \in UserEdges(k) :
              k.edges[t].tgt = E[r] /\ LeadsToNothing(k, t)
<1> DEFINE AtNew(x) == k.edges[x].src = d /\ k.edges[x].name = n
<1>1. e \in UserEdges(k) /\ ~AtNew(e)
  BY DEF Moves
<1>2. \A x \in UserEdges(k) : k.edges[x].src \in DOMAIN k.dirs
  BY SoundGraph DEF Endpoints, UserEdges
<1>3. \A x \in UserEdges(k) : Name(k, x) = r <=> AtNew(x)
  BY <1>2, SoundGraph, DirsDiffer DEF Name
<1>4. PICK y : /\ UserEdges(h) = {x \in UserEdges(k) : x # e /\ ~AtNew(x)} \cup {y}
               /\ y \notin {x \in UserEdges(k) : x # e /\ ~AtNew(x)}
               /\ h.edges[y].src = d /\ h.edges[y].name = n
               /\ h.edges[y].tgt = k.edges[e].tgt
               /\ \A x \in UserEdges(h) \ {y} : h.edges[x] = k.edges[x]
  BY DEF Moves, OtherEntries
<1>5. q \in DOMAIN E /\ E[q] = k.edges[e].tgt /\ q # r
  BY <1>1, <1>3 DEF Lists
<1>6. \A x \in UserEdges(h) : h.edges[x].src \in DOMAIN h.dirs
  BY SoundGraph DEF Endpoints, UserEdges
<1>7. Name(h, y) = r
  BY <1>4, <1>6 DEF Name, Moves
<1>8. ASSUME NEW x \in UserEdges(h), x # y
      PROVE  /\ x \in UserEdges(k) /\ x # e /\ ~AtNew(x) /\ h.edges[x] = k.edges[x]
             /\ Name(h, x) = Name(k, x) /\ Name(k, x) # q /\ Name(k, x) # r
  <2>1. x \in UserEdges(k) /\ x # e /\ ~AtNew(x) /\ h.edges[x] = k.edges[x]
    BY <1>4, <1>8
  <2>2. Name(h, x) = Name(k, x)
    BY <1>6, <2>1 DEF Moves, Name
  <2> QED BY <1>1, <1>3, <2>1, <2>2, NamesAreKeys
<1>9. r \in DOMAIN F /\ F[r] = E[q]
  BY <1>4, <1>5, <1>7 DEF Lists
<1>10. ASSUME NEW x \in DOMAIN F, x # r
       PROVE  x \in DOMAIN E \ {q} /\ F[x] = E[x]
  <2>1. PICK f \in UserEdges(h) : x = Name(h, f)
    BY DEF Lists
  <2>2. f # y
    BY <1>7, <1>10, <2>1
  <2> QED BY <1>8, <2>1, <2>2 DEF Lists
<1>11. ASSUME NEW x \in DOMAIN E \ {q}, x # r
       PROVE  x \in DOMAIN F
  <2>1. PICK f \in UserEdges(k) : x = Name(k, f)
    BY DEF Lists
  <2>2. f # e /\ ~AtNew(f)
    BY <1>3, <1>11, <2>1
  <2>3. f \in UserEdges(h) /\ f # y
    BY <1>4, <2>1, <2>2
  <2> QED BY <1>8, <2>1, <2>3 DEF Lists
<1>12. DOMAIN F = (DOMAIN E \ {q}) \cup {r}
  BY <1>9, <1>10, <1>11
<1> DEFINE G == Renamed(E, q, r)
<1>13. DOMAIN G = DOMAIN F /\ \A x \in DOMAIN G : G[x] = F[x]
  BY <1>9, <1>10, <1>12 DEF Renamed
<1>14. G = [x \in DOMAIN G |-> G[x]]
  BY DEF Renamed
<1> HIDE DEF G
<1>15. F = G
  BY <1>13, <1>14, SameFunction DEF Lists
<1>16. ASSUME r \in DOMAIN E
       PROVE  \E t \in UserEdges(k) : k.edges[t].tgt = E[r] /\ LeadsToNothing(k, t)
  <2>1. PICK t \in UserEdges(k) : r = Name(k, t)
    BY <1>16 DEF Lists
  <2>2. E[r] = k.edges[t].tgt /\ AtNew(t)
    BY <1>3, <2>1 DEF Lists
  <2>3. LeadsToNothing(k, t)
    BY <2>1, <2>2 DEF Moves
  <2> QED BY <2>2, <2>3
<1> QED BY <1>5, <1>15, <1>16 DEF G

-----------------------------------------------------------------------------
(***************************************************************************)
(* No directory ends up below itself.                                      *)
(***************************************************************************)
\* The inodes of the directories that a walk down from c does not visit are
\* closed under "is named in".
LEMMA NotBelow ==
  ASSUME NEW k, Sound(k), NEW c \in DOMAIN k.dirs, NEW d \in DOMAIN k.dirs,
         ~is_ancestor(k, c, d)
  PROVE  \E S \in SUBSET DOMAIN k.inodes :
           /\ k.dirs[d] \in S /\ k.dirs[c] \notin S
           /\ \A e \in UserEdges(k) : k.edges[e].tgt \in S => k.dirs[k.edges[e].src] \in S
<1>1. PICK T \in SUBSET DOMAIN k.dirs : c \in T /\ DownClosed(k, T) /\ d \notin T
  BY DEF is_ancestor
<1> DEFINE S == {k.dirs[y] : y \in DOMAIN k.dirs \ T}
<1>2. S \subseteq DOMAIN k.inodes
  BY SoundGraph DEF DirsPaired, IsDirInode
<1>3. k.dirs[d] \in S /\ k.dirs[c] \notin S
  BY <1>1, SoundGraph, DirsDiffer
<1>4. ASSUME NEW e \in UserEdges(k), k.edges[e].tgt \in S
      PROVE  k.dirs[k.edges[e].src] \in S
  <2>1. PICK y \in DOMAIN k.dirs \ T : k.edges[e].tgt = k.dirs[y]
    BY <1>4
  <2>2. k.edges[e].src \in DOMAIN k.dirs
    BY SoundGraph DEF Endpoints, UserEdges
  <2>3. y \in child_dirs(k, k.edges[e].src)
    BY <2>1, SoundGraph, ChildDirsAre DEF Holds
  <2>4. k.edges[e].src \notin T
    BY <1>1, <2>1, <2>3 DEF DownClosed
  <2> QED BY <2>2, <2>4
<1> HIDE DEF S
<1> QED BY <1>2, <1>3, <1>4

\* A directory is not below one that it holds.
LEMMA ParentNotBelow ==
  ASSUME NEW k, Sound(k), NEW p \in DOMAIN k.dirs, NEW c \in DOMAIN k.dirs,
         Holds(k, p, c)
  PROVE  ~is_ancestor(k, c, p)
<1> SUFFICES ASSUME is_ancestor(k, c, p) PROVE FALSE
  OBVIOUS
<1> DEFINE T == {y \in DOMAIN k.dirs : is_ancestor(k, c, y)}
           U == {y \in T : y = c \/ \E x \in T : Holds(k, x, y)}
<1>1. \A x : child_dirs(k, x) \subseteq DOMAIN k.dirs
             /\ \A y \in DOMAIN k.dirs : y \in child_dirs(k, x) <=> Holds(k, x, y)
  BY SoundGraph, ChildDirsAre
<1>2. \A y \in T : \A S \in SUBSET DOMAIN k.dirs : c \in S /\ DownClosed(k, S) => y \in S
  BY DEF is_ancestor
<1>3. \A y \in DOMAIN k.dirs :
        (\A S \in SUBSET DOMAIN k.dirs : c \in S /\ DownClosed(k, S) => y \in S) => y \in T
  BY DEF is_ancestor
<1>4. p \in T
  OBVIOUS
<1> HIDE DEF T
<1>5. T \subseteq DOMAIN k.dirs
  BY DEF T
<1>6. c \in T
  BY <1>3
<1>7. DownClosed(k, T)
  BY <1>1, <1>2, <1>3, <1>5 DEF DownClosed
<1>8. DownClosed(k, U)
  BY <1>1, <1>5, <1>7 DEF DownClosed
<1>9. T \subseteq U
  BY <1>2, <1>5, <1>6, <1>8
<1>10. \A y \in T : \E x \in T : Holds(k, x, y)
  BY <1>4, <1>9
<1> QED BY <1>5, <1>6, <1>10, NoRingOfHolders

-----------------------------------------------------------------------------
(***************************************************************************)
(* Steps of the abstract tree.                                             *)
(***************************************************************************)
LEMMA DirectoriesAre ==
  ASSUME Sound(g), NEW d \in DOMAIN g.dirs
  PROVE  P!IsDir(g.dirs[d])
<1>1. IsDirInode(g, g.dirs[d])
  BY SoundGraph DEF DirsPaired
<1> QED BY <1>1 DEF P!IsDir, kind, IsDirInode

LEMMA UnnoticedStutters ==
  ASSUME Sound(g), Sound(g'), SameTree(g, g')
  PROVE  UNCHANGED <<kind, ent>>
<1>1. Lists(g, ent) /\ Lists(g', ent') /\ kind = KindOf(g) /\ kind' = KindOf(g')
  BY EntLists, MappingIs
<1>2. Endpoints(g)
  BY SoundGraph
<1>3. ent' = ent /\ kind' = kind
  BY <1>1, <1>2, SameTreeLists
<1> QED BY <1>3

LEMMA AddingIsAStep ==
  ASSUME Sound(g), Sound(g'), NEW d \in DOMAIN g.dirs, NEW n, n \notin Dots,
         resolve_name(g, d, n) = None, NEW i, Adds(g, g', d, n, i),
         i \in DOMAIN g.inodes => g.inodes[i].vtype # "Directory"
  PROVE  P!Next
<1> DEFINE q == <<g.dirs[d], n>>
<1>1. Lists(g, ent) /\ Lists(g', ent')
  BY EntLists, MappingIs
<1>2. q \notin DOMAIN ent /\ ent' = Entered(ent, q, i)
  BY <1>1, AddsLists
<1>3. /\ kind = [j \in DOMAIN g.inodes |-> g.inodes[j].vtype]
      /\ kind' = [j \in DOMAIN g'.inodes |-> g'.inodes[j].vtype]
      /\ DOMAIN g'.inodes = DOMAIN g.inodes \cup {i}
      /\ \A j \in DOMAIN g.inodes : g'.inodes[j].vtype = g.inodes[j].vtype
  BY DEF Adds, kind
<1> HIDE DEF kind, ent
<1>4. P!IsDir(g.dirs[d])
  BY DirectoriesAre
<1>5. ent' = P!Entry(g.dirs[d], n, i) /\ ent'[q] = i /\ q \in DOMAIN ent' \ DOMAIN ent
  BY <1>2 DEF P!Entry, Entered
<1>6. q[1] = g.dirs[d] /\ q[2] = n
  OBVIOUS
<1> HIDE DEF q
<1>7. CASE i \in DOMAIN g.inodes
  <2>1. kind' = kind /\ i \in DOMAIN kind /\ ~P!IsDir(i)
    BY <1>3, <1>7 DEF P!IsDir
  <2>2. P!Link(q[1], q[2], ent'[q])
    BY <1>2, <1>4, <1>5, <1>6, <2>1 DEF P!Link, q
  <2> QED BY <1>5, <2>2 DEF P!Next
<1>8. CASE i \notin DOMAIN g.inodes
  <2>1. /\ i \in DOMAIN kind' \ DOMAIN kind
        /\ kind' = [x \in DOMAIN kind \cup {i} |-> IF x = i THEN kind'[i] ELSE kind[x]]
    BY <1>3, <1>8
  <2>2. P!Create(q[1], q[2], i, kind'[i])
    BY <1>2, <1>4, <1>5, <1>6, <2>1 DEF P!Create, q
  <2> QED BY <1>5, <2>1, <2>2 DEF P!Next
<1> QED BY <1>7, <1>8

LEMMA VacatingIsAStep ==
  ASSUME Sound(g), Sound(g'), NEW d, NEW n, Vacates(g, g', d, n),
         NEW e \in UserEdges(g), g.edges[e].src = d, g.edges[e].name = n
  PROVE  P!Next
<1> DEFINE q == Name(g, e)
<1>1. Lists(g, ent) /\ Lists(g', ent') /\ kind = KindOf(g) /\ kind' = KindOf(g')
  BY EntLists, MappingIs
<1> HIDE DEF q
<1>2. /\ q \in DOMAIN ent /\ ent[q] = g.edges[e].tgt
      /\ ent' = Left(ent, q)
  BY <1>1, VacatesLists DEF q
<1>3. kind' = P!Reachable(ent')
  BY <1>1, LeftAreNamed, SMTT(30) DEF P!Reachable, Vacates
<1>4. P!IsDir(ent[q]) => P!IsEmpty(ent[q])
  <2>1. P!IsDir(ent[q]) => IsDirInode(g, g.edges[e].tgt)
    BY <1>1, <1>2 DEF P!IsDir, KindOf, IsDirInode
  <2>2. LeadsToNothing(g, e)
    BY DEF Vacates
  <2> QED BY <1>1, <1>2, <2>1, <2>2, NothingBelow DEF P!IsEmpty
<1>5. P!Remove(q) /\ q \in DOMAIN ent \ DOMAIN ent'
  BY <1>2, <1>3, <1>4 DEF P!Remove, Left
<1> QED BY <1>5 DEF P!Next

LEMMA MovingIsAStep ==
  ASSUME Sound(g), Sound(g'), NEW sd, NEW src, NEW dd \in DOMAIN g.dirs, NEW dst,
         NEW e, MovesEntry(g, g', e, sd, src, dd, dst)
  PROVE  P!Next
<1> DEFINE q == Name(g, e)
           r == <<g.dirs[dd], dst>>
<1>1. Lists(g, ent) /\ Lists(g', ent') /\ kind = KindOf(g) /\ kind' = KindOf(g')
  BY EntLists, MappingIs
<1>2. Moves(g, g', e, dd, dst) /\ e \in UserEdges(g)
  BY DEF MovesEntry, Moves
<1> HIDE DEF q
<1>3. /\ q \in DOMAIN ent /\ ent[q] = g.edges[e].tgt /\ q # r
      /\ ent' = Renamed(ent, q, r)
      /\ r \in DOMAIN ent => \E t \in UserEdges(g) :
           g.edges[t].tgt = ent[r] /\ LeadsToNothing(g, t)
  BY <1>1, <1>2, MovesLists DEF q
<1>4. kind' = P!Reachable(ent')
  <2>1. \A i \in DOMAIN g'.inodes : /\ i \in DOMAIN g.inodes
                                    /\ g'.inodes[i].vtype = g.inodes[i].vtype
    BY <1>2 DEF Moves
  <2> QED BY <1>1, <2>1, LeftAreNamed DEF P!Reachable
<1>5. P!IsDir(g.dirs[dd])
  BY DirectoriesAre
<1>6. r \in DOMAIN ent /\ P!IsDir(ent[r]) => P!IsEmpty(ent[r])
  <2>1. SUFFICES ASSUME r \in DOMAIN ent, P!IsDir(ent[r]) PROVE P!IsEmpty(ent[r])
    OBVIOUS
  <2>2. PICK t \in UserEdges(g) : g.edges[t].tgt = ent[r] /\ LeadsToNothing(g, t)
    BY <1>3, <2>1
  <2>3. IsDirInode(g, g.edges[t].tgt)
    BY <1>1, <2>1, <2>2 DEF P!IsDir, KindOf, IsDirInode
  <2> QED BY <1>1, <2>2, <2>3, NothingBelow DEF P!IsEmpty
<1>7. ASSUME P!IsDir(ent[q]) PROVE ~P!AtOrAbove(ent[q], g.dirs[dd])
  <2>1. IsDirInode(g, g.edges[e].tgt) /\ DOMAIN kind = DOMAIN g.inodes
    BY <1>1, <1>3, <1>7 DEF P!IsDir, KindOf, IsDirInode
  <2>2. PICK c \in DOMAIN g.dirs : /\ g.dirs[c] = g.edges[e].tgt
                                   /\ dir_for_inode(g, g.edges[e].tgt) = c
    BY <2>1, SoundGraph DEF DirsPaired, IsDirInode, dir_for_inode
  <2>3. ~is_ancestor(g, c, dd)
    <3>1. CASE sd = dd
      <4>1. Holds(g, dd, c)
        BY <1>2, <2>2, <3>1 DEF Holds, MovesEntry
      <4> QED BY <4>1, ParentNotBelow
    <3>2. CASE sd # dd
      <4>1. ~would_create_cycle(g, g.edges[e].tgt, dd)
        BY <3>2 DEF MovesEntry
      <4>2. c # None
        BY SoundGraph DEF IdsIssued, None
      <4> QED BY <2>1, <2>2, <4>1, <4>2 DEF would_create_cycle
    <3> QED BY <3>1, <3>2
  <2>4. PICK S \in SUBSET DOMAIN g.inodes :
          /\ g.dirs[dd] \in S /\ g.dirs[c] \notin S
          /\ \A x \in UserEdges(g) : g.edges[x].tgt \in S => g.dirs[g.edges[x].src] \in S
    BY <2>3, NotBelow
  <2>5. \A x \in DOMAIN ent : ent[x] \in S => x[1] \in S
    BY <1>1, <2>4 DEF Lists, Name
  <2> QED BY <1>3, <2>1, <2>2, <2>4, <2>5 DEF P!AtOrAbove
<1>8. r \in DOMAIN ent' /\ q \in DOMAIN ent \ DOMAIN ent' /\ r[1] = g.dirs[dd] /\ r[2] = dst
  BY <1>3 DEF Renamed
<1>9. P!Rename(q, r[1], r[2])
  <2> DEFINE f == [x \in DOMAIN ent \ {q} |-> ent[x]]
  <2>1. ent' = [x \in DOMAIN f \cup {r} |-> IF x = r THEN ent[q] ELSE f[x]]
    BY <1>3 DEF Renamed
  <2> QED BY <1>3, <1>4, <1>5, <1>6, <1>7, <2>1 DEF P!Rename
<1> QED BY <1>8, <1>9 DEF P!Next

-----------------------------------------------------------------------------
LEMMA InitRefines == Init => P!Init
<1> SUFFICES ASSUME Init PROVE P!Init
  OBVIOUS
<1>1. Sound(g) /\ Lists(g, ent) /\ kind = KindOf(g)
  BY InitSound, EntLists, MappingIs DEF SoundState
<1> DEFINE k == new_graph(CHOOSE m \in Modes : TRUE, CHOOSE u \in Users : TRUE)
<1>2. g = [k EXCEPT !.prov_log = [k.prov_log EXCEPT !.on = Logging]]
  BY DEF Init
<1>3. /\ k.edges = [e \in {1} |-> ContainsEdge(1, 1, ".")]
      /\ DOMAIN k.inodes = {RootInode} /\ k.inodes[RootInode].vtype = "Directory"
      /\ IsGraph(k)
  <2>1. k.edges = [e \in {1} |-> ContainsEdge(1, 1, ".")]
    BY DEF new_graph, RootDir, RootInode
  <2>2. DOMAIN k.inodes = {RootInode} /\ k.inodes[RootInode].vtype = "Directory"
    BY DEF new_graph, NewInode
  <2>3. IsGraph(k)
    BY DEF new_graph, IsGraph, GraphFields
  <2> QED BY <2>1, <2>2, <2>3
<1> HIDE DEF k
<1>4. g.edges = k.edges /\ g.inodes = k.inodes
  BY <1>2, <1>3 DEF IsGraph, GraphFields
<1>5. UserEdges(g) = {}
  BY <1>3, <1>4 DEF UserEdges, ContainsEdges, ContainsEdge, Dots
<1>6. kind = [o \in {RootInode} |-> "Directory"]
  BY <1>1, <1>3, <1>4 DEF KindOf
<1>7. ent = [q \in {} |-> RootInode]
  <2>1. DOMAIN ent = {} /\ ent = [q \in DOMAIN ent |-> ent[q]]
    BY <1>1, <1>5 DEF Lists
  <2> QED BY <2>1
<1> QED BY <1>6, <1>7 DEF P!Init

LEMMA NextRefines ==
  ASSUME PoolsHaveRoom, SoundState, Next
  PROVE  P!Next \/ UNCHANGED <<kind, ent>>
<1>1. Sound(g) /\ Sound(g') /\ OneEntryAtMost(g, g')
  BY NextSound DEF SoundState
<1>2. CASE SameTree(g, g')
  BY <1>1, <1>2, UnnoticedStutters
<1>3. CASE EntryAdded(g, g')
  <2>1. PICK d \in DOMAIN g.dirs, n \in AllNames \ Dots :
          \E i : /\ resolve_name(g, d, n) = None
                 /\ i \in DOMAIN g.inodes => g.inodes[i].vtype # "Directory"
                 /\ Adds(g, g', d, n, i)
    BY <1>3 DEF EntryAdded
  <2> QED BY <1>1, <2>1, AddingIsAStep
<1>4. CASE EntryRemoved(g, g')
  BY <1>1, <1>4, VacatingIsAStep DEF EntryRemoved
<1>5. CASE EntryMoved(g, g')
  BY <1>1, <1>5, MovingIsAStep DEF EntryMoved
<1> QED BY <1>1, <1>2, <1>3, <1>4, <1>5 DEF OneEntryAtMost

\* To its users the graph is a tree of names: every call, a rename with the
\* removal of what it replaces included, is one step of PosixNamespace or does
\* not show.  No directory comes to lie below itself, no entry and no object
\* appears or goes besides the ones the call names, and an object goes with its
\* last name and not before.
THEOREM CallsImplementPosixNamespace ==
  ASSUME PoolsHaveRoom
  PROVE  Spec => ImplementsPosixNamespace
<1>1. SoundState /\ [Next]_g => [P!Next]_<<kind, ent>>
  <2>1. CASE UNCHANGED g
    BY <2>1 DEF kind, ent, DirInode, UserEdges, ContainsEdges
  <2>2. ASSUME SoundState, Next PROVE P!Next \/ UNCHANGED <<kind, ent>>
    BY <2>2, NextRefines
  <2> QED BY <2>1, <2>2
<1> QED BY <1>1, InitRefines, SoundAlways, PTL DEF Spec, ImplementsPosixNamespace, P!Spec

-----------------------------------------------------------------------------
(***************************************************************************)
(* Transactions.  check_invariants, which a commit has to pass, asks less  *)
(* of the tree than Sound; what a graph may fail are the two checks that   *)
(* look at edges which are not entries, and at blocks.                     *)
(***************************************************************************)
EdgesLead(k) == check_no_dangling_edges(k) /\ check_block_refcount(k)

LEMMA SoundPasses ==
  ASSUME NEW k, Sound(k), EdgesLead(k)
  PROVE  check_invariants(k)
<1>1. /\ ListingsExact(k) /\ IncomingExact(k) /\ NamesExact(k) /\ DirsPaired(k)
      /\ DotEdges(k) /\ Named(k) /\ LinksCounted(k) /\ check_no_dir_cycles(k)
  BY DEF Sound, WellFormed
<1>2. \A d : entries(k, d) = {e \in ContainsEdges(k) : k.edges[e].src = d}
  BY <1>1 DEF entries, SetAt, ListingsExact
<1>3. \A i : incoming(k, i) = {e \in ContainsEdges(k) : k.edges[e].tgt = i}
  BY <1>1 DEF incoming, SetAt, IncomingExact
<1>4. check_link_count_consistency(k)
  <2>1. \A i : {e \in incoming(k, i) : k.edges[e].name # ".."} = LinksTo(k, i)
    BY <1>3 DEF LinksTo
  <2> QED BY <1>1, <2>1 DEF check_link_count_consistency, LinksCounted
<1>5. check_unique_names(k)
  <2> SUFFICES ASSUME NEW d \in DOMAIN k.dir_contains, NEW e \in entries(k, d),
                      NEW f \in entries(k, d), k.edges[e].name = k.edges[f].name
               PROVE  e = f
    BY DEF check_unique_names
  <2>1. /\ e \in ContainsEdges(k) /\ k.edges[e].src = d
        /\ f \in ContainsEdges(k) /\ k.edges[f].src = d
    BY <1>2
  <2> QED BY <1>1, <2>1 DEF NamesExact
<1>6. check_dir_self_ref(k)
  <2> SUFFICES ASSUME NEW d \in DOMAIN k.dirs
               PROVE  \E e \in entries(k, d) : k.edges[e].name = "." /\ k.edges[e].tgt = k.dirs[d]
    BY DEF check_dir_self_ref
  <2> DEFINE e == k.dir_name_idx[<<d, ".">>]
  <2>1. e \in ContainsEdges(k) /\ k.edges[e].src = d /\ k.edges[e].name = "."
    BY <1>1 DEF DotEdges, NamesExact
  <2>2. k.edges[e].tgt = k.dirs[d]
    BY <1>1, <2>1 DEF DotEdges
  <2> QED BY <1>2, <2>1, <2>2
<1>7. check_no_hard_link_to_dir(k)
  BY <1>1, <1>3 DEF check_no_hard_link_to_dir, Named, UserEdges, IsDirInode
<1>8. check_dir_name_idx_consistency(k)
  <2>1. \A d \in DOMAIN k.dir_contains : \A e \in entries(k, d) :
          /\ k.edges[e].src = d
          /\ <<d, k.edges[e].name>> \in DOMAIN k.dir_name_idx
          /\ k.dir_name_idx[<<d, k.edges[e].name>>] = e
    BY <1>1, <1>2 DEF NamesExact
  <2>2. \A q \in DOMAIN k.dir_name_idx :
          /\ k.dir_name_idx[q] \in ContainsEdges(k)
          /\ k.edges[k.dir_name_idx[q]].src = q[1]
          /\ k.edges[k.dir_name_idx[q]].name = q[2]
    BY <1>1 DEF NamesExact
  <2> QED BY <2>1, <2>2 DEF check_dir_name_idx_consistency
<1> QED BY <1>1, <1>4, <1>5, <1>6, <1>7, <1>8 DEF check_invariants, EdgesLead


\* The graph, and every graph a rollback may put in its place.
Graphs ==
  {g} \cup {stack[x] : x \in DOMAIN stack}
      \cup (IF manual.state = "None" THEN {} ELSE {manual.snapshot})

\* A with_transaction and a Gtxn kept by hand are never open together, and the
\* outcome says whether one is.
TxnTyped ==
  /\ \E T : stack \in Seq(T)
  /\ manual = [state |-> manual.state, snapshot |-> manual.snapshot]
  /\ stack # <<>> => manual.state # "Active"
  /\ outcome = "running" <=> InTxn

LEMMA PushIs ==
  ASSUME NEW T, NEW s \in Seq(T), NEW k, NEW r, r = Append(s, k)
  PROVE  /\ r \in Seq(T \cup {k}) /\ r # <<>> /\ DOMAIN r = 1 .. Len(s) + 1
         /\ \A x \in DOMAIN r : r[x] = IF x = Len(s) + 1 THEN k ELSE s[x]
         /\ DOMAIN s = 1 .. Len(s) /\ Len(s) \in Nat
         /\ r[1] = IF s = <<>> THEN k ELSE s[1]
<1>1. s \in Seq(T \cup {k}) /\ k \in T \cup {k} /\ Len(s) \in Nat
  OBVIOUS
<1>2. r \in Seq(T \cup {k}) /\ Len(r) = Len(s) + 1
      /\ \A x \in 1 .. Len(s) + 1 : r[x] = IF x = Len(s) + 1 THEN k ELSE s[x]
  BY <1>1
<1>3. s = <<>> <=> Len(s) = 0
  BY <1>1
<1> QED BY <1>1, <1>2, <1>3

LEMMA PopIs ==
  ASSUME NEW T, NEW s \in Seq(T), s # <<>>, NEW r, r = SubSeq(s, 1, Len(s) - 1)
  PROVE  /\ r \in Seq(T) /\ DOMAIN r \subseteq DOMAIN s /\ \A x \in DOMAIN r : r[x] = s[x]
         /\ Len(s) \in DOMAIN s /\ 1 \in DOMAIN s
         /\ Len(r) = Len(s) - 1 /\ Len(s) \in Nat
         /\ r # <<>> => r[1] = s[1]
<1>1. Len(s) \in Nat \ {0} /\ DOMAIN s = 1 .. Len(s)
  OBVIOUS
<1>2. r \in Seq(T) /\ Len(r) = Len(s) - 1 /\ \A x \in 1 .. Len(s) - 1 : r[x] = s[x]
  BY <1>1
<1>3. DOMAIN r = 1 .. Len(s) - 1
  BY <1>2
<1>4. r = <<>> <=> Len(s) = 1
  <2>1. r \in Seq(T) /\ Len(r) = Len(s) - 1
    BY <1>2
  <2>2. r = <<>> => Len(r) = 0
    OBVIOUS
  <2>3. Len(r) = 0 => r = <<>>
    BY <2>1
  <2> QED BY ONLY <1>1, <2>1, <2>2, <2>3
<1>5. r # <<>> => 1 \in 1 .. Len(s) - 1
  BY <1>1, <1>4
<1> QED BY <1>1, <1>2, <1>3, <1>4, <1>5

LEMMA TxnNextTyped ==
  ASSUME TxnTyped, TxnNext
  PROVE  TxnTyped'
<1>0. PICK T : stack \in Seq(T)
  BY DEF TxnTyped
<1>1. CASE Body
  BY <1>1 DEF Body, TxnTyped, InTxn, txn
<1>2. CASE Enter
  <2>0. stack' = Append(stack, g)
    BY <1>2 DEF Enter
  <2>1. stack' \in Seq(T \cup {g}) /\ stack' # <<>>
    BY <1>0, <2>0, PushIs
  <2> QED BY <1>2, <2>1 DEF Enter, TxnTyped, InTxn
<1>3. ASSUME NEW r, stack # <<>>, Leave(r), r # "running"
      PROVE  TxnTyped'
  <2>0. stack # <<>> /\ stack' = SubSeq(stack, 1, Len(stack) - 1)
    BY <1>3 DEF Leave
  <2>1. stack' \in Seq(T)
    BY <1>0, <2>0, PopIs
  <2>2. Len(stack') = Len(stack) - 1 /\ Len(stack) \in Nat
    BY <1>0, <2>0, PopIs
  <2>3. stack' = <<>> <=> Len(stack) = 1
    BY <2>1, <2>2, SMTT(30)
  <2> QED BY <1>3, <2>1, <2>3 DEF Leave, TxnTyped, InTxn
<1>4. CASE ClosureErr \/ ClosureOk
  BY <1>3, <1>4 DEF ClosureErr, ClosureOk
<1>5. CASE Begin \/ Commit \/ Rollback
  BY <1>5 DEF Begin, Commit, Rollback, TxnTyped, InTxn, NoTxn
<1> QED BY <1>1, <1>2, <1>4, <1>5 DEF TxnNext

\* Only the calls inside a transaction make a new graph.
LEMMA TxnNextGraphs ==
  ASSUME TxnTyped, TxnNext
  PROVE  \/ Graphs' \subseteq Graphs
         \/ Next /\ Graphs' \subseteq Graphs \cup {g'}
<1>0. PICK T : stack \in Seq(T)
  BY DEF TxnTyped
<1>1. CASE Body
  BY <1>1 DEF Body, Graphs, txn
<1>2. CASE Enter
  <2>0. stack' = Append(stack, g)
    BY <1>2 DEF Enter
  <2>1. /\ DOMAIN stack' = 1 .. Len(stack) + 1
        /\ \A x \in DOMAIN stack' : stack'[x] = IF x = Len(stack) + 1 THEN g ELSE stack[x]
        /\ DOMAIN stack = 1 .. Len(stack) /\ Len(stack) \in Nat
    BY <1>0, <2>0, PushIs
  <2>2. \A x \in DOMAIN stack' : (stack'[x] = g) \/ (x \in DOMAIN stack /\ stack'[x] = stack[x])
    BY <2>1
  <2> QED BY <1>2, <2>2 DEF Enter, Graphs
<1>3. CASE ClosureErr \/ ClosureOk
  <2>0. stack # <<>> /\ stack' = SubSeq(stack, 1, Len(stack) - 1)
    BY <1>3 DEF ClosureErr, ClosureOk, Leave
  <2>1. /\ DOMAIN stack' \subseteq DOMAIN stack
        /\ \A x \in DOMAIN stack' : stack'[x] = stack[x]
        /\ Len(stack) \in DOMAIN stack
    BY <1>0, <2>0, PopIs
  <2>2. g' \in {g} \cup {stack[x] : x \in DOMAIN stack} /\ manual' = manual
    BY <1>3, <2>1 DEF ClosureErr, ClosureOk, Leave
  <2> QED BY <2>1, <2>2 DEF Graphs
<1>4. CASE Begin \/ Commit \/ Rollback
  BY <1>4 DEF Begin, Commit, Rollback, Graphs, TxnTyped, NoTxn
<1> QED BY <1>1, <1>2, <1>3, <1>4 DEF TxnNext

\* Every graph a transaction may show or bring back is a sound one.
GraphsSound == \A k \in Graphs : Sound(k) /\ k.next_dir <= k.next_inode

LEMMA TxnInitSound ==
  ASSUME TxnInit
  PROVE  TxnTyped /\ GraphsSound
<1>1. Init /\ stack = <<>> /\ manual = NoTxn /\ outcome = "none"
  BY DEF TxnInit
<1>2. stack \in Seq({}) /\ DOMAIN stack = {}
  BY <1>1
<1>3. TxnTyped
  BY <1>1, <1>2 DEF TxnTyped, InTxn, NoTxn
<1>4. Graphs = {g}
  BY <1>1, <1>2 DEF Graphs, NoTxn
<1> QED BY <1>1, <1>3, <1>4, InitSound DEF GraphsSound, SoundState

LEMMA TxnStutterKeeps ==
  ASSUME TxnTyped, UNCHANGED vars
  PROVE  TxnTyped' /\ Graphs' = Graphs /\ g' = g
<1>1. g' = g /\ stack' = stack /\ manual' = manual /\ outcome' = outcome
  BY DEF vars, txn
<1> QED BY <1>1 DEF TxnTyped, InTxn, Graphs

LEMMA TxnNextSound ==
  ASSUME PoolsHaveRoom, TxnTyped, GraphsSound, [TxnNext]_vars
  PROVE  TxnTyped' /\ GraphsSound'
<1>1. CASE UNCHANGED vars
  BY <1>1, TxnStutterKeeps DEF GraphsSound
<1>2. CASE TxnNext
  <2>1. SoundState
    BY DEF GraphsSound, Graphs, SoundState
  <2>2. ASSUME Graphs' \subseteq Graphs
        PROVE  GraphsSound'
    BY <2>2 DEF GraphsSound
  <2>3. ASSUME Next, Graphs' \subseteq Graphs \cup {g'}
        PROVE  GraphsSound'
    <3>1. SoundState'
      BY <2>1, <2>3, NextSound
    <3> QED BY <2>3, <3>1 DEF GraphsSound, SoundState
  <2> QED BY <1>2, <2>2, <2>3, TxnNextGraphs, TxnNextTyped
<1> QED BY <1>1, <1>2

\* However transactions are nested, committed and rolled back, the graph that
\* calls go on from is a well-formed tree: a rollback puts back one that was.
THEOREM TransactionsKeepTheTree ==
  ASSUME PoolsHaveRoom
  PROVE  TxnSpec => []NamespaceWellFormed
<1>1. TxnTyped /\ GraphsSound /\ [TxnNext]_vars => TxnTyped' /\ GraphsSound'
  BY TxnNextSound
<1>2. GraphsSound => NamespaceWellFormed
  BY DEF GraphsSound, Graphs, Sound, NamespaceWellFormed
<1> QED BY <1>1, <1>2, TxnInitSound, PTL DEF TxnSpec
\* What a with_transaction that ends, or one kept by hand, does to what others
\* see, as long as the check finds nothing it could find.
LEMMA TxnStepIsAtomic ==
  ASSUME TxnTyped, Sound(g), EdgesLead(g), RollbackAfterCommit = FALSE, TxnNext
  PROVE  A!Next \/ (public' = public /\ outcome' = outcome)
<1>0. PICK T : stack \in Seq(T)
  BY DEF TxnTyped
<1>1. check_invariants(g)
  BY SoundPasses
<1>2. CASE Body
  BY <1>2 DEF Body, InTxn, public, txn
<1>3. CASE Enter
  <2>0. stack' = Append(stack, g)
    BY <1>3 DEF Enter
  <2>1. stack' # <<>> /\ stack'[1] = IF stack = <<>> THEN g ELSE stack[1]
    BY <1>0, <2>0, PushIs
  <2>2. manual.state # "Active" /\ outcome' = "running"
    BY <1>3 DEF Enter
  <2>3. public' = stack'[1]
    BY <2>1 DEF public
  <2>4. public = IF stack = <<>> THEN g ELSE stack[1]
    BY <2>2 DEF public
  <2>5. outcome = "running" <=> stack # <<>>
    BY <2>2 DEF TxnTyped, InTxn
  <2> QED BY <2>1, <2>2, <2>3, <2>4, <2>5 DEF A!Next, A!Begin
<1>4. CASE ClosureErr \/ ClosureOk
  <2>0. /\ stack # <<>> /\ stack' = SubSeq(stack, 1, Len(stack) - 1)
        /\ manual' = manual
    BY <1>4 DEF ClosureErr, ClosureOk, Leave
  <2>1. /\ Len(stack') = Len(stack) - 1 /\ Len(stack) \in Nat /\ stack' \in Seq(T)
        /\ stack' # <<>> => stack'[1] = stack[1]
    BY <1>0, <2>0, PopIs
  <2>2. stack' = <<>> <=> Len(stack) = 1
    BY <2>1
  <2>3. /\ outcome = "running" /\ manual.state # "Active"
        /\ public = stack[1]
    BY <2>0 DEF TxnTyped, InTxn, public
  <2>4. CASE Len(stack) # 1
    <3>1. public' = stack[1]
      BY <2>1, <2>2, <2>4 DEF public
    <3>2. outcome' = "running"
      BY <1>4, <2>4 DEF ClosureErr, ClosureOk, Leave
    <3> QED BY <2>3, <3>1, <3>2
  <2>5. CASE Len(stack) = 1
    <3>1. public' = g'
      BY <2>0, <2>2, <2>3, <2>5 DEF public
    <3>2. CASE ClosureErr
      BY <2>3, <2>5, <3>1, <3>2 DEF ClosureErr, Leave, A!Next, A!Abort
    <3>3. CASE ClosureOk
      <4>1. g' = g /\ outcome' = "ok"
        BY <1>1, <2>5, <3>3 DEF ClosureOk, Leave
      <4>2. check_invariants(public')
        BY <1>1, <3>1, <4>1
      <4> QED BY <2>3, <4>1, <4>2 DEF A!Next, A!Commit
    <3> QED BY <1>4, <3>2, <3>3
  <2> QED BY <2>4, <2>5
<1>5. CASE Begin
  <2>1. /\ stack = <<>> /\ stack' = stack /\ manual.state # "Active"
        /\ manual' = [state |-> "Active", snapshot |-> g] /\ outcome' = "running"
    BY <1>5 DEF Begin
  <2>2. public = g /\ public' = g /\ outcome # "running"
    BY <2>1 DEF public, TxnTyped, InTxn
  <2> QED BY <2>1, <2>2 DEF A!Next, A!Begin
<1>6. CASE Commit
  <2>1. /\ manual.state = "Active" /\ stack' = stack /\ g' = g /\ outcome' = "ok"
        /\ manual' = [manual EXCEPT !.state = "Committed"]
    BY <1>6 DEF Commit
  <2>2. stack = <<>> /\ outcome = "running" /\ manual'.state = "Committed"
    BY <2>1 DEF TxnTyped, InTxn
  <2>3. public' = g
    BY <2>1, <2>2 DEF public
  <2>4. check_invariants(public')
    BY <1>1, <2>3
  <2> QED BY <2>1, <2>2, <2>4 DEF A!Next, A!Commit
<1>7. CASE Rollback
  <2>1. /\ manual.state = "Active" /\ stack' = stack /\ g' = manual.snapshot
        /\ outcome' = "err" /\ manual' = NoTxn
    BY <1>7 DEF Rollback
  <2>2. stack = <<>> /\ outcome = "running"
    BY <2>1 DEF TxnTyped, InTxn
  <2>3. public' = g' /\ public = manual.snapshot
    BY <2>1, <2>2 DEF public, NoTxn
  <2> QED BY <2>1, <2>2, <2>3 DEF A!Next, A!Abort
<1> QED BY <1>2, <1>3, <1>4, <1>5, <1>6, <1>7 DEF TxnNext

\* Nested or one after the other, with_transaction and a Gtxn kept by hand
\* implement the atomic store, as long as no edge that is not an entry dangles
\* and reference counts are right: an inner failure does not reach what others
\* see, and what a commit lets them see passes the check.  A committed Gtxn is
\* not rolled back, which its methods would allow.
THEOREM SoundTransactionsAreAtomic ==
  ASSUME PoolsHaveRoom, RollbackAfterCommit = FALSE
  PROVE  TxnSpec /\ []EdgesLead(g) => TransactionsAreAtomic
<1>1. TxnTyped /\ GraphsSound /\ [TxnNext]_vars => TxnTyped' /\ GraphsSound'
  BY TxnNextSound
<1>2. TxnTyped /\ GraphsSound /\ EdgesLead(g) /\ [TxnNext]_vars
        => [A!Next]_<<public, outcome>>
  <2> SUFFICES ASSUME TxnTyped, GraphsSound, EdgesLead(g), [TxnNext]_vars
               PROVE  A!Next \/ (public' = public /\ outcome' = outcome)
    OBVIOUS
  <2>1. CASE TxnNext
    <3>1. Sound(g)
      BY DEF GraphsSound, Graphs
    <3> QED BY <2>1, <3>1, TxnStepIsAtomic
  <2>2. CASE UNCHANGED vars
    BY <2>2 DEF vars, txn, public
  <2> QED BY <2>1, <2>2
<1>3. TxnInit => A!Init
  BY DEF TxnInit, A!Init
<1> QED BY <1>1, <1>2, <1>3, TxnInitSound, PTL DEF TxnSpec, TransactionsAreAtomic, A!Spec

\* Transactions in which no block is written and no attribute or ACL is set.
OnlyEntries == \A h : Calls(h) \cap {"write_block", "setxattr", "setacl"} = {}

Plain(k) ==
  /\ DOMAIN k.xattrs = {} /\ DOMAIN k.blocks = {}
  /\ \A e \in DOMAIN k.edges : k.edges[e].kind = "Contains"

LEMMA PlainLeads ==
  ASSUME NEW k, Sound(k), Plain(k)
  PROVE  EdgesLead(k)
<1>1. DOMAIN k.edges = ContainsEdges(k) /\ DOMAIN k.blocks = {}
  BY DEF Plain, ContainsEdges
<1>2. Endpoints(k)
  BY SoundGraph
<1>3. \A e \in DOMAIN k.edges : /\ k.edges[e].kind = "Contains"
                                /\ k.edges[e].src \in DOMAIN k.dirs
                                /\ k.edges[e].tgt \in DOMAIN k.inodes
  BY <1>1, <1>2 DEF Plain, Endpoints
<1>4. /\ src_pool(k, "Contains") = DOMAIN k.dirs
      /\ tgt_pool(k, "Contains") = DOMAIN k.inodes
  BY DEF src_pool, tgt_pool
<1>5. check_no_dangling_edges(k)
  BY <1>3, <1>4 DEF check_no_dangling_edges
<1>6. check_block_refcount(k)
  BY <1>1 DEF check_block_refcount
<1> QED BY <1>5, <1>6 DEF EdgesLead

LEMMA InitPlain ==
  ASSUME Init
  PROVE  Plain(g)
<1>1. /\ g.xattrs = Empty /\ g.blocks = Empty
      /\ \A e \in DOMAIN g.edges : g.edges[e].kind = "Contains"
  BY DEF Init, new_graph, ContainsEdge
<1> QED BY <1>1 DEF Plain, Empty

LEMMA NextPlain ==
  ASSUME PoolsHaveRoom, OnlyEntries, SoundState, Plain(g), Next
  PROVE  Plain(g')
<1>1. ~WriteBlock /\ ~Setxattr /\ ~Setacl
  BY DEF OnlyEntries, WriteBlock, Setxattr, Setacl
<1>2. ~Removexattr
  <2> SUFFICES ASSUME NEW i, NEW k PROVE ~removexattr_ok(g, i, k)
    BY DEF Removexattr
  <2>1. xattrs_with_key(g, i, k) = {}
    BY DEF Plain, xattrs_with_key
  <2> QED BY <2>1 DEF removexattr_ok
<1>3. NoNewBlocks(g, g')
  BY <1>1, NextMakesNoBlocks
<1>4. Leaves(g, g', Attributes, {"HasXattr"}) /\ Leaves(g, g', Permissions, {"Grants"})
  BY <1>1, <1>2, NextLeaves DEF WhoChangesWhat
<1>5. g'.xattrs = g.xattrs /\ DOMAIN g'.blocks \subseteq DOMAIN g.blocks
  BY <1>3, <1>4 DEF Leaves, Attributes, NoNewBlocks
<1>6. \A c \in {"PointsTo", "HasXattr", "Grants"} : EdgesOf(g', c) \subseteq EdgesOf(g, c)
  BY <1>3, <1>4 DEF Leaves, SameEdges, NoNewBlocks, Pointers
<1>7. \A c \in {"PointsTo", "HasXattr", "Grants"} : EdgesOf(g, c) = {}
  BY DEF Plain, EdgesOf
<1>8. \A e \in DOMAIN g'.edges : g'.edges[e].kind \in EdgeKinds
  <2>1. SoundState'
    BY NextSound
  <2>2. FieldsTyped(g')
    BY <2>1, SoundGraph DEF SoundState
  <2> QED BY <2>2 DEF FieldsTyped, Edge
<1>9. \A e \in DOMAIN g'.edges : g'.edges[e].kind = "Contains"
  BY <1>6, <1>7, <1>8 DEF EdgesOf, EdgeKinds
<1> QED BY <1>5, <1>9 DEF Plain

\* The atomic store again, with nothing left to assume of the states: entries
\* may be made, moved and removed, files written and attributes changed, and
\* transactions nested and rolled back in any way.
THEOREM NamespaceTransactionsAreAtomic ==
  ASSUME PoolsHaveRoom, RollbackAfterCommit = FALSE, OnlyEntries
  PROVE  TxnSpec => TransactionsAreAtomic
<1> DEFINE AllPlain == \A k \in Graphs : Plain(k)
           Inv == TxnTyped /\ GraphsSound /\ AllPlain
<1>1. TxnInit => Inv
  <2> SUFFICES ASSUME TxnInit PROVE AllPlain
    BY TxnInitSound
  <2>1. Graphs = {g}
    BY DEF TxnInit, Graphs, NoTxn
  <2> QED BY <2>1, InitPlain DEF TxnInit
<1>2. Inv /\ [TxnNext]_vars => Inv'
  <2> SUFFICES ASSUME Inv, [TxnNext]_vars PROVE AllPlain'
    BY TxnNextSound
  <2>1. CASE UNCHANGED vars
    BY <2>1, TxnStutterKeeps
  <2>2. CASE TxnNext
    <3>1. SoundState /\ Plain(g)
      BY DEF GraphsSound, Graphs, SoundState
    <3>2. ASSUME Graphs' \subseteq Graphs PROVE AllPlain'
      BY <3>2
    <3>3. ASSUME Next, Graphs' \subseteq Graphs \cup {g'} PROVE AllPlain'
      <4>1. Plain(g')
        BY <3>1, <3>3, NextPlain
      <4> QED BY <3>3, <4>1
    <3> QED BY <2>2, <3>2, <3>3, TxnNextGraphs
  <2> QED BY <2>1, <2>2
<1>3. Inv => EdgesLead(g)
  <2>1. ASSUME Inv PROVE Sound(g) /\ Plain(g)
    BY <2>1 DEF GraphsSound, Graphs
  <2> QED BY <2>1, PlainLeads
<1> HIDE DEF Inv
<1>4. TxnSpec => []EdgesLead(g)
  BY <1>1, <1>2, <1>3, PTL DEF TxnSpec
<1> QED BY <1>4, SoundTransactionsAreAtomic, PTL
=============================================================================
