-------------------------- MODULE TreewidthProofs --------------------------
(***************************************************************************)
(* Proofs about DynamicTreewidth for every value of its constants: in any  *)
(* state the ordering eliminates every node of the graph once, and every   *)
(* cached step width is the one the ordering has on the graph as it is.    *)
(*                                                                         *)
(* The argument: eliminating the nodes X from a graph leaves an edge       *)
(* between two of the others just where they are connected over nodes of   *)
(* X (FillStep), so a width depends on the nodes eliminated before and on  *)
(* their neighbours only, and an edit that leaves those alone leaves the   *)
(* width as it is (SameWidth).                                             *)
(***************************************************************************)
EXTENDS Treewidth, FiniteSetTheorems, TLAPS

-----------------------------------------------------------------------------
(***************************************************************************)
(* Facts about numbers and runs.                                           *)
(***************************************************************************)

\* A set of numbers that is not empty has a first one.
LEMMA LeastElement ==
  ASSUME NEW S \in SUBSET Nat, S # {}
  PROVE  \E x \in S : \A y \in S : x <= y
<1>1. PICK z \in S : TRUE
  OBVIOUS
<1> DEFINE F == 0 .. z
           R == StrictSubsetOrdering(F)
           T == {0 .. x - 1 : x \in S \cap F}
<1>2. IsFiniteSet(F)
  BY FS_Interval
<1>3. FiniteSubsetsOf(F) = SUBSET F
  BY <1>2, FS_FiniteSubsetsOfFinite
<1>4. IsWellFoundedOn(R, SUBSET F)
  BY <1>3, FS_StrictSubsetOrderingWellFounded
<1>5. T \subseteq SUBSET F /\ T # {}
  <2>1. z \in S \cap F
    BY <1>1
  <2>2. \A x \in S \cap F : 0 .. x - 1 \subseteq F
    OBVIOUS
  <2> QED BY <2>1, <2>2
<1>6. \E X \in T : \A Y \in T : ~(<<Y, X>> \in R)
  <2> HIDE DEF R, T, F
  <2> QED BY <1>4, <1>5, WFMin
<1>7. PICK x \in S \cap F : \A y \in S \cap F : ~(<<0 .. y - 1, 0 .. x - 1>> \in R)
  BY <1>6
<1>8. ASSUME NEW y \in S, y < x PROVE FALSE
  <2>1. y \in S \cap F /\ x \in Nat /\ y \in Nat
    BY <1>8
  <2>2. 0 .. y - 1 \subseteq 0 .. x - 1 /\ 0 .. x - 1 \subseteq F
    BY <1>8, <2>1
  <2>3. y \in 0 .. x - 1 /\ y \notin 0 .. y - 1
    BY <1>8, <2>1
  <2> DEFINE Y == 0 .. y - 1
             X == 0 .. x - 1
  <2>4. <<Y, X>> \in R
    <3>1. Y # X
      BY <2>3
    <3> HIDE DEF X, Y, F
    <3>2. Y \in SUBSET F /\ X \in SUBSET F /\ Y \subseteq X /\ Y # X
      BY <2>2, <3>1 DEF X, Y
    <3> QED BY <3>2 DEF StrictSubsetOrdering
  <2> QED BY <1>7, <2>1, <2>4
<1> QED BY <1>7, <1>8

\* Induction along an interval, for a set.
LEMMA UpTo ==
  ASSUME NEW n \in Nat, NEW P, 0 \in P, \A k \in 1 .. n : k - 1 \in P => k \in P
  PROVE  \A k \in 0 .. n : k \in P
<1> DEFINE S == {k \in 0 .. n : k \notin P}
<1> SUFFICES ASSUME S # {} PROVE FALSE
  OBVIOUS
<1>1. S \subseteq Nat
  OBVIOUS
<1>2. PICK k \in S : \A j \in S : k <= j
  BY <1>1, LeastElement
<1>3. k \in 1 .. n
  BY <1>2
<1>4. k - 1 \in 0 .. n /\ k - 1 \notin S
  BY <1>2, <1>3
<1> QED BY <1>2, <1>3, <1>4

\* r is the run of the steps F from w.
RunOf(n, S, w, F, r) ==
  /\ r \in [0 .. n -> S]
  /\ r[0] = w
  /\ \A k \in 1 .. n : r[k] = F[<<k, r[k - 1]>>]

\* A function defined by recursion along an interval exists, when each of its
\* values is found from the one before.
LEMMA RunExists ==
  ASSUME NEW n \in Nat, NEW S, NEW w \in S, NEW F \in [(1 .. n) \X S -> S]
  PROVE  \E r : RunOf(n, S, w, F, r)
<1> DEFINE Upto(m, r) == r[0] = w /\ \A k \in 1 .. m : r[k] = F[<<k, r[k - 1]>>]
           P == {m \in 0 .. n : \E r \in [0 .. n -> S] : Upto(m, r)}
<1>1. 0 \in P
  <2> DEFINE r == [k \in 0 .. n |-> w]
  <2>1. r \in [0 .. n -> S] /\ Upto(0, r)
    OBVIOUS
  <2> HIDE DEF r
  <2>2. 0 \in 0 .. n
    OBVIOUS
  <2> QED BY <2>1, <2>2
<1>2. ASSUME NEW m \in 1 .. n, m - 1 \in P PROVE m \in P
  <2>1. PICK q \in [0 .. n -> S] : Upto(m - 1, q)
    BY <1>2
  <2> DEFINE r == [q EXCEPT ![m] = F[<<m, q[m - 1]>>]]
  <2>2. m \in 0 .. n /\ m - 1 \in 0 .. n /\ 0 \in 0 .. n /\ m # 0 /\ m # m - 1
    BY <1>2
  <2>3. q[m - 1] \in S
    BY <2>2
  <2>4. F[<<m, q[m - 1]>>] \in S
    BY <1>2, <2>3
  <2>5. r \in [0 .. n -> S] /\ r[m] = F[<<m, q[m - 1]>>]
        /\ \A k \in 0 .. n : k # m => r[k] = q[k]
    BY <2>2, <2>4
  <2> HIDE DEF r
  <2>6. r[0] = w /\ r[m - 1] = q[m - 1]
    BY <2>1, <2>2, <2>5
  <2>7. ASSUME NEW k \in 1 .. m PROVE r[k] = F[<<k, r[k - 1]>>]
    <3>1. CASE k = m
      BY <2>5, <2>6, <3>1
    <3>2. CASE k # m
      <4>1. k \in 1 .. m - 1 /\ k \in 0 .. n /\ k - 1 \in 0 .. n /\ k - 1 # m
        BY <1>2, <3>2
      <4> QED BY <2>1, <2>5, <3>2, <4>1
    <3> QED BY <3>1, <3>2
  <2> QED BY <2>2, <2>5, <2>6, <2>7
<1> HIDE DEF P
<1>3. n \in P
  <2>1. \A k \in 0 .. n : k \in P
    BY <1>1, <1>2, UpTo
  <2> QED BY <2>1
<1> QED BY <1>3 DEF P, RunOf

LEMMA OnlyIs == ASSUME NEW x PROVE Only({x}) = x
  BY DEF Only

-----------------------------------------------------------------------------
(***************************************************************************)
(* Connected over a set of nodes.                                          *)
(***************************************************************************)

\* C holds the neighbours among X of each of its nodes.
Closed(E, X, C) == \A v \in C : neighbours(E, v) \cap X \subseteq C

\* The nodes reached from a over nodes of X, and the neighbours of those.
Comp(E, X, a) ==
  {y \in X \cup {a} : \A C \in SUBSET (X \cup {a}) : a \in C /\ Closed(E, X, C) => y \in C}

Sees(E, X, a) == UNION {neighbours(E, v) : v \in Comp(E, X, a)}

LEMMA CompIs ==
  ASSUME NEW E, NEW X, NEW a
  PROVE  /\ Comp(E, X, a) \subseteq X \cup {a} /\ a \in Comp(E, X, a)
         /\ Closed(E, X, Comp(E, X, a))
         /\ \A v \in Comp(E, X, a) : neighbours(E, v) \subseteq Sees(E, X, a)
<1> DEFINE K == Comp(E, X, a)
<1>1. K \subseteq X \cup {a} /\ a \in K
  BY DEF Comp
<1>2. ASSUME NEW v \in K, NEW y \in neighbours(E, v) \cap X PROVE y \in K
  <2>1. ASSUME NEW C \in SUBSET (X \cup {a}), a \in C, Closed(E, X, C) PROVE y \in C
    <3>1. v \in C
      BY <2>1 DEF Comp
    <3> QED BY <1>2, <2>1, <3>1 DEF Closed
  <2> QED BY <1>2, <2>1 DEF Comp
<1>3. Closed(E, X, K)
  BY <1>2 DEF Closed
<1>4. \A v \in K : neighbours(E, v) \subseteq Sees(E, X, a)
  BY DEF Sees
<1> QED BY <1>1, <1>3, <1>4

LEMMA CompLeast ==
  ASSUME NEW E, NEW X, NEW a, NEW C, a \in C, Closed(E, X, C)
  PROVE  Comp(E, X, a) \subseteq C
<1> DEFINE B == C \cap (X \cup {a})
<1>1. B \in SUBSET (X \cup {a}) /\ a \in B
  OBVIOUS
<1>2. Closed(E, X, B)
  BY DEF Closed
<1> HIDE DEF B
<1>3. Comp(E, X, a) \subseteq B
  BY <1>1, <1>2 DEF Comp
<1> QED BY <1>3 DEF B

\* One more node to go over: what it sees is seen when it is seen itself.
LEMMA SeesStep ==
  ASSUME NEW E, NEW X, NEW a, NEW x, a # x
  PROVE  Sees(E, X \cup {x}, a) =
           Sees(E, X, a) \cup (IF x \in Sees(E, X, a) THEN Sees(E, X, x) ELSE {})
<1> DEFINE A == Comp(E, X, a)
           B == Comp(E, X, x)
           D == Comp(E, X \cup {x}, a)
           R == A \cup (IF x \in Sees(E, X, a) THEN B ELSE {})
<1>1. /\ a \in A /\ Closed(E, X, A) /\ x \in B /\ Closed(E, X, B)
      /\ a \in D /\ Closed(E, X \cup {x}, D)
      /\ \A v \in A : neighbours(E, v) \subseteq Sees(E, X, a)
  BY CompIs
<1>2. D \subseteq R
  <2>1. a \in R
    BY <1>1
  <2>2. ASSUME NEW v \in R, NEW y \in neighbours(E, v) \cap (X \cup {x}) PROVE y \in R
    <3>1. CASE v \in A /\ y = x
      <4>1. x \in Sees(E, X, a)
        BY <1>1, <2>2, <3>1
      <4> QED BY <1>1, <3>1, <4>1
    <3>2. CASE v \in A /\ y # x
      BY <1>1, <2>2, <3>2 DEF Closed
    <3>3. CASE v \notin A
      <4>1. x \in Sees(E, X, a) /\ v \in B
        BY <2>2, <3>3
      <4>2. y \in B
        BY <1>1, <2>2, <4>1 DEF Closed
      <4> QED BY <4>1, <4>2
    <3> QED BY <3>1, <3>2, <3>3
  <2>3. Closed(E, X \cup {x}, R)
    BY <2>2 DEF Closed
  <2> HIDE DEF R
  <2> QED BY <2>1, <2>3, CompLeast
<1>3. A \subseteq D /\ (x \in Sees(E, X, a) => B \subseteq D)
  <2>1. Closed(E, X, D)
    BY <1>1 DEF Closed
  <2> HIDE DEF D
  <2>2. A \subseteq D
    BY <1>1, <2>1, CompLeast
  <2>3. ASSUME x \in Sees(E, X, a) PROVE B \subseteq D
    <3>1. PICK v \in A : x \in neighbours(E, v)
      BY <2>3 DEF Sees
    <3>2. x \in D
      BY <1>1, <2>2, <3>1 DEF Closed
    <3> QED BY <2>1, <3>2, CompLeast
  <2> QED BY <2>2, <2>3
<1>4. D = R
  BY <1>2, <1>3
<1> HIDE DEF A, B, D, R
<1>5. /\ Sees(E, X \cup {x}, a) = UNION {neighbours(E, v) : v \in R}
      /\ Sees(E, X, a) = UNION {neighbours(E, v) : v \in A}
      /\ Sees(E, X, x) = UNION {neighbours(E, v) : v \in B}
  BY <1>4 DEF Sees, A, B, D
<1> QED BY <1>5 DEF R

\* What is seen depends on the neighbours of a and of X only.
LEMMA SeesSame ==
  ASSUME NEW E, NEW F, NEW X, NEW a,
         \A v \in X \cup {a} : neighbours(E, v) = neighbours(F, v)
  PROVE  Sees(E, X, a) = Sees(F, X, a)
<1>1. \A C \in SUBSET (X \cup {a}) : Closed(E, X, C) <=> Closed(F, X, C)
  BY DEF Closed
<1>2. Comp(E, X, a) = Comp(F, X, a)
  BY <1>1 DEF Comp
<1>3. \A v \in Comp(E, X, a) : neighbours(E, v) = neighbours(F, v)
  BY CompIs
<1> QED BY <1>2, <1>3 DEF Sees

-----------------------------------------------------------------------------
(***************************************************************************)
(* Undirected graphs and the fill edges.                                   *)
(***************************************************************************)
LEMMA CliqueIs ==
  ASSUME NEW S
  PROVE  \A e : e \in clique(S) <=> \E a, b \in S : a # b /\ e = {a, b}
<1>1. ASSUME NEW a \in S, NEW b \in S, a # b PROVE {a, b} \in clique(S)
  <2>1. <<a, b>> \in {q \in S \X S : q[1] # q[2]}
    BY <1>1
  <2>2. <<a, b>>[1] = a /\ <<a, b>>[2] = b
    OBVIOUS
  <2> QED BY <2>1, <2>2 DEF clique
<1>2. ASSUME NEW e \in clique(S) PROVE \E a, b \in S : a # b /\ e = {a, b}
  BY <1>2 DEF clique
<1> QED BY <1>1, <1>2

LEMMA NeighbourIs ==
  ASSUME NEW S, NEW E, E \subseteq clique(S)
  PROVE  /\ \A u, v : u \in neighbours(E, v) <=> u # v /\ {u, v} \in E
         /\ \A u, v : {u, v} \in E => u \in S /\ v \in S
         /\ \A v : neighbours(E, v) \subseteq S
<1>1. \A e \in E : \E a, b \in S : a # b /\ e = {a, b}
  BY CliqueIs
<1>2. ASSUME NEW u, NEW v, u \in neighbours(E, v) PROVE u # v /\ {u, v} \in E
  <2>1. PICK e \in E : v \in e /\ u \in e /\ u # v
    BY <1>2 DEF neighbours
  <2>2. e = {u, v}
    BY <1>1, <2>1
  <2> QED BY <2>1, <2>2
<1>3. ASSUME NEW u, NEW v, u # v, {u, v} \in E PROVE u \in neighbours(E, v)
  BY <1>3 DEF neighbours
<1>4. ASSUME NEW u, NEW v, {u, v} \in E PROVE u \in S /\ v \in S
  BY <1>1, <1>4
<1> QED BY <1>2, <1>3, <1>4

\* Among the nodes L that are left, F has the edges of E and the fill edges:
\* two are neighbours when one sees the other over the nodes X that are gone.
Filled(F, E, X, L) == \A a \in L : neighbours(F, a) = Sees(E, X, a) \ (X \cup {a})

\* Eliminating one more node keeps it so.
LEMMA FillStep ==
  ASSUME NEW N, NEW E, NEW F, F \subseteq clique(N), NEW X, NEW L, L \cap X = {},
         Filled(F, E, X, L), NEW x \in L, NEW G,
         G = {e \in F : x \notin e} \cup clique(neighbours(F, x))
  PROVE  G \subseteq clique(N) /\ Filled(G, E, X \cup {x}, L \ {x})
<1> DEFINE H == neighbours(F, x)
<1>1. /\ \A u, v : u \in neighbours(F, v) <=> u # v /\ {u, v} \in F
      /\ H \subseteq N
  BY NeighbourIs
<1>2. G \subseteq clique(N)
  <2>1. clique(H) \subseteq clique(N)
    BY <1>1, CliqueIs
  <2> QED BY <2>1
<1>3. \A u, v : {u, v} \in G <=> \/ {u, v} \in F /\ x # u /\ x # v
                                 \/ u \in H /\ v \in H /\ u # v
  <2>1. ASSUME NEW u, NEW v PROVE {u, v} \in clique(H) <=> u \in H /\ v \in H /\ u # v
    <3>1. {u, v} \in clique(H) <=> \E a, b \in H : a # b /\ {u, v} = {a, b}
      BY CliqueIs
    <3>2. \A a, b : {u, v} = {a, b} => (u = a /\ v = b) \/ (u = b /\ v = a)
      OBVIOUS
    <3> QED BY <3>1, <3>2
  <2> HIDE DEF H
  <2> QED BY <2>1 DEF H
<1>4. \A u, v : u \in neighbours(G, v) <=> u # v /\ {u, v} \in G
  BY ONLY <1>2, NeighbourIs
<1>5. ASSUME NEW a \in L \ {x}
      PROVE  neighbours(G, a) = Sees(E, X \cup {x}, a) \ (X \cup {x} \cup {a})
  <2>1. neighbours(F, a) = Sees(E, X, a) \ (X \cup {a}) /\ H = Sees(E, X, x) \ (X \cup {x})
    BY DEF Filled
  <2>2. a \in H <=> x \in neighbours(F, a)
    <3>1. {a, x} = {x, a}
      OBVIOUS
    <3> QED BY <1>1, <3>1
  <2>3. a \in H <=> x \in Sees(E, X, a)
    BY <2>1, <2>2
  <2>4. Sees(E, X \cup {x}, a) =
          Sees(E, X, a) \cup (IF x \in Sees(E, X, a) THEN Sees(E, X, x) ELSE {})
    BY SeesStep
  <2>5. \A u : u \in neighbours(G, a) <=>
                 \/ u \in neighbours(F, a) /\ u # x
                 \/ a \in H /\ u \in H /\ u # a
    <3> SUFFICES ASSUME NEW u
                 PROVE  u \in neighbours(G, a) <=>
                          \/ u \in neighbours(F, a) /\ u # x
                          \/ a \in H /\ u \in H /\ u # a
      OBVIOUS
    <3>1. u \in neighbours(G, a) <=> u # a /\ {u, a} \in G
      BY <1>4
    <3>2. {u, a} \in G <=> \/ {u, a} \in F /\ x # u /\ x # a
                           \/ u \in H /\ a \in H /\ u # a
      BY <1>3
    <3>3. u \in neighbours(F, a) <=> u # a /\ {u, a} \in F
      BY <1>1
    <3>4. x # a
      OBVIOUS
    <3> HIDE DEF H
    <3> QED BY ONLY <3>1, <3>2, <3>3, <3>4
  <2> HIDE DEF H
  <2>6. CASE a \in H
    <3>1. Sees(E, X \cup {x}, a) = Sees(E, X, a) \cup Sees(E, X, x)
      BY <2>3, <2>4, <2>6
    <3>2. \A u : u \in neighbours(G, a) <=>
                   (u \in neighbours(F, a) /\ u # x) \/ (u \in H /\ u # a)
      BY <2>5, <2>6
    <3> QED BY <2>1, <3>1, <3>2
  <2>7. CASE a \notin H
    <3>1. Sees(E, X \cup {x}, a) = Sees(E, X, a)
      BY <2>3, <2>4, <2>7
    <3>2. \A u : u \in neighbours(G, a) <=> u \in neighbours(F, a) /\ u # x
      BY <2>5, <2>7
    <3> QED BY <2>1, <3>1, <3>2
  <2> QED BY <2>6, <2>7
<1> QED BY <1>2, <1>5 DEF Filled

-----------------------------------------------------------------------------
(***************************************************************************)
(* Elimination: what a run under way satisfies.                            *)
(***************************************************************************)
RangeOf(s) == {s[k] : k \in DOMAIN s}

Distinct(s) == \A j, k \in DOMAIN s : s[j] = s[k] => j = k

GraphOn(ns, E) ==
  ns \in Seq(RangeOf(ns)) /\ Distinct(ns) /\ E \subseteq clique(RangeOf(ns))

\* The width of step k of the ordering o on the graph E.
WidthAt(E, o, k) ==
  Cardinality(Sees(E, {o[j] : j \in 1 .. k - 1}, o[k]) \ {o[j] : j \in 1 .. k})

\* The runs on the nodes ns with the edges E.
Elims(ns, E) ==
  {w \in [nodes : {ns}, left : SUBSET DOMAIN ns, edges : SUBSET clique(RangeOf(ns)),
          order : Seq(RangeOf(ns)), widths : Seq(Nat)] :
     /\ Distinct(w.order)
     /\ RangeOf(w.order) = {ns[k] : k \in DOMAIN ns \ w.left}
     /\ Filled(w.edges, E, RangeOf(w.order), {ns[k] : k \in w.left})
     /\ Len(w.widths) = Len(w.order)
     /\ \A k \in DOMAIN w.order : w.widths[k] = WidthAt(E, w.order, k)}

\* The width of a step depends on the order up to it and on the neighbours of
\* the nodes up to it.
LEMMA SameWidth ==
  ASSUME NEW E, NEW F, NEW o, NEW p, NEW k \in Nat \ {0},
         \A j \in 1 .. k : o[j] = p[j] /\ neighbours(E, o[j]) = neighbours(F, o[j])
  PROVE  WidthAt(E, o, k) = WidthAt(F, p, k)
<1> DEFINE X == {o[j] : j \in 1 .. k - 1}
           Y == {o[j] : j \in 1 .. k}
<1>1. 1 .. k - 1 \subseteq 1 .. k /\ k \in 1 .. k
  OBVIOUS
<1>2. X = {p[j] : j \in 1 .. k - 1} /\ Y = {p[j] : j \in 1 .. k} /\ o[k] = p[k]
  BY <1>1
<1>3. \A v \in X \cup {o[k]} : neighbours(E, v) = neighbours(F, v)
  BY <1>1
<1> HIDE DEF X, Y
<1>4. Sees(E, X, o[k]) = Sees(F, X, o[k])
  BY <1>3, SeesSame
<1> QED BY <1>2, <1>4 DEF WidthAt, X, Y

LEMMA FiniteRange ==
  ASSUME NEW S, NEW s \in Seq(S)
  PROVE  IsFiniteSet(RangeOf(s))
<1> DEFINE R == RangeOf(s)
<1>1. DOMAIN s = 1 .. Len(s) /\ Len(s) \in Nat
  OBVIOUS
<1>2. IsFiniteSet(DOMAIN s)
  BY <1>1, FS_Interval
<1>3. s \in [DOMAIN s -> R] /\ \A x \in R : \E k \in DOMAIN s : s[k] = x
  BY DEF RangeOf
<1> HIDE DEF R
<1>4. s \in Surjection(DOMAIN s, R)
  BY <1>3 DEF Surjection
<1> QED BY <1>2, <1>4, FS_Surjection DEF R

LEMMA StartIs ==
  ASSUME NEW ns, NEW E, GraphOn(ns, E)
  PROVE  Start(ns, E) \in Elims(ns, E) /\ Start(ns, E).order = <<>>
<1> DEFINE w == Start(ns, E)
<1>1. /\ w.nodes = ns /\ w.left = DOMAIN ns /\ w.edges = E
      /\ w.order = <<>> /\ w.widths = <<>>
      /\ w \in [nodes : {ns}, left : SUBSET DOMAIN ns, edges : SUBSET clique(RangeOf(ns)),
                order : Seq(RangeOf(ns)), widths : Seq(Nat)]
  BY DEF Start, GraphOn
<1> HIDE DEF w
<1>2. Distinct(w.order) /\ RangeOf(w.order) = {} /\ Len(w.widths) = Len(w.order)
  BY <1>1 DEF Distinct, RangeOf
<1>3. ASSUME NEW a PROVE neighbours(E, a) = Sees(E, {}, a) \ ({} \cup {a})
  <2>1. Comp(E, {}, a) = {a}
    BY CompIs
  <2>2. Sees(E, {}, a) = neighbours(E, a)
    BY <2>1 DEF Sees
  <2>3. a \notin neighbours(E, a)
    BY DEF neighbours
  <2> QED BY <2>2, <2>3
<1>4. Filled(w.edges, E, RangeOf(w.order), {ns[k] : k \in w.left})
  BY <1>1, <1>2, <1>3 DEF Filled
<1>5. {ns[k] : k \in DOMAIN ns \ w.left} = {} /\ DOMAIN w.order = {}
  BY <1>1
<1>6. w \in Elims(ns, E)
  BY <1>1, <1>2, <1>4, <1>5 DEF Elims
<1> QED BY <1>1, <1>6 DEF w

LEMMA EliminateIs ==
  ASSUME NEW ns, NEW E, GraphOn(ns, E), NEW w \in Elims(ns, E), NEW k \in w.left
  PROVE  /\ eliminate(w, k) \in Elims(ns, E)
         /\ eliminate(w, k).left = w.left \ {k}
         /\ eliminate(w, k).order = Append(w.order, ns[k])
<1> DEFINE N == RangeOf(ns)
           v == ns[k]
           X == RangeOf(w.order)
           L == {ns[j] : j \in w.left}
           G == {e \in w.edges : v \notin e} \cup clique(neighbours(w.edges, v))
           o == Append(w.order, v)
           c == Cardinality(neighbours(w.edges, v))
           W == Append(w.widths, c)
           u == eliminate(w, k)
<1>1. /\ w.nodes = ns /\ w.left \subseteq DOMAIN ns /\ w.edges \subseteq clique(N)
      /\ w.order \in Seq(N) /\ w.widths \in Seq(Nat)
      /\ Distinct(w.order) /\ X = {ns[j] : j \in DOMAIN ns \ w.left}
      /\ Filled(w.edges, E, X, L)
      /\ Len(w.widths) = Len(w.order)
      /\ \A j \in DOMAIN w.order : w.widths[j] = WidthAt(E, w.order, j)
  BY DEF Elims
<1>2. k \in DOMAIN ns /\ v \in N /\ v \in L /\ L \cap X = {}
  <2>1. k \in DOMAIN ns /\ v \in L
    BY <1>1
  <2>2. v \in N
    BY <2>1 DEF RangeOf
  <2>3. \A i \in w.left, j \in DOMAIN ns \ w.left : ns[i] # ns[j]
    BY <1>1 DEF GraphOn, Distinct
  <2>4. L \cap {ns[j] : j \in DOMAIN ns \ w.left} = {}
    BY <2>3
  <2> QED BY <1>1, <2>1, <2>2, <2>4
<1>3. u = [nodes |-> ns, left |-> w.left \ {k}, edges |-> G, order |-> o, widths |-> W]
  BY <1>1 DEF eliminate
<1>4. G \subseteq clique(N) /\ Filled(G, E, X \cup {v}, L \ {v})
  <2> HIDE DEF N, v, X, L
  <2> QED BY <1>1, <1>2, FillStep
<1>5. L \ {v} = {ns[j] : j \in w.left \ {k}}
  BY <1>1, <1>2 DEF GraphOn, Distinct
<1> DEFINE m == Len(w.order)
<1>6. /\ m \in Nat /\ DOMAIN w.order = 1 .. m
      /\ o \in Seq(N) /\ Len(o) = m + 1 /\ DOMAIN o = 1 .. m + 1
      /\ o[m + 1] = v /\ \A j \in 1 .. m : o[j] = w.order[j]
  BY <1>1, <1>2
<1>7. RangeOf(o) = X \cup {v} /\ X = {w.order[j] : j \in 1 .. m}
  BY <1>6 DEF RangeOf
<1>8. Distinct(o)
  <2>1. \A j \in 1 .. m : o[j] # v
    BY <1>2, <1>6, <1>7
  <2>2. ASSUME NEW i \in 1 .. m + 1, NEW j \in 1 .. m + 1, o[i] = o[j] PROVE i = j
    <3>1. CASE i \in 1 .. m /\ j \in 1 .. m
      BY <1>1, <1>6, <2>2, <3>1 DEF Distinct
    <3>2. CASE i \notin 1 .. m
      <4>1. i = m + 1
        BY <1>6, <3>2
      <4>2. j \notin 1 .. m
        BY <1>6, <2>1, <2>2, <4>1
      <4> QED BY <1>6, <4>1, <4>2
    <3>3. CASE j \notin 1 .. m
      <4>1. j = m + 1
        BY <1>6, <3>3
      <4>2. i \notin 1 .. m
        BY <1>6, <2>1, <2>2, <4>1
      <4> QED BY <1>6, <4>1, <4>2
    <3> QED BY <3>1, <3>2, <3>3
  <2> QED BY <1>6, <2>2 DEF Distinct
<1>9. IsFiniteSet(N)
  BY FiniteRange DEF GraphOn
<1>10. c \in Nat
  <2>1. neighbours(w.edges, v) \subseteq N
    <3> HIDE DEF N, v
    <3> QED BY <1>1, NeighbourIs
  <2> HIDE DEF N, v
  <2> QED BY <1>9, <2>1, FS_Subset, FS_CardinalityType
<1>11. c = WidthAt(E, o, m + 1)
  <2>1. {o[j] : j \in 1 .. m + 1} = X \cup {v}
    BY <1>6, <1>7 DEF RangeOf
  <2>2. {o[j] : j \in 1 .. (m + 1) - 1} = X
    <3>1. 1 .. (m + 1) - 1 = 1 .. m
      BY <1>6
    <3> QED BY <1>6, <1>7, <3>1
  <2>3. neighbours(w.edges, v) = Sees(E, X, v) \ (X \cup {v})
    BY <1>1, <1>2 DEF Filled
  <2> HIDE DEF X, L, o, v
  <2>4. o[m + 1] = v
    BY <1>6
  <2> HIDE DEF m
  <2> QED BY <2>1, <2>2, <2>3, <2>4 DEF WidthAt
<1>12. /\ W \in Seq(Nat) /\ Len(W) = m + 1 /\ W[m + 1] = c
       /\ \A j \in 1 .. m : W[j] = w.widths[j]
  <2> HIDE DEF c
  <2> QED BY <1>1, <1>10
<1>13. ASSUME NEW j \in DOMAIN o PROVE W[j] = WidthAt(E, o, j)
  <2>1. CASE j \in 1 .. m
    <3>1. WidthAt(E, w.order, j) = WidthAt(E, o, j)
      <4>1. j \in Nat \ {0} /\ 1 .. j \subseteq 1 .. m
        BY <1>6, <2>1
      <4>2. \A i \in 1 .. j : w.order[i] = o[i]
        BY <1>6, <4>1
      <4> HIDE DEF o
      <4> QED BY <4>1, <4>2, SameWidth
    <3> QED BY <1>1, <1>6, <1>12, <2>1, <3>1
  <2>2. CASE j \notin 1 .. m
    <3>1. j = m + 1
      BY <1>6, <1>13, <2>2
    <3> QED BY <1>11, <1>12, <3>1
  <2> QED BY <2>1, <2>2
<1>14. u \in Elims(ns, E)
  <2> HIDE DEF v, X, L, G, o, W
  <2>1. {ns[j] : j \in DOMAIN ns \ (w.left \ {k})} = X \cup {v}
    BY <1>1, <1>2 DEF v
  <2>2. u \in [nodes : {ns}, left : SUBSET DOMAIN ns, edges : SUBSET clique(N),
               order : Seq(N), widths : Seq(Nat)]
    BY <1>1, <1>3, <1>4, <1>6, <1>12
  <2>3. Filled(G, E, RangeOf(o), {ns[j] : j \in w.left \ {k}})
    BY <1>4, <1>5, <1>7
  <2>4. /\ u.left = w.left \ {k} /\ u.edges = G /\ u.order = o /\ u.widths = W
    BY <1>3
  <2>5. Len(W) = Len(o)
    BY <1>6, <1>12
  <2> HIDE DEF u, N
  <2> QED BY <1>7, <1>8, <1>13, <2>1, <2>2, <2>3, <2>4, <2>5 DEF Elims, N
<1> QED BY <1>3, <1>14

LEMMA MinDegreeIs ==
  ASSUME NEW ns, NEW E, GraphOn(ns, E), NEW w \in Elims(ns, E), w.left # {}
  PROVE  min_degree(w) \in w.left
<1> DEFINE d(k) == Cardinality(neighbours(w.edges, w.nodes[k]))
           deg == [k \in w.left |-> d(k)]
           D == {deg[k] : k \in w.left}
<1>1. /\ ns \in Seq(RangeOf(ns)) /\ w.left \subseteq DOMAIN ns
      /\ w.edges \subseteq clique(RangeOf(ns))
  BY DEF Elims, GraphOn
<1>2. w.left \subseteq Nat
  BY <1>1
<1>3. \A k \in w.left : deg[k] \in Nat
  <2> SUFFICES ASSUME NEW k \in w.left PROVE d(k) \in Nat
    OBVIOUS
  <2>1. IsFiniteSet(RangeOf(ns))
    BY <1>1, FiniteRange
  <2>2. neighbours(w.edges, w.nodes[k]) \subseteq RangeOf(ns)
    BY <1>1, NeighbourIs
  <2> QED BY <2>1, <2>2, FS_Subset, FS_CardinalityType
<1> HIDE DEF d, deg
<1>4. D \subseteq Nat /\ D # {}
  BY <1>3
<1>5. PICK m \in D : \A x \in D : m <= x
  <2> HIDE DEF D
  <2> QED BY <1>4, LeastElement
<1> DEFINE K == {k \in w.left : deg[k] = m}
<1>6. K \subseteq Nat /\ K # {}
  BY <1>2, <1>5
<1>7. PICK k \in K : \A j \in K : k <= j
  <2> HIDE DEF K
  <2> QED BY <1>6, LeastElement
<1>8. ASSUME NEW j \in w.left PROVE deg[k] < deg[j] \/ (deg[k] = deg[j] /\ k <= j)
  <2>1. deg[k] = m /\ m <= deg[j] /\ m \in Nat /\ deg[j] \in Nat
    BY <1>3, <1>4, <1>5, <1>7
  <2>2. CASE deg[j] = m
    BY <1>7, <2>1, <2>2
  <2>3. CASE deg[j] # m
    BY <2>1, <2>3
  <2> QED BY <2>2, <2>3
<1>9. k \in w.left
  BY <1>7
<1> QED BY <1>8, <1>9 DEF min_degree, deg, d

\* u begins with s.
StartsWith(u, s) == Len(s) <= Len(u) /\ \A j \in 1 .. Len(s) : u[j] = s[j]

LEMMA StartsStill ==
  ASSUME NEW N, NEW u \in Seq(N), NEW s \in Seq(N), StartsWith(u, s), NEW v \in N
  PROVE  StartsWith(Append(u, v), s)
  BY DEF StartsWith

LEMMA RunsAgree ==
  ASSUME NEW n \in Nat, NEW r, NEW q, r[0] = q[0],
         \A k \in 1 .. n : r[k - 1] = q[k - 1] => r[k] = q[k]
  PROVE  \A k \in 0 .. n : r[k] = q[k]
<1> DEFINE P == {k \in 0 .. n : r[k] = q[k]}
<1>1. 0 \in P /\ \A k \in 1 .. n : k - 1 \in P => k \in P
  OBVIOUS
<1>2. \A k \in 0 .. n : k \in P
  <2> HIDE DEF P
  <2> QED BY <1>1, UpTo
<1> QED BY <1>2

\* What is left is eliminated.
LEMMA GreedyIs ==
  ASSUME NEW ns, NEW E, GraphOn(ns, E), NEW w \in Elims(ns, E)
  PROVE  /\ greedy(w) \in Elims(ns, E) /\ greedy(w).left = {}
         /\ StartsWith(greedy(w).order, w.order)
<1> DEFINE S == Elims(ns, E)
           n == Cardinality(w.left)
           F == [q \in (1 .. n) \X S |->
                   IF q[2].left # {} THEN eliminate(q[2], min_degree(q[2])) ELSE q[2]]
           Good(p, k) == /\ IsFiniteSet(p.left) /\ Cardinality(p.left) = n - k
                         /\ StartsWith(p.order, w.order)
<1>1. IsFiniteSet(w.left) /\ n \in Nat
  <2>1. ns \in Seq(RangeOf(ns)) /\ w.left \subseteq DOMAIN ns
    BY DEF Elims, GraphOn
  <2>2. DOMAIN ns = 1 .. Len(ns) /\ Len(ns) \in Nat
    BY <2>1
  <2>3. IsFiniteSet(DOMAIN ns)
    BY <2>2, FS_Interval
  <2> QED BY <2>1, <2>3, FS_Subset, FS_CardinalityType
<1>2. ASSUME NEW p \in S, p.left # {}
      PROVE  /\ eliminate(p, min_degree(p)) \in S
             /\ \E k \in p.left, v \in RangeOf(ns) :
                  /\ eliminate(p, min_degree(p)).left = p.left \ {k}
                  /\ eliminate(p, min_degree(p)).order = Append(p.order, v)
  <2>1. min_degree(p) \in p.left
    BY <1>2, MinDegreeIs
  <2>2. p.left \subseteq DOMAIN ns
    BY DEF Elims
  <2>3. ns[min_degree(p)] \in RangeOf(ns)
    BY <2>1, <2>2 DEF RangeOf
  <2> QED BY <2>1, <2>3, EliminateIs
<1>3. F \in [(1 .. n) \X S -> S]
  <2> HIDE DEF S, n
  <2> QED BY <1>2
<1>4. PICK r : RunOf(n, S, w, F, r)
  <2> HIDE DEF S, n, F
  <2>1. w \in S
    BY DEF S
  <2>2. n \in Nat
    BY <1>1
  <2> QED BY ONLY <1>3, <2>1, <2>2, RunExists
<1>4a. /\ r \in [0 .. n -> S] /\ r[0] = w
       /\ \A k \in 1 .. n : r[k] = F[<<k, r[k - 1]>>]
  BY <1>4 DEF RunOf
<1>5. \A p \in S : p.order \in Seq(RangeOf(ns))
  BY DEF Elims
<1> HIDE DEF S
<1>6. ASSUME NEW k \in 1 .. n, Good(r[k - 1], k - 1)
      PROVE  Good(r[k], k) /\ r[k - 1].left # {} /\ r[k] = eliminate(r[k - 1], min_degree(r[k - 1]))
  <2> DEFINE p == r[k - 1]
  <2>1. /\ p \in S /\ k \in 0 .. n /\ k # 0 /\ k \in Nat
        /\ IsFiniteSet(p.left) /\ Cardinality(p.left) = n - (k - 1)
        /\ StartsWith(p.order, w.order)
    <3>1. k \in 0 .. n /\ k - 1 \in 0 .. n /\ k # 0 /\ k \in Nat
      BY <1>1
    <3>2. p \in S
      BY <1>4a, <3>1
    <3> QED BY <1>6, <3>1, <3>2
  <2>2. p.left # {}
    <3>1. n - (k - 1) # 0
      BY <1>1, <1>6
    <3> QED BY <2>1, <3>1, FS_EmptySet
  <2>3. r[k] = eliminate(p, min_degree(p))
    <3>1. r[k] = F[<<k, p>>]
      BY <1>4a, <2>1
    <3> QED BY <2>1, <2>2, <3>1
  <2> HIDE DEF p
  <2>4. PICK j \in p.left, v \in RangeOf(ns) :
               r[k].left = p.left \ {j} /\ r[k].order = Append(p.order, v)
    BY <1>2, <2>1, <2>2, <2>3
  <2>5. IsFiniteSet(r[k].left) /\ Cardinality(r[k].left) = n - k
    <3>1. /\ IsFiniteSet(p.left \ {j}) /\ Cardinality(p.left \ {j}) = Cardinality(p.left) - 1
      BY <2>1, FS_RemoveElement
    <3> QED BY <1>1, <2>1, <2>4, <3>1
  <2>6. StartsWith(r[k].order, w.order)
    <3>1. w \in S
      BY DEF S
    <3> QED BY <1>5, <2>1, <2>4, <3>1, StartsStill
  <2> QED BY <2>2, <2>3, <2>5, <2>6 DEF p
<1>7. \A k \in 0 .. n : Good(r[k], k)
  <2> DEFINE P == {k \in 0 .. n : Good(r[k], k)}
  <2>1. 0 \in P
    <3>1. r[0] = w
      BY <1>1, <1>4a
    <3>2. StartsWith(w.order, w.order)
      <4>1. w \in S
        BY DEF S
      <4> QED BY <1>5, <4>1 DEF StartsWith
    <3> QED BY <1>1, <3>1, <3>2
  <2>2. ASSUME NEW k \in 1 .. n, k - 1 \in P PROVE k \in P
    BY <1>1, <1>6, <2>2
  <2>3. \A k \in 0 .. n : k \in P
    <3> HIDE DEF P, n
    <3> QED BY <1>1, <2>1, <2>2, UpTo
  <2> QED BY <2>3
<1> DEFINE run[k \in 0 .. n] ==
             IF k = 0 THEN w
             ELSE Only({eliminate(p, min_degree(p)) : p \in {run[k - 1]}})
<1>8. greedy(w) = run[n]
  BY DEF greedy
<1>9. \A p : Only({eliminate(x, min_degree(x)) : x \in {p}}) = eliminate(p, min_degree(p))
  BY OnlyIs
<1>10. r = [k \in 0 .. n |->
             IF k = 0 THEN w
             ELSE Only({eliminate(p, min_degree(p)) : p \in {r[k - 1]}})]
  <2> SUFFICES ASSUME NEW k \in 0 .. n
               PROVE  r[k] = IF k = 0 THEN w
                             ELSE Only({eliminate(p, min_degree(p)) : p \in {r[k - 1]}})
    BY <1>4a
  <2>1. CASE k = 0
    BY <1>4a, <2>1
  <2>2. CASE k # 0
    <3>1. k \in 1 .. n /\ k - 1 \in 0 .. n
      BY <1>1, <2>2
    <3> QED BY <1>6, <1>7, <1>9, <2>2, <3>1
  <2> QED BY <2>1, <2>2
<1>11. run = [k \in 0 .. n |->
               IF k = 0 THEN w
               ELSE Only({eliminate(p, min_degree(p)) : p \in {run[k - 1]}})]
  BY <1>10
<1> HIDE DEF run, F
<1>12. \A k \in 0 .. n : r[k] = run[k]
  <2> HIDE DEF n
  <2>1. r[0] = run[0]
    BY <1>1, <1>10, <1>11
  <2>2. ASSUME NEW k \in 1 .. n, r[k - 1] = run[k - 1] PROVE r[k] = run[k]
    <3>1. k \in 0 .. n /\ k - 1 \in 0 .. n /\ k # 0
      BY <1>1
    <3>2. /\ r[k] = Only({eliminate(p, min_degree(p)) : p \in {r[k - 1]}})
          /\ run[k] = Only({eliminate(p, min_degree(p)) : p \in {run[k - 1]}})
      BY <1>10, <1>11, <3>1
    <3> QED BY <2>2, <3>2
  <2> QED BY <1>1, <2>1, <2>2, RunsAgree
<1>13. greedy(w) = r[n] /\ r[n] \in S /\ Good(r[n], n)
  BY <1>1, <1>4a, <1>7, <1>8, <1>12
<1>14. r[n].left = {}
  <2>1. n - n = 0
    BY <1>1
  <2> QED BY <1>13, <2>1, FS_EmptySet
<1> QED BY <1>13, <1>14 DEF S

\* Nodes of the graph, each at most once, are eliminated in the order given.
LEMMA ReplayIs ==
  ASSUME NEW ns, NEW E, GraphOn(ns, E), NEW o \in Seq(RangeOf(ns)), Distinct(o)
  PROVE  /\ replay(Start(ns, E), o) \in Elims(ns, E)
         /\ Len(replay(Start(ns, E), o).order) = Len(o)
         /\ \A j \in 1 .. Len(o) : replay(Start(ns, E), o).order[j] = o[j]
<1> DEFINE w == Start(ns, E)
           S == Elims(ns, E)
           n == Len(o)
           at(k) == {j \in DOMAIN w.nodes : w.nodes[j] = o[k]}
           F == [q \in (1 .. n) \X S |->
                   IF Only(at(q[1])) \in q[2].left
                   THEN eliminate(q[2], Only(at(q[1]))) ELSE q[2]]
           Good(p, k) == Len(p.order) = k /\ \A j \in 1 .. k : p.order[j] = o[j]
<1>1. /\ n \in Nat /\ DOMAIN o = 1 .. n /\ w.nodes = ns
      /\ w \in S /\ w.order = <<>>
  BY StartIs DEF Start
<1> HIDE DEF w
<1>2. ASSUME NEW k \in 1 .. n
      PROVE  \E j \in DOMAIN ns : at(k) = {j} /\ ns[j] = o[k]
  <2>1. o[k] \in RangeOf(ns)
    BY <1>1
  <2>2. PICK j \in DOMAIN ns : ns[j] = o[k]
    BY <2>1 DEF RangeOf
  <2>3. at(k) = {j}
    BY <1>1, <2>2 DEF GraphOn, Distinct
  <2> QED BY <2>2, <2>3
<1>3. ASSUME NEW p \in S, NEW j \in p.left PROVE eliminate(p, j) \in S
  BY EliminateIs
<1> HIDE DEF at
<1>4. F \in [(1 .. n) \X S -> S]
  <2> HIDE DEF S, n
  <2> QED BY <1>3
<1>5. PICK r : RunOf(n, S, w, F, r)
  <2> HIDE DEF S, n, F
  <2> QED BY <1>1, <1>4, RunExists
<1>6. /\ r \in [0 .. n -> S] /\ r[0] = w
      /\ \A k \in 1 .. n : r[k] = F[<<k, r[k - 1]>>]
  BY <1>5 DEF RunOf
<1>7. ASSUME NEW k \in 1 .. n, Good(r[k - 1], k - 1)
      PROVE  Good(r[k], k) /\ at(k) # {} /\ r[k] = eliminate(r[k - 1], Only(at(k)))
  <2> DEFINE p == r[k - 1]
  <2>1. k - 1 \in 0 .. n /\ k \in Nat
    BY <1>1
  <2>2. p \in S
    BY <1>6, <2>1
  <2>3. PICK j \in DOMAIN ns : at(k) = {j} /\ ns[j] = o[k]
    BY <1>2
  <2>4. Only(at(k)) = j
    BY <2>3, OnlyIs
  <2>5. /\ p.order \in Seq(RangeOf(ns)) /\ p.left \subseteq DOMAIN ns
        /\ RangeOf(p.order) = {ns[i] : i \in DOMAIN ns \ p.left}
    <3> HIDE DEF p
    <3> QED BY <2>2 DEF Elims, S
  <2>6. j \in p.left
    <3>1. DOMAIN p.order = 1 .. k - 1 /\ \A i \in 1 .. k - 1 : p.order[i] = o[i]
      BY <1>7, <2>5
    <3>2. o[k] \notin RangeOf(p.order)
      <4>1. \A i \in 1 .. k - 1 : i \in 1 .. n /\ i # k
        BY <1>1
      <4>2. \A i \in 1 .. k - 1 : o[i] # o[k]
        BY <1>1, <4>1 DEF Distinct
      <4> HIDE DEF p
      <4> QED BY <3>1, <4>2 DEF RangeOf
    <3> QED BY <2>3, <2>5, <3>2
  <2>7. r[k] = eliminate(p, j)
    <3>1. r[k] = F[<<k, p>>]
      BY <1>6
    <3> QED BY <2>2, <2>4, <2>6, <3>1
  <2>8. Len(p.order) = k - 1 /\ \A i \in 1 .. k - 1 : p.order[i] = o[i]
    BY <1>7
  <2> HIDE DEF p
  <2>9. r[k].order = Append(p.order, o[k])
    BY <2>2, <2>3, <2>6, <2>7, EliminateIs DEF S
  <2>10. Good(r[k], k)
    <3>1. o[k] \in RangeOf(ns)
      BY <1>1
    <3> QED BY <2>1, <2>5, <2>8, <2>9, <3>1
  <2> QED BY <2>3, <2>4, <2>7, <2>10 DEF p
<1>8. \A k \in 0 .. n : Good(r[k], k)
  <2> DEFINE P == {k \in 0 .. n : Good(r[k], k)}
  <2>1. 0 \in P
    BY <1>1, <1>6
  <2>2. ASSUME NEW k \in 1 .. n, k - 1 \in P PROVE k \in P
    <3>1. Good(r[k - 1], k - 1)
      BY <2>2
    <3>2. Good(r[k], k) /\ k \in 0 .. n
      BY <1>1, <1>7, <3>1
    <3> HIDE DEF Good
    <3> QED BY <3>2
  <2>3. \A k \in 0 .. n : k \in P
    <3> HIDE DEF P, n
    <3> QED BY <1>1, <2>1, <2>2, UpTo
  <2> QED BY <2>3
<1> DEFINE run[k \in 0 .. Len(o)] ==
             IF k = 0 THEN w
             ELSE LET it == {j \in DOMAIN w.nodes : w.nodes[j] = o[k]}
                  IN Only({IF it = {} THEN p ELSE eliminate(p, Only(it)) : p \in {run[k - 1]}})
           next(k, p) == IF at(k) = {} THEN p ELSE eliminate(p, Only(at(k)))
<1>9. replay(w, o) = run[n]
  BY DEF replay
<1>10. \A k, p : Only({next(k, x) : x \in {p}}) = next(k, p)
  BY OnlyIs
<1>11. r = [k \in 0 .. n |-> IF k = 0 THEN w ELSE Only({next(k, p) : p \in {r[k - 1]}})]
  <2> SUFFICES ASSUME NEW k \in 0 .. n
               PROVE  r[k] = IF k = 0 THEN w ELSE Only({next(k, p) : p \in {r[k - 1]}})
    BY <1>6
  <2>1. CASE k = 0
    BY <1>6, <2>1
  <2>2. CASE k # 0
    <3>1. k \in 1 .. n /\ k - 1 \in 0 .. n
      BY <1>1, <2>2
    <3>2. r[k] = next(k, r[k - 1])
      BY <1>7, <1>8, <3>1
    <3> QED BY <1>10, <2>2, <3>2
  <2> QED BY <2>1, <2>2
<1>12. run = [k \in 0 .. n |-> IF k = 0 THEN w ELSE Only({next(k, p) : p \in {run[k - 1]}})]
  BY <1>11 DEF at
<1> HIDE DEF run, F
<1>13. \A k \in 0 .. n : r[k] = run[k]
  <2> HIDE DEF n
  <2>1. r[0] = run[0]
    BY <1>1, <1>11, <1>12
  <2>2. ASSUME NEW k \in 1 .. n, r[k - 1] = run[k - 1] PROVE r[k] = run[k]
    <3>1. k \in 0 .. n /\ k - 1 \in 0 .. n /\ k # 0
      BY <1>1
    <3>2. /\ r[k] = Only({next(k, p) : p \in {r[k - 1]}})
          /\ run[k] = Only({next(k, p) : p \in {run[k - 1]}})
      BY <1>11, <1>12, <3>1
    <3> QED BY <2>2, <3>2
  <2>3. n \in Nat
    BY <1>1
  <2>4. \A k \in 1 .. n : r[k - 1] = run[k - 1] => r[k] = run[k]
    BY <2>2
  <2> HIDE DEF next
  <2> QED BY ONLY <2>1, <2>3, <2>4, RunsAgree, SMTT(30)
<1>14. replay(w, o) = r[n] /\ r[n] \in S /\ Good(r[n], n)
  BY <1>1, <1>6, <1>8, <1>9, <1>13
<1> QED BY <1>14 DEF S, w

-----------------------------------------------------------------------------
(***************************************************************************)
(* The nodes an eliminated node is merged with, found by growth.           *)
(***************************************************************************)
LEMMA FewNodes ==
  ASSUME NEW o, NEW k \in Nat \ {0}
  PROVE  /\ IsFiniteSet({o[j] : j \in 1 .. k - 1} \cup {o[k]})
         /\ Cardinality({o[j] : j \in 1 .. k - 1} \cup {o[k]}) <= k
<1> DEFINE X == {o[j] : j \in 1 .. k}
           f == [j \in 1 .. k |-> o[j]]
<1>1. {o[j] : j \in 1 .. k - 1} \cup {o[k]} = X
  <2>1. \A j \in 1 .. k : j \in 1 .. k - 1 \/ j = k
    OBVIOUS
  <2>2. 1 .. k - 1 \subseteq 1 .. k /\ k \in 1 .. k
    OBVIOUS
  <2> QED BY <2>1, <2>2
<1>2. IsFiniteSet(1 .. k) /\ Cardinality(1 .. k) = k
  BY FS_Interval
<1>3. f \in [1 .. k -> X] /\ \A x \in X : \E j \in 1 .. k : f[j] = x
  OBVIOUS
<1> HIDE DEF f, X
<1>4. f \in Surjection(1 .. k, X)
  BY <1>3 DEF Surjection
<1>5. IsFiniteSet(X) /\ Cardinality(X) <= Cardinality(1 .. k)
  BY <1>2, <1>4, FS_Surjection
<1> QED BY <1>1, <1>2, <1>5

\* One round of growth stays in the component; when it adds nothing, all of
\* the component is there.
LEMMA GrowOnce ==
  ASSUME NEW E, NEW X, NEW a, IsFiniteSet(X \cup {a}),
         NEW G, a \in G, G \subseteq Comp(E, X, a), NEW H,
         H = UNION {{v} \cup (neighbours(E, v) \cap X) : v \in G}
  PROVE  /\ a \in H /\ H \subseteq Comp(E, X, a) /\ G \subseteq H
         /\ Closed(E, X, G) => H = G
         /\ ~Closed(E, X, G) => Cardinality(H) >= Cardinality(G) + 1
<1>1. \A v \in G : v \in H /\ neighbours(E, v) \cap X \subseteq H
  OBVIOUS
<1>2. H \subseteq Comp(E, X, a)
  BY CompIs DEF Closed
<1>3. Closed(E, X, G) => H = G
  BY DEF Closed
<1>4. H = G => Closed(E, X, G)
  BY <1>1 DEF Closed
<1>5. IsFiniteSet(H) /\ IsFiniteSet(G)
  <2>1. Comp(E, X, a) \subseteq X \cup {a}
    BY CompIs
  <2> HIDE DEF Comp
  <2> QED BY <1>2, <2>1, FS_Subset
<1>6. G \subseteq H /\ a \in H
  BY <1>1
<1>7. H # G => Cardinality(H) >= Cardinality(G) + 1
  <2>1. /\ Cardinality(G) <= Cardinality(H)
        /\ Cardinality(G) = Cardinality(H) => G = H
    BY ONLY <1>5, <1>6, FS_Subset
  <2>2. Cardinality(G) \in Nat /\ Cardinality(H) \in Nat
    BY <1>5, FS_CardinalityType
  <2> QED BY <2>1, <2>2
<1> QED BY <1>2, <1>3, <1>4, <1>6, <1>7

LEMMA MergedIs ==
  ASSUME NEW k \in Nat \ {0}
  PROVE  Merged(k) = Comp(t.edges, {t.ordering[j] : j \in 1 .. k - 1}, t.ordering[k])
<1> DEFINE E == t.edges
           X == {t.ordering[j] : j \in 1 .. k - 1}
           a == t.ordering[k]
           K == Comp(E, X, a)
           S == SUBSET K
           more(G) == UNION {{v} \cup (neighbours(E, v) \cap X) : v \in G}
           F == [q \in (1 .. k) \X S |-> more(q[2])]
           Good(G, n) == a \in G /\ (Closed(E, X, G) \/ Cardinality(G) >= n + 1)
<1>1. IsFiniteSet(X \cup {a}) /\ Cardinality(X \cup {a}) <= k
  BY FewNodes
<1>2. a \in K /\ K \subseteq X \cup {a} /\ Closed(E, X, K)
  BY CompIs
<1> HIDE DEF E, X, a, K
<1>3. ASSUME NEW G \in S PROVE more(G) \in S
  BY <1>2 DEF Closed
<1>4. F \in [(1 .. k) \X S -> S] /\ {a} \in S
  <2>1. {a} \in S
    BY <1>2
  <2> HIDE DEF S, more
  <2> QED BY <1>3, <2>1
<1>5. PICK r : RunOf(k, S, {a}, F, r)
  <2>1. k \in Nat
    OBVIOUS
  <2> HIDE DEF S, F
  <2> QED BY ONLY <1>4, <2>1, RunExists
<1>6. /\ r \in [0 .. k -> S] /\ r[0] = {a}
      /\ \A n \in 1 .. k : r[n] = more(r[n - 1])
  <2>1. /\ r \in [0 .. k -> S] /\ r[0] = {a}
        /\ \A n \in 1 .. k : r[n] = F[<<n, r[n - 1]>>]
    BY <1>5 DEF RunOf
  <2> HIDE DEF S, more
  <2>2. \A n \in 1 .. k : n - 1 \in 0 .. k
    OBVIOUS
  <2> QED BY <2>1, <2>2
<1>7. ASSUME NEW n \in 1 .. k, Good(r[n - 1], n - 1)
      PROVE  Good(r[n], n)
  <2> DEFINE G == r[n - 1]
             H == r[n]
  <2>1. n - 1 \in 0 .. k /\ n \in Nat
    OBVIOUS
  <2>2. G \in S /\ H = more(G)
    BY <1>6, <2>1
  <2>3. a \in G /\ (Closed(E, X, G) \/ Cardinality(G) >= (n - 1) + 1)
    BY <1>7
  <2> HIDE DEF G, H
  <2>4. /\ a \in H
        /\ Closed(E, X, G) => H = G
        /\ ~Closed(E, X, G) => Cardinality(H) >= Cardinality(G) + 1
    BY <1>1, <2>2, <2>3, GrowOnce DEF K
  <2>5. Cardinality(G) \in Nat /\ Cardinality(H) \in Nat
    <3>1. H \in S
      BY <1>3, <2>2
    <3> QED BY <1>1, <1>2, <2>2, <3>1, FS_Subset, FS_CardinalityType
  <2> QED BY <2>1, <2>3, <2>4, <2>5 DEF G, H
<1>8. Good(r[k], k)
  <2> DEFINE P == {n \in 0 .. k : Good(r[n], n)}
  <2>1. 0 \in P
    <3>1. Cardinality({a}) = 1
      BY FS_Singleton
    <3>2. a \in r[0] /\ Cardinality(r[0]) >= 0 + 1
      BY <1>6, <3>1
    <3>3. 0 \in 0 .. k
      OBVIOUS
    <3> QED BY <3>2, <3>3
  <2>2. ASSUME NEW n \in 1 .. k, n - 1 \in P PROVE n \in P
    <3>1. Good(r[n - 1], n - 1) /\ n \in 0 .. k
      BY <2>2
    <3>2. Good(r[n], n)
      BY <1>7, <3>1
    <3> HIDE DEF Good
    <3> QED BY <3>1, <3>2
  <2>3. \A n \in 0 .. k : n \in P
    <3>1. k \in Nat
      OBVIOUS
    <3> HIDE DEF P
    <3> QED BY ONLY <2>1, <2>2, <3>1, UpTo
  <2> QED BY <2>3
<1>9. r[k] = K
  <2>1. r[k] \subseteq K
    BY <1>6
  <2>2. IsFiniteSet(r[k]) /\ Cardinality(r[k]) <= Cardinality(X \cup {a})
    BY <1>1, <1>2, <2>1, FS_Subset
  <2>3. Cardinality(r[k]) \in Nat /\ Cardinality(X \cup {a}) \in Nat
    BY <1>1, <2>2, FS_CardinalityType
  <2>4. a \in r[k] /\ Closed(E, X, r[k])
    BY <1>1, <1>8, <2>2, <2>3
  <2>5. K \subseteq r[k]
    BY <2>4, CompLeast DEF K
  <2> QED BY <2>1, <2>5
<1> DEFINE before == {t.ordering[j] : j \in 1 .. k - 1}
           grow[n \in 0 .. k] ==
             IF n = 0 THEN {t.ordering[k]}
             ELSE UNION {{v} \cup (neighbours(t.edges, v) \cap before) : v \in grow[n - 1]}
<1>10. Merged(k) = grow[k]
  BY DEF Merged
<1>11. r = [n \in 0 .. k |-> IF n = 0 THEN {a} ELSE more(r[n - 1])]
  <2> SUFFICES ASSUME NEW n \in 0 .. k
               PROVE  r[n] = IF n = 0 THEN {a} ELSE more(r[n - 1])
    BY <1>6
  <2>1. n # 0 => n \in 1 .. k
    OBVIOUS
  <2> QED BY <1>6, <2>1
<1>12. grow = [n \in 0 .. k |-> IF n = 0 THEN {a} ELSE more(grow[n - 1])]
  BY <1>11 DEF a, X, E
<1> HIDE DEF grow
<1>13. \A n \in 0 .. k : r[n] = grow[n]
  <2>1. r[0] = grow[0]
    BY <1>11, <1>12
  <2>2. ASSUME NEW n \in 1 .. k, r[n - 1] = grow[n - 1] PROVE r[n] = grow[n]
    <3>1. n \in 0 .. k /\ n - 1 \in 0 .. k /\ n # 0
      OBVIOUS
    <3>2. r[n] = more(r[n - 1]) /\ grow[n] = more(grow[n - 1])
      BY <1>11, <1>12, <3>1
    <3> QED BY <2>2, <3>2
  <2>3. k \in Nat
    OBVIOUS
  <2> QED BY ONLY <2>1, <2>2, <2>3, RunsAgree
<1> QED BY <1>9, <1>10, <1>13 DEF K, E, X, a

-----------------------------------------------------------------------------
(***************************************************************************)
(* The tracker.                                                            *)
(***************************************************************************)

\* The nodes a tracker may meet, and the trackers on them.
Universe == NodeIds \cup UNION {Known(s) : s \in Starts}

Trackers ==
  [nodes : Seq(Universe), edges : SUBSET clique(Universe), ordering : Seq(Universe),
   step_width : Seq(Nat), bound : {MaxOf(s) : s \in Seq(Nat)}]

\* The inductive invariant: the nodes are distinct and so are the entries of
\* the ordering, among them every node there is; each width is the one of its
\* step on the graph as it is.
Coherent(s) ==
  /\ GraphOn(s.nodes, s.edges)
  /\ Distinct(s.ordering)
  /\ Known(s) \subseteq RangeOf(s.ordering)
  /\ Len(s.step_width) = Len(s.ordering)
  /\ \A k \in DOMAIN s.ordering : s.step_width[k] = WidthAt(s.edges, s.ordering, k)
  /\ s.bound = MaxOf(s.step_width)

TrackerInv == t \in Trackers /\ Coherent(t)

\* What a finished run has recorded.
LEMMA FinishedRun ==
  ASSUME NEW ns, NEW E, GraphOn(ns, E), NEW w \in Elims(ns, E), w.left = {}
  PROVE  /\ w.order \in Seq(RangeOf(ns)) /\ w.widths \in Seq(Nat)
         /\ Distinct(w.order) /\ RangeOf(w.order) = RangeOf(ns)
         /\ Len(w.widths) = Len(w.order)
         /\ \A k \in DOMAIN w.order : w.widths[k] = WidthAt(E, w.order, k)
<1>1. {ns[k] : k \in DOMAIN ns \ w.left} = RangeOf(ns)
  BY DEF RangeOf
<1> QED BY <1>1 DEF Elims

LEMMA SeqOfMore ==
  ASSUME NEW S, NEW U, S \subseteq U, NEW s \in Seq(S)
  PROVE  s \in Seq(U)
OBVIOUS

\* A tracker with a graph, whatever it has cached.
LEMMA FullIs ==
  ASSUME NEW q \in Trackers, GraphOn(q.nodes, q.edges)
  PROVE  /\ full_recompute(q) \in Trackers /\ Coherent(full_recompute(q))
         /\ full_recompute(q).nodes = q.nodes /\ full_recompute(q).edges = q.edges
<1> DEFINE w == greedy(Start(q.nodes, q.edges))
           s == [q EXCEPT !.ordering = w.order, !.step_width = w.widths,
                          !.bound = MaxOf(w.widths)]
<1>1. full_recompute(q) = s
  BY OnlyIs DEF full_recompute
<1>2. w \in Elims(q.nodes, q.edges) /\ w.left = {}
  BY StartIs, GreedyIs
<1> HIDE DEF w
<1>3. /\ w.order \in Seq(RangeOf(q.nodes)) /\ w.widths \in Seq(Nat)
      /\ Distinct(w.order) /\ RangeOf(w.order) = RangeOf(q.nodes)
      /\ Len(w.widths) = Len(w.order)
      /\ \A k \in DOMAIN w.order : w.widths[k] = WidthAt(q.edges, w.order, k)
  BY <1>2, FinishedRun
<1>4. RangeOf(q.nodes) \subseteq Universe /\ w.order \in Seq(Universe)
  <2>1. q.nodes \in Seq(Universe)
    BY DEF Trackers
  <2>2. RangeOf(q.nodes) \subseteq Universe
    BY <2>1 DEF RangeOf
  <2> QED BY <1>3, <2>2, SeqOfMore
<1>5. /\ s.nodes = q.nodes /\ s.edges = q.edges /\ s.ordering = w.order
      /\ s.step_width = w.widths /\ s.bound = MaxOf(w.widths) /\ s \in Trackers
  BY <1>3, <1>4 DEF Trackers
<1> HIDE DEF s
<1>6. Coherent(s)
  BY <1>3, <1>5 DEF Coherent, Known, RangeOf
<1> QED BY <1>1, <1>5, <1>6

\* The ordering is kept up to position k: the nodes before are still there,
\* with the neighbours they had.
LEMMA ResumeIs ==
  ASSUME NEW s \in Trackers, Coherent(s), NEW q \in Trackers, GraphOn(q.nodes, q.edges),
         q.ordering = s.ordering, q.step_width = s.step_width,
         NEW k \in 1 .. Len(s.ordering) + 1,
         \A j \in 1 .. k - 1 :
           /\ s.ordering[j] \in Known(q)
           /\ neighbours(s.edges, s.ordering[j]) = neighbours(q.edges, s.ordering[j])
  PROVE  /\ resume(q, k) \in Trackers /\ Coherent(resume(q, k))
         /\ resume(q, k).nodes = q.nodes /\ resume(q, k).edges = q.edges
<1> DEFINE N == RangeOf(q.nodes)
           pre == SubSeq(q.ordering, 1, k - 1)
           p == replay(Start(q.nodes, q.edges), pre)
           w == greedy(p)
           W == SubSeq(q.step_width, 1, k - 1) \o SubSeq(w.widths, k, Len(w.widths))
           u == [q EXCEPT !.ordering = w.order, !.step_width = W, !.bound = MaxOf(W)]
<1>1. resume(q, k) = u
  BY OnlyIs, ZenonT(30) DEF resume
<1>2. /\ s.ordering \in Seq(Universe) /\ s.step_width \in Seq(Nat)
      /\ Len(s.step_width) = Len(s.ordering) /\ Distinct(s.ordering)
      /\ \A j \in DOMAIN s.ordering : s.step_width[j] = WidthAt(s.edges, s.ordering, j)
      /\ Len(s.ordering) \in Nat /\ DOMAIN s.ordering = 1 .. Len(s.ordering)
      /\ k \in Nat \ {0} /\ k - 1 \in Nat /\ k - 1 <= Len(s.ordering)
  BY DEF Trackers, Coherent
<1>3. pre \in Seq(N) /\ Len(pre) = k - 1 /\ \A j \in 1 .. k - 1 : pre[j] = s.ordering[j]
  <2>1. Len(pre) = k - 1 /\ \A j \in 1 .. k - 1 : pre[j] = s.ordering[j]
    BY <1>2
  <2>2. pre = [j \in 1 .. k - 1 |-> pre[j]]
    BY <1>2
  <2>3. \A j \in 1 .. k - 1 : pre[j] \in N
    BY <2>1 DEF Known, RangeOf
  <2> HIDE DEF pre, N
  <2>4. k - 1 \in Nat
    BY <1>2
  <2>5. pre \in Seq(N)
    BY ONLY <2>2, <2>3, <2>4
  <2> QED BY <2>1, <2>5
<1> HIDE DEF pre, N
<1>4. Distinct(pre)
  <2>1. DOMAIN pre = 1 .. k - 1 /\ 1 .. k - 1 \subseteq DOMAIN s.ordering
    BY <1>2, <1>3
  <2> QED BY <1>2, <1>3, <2>1 DEF Distinct
<1>5. /\ p \in Elims(q.nodes, q.edges) /\ Len(p.order) = k - 1
      /\ \A j \in 1 .. k - 1 : p.order[j] = s.ordering[j]
  BY <1>3, <1>4, ReplayIs DEF N
<1> HIDE DEF p
<1>6. /\ w \in Elims(q.nodes, q.edges) /\ w.left = {}
      /\ StartsWith(w.order, p.order)
  BY <1>5, GreedyIs
<1> HIDE DEF w
<1>7. /\ w.order \in Seq(N) /\ w.widths \in Seq(Nat)
      /\ Distinct(w.order) /\ RangeOf(w.order) = N
      /\ Len(w.widths) = Len(w.order)
      /\ \A j \in DOMAIN w.order : w.widths[j] = WidthAt(q.edges, w.order, j)
  BY <1>6, FinishedRun DEF N
<1> DEFINE m == Len(w.order)
<1>8. /\ m \in Nat /\ DOMAIN w.order = 1 .. m /\ k - 1 <= m
      /\ \A j \in 1 .. k - 1 : w.order[j] = s.ordering[j]
  BY <1>5, <1>6, <1>7 DEF StartsWith
<1> HIDE DEF m
<1>9. /\ W \in Seq(Nat) /\ Len(W) = m
      /\ \A j \in 1 .. k - 1 : W[j] = s.step_width[j]
      /\ \A j \in k .. m : W[j] = w.widths[j]
  <2> DEFINE A == SubSeq(s.step_width, 1, k - 1)
             B == SubSeq(w.widths, k, m)
  <2>1. W = A \o B
    BY <1>7 DEF m
  <2>2. A \in Seq(Nat) /\ Len(A) = k - 1 /\ \A j \in 1 .. k - 1 : A[j] = s.step_width[j]
    BY <1>2
  <2>3. B \in Seq(Nat) /\ Len(B) = m - k + 1 /\ \A j \in 1 .. m - k + 1 : B[j] = w.widths[j + k - 1]
    <3>1. w.widths \in Seq(Nat) /\ Len(w.widths) = m
      BY <1>7 DEF m
    <3>2. k \in Nat \ {0} /\ m \in Nat /\ k - 1 <= m
      BY <1>2, <1>8
    <3> QED BY ONLY <3>1, <3>2
  <2> HIDE DEF A, B, W
  <2>4. W \in Seq(Nat) /\ Len(W) = m
    BY <1>2, <1>8, <2>1, <2>2, <2>3
  <2>5. \A j \in 1 .. k - 1 : W[j] = A[j]
    BY <1>2, <1>8, <2>1, <2>2, <2>3
  <2>6. ASSUME NEW j \in k .. m PROVE W[j] = w.widths[j]
    <3>0. j \in Int /\ k \in Nat \ {0} /\ m \in Nat /\ k <= j /\ j <= m
      BY <1>2, <1>8
    <3>1. j - (k - 1) \in 1 .. m - k + 1 /\ j - (k - 1) + k - 1 = j /\ j \in 1 .. m /\ j > k - 1
      BY ONLY <3>0
    <3>2. W[j] = B[j - (k - 1)]
      BY ONLY <2>1, <2>2, <2>3, <3>0, <3>1
    <3> QED BY <2>3, <3>1, <3>2
  <2> QED BY <2>2, <2>4, <2>5, <2>6
<1> HIDE DEF W
<1>10. ASSUME NEW j \in 1 .. m PROVE W[j] = WidthAt(q.edges, w.order, j)
  <2>1. CASE j \in 1 .. k - 1
    <3>1. j \in Nat \ {0} /\ 1 .. j \subseteq 1 .. k - 1
      BY <1>2, <2>1
    <3>2. \A i \in 1 .. j : /\ s.ordering[i] = w.order[i]
                            /\ neighbours(s.edges, s.ordering[i]) = neighbours(q.edges, s.ordering[i])
      BY <1>8, <3>1
    <3>3. WidthAt(s.edges, s.ordering, j) = WidthAt(q.edges, w.order, j)
      BY ONLY <3>1, <3>2, SameWidth
    <3>4. j \in DOMAIN s.ordering
      BY <1>2, <2>1
    <3> QED BY <1>2, <1>9, <2>1, <3>3, <3>4
  <2>2. CASE j \notin 1 .. k - 1
    <3>1. j \in k .. m
      BY <1>2, <1>8, <2>2
    <3> QED BY <1>7, <1>8, <1>9, <3>1
  <2> QED BY <2>1, <2>2
<1>11. w.order \in Seq(Universe)
  <2>1. q.nodes \in Seq(Universe)
    BY DEF Trackers
  <2>2. N \subseteq Universe
    BY <2>1 DEF N, RangeOf
  <2> QED BY <1>7, <2>2, SeqOfMore
<1>12. /\ u.nodes = q.nodes /\ u.edges = q.edges /\ u.ordering = w.order
       /\ u.step_width = W /\ u.bound = MaxOf(W) /\ u \in Trackers
  BY <1>9, <1>11 DEF Trackers
<1> HIDE DEF u
<1>13. Coherent(u)
  <2>1. Known(u) \subseteq RangeOf(u.ordering)
    <3>1. Known(u) = RangeOf(u.nodes)
      BY DEF Known, RangeOf
    <3> QED BY <1>7, <1>12, <3>1 DEF N
  <2>2. \A j \in DOMAIN u.ordering : u.step_width[j] = WidthAt(u.edges, u.ordering, j)
    BY <1>8, <1>10, <1>12
  <2>3. Len(u.step_width) = Len(u.ordering) /\ Distinct(u.ordering)
    BY <1>7, <1>9, <1>12 DEF m
  <2>4. GraphOn(u.nodes, u.edges)
    BY <1>12
  <2> QED BY <1>12, <2>1, <2>2, <2>3, <2>4 DEF Coherent
<1> QED BY <1>1, <1>12, <1>13

LEMMA FirstIs ==
  ASSUME NEW S, S \subseteq Nat, S # {}
  PROVE  First(S) \in S /\ \A y \in S : First(S) <= y
<1>1. \E x \in S : \A y \in S : x <= y
  BY LeastElement
<1> QED BY <1>1 DEF First

\* No position before the one found is dirty; none is found only if no entry
\* is dirty and every node of the graph is in the ordering.
LEMMA EarliestIs ==
  ASSUME NEW q \in Trackers, q.ordering # <<>>, NEW D, NEW from, from = earliest_dirty(q, D)
  PROVE  /\ from = None \/ (/\ from \in 1 .. Len(q.ordering) + 1
                            /\ \A j \in 1 .. from - 1 : q.ordering[j] \notin D)
         /\ from = None => /\ Known(q) \subseteq RangeOf(q.ordering)
                           /\ RangeOf(q.ordering) \cap D = {}
<1> DEFINE n == Len(q.ordering)
           P == positions(q, D)
           held == {q.ordering[k] : k \in DOMAIN q.ordering}
           Q == positions(q, held \ Known(q))
<1>1. n \in Nat \ {0} /\ DOMAIN q.ordering = 1 .. n
  BY DEF Trackers
<1>2. P \subseteq 1 .. n /\ Q \subseteq 1 .. n /\ \A j \in 1 .. n : j \in P <=> q.ordering[j] \in D
  BY <1>1 DEF positions
<1>3. P = {} => (\A j \in 1 .. n : q.ordering[j] \notin D) /\ RangeOf(q.ordering) \cap D = {}
  BY <1>1, <1>2 DEF RangeOf
<1>a. P \subseteq Nat /\ Q \subseteq Nat
  BY <1>1, <1>2
<1>4. CASE P # {}
  <2>1. from = First(P)
    BY <1>4 DEF earliest_dirty
  <2> HIDE DEF P
  <2>2. from \in P /\ \A y \in P : from <= y
    BY <1>a, <1>4, <2>1, FirstIs
  <2>3. from \in 1 .. n + 1 /\ from # None
    BY <1>1, <1>2, <2>2 DEF None
  <2>4. ASSUME NEW j \in 1 .. from - 1 PROVE q.ordering[j] \notin D
    BY <1>1, <1>2, <2>2, <2>3
  <2> QED BY <2>3, <2>4
<1>5. CASE P = {} /\ Known(q) \ held # {}
  <2>1. from = n + 1
    BY <1>5 DEF earliest_dirty
  <2> QED BY <1>1, <1>3, <1>5, <2>1 DEF None
<1>6. CASE P = {} /\ Known(q) \ held = {} /\ q.ordering[n] \notin Known(q)
  <2>1. from = First(Q)
    BY <1>6 DEF earliest_dirty
  <2>2. n \in Q
    BY <1>1, <1>6 DEF positions
  <2> HIDE DEF Q, P
  <2>3. from \in Q
    BY <1>a, <2>1, <2>2, FirstIs
  <2>4. from \in 1 .. n + 1 /\ from # None /\ 1 .. from - 1 \subseteq 1 .. n
    BY <1>1, <1>2, <2>3 DEF None
  <2> QED BY <1>3, <1>6, <2>4
<1>7. CASE P = {} /\ Known(q) \ held = {} /\ q.ordering[n] \in Known(q)
  <2>1. from = None
    BY <1>7 DEF earliest_dirty
  <2> QED BY <1>3, <1>7, <2>1 DEF RangeOf
<1> QED BY <1>4, <1>5, <1>6, <1>7

\* An edit of the graph, from s to q, that marks D: the nodes of the ordering
\* that are not marked have the neighbours they had, those that are gone only
\* asked for when the ordering may stand.
Marks(s, q, D) ==
  /\ \A x \in (RangeOf(s.ordering) \cap Known(q)) \ D :
       neighbours(s.edges, x) = neighbours(q.edges, x)
  /\ RangeOf(s.ordering) \cap D = {} /\ Known(q) \subseteq RangeOf(s.ordering) =>
       \A x \in RangeOf(s.ordering) : neighbours(s.edges, x) = neighbours(q.edges, x)

\* An update after such an edit leaves the tracker coherent.
LEMMA UpdateIs ==
  ASSUME NEW s \in Trackers, Coherent(s), NEW q \in Trackers, GraphOn(q.nodes, q.edges),
         q.ordering = s.ordering, q.step_width = s.step_width, q.bound = s.bound,
         NEW D, Marks(s, q, D)
  PROVE  maybe_update(q, D) \in Trackers /\ Coherent(maybe_update(q, D))
<1> DEFINE u == maybe_update(q, D)
           from == earliest_dirty(q, D)
<1>1. CASE q.nodes = <<>>
  <2>1. u = [q EXCEPT !.bound = 0, !.ordering = <<>>, !.step_width = <<>>]
    BY <1>1 DEF maybe_update
  <2>2. 0 = MaxOf(<<>>) /\ <<>> \in Seq(Nat) /\ <<>> \in Seq(Universe)
    BY DEF MaxOf
  <2>3. /\ u \in Trackers /\ u.nodes = q.nodes /\ u.edges = q.edges
        /\ u.ordering = <<>> /\ u.step_width = <<>> /\ u.bound = MaxOf(<<>>)
    BY <2>1, <2>2 DEF Trackers
  <2> HIDE DEF u
  <2>4. Known(u) = {} /\ Distinct(<<>>)
    BY <1>1, <2>3 DEF Known, Distinct
  <2>5. Coherent(u)
    BY <2>3, <2>4 DEF Coherent
  <2> QED BY <2>3, <2>5 DEF u
<1>2. CASE /\ q.nodes # <<>>
           /\ Cardinality(D) > (Len(q.nodes) + 4) \div 5 \/ q.ordering = <<>>
  <2>1. u = full_recompute(q)
    BY <1>2 DEF maybe_update
  <2> QED BY <2>1, FullIs
<1>3. CASE /\ q.nodes # <<>> /\ q.ordering # <<>>
           /\ ~(Cardinality(D) > (Len(q.nodes) + 4) \div 5 \/ q.ordering = <<>>)
  <2>1. u = incremental_reeliminate(q, D)
    BY <1>3 DEF maybe_update
  <2>2. /\ from = None \/ (/\ from \in 1 .. Len(q.ordering) + 1
                           /\ \A j \in 1 .. from - 1 : q.ordering[j] \notin D)
        /\ from = None => /\ Known(q) \subseteq RangeOf(q.ordering)
                          /\ RangeOf(q.ordering) \cap D = {}
    BY <1>3, EarliestIs
  <2>3. u = IF from = None THEN q
            ELSE IF \E k \in 1 .. from - 1 : q.ordering[k] \notin Known(q)
            THEN full_recompute(q) ELSE resume(q, from)
    BY <2>1 DEF incremental_reeliminate
  <2> HIDE DEF u, from
  <2>4. CASE from = None
    <3>1. u = q
      BY <2>3, <2>4
    <3>2. \A x \in RangeOf(q.ordering) : neighbours(s.edges, x) = neighbours(q.edges, x)
      BY <2>2, <2>4 DEF Marks
    <3>3. ASSUME NEW k \in DOMAIN q.ordering
          PROVE  WidthAt(s.edges, q.ordering, k) = WidthAt(q.edges, q.ordering, k)
      <4>1. DOMAIN q.ordering = 1 .. Len(q.ordering) /\ Len(q.ordering) \in Nat
        BY DEF Trackers
      <4>2. k \in Nat \ {0} /\ 1 .. k \subseteq DOMAIN q.ordering
        BY <4>1
      <4>3. \A j \in 1 .. k : /\ q.ordering[j] = q.ordering[j]
                              /\ neighbours(s.edges, q.ordering[j]) = neighbours(q.edges, q.ordering[j])
        BY <3>2, <4>2 DEF RangeOf
      <4> QED BY ONLY <4>2, <4>3, SameWidth
    <3>4. Coherent(q)
      BY <2>2, <2>4, <3>3 DEF Coherent
    <3> QED BY <3>1, <3>4 DEF u
  <2>5. CASE from # None /\ \E k \in 1 .. from - 1 : q.ordering[k] \notin Known(q)
    <3>1. u = full_recompute(q)
      BY <2>3, <2>5
    <3> QED BY <3>1, FullIs DEF u
  <2>6. CASE from # None /\ \A k \in 1 .. from - 1 : q.ordering[k] \in Known(q)
    <3>1. u = resume(q, from)
      BY <2>3, <2>6
    <3>2. from \in 1 .. Len(s.ordering) + 1
      BY <2>2, <2>6
    <3>3. ASSUME NEW j \in 1 .. from - 1
          PROVE  /\ s.ordering[j] \in Known(q)
                 /\ neighbours(s.edges, s.ordering[j]) = neighbours(q.edges, s.ordering[j])
      <4>1. DOMAIN s.ordering = 1 .. Len(s.ordering) /\ Len(s.ordering) \in Nat
        BY DEF Trackers
      <4>2. j \in DOMAIN s.ordering
        BY <3>2, <4>1
      <4>3. s.ordering[j] \in RangeOf(s.ordering)
        BY <4>2 DEF RangeOf
      <4> QED BY <2>2, <2>6, <4>3 DEF Marks
    <3> QED BY <3>1, <3>2, <3>3, ResumeIs DEF u
  <2> QED BY <2>4, <2>5, <2>6
<1> QED BY <1>1, <1>2, <1>3

LEMMA SameAround ==
  ASSUME NEW E, NEW F, NEW x, \A e : x \in e => (e \in E <=> e \in F)
  PROVE  neighbours(E, x) = neighbours(F, x)
<1>1. {e \in E : x \in e} = {e \in F : x \in e}
  OBVIOUS
<1> QED BY <1>1 DEF neighbours

LEMMA CliqueGrows ==
  ASSUME NEW S, NEW U, S \subseteq U
  PROVE  clique(S) \subseteq clique(U)
BY CliqueIs

LEMMA TrackedGraph ==
  ASSUME NEW s \in Trackers, Coherent(s)
  PROVE  /\ s.nodes \in Seq(Universe) /\ s.ordering \in Seq(Universe)
         /\ s.edges \subseteq clique(Universe) /\ s.edges \subseteq clique(Known(s))
         /\ GraphOn(s.nodes, s.edges) /\ Distinct(s.nodes)
         /\ Known(s) = RangeOf(s.nodes) /\ Known(s) \subseteq Universe
         /\ Known(s) \subseteq RangeOf(s.ordering)
<1>1. Known(s) = RangeOf(s.nodes)
  BY DEF Known, RangeOf
<1>2. s.nodes \in Seq(Universe)
  BY DEF Trackers
<1>3. Known(s) \subseteq Universe
  BY <1>1, <1>2 DEF RangeOf
<1> QED BY <1>1, <1>2, <1>3 DEF Trackers, Coherent, GraphOn

\* The edges change, and only between two nodes that are marked.
LEMMA EdgesChange ==
  ASSUME NEW s \in Trackers, Coherent(s), NEW u \in Known(s), NEW v \in Known(s), u # v,
         NEW F, F \subseteq s.edges \cup {{u, v}},
         \A e : e # {u, v} => (e \in s.edges <=> e \in F),
         NEW q, q = [s EXCEPT !.edges = F], NEW D, u \in D, v \in D
  PROVE  maybe_update(q, D) \in Trackers /\ Coherent(maybe_update(q, D))
<1>1. /\ s.edges \subseteq clique(Universe) /\ s.edges \subseteq clique(Known(s))
      /\ GraphOn(s.nodes, s.edges) /\ Known(s) = RangeOf(s.nodes)
      /\ Known(s) \subseteq Universe /\ Known(s) \subseteq RangeOf(s.ordering)
  BY TrackedGraph
<1>2. {u, v} \in clique(Known(s)) /\ clique(Known(s)) \subseteq clique(Universe)
  BY <1>1, CliqueIs, CliqueGrows
<1>3. F \subseteq clique(Known(s)) /\ F \subseteq clique(Universe)
  BY <1>1, <1>2
<1>4. /\ q \in Trackers /\ q.nodes = s.nodes /\ q.edges = F /\ q.ordering = s.ordering
      /\ q.step_width = s.step_width /\ q.bound = s.bound
  BY <1>3 DEF Trackers
<1>5. GraphOn(q.nodes, q.edges) /\ Known(q) = Known(s)
  BY <1>1, <1>3, <1>4 DEF GraphOn, Known
<1>6. ASSUME NEW x, x \notin D PROVE neighbours(s.edges, x) = neighbours(q.edges, x)
  <2>1. \A e : x \in e => (e \in s.edges <=> e \in F)
    BY <1>6
  <2> QED BY <1>4, <2>1, SameAround
<1>7. Marks(s, q, D)
  BY <1>1, <1>5, <1>6 DEF Marks
<1> QED BY <1>4, <1>5, <1>7, UpdateIs

LEMMA AddEdgeIs ==
  ASSUME NEW s \in Trackers, Coherent(s), NEW u \in Known(s), NEW v \in Known(s), u # v
  PROVE  on_add_edge(s, u, v) \in Trackers /\ Coherent(on_add_edge(s, u, v))
<1> DEFINE F == s.edges \cup {{u, v}}
           q == [s EXCEPT !.edges = F]
           D == around(q, u, v)
<1>1. add_edge_internal(s, u, v) = q
  BY DEF add_edge_internal, Trackers
<1>2. on_add_edge(s, u, v) = maybe_update(q, D)
  BY <1>1, OnlyIs DEF on_add_edge
<1>3. u \in D /\ v \in D
  BY DEF around
<1>4. F \subseteq s.edges \cup {{u, v}} /\ \A e : e # {u, v} => (e \in s.edges <=> e \in F)
  OBVIOUS
<1>5. q = [s EXCEPT !.edges = F]
  OBVIOUS
<1> HIDE DEF F, q, D
<1> QED BY <1>2, <1>3, <1>4, <1>5, EdgesChange

LEMMA RemoveEdgeIs ==
  ASSUME NEW s \in Trackers, Coherent(s), NEW u \in Known(s), NEW v \in Known(s), u # v
  PROVE  on_remove_edge(s, u, v) \in Trackers /\ Coherent(on_remove_edge(s, u, v))
<1> DEFINE F == s.edges \ {{u, v}}
           q == [s EXCEPT !.edges = F]
           D == around(q, u, v)
<1>1. remove_edge_internal(s, u, v) = q
  BY DEF remove_edge_internal, Trackers
<1>2. on_remove_edge(s, u, v) = maybe_update(q, D)
  BY <1>1, OnlyIs DEF on_remove_edge
<1>3. u \in D /\ v \in D
  BY DEF around
<1>4. F \subseteq s.edges \cup {{u, v}} /\ \A e : e # {u, v} => (e \in s.edges <=> e \in F)
  OBVIOUS
<1>5. q = [s EXCEPT !.edges = F]
  OBVIOUS
<1> HIDE DEF F, q, D
<1> QED BY <1>2, <1>3, <1>4, <1>5, EdgesChange

LEMMA AddNodeIs ==
  ASSUME NEW s \in Trackers, Coherent(s), NEW n \in Universe
  PROVE  on_add_node(s, n) \in Trackers /\ Coherent(on_add_node(s, n))
<1> DEFINE q == add_node_internal(s, n)
<1>1. /\ s.nodes \in Seq(Universe) /\ GraphOn(s.nodes, s.edges) /\ Known(s) = RangeOf(s.nodes)
      /\ Distinct(s.nodes) /\ s.edges \subseteq clique(Known(s))
  BY TrackedGraph
<1>2. CASE n \in Known(s)
  <2>1. q = s
    BY <1>2 DEF add_node_internal
  <2>2. Marks(s, s, {n})
    BY DEF Marks
  <2> QED BY <1>1, <2>1, <2>2, UpdateIs DEF on_add_node
<1>3. CASE n \notin Known(s)
  <2> DEFINE ns == Append(s.nodes, n)
             m == Len(s.nodes)
  <2>1. q = [s EXCEPT !.nodes = ns]
    BY <1>3 DEF add_node_internal, Trackers
  <2>2. /\ m \in Nat /\ DOMAIN s.nodes = 1 .. m
        /\ ns \in Seq(Universe) /\ DOMAIN ns = 1 .. m + 1 /\ ns[m + 1] = n
        /\ \A j \in 1 .. m : ns[j] = s.nodes[j]
    BY <1>1
  <2> HIDE DEF ns, m, q
  <2>3. RangeOf(ns) = Known(s) \cup {n}
    BY <1>1, <2>2 DEF RangeOf
  <2>4. Distinct(ns)
    <3>1. \A j \in 1 .. m : ns[j] # n
      BY <1>1, <1>3, <2>2 DEF RangeOf
    <3>2. \A j \in 1 .. m + 1 : j \in 1 .. m \/ j = m + 1
      BY <2>2
    <3> QED BY <1>1, <2>2, <3>1, <3>2 DEF Distinct
  <2>5. /\ q \in Trackers /\ q.nodes = ns /\ q.edges = s.edges /\ q.ordering = s.ordering
        /\ q.step_width = s.step_width /\ q.bound = s.bound
    BY <2>1, <2>2 DEF Trackers
  <2>6. GraphOn(q.nodes, q.edges)
    <3>1. clique(Known(s)) \subseteq clique(RangeOf(ns))
      BY <2>3, CliqueGrows
    <3>2. ns \in Seq(RangeOf(ns))
      BY <2>2 DEF RangeOf
    <3> QED BY <1>1, <2>4, <2>5, <3>1, <3>2 DEF GraphOn
  <2>7. Marks(s, q, {n})
    BY <2>5 DEF Marks
  <2> QED BY <2>5, <2>6, <2>7, UpdateIs DEF on_add_node, q
<1> QED BY <1>2, <1>3

\* The last node of a list takes the place of the one removed.
Removed(ns, i) == SubSeq([ns EXCEPT ![i] = ns[Len(ns)]], 1, Len(ns) - 1)

LEMMA RemovedIs ==
  ASSUME NEW U, NEW ns \in Seq(U), Distinct(ns), NEW i \in DOMAIN ns
  PROVE  /\ Removed(ns, i) \in Seq(U) /\ Distinct(Removed(ns, i))
         /\ RangeOf(Removed(ns, i)) = RangeOf(ns) \ {ns[i]}
<1> DEFINE ms == Removed(ns, i)
           m == Len(ns)
           mv == [ns EXCEPT ![i] = ns[m]]
           at(k) == IF k = i THEN m ELSE k
<1>1. /\ m \in Nat \ {0} /\ DOMAIN ns = 1 .. m /\ i \in 1 .. m /\ m \in 1 .. m
      /\ 1 .. m - 1 \subseteq 1 .. m /\ m - 1 \in Nat /\ m \notin 1 .. m - 1
  OBVIOUS
<1>2. mv \in Seq(U) /\ Len(mv) = m /\ \A k \in 1 .. m : mv[k] = ns[at(k)]
  <2>1. mv \in [1 .. m -> U] /\ \A k \in 1 .. m : mv[k] = ns[at(k)]
    BY <1>1
  <2> HIDE DEF mv, m
  <2>2. mv \in Seq(U) /\ Len(mv) = m
    BY <1>1, <2>1
  <2> QED BY <2>1, <2>2
<1> HIDE DEF mv
<1>3. /\ ms \in Seq(U) /\ DOMAIN ms = 1 .. m - 1
      /\ \A k \in 1 .. m - 1 : ms[k] = ns[at(k)]
  <2>1. ms = SubSeq(mv, 1, m - 1)
    BY DEF mv, Removed
  <2> HIDE DEF m, ms
  <2>2. ms \in Seq(U) /\ Len(ms) = m - 1 /\ \A k \in 1 .. m - 1 : ms[k] = mv[k]
    BY <1>1, <1>2, <2>1
  <2> QED BY <1>1, <1>2, <2>2
<1> HIDE DEF m, ms
<1>4. \A k \in 1 .. m - 1 : at(k) \in 1 .. m /\ at(k) # i
  BY <1>1
<1>5. \A j, k \in 1 .. m - 1 : at(j) = at(k) => j = k
  BY <1>1
<1>6. \A k \in 1 .. m : k # i => \E j \in 1 .. m - 1 : at(j) = k
  <2> SUFFICES ASSUME NEW k \in 1 .. m, k # i PROVE \E j \in 1 .. m - 1 : at(j) = k
    OBVIOUS
  <2>1. CASE k = m
    <3>1. i \in 1 .. m - 1 /\ at(i) = k
      BY <1>1, <2>1
    <3> QED BY <3>1
  <2>2. CASE k # m
    <3>1. k \in 1 .. m - 1 /\ at(k) = k
      BY <1>1, <2>2
    <3> QED BY <3>1
  <2> QED BY <2>1, <2>2
<1> HIDE DEF at
<1>7. Distinct(ms)
  BY <1>1, <1>3, <1>4, <1>5 DEF Distinct
<1>8. RangeOf(ms) = RangeOf(ns) \ {ns[i]}
  <2>1. ASSUME NEW k \in 1 .. m - 1 PROVE ms[k] \in RangeOf(ns) \ {ns[i]}
    BY <1>1, <1>3, <1>4 DEF Distinct, RangeOf
  <2>2. ASSUME NEW k \in 1 .. m, ns[k] # ns[i] PROVE ns[k] \in RangeOf(ms)
    <3>1. PICK j \in 1 .. m - 1 : at(j) = k
      BY <1>6, <2>2
    <3> QED BY <1>3, <3>1 DEF RangeOf
  <2>3. RangeOf(ms) \subseteq RangeOf(ns) \ {ns[i]}
    BY <1>3, <2>1 DEF RangeOf
  <2>4. RangeOf(ns) \ {ns[i]} \subseteq RangeOf(ms)
    <3>1. \A x \in RangeOf(ns) : \E k \in 1 .. m : x = ns[k]
      BY <1>1 DEF RangeOf
    <3> QED BY <2>2, <3>1
  <2> QED BY <2>3, <2>4
<1> QED BY <1>3, <1>7, <1>8 DEF ms

LEMMA RemoveNodeIs ==
  ASSUME NEW s \in Trackers, Coherent(s), NEW n
  PROVE  on_remove_node(s, n) \in Trackers /\ Coherent(on_remove_node(s, n))
<1> DEFINE q == remove_node_internal(s, n)
           D == neighbours(s.edges, n)
<1>1. /\ s.nodes \in Seq(Universe) /\ GraphOn(s.nodes, s.edges) /\ Known(s) = RangeOf(s.nodes)
      /\ Distinct(s.nodes) /\ s.edges \subseteq clique(Known(s))
      /\ s.edges \subseteq clique(Universe) /\ Known(s) \subseteq RangeOf(s.ordering)
  BY TrackedGraph
<1>2. CASE n \notin Known(s)
  <2>1. q = s
    BY <1>2 DEF remove_node_internal
  <2>2. Marks(s, s, D)
    BY DEF Marks
  <2> QED BY <1>1, <2>1, <2>2, UpdateIs DEF on_remove_node
<1>3. CASE n \in Known(s)
  <2> DEFINE i == CHOOSE k \in DOMAIN s.nodes : s.nodes[k] = n
             ms == Removed(s.nodes, i)
             F == {e \in s.edges : n \notin e}
  <2>1. i \in DOMAIN s.nodes /\ s.nodes[i] = n
    BY <1>1, <1>3 DEF RangeOf
  <2>2. q = [s EXCEPT !.nodes = ms, !.edges = F]
    BY <1>3 DEF remove_node_internal, Trackers, Removed
  <2> HIDE DEF i
  <2>3. ms \in Seq(Universe) /\ Distinct(ms) /\ RangeOf(ms) = Known(s) \ {n}
    <3>1. s.nodes \in Seq(Universe) /\ Distinct(s.nodes) /\ i \in DOMAIN s.nodes
      BY <1>1, <2>1
    <3>2. ms \in Seq(Universe) /\ Distinct(ms) /\ RangeOf(ms) = RangeOf(s.nodes) \ {s.nodes[i]}
      BY ONLY <3>1, RemovedIs
    <3> QED BY <1>1, <2>1, <3>2
  <2> HIDE DEF ms, q
  <2>4. /\ q \in Trackers /\ q.nodes = ms /\ q.edges = F /\ q.ordering = s.ordering
        /\ q.step_width = s.step_width /\ q.bound = s.bound
    BY <1>1, <2>2, <2>3 DEF Trackers
  <2>5. Known(q) = Known(s) \ {n}
    BY <2>3, <2>4 DEF Known, RangeOf
  <2>6. GraphOn(q.nodes, q.edges)
    <3>1. F \subseteq clique(RangeOf(ms))
      <4>1. ASSUME NEW e \in F PROVE e \in clique(Known(s) \ {n})
        <5>1. e \in clique(Known(s)) /\ n \notin e
          BY <1>1
        <5>2. PICK a \in Known(s), b \in Known(s) : a # b /\ e = {a, b}
          BY <5>1, CliqueIs
        <5>3. a # n /\ b # n
          BY <5>1, <5>2
        <5> QED BY <5>2, <5>3, CliqueIs
      <4> HIDE DEF F
      <4> QED BY <2>3, <4>1
    <3>2. ms \in Seq(RangeOf(ms))
      BY <2>3 DEF RangeOf
    <3> QED BY <2>3, <2>4, <3>1, <3>2 DEF GraphOn
  <2>7. \A x : x \in D <=> x # n /\ {x, n} \in s.edges
    <3>1. s.edges \subseteq clique(Known(s))
      BY <1>1
    <3>2. \A x, v : x \in neighbours(s.edges, v) <=> x # v /\ {x, v} \in s.edges
      BY ONLY <3>1, NeighbourIs
    <3> QED BY <3>2
  <2>8. \A e \in s.edges : \E a, b \in Known(s) : a # b /\ e = {a, b}
    BY <1>1, CliqueIs
  <2> HIDE DEF D
  <2>9. ASSUME NEW x, x # n, x \notin D PROVE neighbours(s.edges, x) = neighbours(q.edges, x)
    <3>1. ASSUME NEW e \in s.edges, x \in e PROVE n \notin e
      <4>1. n \in e => e = {x, n}
        BY <2>8, <2>9, <3>1
      <4> QED BY <2>7, <2>9, <3>1, <4>1
    <3>2. \A e : x \in e => (e \in s.edges <=> e \in F)
      BY <3>1
    <3> HIDE DEF F
    <3> QED BY <2>4, <3>2, SameAround
  <2>10. ASSUME RangeOf(s.ordering) \cap D = {}, NEW x
         PROVE  neighbours(s.edges, x) = neighbours(q.edges, x)
    <3>1. D \subseteq Known(s)
      <4>1. neighbours(s.edges, n) \subseteq Known(s)
        BY ONLY <1>1, NeighbourIs
      <4> QED BY <4>1 DEF D
    <3>2. D = {}
      BY <1>1, <2>10, <3>1
    <3>3. \A e \in s.edges : n \notin e
      <4>1. SUFFICES ASSUME NEW e \in s.edges, n \in e PROVE FALSE
        OBVIOUS
      <4>2. PICK y : y # n /\ e = {y, n}
        BY <2>8, <4>1
      <4> QED BY <2>7, <3>2, <4>1, <4>2
    <3>4. F = s.edges
      BY <3>3
    <3> QED BY <2>4, <3>4
  <2>11. Marks(s, q, D)
    BY <2>5, <2>9, <2>10 DEF Marks
  <2> QED BY <2>4, <2>6, <2>11, UpdateIs DEF on_remove_node, q, D
<1> QED BY <1>2, <1>3

LEMMA FromGraphIs ==
  ASSUME NEW s \in Starts
  PROVE  from_graph(s) \in Trackers /\ Coherent(from_graph(s))
<1> DEFINE q == [nodes |-> s.nodes, edges |-> s.edges, ordering |-> <<>>,
                 step_width |-> <<>>, bound |-> 0]
<1>1. GraphOn(s.nodes, s.edges)
  BY TrackerAssumption DEF GraphOn, Distinct, RangeOf
<1>2. RangeOf(s.nodes) \subseteq Universe
  BY DEF Universe, Known, RangeOf
<1>3. s.nodes \in Seq(Universe) /\ s.edges \subseteq clique(Universe)
  <2>1. clique(RangeOf(s.nodes)) \subseteq clique(Universe)
    BY <1>2, CliqueGrows
  <2> QED BY <1>1, <1>2, <2>1, SeqOfMore DEF GraphOn
<1>4. 0 = MaxOf(<<>>) /\ <<>> \in Seq(Nat) /\ <<>> \in Seq(Universe)
  BY DEF MaxOf
<1>5. q \in Trackers /\ q.nodes = s.nodes /\ q.edges = s.edges
  BY <1>3, <1>4 DEF Trackers
<1>6. from_graph(s) = full_recompute(q)
  BY DEF from_graph
<1> HIDE DEF q
<1> QED BY <1>1, <1>5, <1>6, FullIs

LEMMA TrackerStep ==
  ASSUME TrackerInv, [TrackerNext]_<<t, calls>>
  PROVE  TrackerInv'
<1>1. t \in Trackers /\ Coherent(t) /\ Known(t) \subseteq Universe
  BY TrackedGraph DEF TrackerInv
<1>2. NodeIds \subseteq Universe /\ NodeIds \subseteq Nat
  BY TrackerAssumption DEF Universe
<1>3. CASE AddEdge
  <2>1. PICK u, v \in NodeIds \cap Known(t) : u < v /\ t' = on_add_edge(t, u, v)
    BY <1>3 DEF AddEdge, Notify
  <2>2. u # v
    BY <1>2, <2>1
  <2> QED BY <1>1, <2>1, <2>2, AddEdgeIs DEF TrackerInv
<1>4. CASE RemoveEdge
  <2>1. PICK u, v \in NodeIds \cap Known(t) : u < v /\ t' = on_remove_edge(t, u, v)
    BY <1>4 DEF RemoveEdge, Notify
  <2>2. u # v
    BY <1>2, <2>1
  <2> QED BY <1>1, <2>1, <2>2, RemoveEdgeIs DEF TrackerInv
<1>5. CASE AddNode
  BY <1>1, <1>2, <1>5, AddNodeIs DEF AddNode, Notify, TrackerInv
<1>6. CASE RemoveNode
  BY <1>1, <1>6, RemoveNodeIs DEF RemoveNode, Notify, TrackerInv
<1>7. CASE Recompute
  BY <1>1, <1>7, FullIs DEF Recompute, Notify, TrackerInv, Coherent
<1>8. CASE UNCHANGED <<t, calls>>
  <2>1. t' = t
    BY <1>8
  <2> QED BY <1>1, <2>1 DEF TrackerInv
<1> QED BY <1>3, <1>4, <1>5, <1>6, <1>7, <1>8 DEF TrackerNext

LEMMA AlwaysCoherent == TrackerSpec => []TrackerInv
<1>1. TrackerInit => TrackerInv
  BY FromGraphIs DEF TrackerInit, TrackerInv
<1>2. TrackerInv /\ [TrackerNext]_<<t, calls>> => TrackerInv'
  BY TrackerStep
<1> QED BY <1>1, <1>2, PTL DEF TrackerSpec

-----------------------------------------------------------------------------
(***************************************************************************)
(* What the tracker promises.                                              *)
(***************************************************************************)

\* Whatever edges and nodes come and go, the ordering, stitched from a kept
\* prefix and a new suffix, eliminates every node of the graph exactly once.
THEOREM OrderingIsComplete == TrackerSpec => []EliminatesEveryNodeOnce
<1>1. TrackerInv => EliminatesEveryNodeOnce
  <2> SUFFICES ASSUME TrackerInv, NEW n \in Known(t)
               PROVE  Cardinality(positions(t, {n})) = 1
    BY DEF EliminatesEveryNodeOnce
  <2>1. n \in RangeOf(t.ordering) /\ Distinct(t.ordering)
    BY DEF TrackerInv, Coherent
  <2>2. PICK k \in DOMAIN t.ordering : t.ordering[k] = n
    BY <2>1 DEF RangeOf
  <2>3. positions(t, {n}) = {k}
    BY <2>1, <2>2 DEF positions, Distinct
  <2> QED BY <2>3, FS_Singleton
<1> QED BY <1>1, AlwaysCoherent, PTL

\* After any number of edits every cached width, the ones no edit recomputed
\* included, is the one its step has on the graph as it is now, and the bound
\* is the largest of them.
THEOREM WidthsAreExact == TrackerSpec => []WidthsMatchTheGraph
<1> DEFINE later(k) == {t.ordering[j] : j \in k + 1 .. Len(t.ordering)}
           seen(k) == UNION {neighbours(t.edges, v) : v \in Merged(k)}
<1>1. TrackerInv => WidthsMatchTheGraph
  <2> SUFFICES ASSUME TrackerInv PROVE WidthsMatchTheGraph
    OBVIOUS
  <2>1. /\ t.ordering \in Seq(Universe) /\ t.edges \subseteq clique(Known(t))
        /\ Known(t) \subseteq RangeOf(t.ordering) /\ Distinct(t.ordering)
        /\ \A k \in DOMAIN t.ordering : t.step_width[k] = WidthAt(t.edges, t.ordering, k)
        /\ t.bound = MaxOf(t.step_width)
    BY TrackedGraph DEF TrackerInv, Coherent
  <2>2. ASSUME NEW k \in DOMAIN t.ordering
        PROVE  WidthAt(t.edges, t.ordering, k) = Cardinality(later(k) \cap seen(k))
    <3> DEFINE X == {t.ordering[j] : j \in 1 .. k - 1}
               Y == {t.ordering[j] : j \in 1 .. k}
               Z == Sees(t.edges, X, t.ordering[k])
               n == Len(t.ordering)
    <3>1. n \in Nat /\ DOMAIN t.ordering = 1 .. n /\ k \in Nat \ {0} /\ k <= n
      BY <2>1
    <3>2. seen(k) = Z
      BY <3>1, MergedIs DEF Sees
    <3>3. Z \subseteq RangeOf(t.ordering)
      <4>1. \A v : neighbours(t.edges, v) \subseteq Known(t)
        BY <2>1, NeighbourIs
      <4>2. Z \subseteq Known(t)
        BY <4>1 DEF Sees
      <4> HIDE DEF Z
      <4> QED BY <2>1, <4>2
    <3>4. RangeOf(t.ordering) = Y \cup later(k) /\ Y \cap later(k) = {}
      <4>1. \A j \in 1 .. n : j \in 1 .. k \/ j \in k + 1 .. n
        BY <3>1
      <4>2. \A j \in 1 .. k : j \in 1 .. n /\ j \notin k + 1 .. n
        BY <3>1
      <4>3. \A j \in k + 1 .. n : j \in 1 .. n
        BY <3>1
      <4>4. Y \cap later(k) = {}
        BY <2>1, <3>1, <4>2, <4>3 DEF Distinct
      <4>5. RangeOf(t.ordering) = Y \cup later(k)
        BY <3>1, <4>1, <4>2, <4>3 DEF RangeOf
      <4> QED BY <4>4, <4>5
    <3>5. Z \ Y = later(k) \cap Z
      <4> HIDE DEF Z, Y, later
      <4> QED BY <3>3, <3>4
    <3>6. WidthAt(t.edges, t.ordering, k) = Cardinality(Z \ Y)
      BY DEF WidthAt
    <3> HIDE DEF Z, Y, seen
    <3> QED BY <3>2, <3>5, <3>6
  <2> QED BY <2>1, <2>2 DEF WidthsMatchTheGraph
<1> QED BY <1>1, AlwaysCoherent, PTL

LEMMA MaxOfIs ==
  ASSUME NEW s \in Seq(Nat)
  PROVE  MaxOf(s) \in Nat /\ \A k \in DOMAIN s : s[k] <= MaxOf(s)
<1> DEFINE n == Len(s)
           above(k) == {m \in Nat : \A j \in 1 .. k : s[j] <= m}
           P == {k \in 0 .. n : above(k) # {}}
<1>1. n \in Nat /\ DOMAIN s = 1 .. n /\ \A j \in 1 .. n : s[j] \in Nat
  OBVIOUS
<1> HIDE DEF n
<1>2. 0 \in P
  <2>1. 0 \in above(0) /\ 0 \in 0 .. n
    BY <1>1
  <2> QED BY <2>1
<1>3. ASSUME NEW k \in 1 .. n, k - 1 \in P PROVE k \in P
  <2>1. PICK m \in Nat : \A j \in 1 .. k - 1 : s[j] <= m
    BY <1>3
  <2> DEFINE b == IF s[k] <= m THEN m ELSE s[k]
  <2>2. s[k] \in Nat /\ b \in Nat /\ m <= b /\ s[k] <= b
    BY <1>1
  <2>3. \A j \in 1 .. k : s[j] \in Nat /\ (j \in 1 .. k - 1 \/ j = k)
    BY <1>1
  <2> HIDE DEF b
  <2>4. \A j \in 1 .. k : s[j] <= b
    BY <2>1, <2>2, <2>3
  <2>5. b \in above(k) /\ k \in 0 .. n
    BY <1>1, <2>2, <2>4
  <2> QED BY <2>5
<1>4. n \in P
  <2> HIDE DEF P
  <2>1. \A k \in 0 .. n : k \in P
    BY <1>1, <1>2, <1>3, UpTo
  <2> QED BY <1>1, <2>1
<1>5. PICK m \in above(n) : \A x \in above(n) : m <= x
  <2>1. above(n) \in SUBSET Nat /\ above(n) # {}
    BY <1>4
  <2> HIDE DEF above
  <2> QED BY <2>1, LeastElement
<1>6. CASE s = <<>>
  BY <1>6 DEF MaxOf
<1>7. CASE s # <<>>
  <2>1. n # 0
    BY <1>7 DEF n
  <2>2. \E k \in DOMAIN s : s[k] = m
    <3>1. SUFFICES ASSUME \A k \in DOMAIN s : s[k] # m PROVE FALSE
      OBVIOUS
    <3>2. 1 \in 1 .. n /\ m \in Nat
      BY <1>1, <2>1
    <3>3. m # 0
      <4>1. s[1] \in Nat /\ s[1] <= m /\ s[1] # m
        BY <1>1, <1>5, <3>1, <3>2
      <4> QED BY ONLY <3>2, <4>1
    <3>4. ASSUME NEW j \in 1 .. n PROVE s[j] <= m - 1
      <4>1. s[j] \in Nat /\ s[j] <= m /\ s[j] # m
        BY <1>1, <1>5, <3>1
      <4> QED BY ONLY <3>2, <4>1
    <3>5. m - 1 \in above(n)
      BY <3>2, <3>3, <3>4
    <3> HIDE DEF above
    <3> QED BY <1>5, <3>2, <3>5
  <2>3. m \in Nat /\ \A k \in DOMAIN s : s[k] <= m
    BY <1>1, <1>5
  <2>4. \E x \in {s[k] : k \in DOMAIN s} : \A k \in DOMAIN s : s[k] <= x
    BY <2>2, <2>3
  <2> DEFINE c == CHOOSE x \in {s[k] : k \in DOMAIN s} : \A k \in DOMAIN s : s[k] <= x
  <2>5. c \in {s[k] : k \in DOMAIN s} /\ \A k \in DOMAIN s : s[k] <= c
    BY <2>4
  <2>6. MaxOf(s) = c
    BY <1>7 DEF MaxOf
  <2> HIDE DEF c
  <2> QED BY <1>1, <2>5, <2>6
<1> QED BY <1>6, <1>7

\* The bound is one: no step of the ordering has a larger width, on the graph
\* as it is, than the bound the tracker reports.
THEOREM BoundCoversEveryStep ==
  TrackerSpec => [](\A k \in DOMAIN t.ordering : WidthAt(t.edges, t.ordering, k) <= t.bound)
<1>1. TrackerInv => \A k \in DOMAIN t.ordering : WidthAt(t.edges, t.ordering, k) <= t.bound
  <2> SUFFICES ASSUME TrackerInv, NEW k \in DOMAIN t.ordering
               PROVE  WidthAt(t.edges, t.ordering, k) <= t.bound
    OBVIOUS
  <2>1. /\ t.ordering \in Seq(Universe) /\ t.step_width \in Seq(Nat)
        /\ Len(t.step_width) = Len(t.ordering) /\ t.bound = MaxOf(t.step_width)
        /\ t.step_width[k] = WidthAt(t.edges, t.ordering, k)
    BY DEF TrackerInv, Trackers, Coherent
  <2>2. k \in DOMAIN t.step_width
    BY <2>1
  <2>3. t.step_width[k] <= MaxOf(t.step_width)
    BY <2>1, <2>2, MaxOfIs
  <2> QED BY <2>1, <2>3
<1> QED BY <1>1, AlwaysCoherent, PTL

=============================================================================
