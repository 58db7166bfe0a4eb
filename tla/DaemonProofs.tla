---------------------------- MODULE DaemonProofs ----------------------------
(***************************************************************************)
(* The daemon keeps what its storage promises, for every order of          *)
(* callbacks, of the steps of persisting, of crashes and I/O errors.       *)
(***************************************************************************)
EXTENDS Daemon, ObjectProofs

-----------------------------------------------------------------------------
(***************************************************************************)
(* Sequences of log entries.                                               *)
(***************************************************************************)
Prefix(s, t) == Len(s) <= Len(t) /\ \A x \in 1 .. Len(s) : t[x] = s[x]

LEMMA WiderSeq ==
  ASSUME NEW T, NEW U, NEW s \in Seq(T)
  PROVE  s \in Seq(T \cup U) /\ s \in Seq(U \cup T)
OBVIOUS

LEMMA PrefixTrans ==
  ASSUME NEW T, NEW s \in Seq(T), NEW t \in Seq(T), NEW r \in Seq(T),
         Prefix(s, t), Prefix(t, r)
  PROVE  Prefix(s, r)
BY DEF Prefix

LEMMA PrefixOfConcat ==
  ASSUME NEW T, NEW s \in Seq(T), NEW t \in Seq(T), NEW r \in Seq(T), Prefix(s, t)
  PROVE  Prefix(s, t \o r)
BY DEF Prefix

LEMMA PrefixIsSubSeq ==
  ASSUME NEW T, NEW s \in Seq(T), NEW t \in Seq(T), Prefix(s, t)
  PROVE  Len(s) <= Len(t) /\ SubSeq(t, 1, Len(s)) = s
<1>1. /\ Len(s) \in Nat /\ Len(t) \in Nat /\ Len(s) <= Len(t)
      /\ \A x \in 1 .. Len(s) : t[x] = s[x]
  BY DEF Prefix
<1>2. SubSeq(t, 1, Len(s)) \in Seq(T) /\ Len(SubSeq(t, 1, Len(s))) = Len(s)
  BY <1>1
<1>3. \A x \in 1 .. Len(s) : SubSeq(t, 1, Len(s))[x] = s[x]
  BY <1>1
<1> QED BY <1>1, <1>2, <1>3

\* A sequence is a prefix of it and what comes after.
LEMMA PrefixAndRest ==
  ASSUME NEW T, NEW s \in Seq(T), NEW t \in Seq(T), Prefix(s, t),
         NEW r, r = SubSeq(t, Len(s) + 1, Len(t))
  PROVE  /\ r \in Seq(T) /\ t = s \o r
         /\ Len(r) = Len(t) - Len(s)
         /\ \A x \in 1 .. Len(r) : r[x] = t[x + Len(s)]
<1>1. /\ Len(s) \in Nat /\ Len(t) \in Nat /\ Len(s) <= Len(t)
      /\ \A x \in 1 .. Len(s) : t[x] = s[x]
  BY DEF Prefix
<1>2. r \in Seq(T) /\ Len(r) = Len(t) - Len(s)
  BY <1>1
<1>3. \A x \in 1 .. Len(r) : r[x] = t[x + Len(s)]
  BY <1>1, <1>2
<1>4. s \o r \in Seq(T) /\ Len(s \o r) = Len(t)
  BY <1>1, <1>2
<1>5. \A x \in 1 .. Len(t) : (s \o r)[x] = t[x]
  BY <1>1, <1>2, <1>3
<1>6. t = s \o r
  BY <1>4, <1>5
<1> QED BY <1>2, <1>3, <1>6

LEMMA SubsequenceOfSelf ==
  ASSUME NEW T, NEW t \in Seq(T)
  PROVE  Subsequence(<<>>, t)
<1> DEFINE f == [x \in DOMAIN <<>> |-> 0]
<1>1. DOMAIN <<>> = {}
  OBVIOUS
<1>2. f \in [DOMAIN <<>> -> DOMAIN t]
  BY <1>1
<1> QED BY <1>1, <1>2 DEF Subsequence

\* Fewer entries at the end of the one, more at the end of the other.
LEMMA SubsequenceCut ==
  ASSUME NEW T, NEW s \in Seq(T), NEW r \in Seq(T), NEW t \in Seq(T),
         Subsequence(s \o r, t)
  PROVE  Subsequence(s, t)
<1> DEFINE c == s \o r
<1>1. /\ DOMAIN s = 1 .. Len(s) /\ Len(s) \in Nat /\ DOMAIN s \subseteq DOMAIN c
      /\ \A x \in DOMAIN s : c[x] = s[x]
  OBVIOUS
<1> HIDE DEF c
<1>2. PICK f \in [DOMAIN c -> DOMAIN t] : \A j, k \in DOMAIN c :
        c[j] = t[f[j]] /\ (j < k => f[j] < f[k])
  BY DEF Subsequence, c
<1> DEFINE h == [x \in DOMAIN s |-> f[x]]
<1>3. h \in [DOMAIN s -> DOMAIN t]
  BY <1>1, <1>2
<1>4. \A j, k \in DOMAIN s : s[j] = t[h[j]] /\ (j < k => h[j] < h[k])
  BY <1>1, <1>2
<1> QED BY <1>3, <1>4 DEF Subsequence

LEMMA SubsequenceGrows ==
  ASSUME NEW T, NEW s \in Seq(T), NEW t \in Seq(T), NEW r \in Seq(T), Subsequence(s, t)
  PROVE  Subsequence(s \o r, t \o r)
<1> DEFINE c == s \o r
           d == t \o r
           n == Len(s)
           m == Len(t)
<1>1. /\ n \in Nat /\ m \in Nat /\ Len(r) \in Nat
      /\ DOMAIN s = 1 .. n /\ DOMAIN t = 1 .. m
      /\ DOMAIN c = 1 .. n + Len(r) /\ DOMAIN d = 1 .. m + Len(r)
      /\ \A x \in 1 .. n : c[x] = s[x]
      /\ \A x \in 1 .. m : d[x] = t[x]
      /\ \A x \in 1 .. Len(r) : c[n + x] = r[x] /\ d[m + x] = r[x]
  OBVIOUS
<1> HIDE DEF c, d
<1>2. PICK f \in [1 .. n -> 1 .. m] : \A j, k \in 1 .. n :
        s[j] = t[f[j]] /\ (j < k => f[j] < f[k])
  BY <1>1 DEF Subsequence
<1> HIDE DEF n, m
<1> DEFINE h == [x \in DOMAIN c |-> IF x <= n THEN f[x] ELSE x - n + m]
<1>3. \A x \in DOMAIN c : IF x \in 1 .. n THEN h[x] = f[x] /\ h[x] \in 1 .. m
                          ELSE h[x] = x - n + m /\ h[x] \in m + 1 .. m + Len(r)
                               /\ x - n \in 1 .. Len(r)
  BY <1>1, <1>2
<1>4. h \in [DOMAIN c -> DOMAIN d]
  BY <1>1, <1>3
<1>5. ASSUME NEW x \in DOMAIN c PROVE c[x] = d[h[x]]
  <2>1. CASE x \in 1 .. n
    BY <1>1, <1>2, <1>3, <2>1
  <2>2. CASE x \notin 1 .. n
    <3> DEFINE y == x - n
    <3>1. y \in 1 .. Len(r) /\ x = n + y /\ h[x] = m + y
      BY <1>1, <1>3, <2>2
    <3> HIDE DEF y, h
    <3> QED BY <1>1, <3>1
  <2> QED BY <2>1, <2>2
<1>6. ASSUME NEW j \in DOMAIN c, NEW k \in DOMAIN c, j < k PROVE h[j] < h[k]
  BY <1>1, <1>2, <1>3, <1>6
<1> HIDE DEF h
<1>7. Subsequence(c, d)
  BY <1>4, <1>5, <1>6 DEF Subsequence
<1> QED BY <1>7 DEF c, d

LEMMA LoggedConcat ==
  ASSUME NEW T, NEW s \in Seq(T), NEW t \in Seq(T), NEW ops, NEW j
  PROVE  Logged(s \o t, ops, j) = Logged(s, ops, j) + Logged(t, ops, j)
<1> DEFINE c == s \o t
           n == Len(s)
           hit(log) == {x \in DOMAIN log : log[x].op \in ops /\ log[x].inode = j}
           M == {n + x : x \in hit(t)}
<1>1. /\ n \in Nat /\ Len(t) \in Nat
      /\ DOMAIN s = 1 .. n /\ DOMAIN t = 1 .. Len(t) /\ DOMAIN c = 1 .. n + Len(t)
      /\ \A x \in 1 .. n : c[x] = s[x]
      /\ \A x \in 1 .. Len(t) : c[n + x] = t[x]
  OBVIOUS
<1> HIDE DEF c
<1>2. /\ IsFiniteSet(hit(s)) /\ IsFiniteSet(hit(t))
      /\ hit(s) \subseteq 1 .. n /\ hit(t) \subseteq 1 .. Len(t)
  <2>1. hit(s) \subseteq 1 .. n /\ hit(t) \subseteq 1 .. Len(t)
    BY <1>1
  <2> HIDE DEF hit, n
  <2>2. IsFiniteSet(1 .. n) /\ IsFiniteSet(1 .. Len(t))
    BY <1>1, FS_Interval
  <2> QED BY <2>1, <2>2, FS_Subset
<1> HIDE DEF n
<1>3. IsFiniteSet(M) /\ Cardinality(M) = Cardinality(hit(t))
  <2> DEFINE f == [x \in hit(t) |-> n + x]
  <2>1. f \in Surjection(hit(t), M)
    BY DEF Surjection
  <2>2. \A x, y \in hit(t) : f[x] = f[y] => x = y
    BY <1>1, <1>2
  <2>3. f \in Bijection(hit(t), M)
    BY <2>1, <2>2 DEF Bijection, Injection, Surjection, IsInjective
  <2> QED BY <1>2, <2>3, FS_Bijection DEF ExistsBijection
<1>4. hit(c) = hit(s) \cup M
  <2>1. ASSUME NEW x \in hit(c) PROVE x \in hit(s) \cup M
    <3>1. CASE x \in 1 .. n
      BY <1>1, <2>1, <3>1
    <3>2. CASE x \notin 1 .. n
      <4>1. PICK y \in 1 .. Len(t) : x = n + y
        <5>1. x - n \in 1 .. Len(t) /\ x = n + (x - n)
          BY <1>1, <2>1, <3>2
        <5> QED BY <5>1
      <4>2. y \in hit(t)
        BY <1>1, <2>1, <4>1
      <4> QED BY <4>1, <4>2
    <3> QED BY <3>1, <3>2
  <2>2. ASSUME NEW x \in hit(s) PROVE x \in hit(c)
    BY <1>1, <2>2
  <2>3. ASSUME NEW y \in hit(t) PROVE n + y \in hit(c)
    BY <1>1, <2>3
  <2> QED BY <2>1, <2>2, <2>3
<1>5. hit(s) \cap M = {}
  BY <1>1, <1>2
<1> HIDE DEF hit, M
<1>6. Cardinality(hit(c)) = Cardinality(hit(s)) + Cardinality(M) - 0
  BY <1>2, <1>3, <1>4, <1>5, FS_Union, FS_EmptySet, SMTT(30)
<1>7. Cardinality(M) \in Nat /\ Cardinality(hit(s)) \in Nat
  BY <1>2, <1>3, FS_CardinalityType
<1>8. Cardinality(hit(c)) = Cardinality(hit(s)) + Cardinality(hit(t))
  BY <1>3, <1>6, <1>7
<1> QED BY <1>8 DEF Logged, hit, c

-----------------------------------------------------------------------------
(***************************************************************************)
(* One call on a mounted graph.                                            *)
(***************************************************************************)
\* What every graph that is mounted or stored satisfies.
Good(k) == Sound(k) /\ k.next_dir <= k.next_inode /\ LogTyped(k)

WithLog(k, s) == [k EXCEPT !.prov_log = [on |-> TRUE, entries |-> s]]

\* The log s tells which objects of k exist, and of no others.
Fits(s, k) == LogFits(WithLog(k, s), k.next_inode)

\* What the call adds to the log tells what it does, whatever came before.
Tells(k, h) ==
  k.prov_log.on =>
    \A T : \A s \in Seq(T) :
      Fits(s \o k.prov_log.entries, k) => Fits(s \o h.prov_log.entries, h)

Works(k, h) == Good(h) /\ Appended(k, h) /\ Tells(k, h)

LEMMA WorksTrans ==
  ASSUME NEW k, NEW m, NEW h, Works(k, m), Works(m, h)
  PROVE  Works(k, h)
<1>1. Good(h) /\ Appended(k, h)
  BY AppendedTrans DEF Works
<1>2. Tells(k, m) /\ Tells(m, h) /\ m.prov_log.on = k.prov_log.on
  BY DEF Works, Appended
<1>3. Tells(k, h)
  BY <1>2 DEF Tells
<1> QED BY <1>1, <1>3 DEF Works

LEMMA WorksRefl ==
  ASSUME NEW k, Good(k)
  PROVE  Works(k, k)
BY AppendedIf DEF Works, Tells, Good

LEMMA WithLogIs ==
  ASSUME NEW k, Good(k), NEW T, NEW s \in Seq(T)
  PROVE  /\ Sound(WithLog(k, s)) /\ LogTyped(WithLog(k, s))
         /\ WithLog(k, s).prov_log = [on |-> TRUE, entries |-> s]
         /\ WithLog(k, s).inodes = k.inodes
         /\ WithLog(k, s).next_inode = k.next_inode
<1> DEFINE m == WithLog(k, s)
<1>1. FieldsTyped(k) /\ IsGraph(k) /\ Sound(k)
  BY SoundGraph DEF Good
<1>2. SameExcept(k, m, {"prov_log"}) /\ m.prov_log = [on |-> TRUE, entries |-> s]
  BY <1>1 DEF WithLog, SameExcept, IsGraph, GraphFields
<1>3. SameExcept(k, m, Untyped) /\ SameExcept(k, m, Apart)
  BY <1>2 DEF SameExcept, Untyped, Apart
<1>4. Sound(m)
  BY <1>1, <1>3, UntypedKeeps, IssuesNothing, ApartIsSameTree, SameTreeSound
<1>5. LogTyped(m)
  BY <1>2 DEF LogTyped
<1>6. m.inodes = k.inodes /\ m.next_inode = k.next_inode
  BY <1>2 DEF SameExcept, GraphFields
<1> QED BY <1>2, <1>4, <1>5, <1>6 DEF m

\* Graphs a and b are k and h with the log s in front of their own.
Prefixed(k, h, s, a, b) ==
  /\ Sound(a) /\ LogTyped(a) /\ a.prov_log.on = TRUE
  /\ a.inodes = k.inodes /\ a.next_inode = k.next_inode
  /\ b.prov_log.on = TRUE
  /\ b.inodes = h.inodes /\ b.next_inode = h.next_inode
  /\ \A ops, j :
       /\ Logged(s, ops, j) \in Nat
       /\ Logged(k.prov_log.entries, ops, j) \in Nat
       /\ Logged(h.prov_log.entries, ops, j) \in Nat
       /\ Logged(a.prov_log.entries, ops, j)
            = Logged(s, ops, j) + Logged(k.prov_log.entries, ops, j)
       /\ Logged(b.prov_log.entries, ops, j)
            = Logged(s, ops, j) + Logged(h.prov_log.entries, ops, j)

LEMMA PrefixedLogs ==
  ASSUME NEW k, Good(k), NEW h, Good(h), NEW T, NEW s \in Seq(T),
         NEW a, a = WithLog(k, s \o k.prov_log.entries),
         NEW b, b = WithLog(h, s \o h.prov_log.entries)
  PROVE  Prefixed(k, h, s, a, b)
<1>1. PICK U : k.prov_log.entries \in Seq(U)
  BY DEF Good, LogTyped
<1>2. PICK V : h.prov_log.entries \in Seq(V)
  BY DEF Good, LogTyped
<1> DEFINE W == (T \cup U) \cup V
           x == k.prov_log.entries
           y == h.prov_log.entries
<1>3. s \in Seq(W) /\ x \in Seq(W) /\ y \in Seq(W)
  BY <1>1, <1>2, WiderSeq
<1> HIDE DEF W, x, y
<1>4. s \o x \in Seq(W) /\ s \o y \in Seq(W)
  BY <1>3
<1>5. /\ a.prov_log = [on |-> TRUE, entries |-> s \o x]
      /\ a.inodes = k.inodes /\ a.next_inode = k.next_inode
      /\ Sound(a) /\ LogTyped(a)
  BY <1>4, WithLogIs DEF x
<1>6. /\ b.prov_log = [on |-> TRUE, entries |-> s \o y]
      /\ b.inodes = h.inodes /\ b.next_inode = h.next_inode
  BY <1>4, WithLogIs DEF y
<1>7. \A ops, j : /\ Logged(s, ops, j) \in Nat /\ Logged(x, ops, j) \in Nat
                  /\ Logged(y, ops, j) \in Nat
                  /\ Logged(s \o x, ops, j) = Logged(s, ops, j) + Logged(x, ops, j)
                  /\ Logged(s \o y, ops, j) = Logged(s, ops, j) + Logged(y, ops, j)
  BY <1>3, LoggedIsNat, LoggedConcat
<1> QED BY <1>5, <1>6, <1>7 DEF x, y, Prefixed

LEMMA ActsTell ==
  ASSUME NEW k, Good(k), NEW h, Good(h), NEW op, NEW i \in Nat, Acts(k, h, op, i),
         op \in {"Create", "Symlink", "Mkdir"} => i = k.next_inode,
         k.next_inode <= h.next_inode, i < h.next_inode
  PROVE  Tells(k, h)
<1> SUFFICES ASSUME k.prov_log.on, NEW T, NEW s \in Seq(T),
                    Fits(s \o k.prov_log.entries, k)
             PROVE  Fits(s \o h.prov_log.entries, h)
  BY DEF Tells
<1> DEFINE a == WithLog(k, s \o k.prov_log.entries)
           b == WithLog(h, s \o h.prov_log.entries)
<1>0. a = WithLog(k, s \o k.prov_log.entries) /\ b = WithLog(h, s \o h.prov_log.entries)
  OBVIOUS
<1> HIDE DEF a, b
<1>1. Prefixed(k, h, s, a, b)
  BY <1>0, PrefixedLogs
<1>2. LogFits(a, k.next_inode)
  BY <1>0 DEF Fits
<1>3. Counts(a, b, op, i)
  <2>1. \A ops, j : Logged(h.prov_log.entries, ops, j)
          = Logged(k.prov_log.entries, ops, j) + (IF op \in ops /\ j = i THEN 1 ELSE 0)
    BY DEF Acts, Counts
  <2>2. ASSUME NEW ops, NEW j
        PROVE  Logged(b.prov_log.entries, ops, j)
                 = Logged(a.prov_log.entries, ops, j)
                     + (IF op \in ops /\ j = i THEN 1 ELSE 0)
    BY <1>1, <2>1 DEF Prefixed
  <2> QED BY <1>1, <2>2 DEF Prefixed, Counts
<1>4. Acts(a, b, op, i)
  BY <1>1, <1>3 DEF Prefixed, Acts, SameNode
<1>5. k.next_inode \in Nat /\ h.next_inode \in Nat /\ FieldsTyped(a)
  BY <1>1, SoundGraph DEF Prefixed, Good
<1>6. LogFits(b, h.next_inode)
  BY <1>1, <1>2, <1>4, <1>5, ActsFit DEF Prefixed
<1> QED BY <1>1, <1>6 DEF Prefixed, Fits, b

LEMMA QuietTells ==
  ASSUME NEW k, Good(k), NEW h, Good(h), Quiet(k, h), k.next_inode <= h.next_inode
  PROVE  Tells(k, h)
<1> SUFFICES ASSUME k.prov_log.on, NEW T, NEW s \in Seq(T),
                    Fits(s \o k.prov_log.entries, k)
             PROVE  Fits(s \o h.prov_log.entries, h)
  BY DEF Tells
<1> DEFINE a == WithLog(k, s \o k.prov_log.entries)
           b == WithLog(h, s \o h.prov_log.entries)
<1>0. a = WithLog(k, s \o k.prov_log.entries) /\ b = WithLog(h, s \o h.prov_log.entries)
  OBVIOUS
<1> HIDE DEF a, b
<1>1. Prefixed(k, h, s, a, b)
  BY <1>0, PrefixedLogs
<1>2. LogFits(a, k.next_inode)
  BY <1>0 DEF Fits
<1>3. Quiet(a, b)
  <2>1. \A i : SameNode(a, b, i) /\ SameCounts(k, h, i)
    BY <1>1 DEF Prefixed, Quiet, SameNode
  <2>2. ASSUME NEW i, NEW ops \in SUBSET EntryOps
        PROVE  Logged(b.prov_log.entries, ops, i) = Logged(a.prov_log.entries, ops, i)
    <3>1. Logged(h.prov_log.entries, ops, i) = Logged(k.prov_log.entries, ops, i)
      BY <2>1 DEF SameCounts
    <3> QED BY <1>1, <3>1 DEF Prefixed
  <2> QED BY <1>1, <2>1, <2>2 DEF Prefixed, Quiet, SameCounts
<1>4. k.next_inode \in Nat /\ h.next_inode \in Nat
  BY SoundGraph DEF Good
<1>5. LogFits(b, h.next_inode)
  BY <1>2, <1>3, <1>4, QuietFits, FitsLater
<1> QED BY <1>1, <1>5 DEF Prefixed, Fits, b

LEMMA MadeWorks ==
  ASSUME NEW k, Good(k), NEW op, NEW ty,
         <<op, ty>> \in {<<"Create", "Regular">>, <<"Symlink", "Symlink">>,
                         <<"Mkdir", "Directory">>},
         NEW h, Sound(h), h.next_dir <= h.next_inode, Records(k, h),
         h.next_inode = k.next_inode + 1, h.next_inode <= NODE_CAPACITY,
         Counts(k, h, op, k.next_inode), MakesInode(k, h, ty)
  PROVE  Works(k, h)
<1>1. Sound(k) /\ LogTyped(k) /\ k.next_inode \in Nat /\ NODE_CAPACITY \in Nat
  BY SoundGraph, CapacityAssumption DEF Good
<1>2. Good(h) /\ Appended(k, h)
  BY <1>1, RecordsLogs DEF Good, Logs
<1>3. Acts(k, h, op, k.next_inode)
  BY <1>1, MakesActs
<1>4. k.next_inode <= h.next_inode /\ k.next_inode < h.next_inode
  BY <1>1
<1>5. Tells(k, h)
  BY <1>1, <1>2, <1>3, <1>4, ActsTell
<1> QED BY <1>2, <1>5 DEF Works

\* The pools are not full, not even after the call.
Roomy(h) == h.next_inode <= NODE_CAPACITY /\ h.next_edge <= EDGE_CAPACITY

LEMMA MakersWork ==
  ASSUME NEW k, Good(k), NEW d \in DOMAIN k.dirs, NEW n, new_entry_ok(k, d, n),
         NEW mode \in Modes, NEW u \in Users, NEW h,
         \/ h = create_file(k, d, n, mode, u) \/ h = mkdir(k, d, n, mode, u)
         \/ \E t \in Targets : h = symlink(k, d, n, t, u),
         Roomy(h)
  PROVE  Works(k, h) /\ k.next_inode \in DOMAIN h.inodes
<1>1. /\ Sound(k) /\ LogTyped(k) /\ IsGraph(k) /\ FieldsTyped(k)
      /\ k.next_inode \in Nat /\ k.next_edge \in Nat /\ k.next_dir \in Nat
      /\ k.next_dir <= k.next_inode /\ NODE_CAPACITY \in Nat /\ EDGE_CAPACITY \in Nat
  BY SoundGraph, CapacityAssumption DEF Good
<1>2. CASE h = create_file(k, d, n, mode, u)
  <2>1. /\ h.next_inode = k.next_inode + 1 /\ h.next_dir = k.next_dir
        /\ h.next_edge = k.next_edge + 1
    BY <1>1, <1>2, CreateFileTakes
  <2>2. k.next_inode < NODE_CAPACITY /\ k.next_edge < EDGE_CAPACITY
    BY <1>1, <2>1 DEF Roomy
  <2>3. Sound(h) /\ Adds(k, h, d, n, k.next_inode)
    BY <1>1, <1>2, <2>2, CreateFileSound
  <2>4. Enters(k, h, "Create", k.next_inode)
    BY <1>1, <1>2, EntryCallsEnter
  <2>5. Records(k, h) /\ Counts(k, h, "Create", k.next_inode)
    BY <1>1, <2>4, EntersRecords, EntersCount
  <2>6. MakesInode(k, h, "Regular")
    BY <1>1, <1>2, MakersMakeOne
  <2>7. h.next_dir <= h.next_inode
    BY <1>1, <2>1
  <2>8. Works(k, h)
    BY <1>1, <2>1, <2>3, <2>5, <2>6, <2>7, MadeWorks DEF Roomy
  <2> QED BY <2>3, <2>8 DEF Adds
<1>3. CASE h = mkdir(k, d, n, mode, u)
  <2>1. /\ h.next_inode = k.next_inode + 1 /\ h.next_dir = k.next_dir + 1
        /\ h.next_edge = k.next_edge + 3
    BY <1>1, <1>3, MkdirTakes
  <2>2. /\ k.next_inode < NODE_CAPACITY /\ k.next_dir < NODE_CAPACITY
        /\ k.next_edge + 2 < EDGE_CAPACITY
    BY <1>1, <2>1 DEF Roomy
  <2>3. Sound(h) /\ Adds(k, h, d, n, k.next_inode)
    BY <1>1, <1>3, <2>2, MkdirSound
  <2>4. Enters(k, h, "Mkdir", k.next_inode)
    BY <1>1, <1>3, EntryCallsEnter
  <2>5. Records(k, h) /\ Counts(k, h, "Mkdir", k.next_inode)
    BY <1>1, <2>4, EntersRecords, EntersCount
  <2>6. MakesInode(k, h, "Directory")
    BY <1>1, <1>3, MakersMakeOne
  <2>7. h.next_dir <= h.next_inode
    BY <1>1, <2>1
  <2>8. Works(k, h)
    BY <1>1, <2>1, <2>3, <2>5, <2>6, <2>7, MadeWorks DEF Roomy
  <2> QED BY <2>3, <2>8 DEF Adds
<1>4. ASSUME NEW t \in Targets, h = symlink(k, d, n, t, u)
      PROVE  Works(k, h) /\ k.next_inode \in DOMAIN h.inodes
  <2>1. /\ h.next_inode = k.next_inode + 1 /\ h.next_dir = k.next_dir
        /\ h.next_edge = k.next_edge + 1
    BY <1>1, <1>4, SymlinkTakes
  <2>2. k.next_inode < NODE_CAPACITY /\ k.next_edge < EDGE_CAPACITY
    BY <1>1, <2>1 DEF Roomy
  <2>3. Sound(h) /\ Adds(k, h, d, n, k.next_inode)
    BY <1>1, <1>4, <2>2, SymlinkSound
  <2>4. PICK m : /\ Leaves(k, m, Carried \ {"symlink_targets"}, CarriedKinds)
                 /\ h = record_prov(m, "Symlink", k.next_inode)
    BY <1>1, <1>4, SymlinkLeaves
  <2>5. Unrecorded(k, m)
    BY <2>4, LeavesUnrecorded DEF Carried
  <2>6. Records(k, h) /\ Counts(k, h, "Symlink", k.next_inode)
    BY <1>1, <2>4, <2>5, RecordCounts DEF Records
  <2>7. MakesInode(k, h, "Symlink")
    BY <1>1, <1>4, MakersMakeOne
  <2>8. h.next_dir <= h.next_inode
    BY <1>1, <2>1
  <2>9. Works(k, h)
    BY <1>1, <2>1, <2>3, <2>6, <2>7, <2>8, MadeWorks DEF Roomy
  <2> QED BY <2>3, <2>9 DEF Adds
<1> QED BY <1>2, <1>3, <1>4

LEMMA LiveActsWork ==
  ASSUME NEW k, Good(k), NEW i \in DOMAIN k.inodes, NEW op \in {"Link", "Unlink", "Rmdir"},
         NEW h, Sound(h), h.next_dir = k.next_dir, h.next_inode = k.next_inode,
         Acts(k, h, op, i), Records(k, h)
  PROVE  Works(k, h)
<1>1. /\ Sound(k) /\ LogTyped(k) /\ k.next_inode \in Nat
      /\ i \in Nat /\ i < k.next_inode
  BY SoundGraph DEF Good, IdsIssued
<1>2. Good(h) /\ Appended(k, h)
  BY <1>1, RecordsLogs DEF Good, Logs
<1>3. Tells(k, h)
  BY <1>1, <1>2, ActsTell
<1> QED BY <1>2, <1>3 DEF Works

LEMMA MoversWork ==
  ASSUME NEW k, Good(k), NEW d, NEW n, NEW i, NEW h,
         \/ rmdir_ok(k, d, n) /\ h = rmdir(k, d, n)
         \/ unlink_ok(k, d, n) /\ h = unlink(k, d, n)
         \/ /\ d \in DOMAIN k.dirs /\ n \in AllNames /\ link_ok(k, d, n, i)
            /\ h = link(k, d, n, i) /\ Roomy(h)
  PROVE  Works(k, h)
<1>1. /\ Sound(k) /\ LogTyped(k) /\ IsGraph(k) /\ k.next_edge \in Nat
      /\ EDGE_CAPACITY \in Nat
  BY SoundGraph, CapacityAssumption DEF Good
<1>2. CASE rmdir_ok(k, d, n) /\ h = rmdir(k, d, n)
  <2>1. Sound(h) /\ h.next_dir = k.next_dir /\ h.next_inode = k.next_inode
    <3>1. Sound(h) /\ Vacates(k, h, d, n)
      BY <1>1, <1>2, RmdirSound
    <3> QED BY <3>1 DEF Vacates, SameIds
  <2>2. Records(k, h)
    BY <1>1, <1>2, EntryCallsEnter, EntersRecords
  <2>3. PICK j \in DOMAIN k.inodes : Acts(k, h, "Rmdir", j)
    BY <1>1, <1>2, RmdirActs
  <2> QED BY <2>1, <2>2, <2>3, LiveActsWork
<1>3. CASE unlink_ok(k, d, n) /\ h = unlink(k, d, n)
  <2>1. Sound(h) /\ h.next_dir = k.next_dir /\ h.next_inode = k.next_inode
    <3>1. Sound(h) /\ Vacates(k, h, d, n)
      BY <1>1, <1>3, UnlinkSound
    <3> QED BY <3>1 DEF Vacates, SameIds
  <2>2. Records(k, h)
    BY <1>1, <1>3, EntryCallsEnter, EntersRecords
  <2>3. PICK j \in DOMAIN k.inodes : Acts(k, h, "Unlink", j)
    BY <1>1, <1>3, UnlinkActs
  <2> QED BY <2>1, <2>2, <2>3, LiveActsWork
<1>4. CASE /\ d \in DOMAIN k.dirs /\ n \in AllNames /\ link_ok(k, d, n, i)
           /\ h = link(k, d, n, i) /\ Roomy(h)
  <2>1. h.next_edge = k.next_edge + 1
    BY <1>1, <1>4, LinkTakes
  <2>2. k.next_edge < EDGE_CAPACITY
    BY <1>1, <1>4, <2>1 DEF Roomy
  <2>3. Sound(h) /\ h.next_dir = k.next_dir /\ h.next_inode = k.next_inode
    BY <1>1, <1>4, <2>2, LinkSound
  <2>4. Records(k, h)
    BY <1>1, <1>4, EntryCallsEnter, EntersRecords
  <2>5. Acts(k, h, "Link", i) /\ i \in DOMAIN k.inodes
    BY <1>1, <1>4, LinkActs DEF link_ok
  <2> QED BY <2>3, <2>4, <2>5, LiveActsWork
<1> QED BY <1>2, <1>3, <1>4

LEMMA QuietWorks ==
  ASSUME NEW k, Good(k), NEW h, Issues(k, h), Unnoticed(k, h),
         \/ RecordsOther(k, h)
         \/ h.prov_log = k.prov_log /\ h.cap_ctx = k.cap_ctx
  PROVE  Works(k, h)
<1>1. Sound(k) /\ LogTyped(k) /\ k.next_inode \in Nat /\ k.next_dir \in Nat
  BY SoundGraph DEF Good
<1>2. Sound(h) /\ h.next_inode \in Nat
  BY <1>1, SameTreeSound, SoundGraph DEF Unnoticed
<1>3. LogTyped(h) /\ Appended(k, h)
  <2>1. RecordsOther(k, h) => Records(k, h)
    BY DEF RecordsOther, Records
  <2> QED BY <1>1, <2>1, RecordsLogs, AppendedIf DEF Logs
<1>4. k.next_inode <= h.next_inode /\ h.next_dir = k.next_dir
  BY DEF Issues, Unnoticed
<1>5. Good(h)
  <2>1. h.next_dir <= h.next_inode
    BY <1>1, <1>2, <1>4 DEF Good
  <2> QED BY <1>2, <1>3, <2>1 DEF Good
<1>6. \A i : SameNode(k, h, i)
  BY DEF Unnoticed, SameTree, SameNode
<1>7. Quiet(k, h)
  BY <1>1, <1>6, OthersAreQuiet
<1>8. Tells(k, h)
  BY <1>4, <1>5, <1>7, QuietTells
<1> QED BY <1>3, <1>5, <1>8 DEF Works

LEMMA ContentsWork ==
  ASSUME NEW k, Good(k), NEW i \in Nat, NEW h,
         \/ \E w \in Writes : h = write_data(k, i, w[1], w[2])
         \/ \E n \in Nat : h = truncate(k, i, n)
         \/ \E m \in Modes : h = chmod(k, i, m)
         \/ \E u, v \in Users : h = chown(k, i, u, v)
         \/ \E key, v : h = setxattr(k, i, key, v)
         \/ \E key : h = removexattr(k, i, key)
  PROVE  Works(k, h)
<1>1. Sound(k) /\ FieldsTyped(k) /\ IsGraph(k)
  BY SoundGraph DEF Good
<1>2. CASE \E w \in Writes : h = write_data(k, i, w[1], w[2])
  <2>1. PICK w \in Writes : h = write_data(k, i, w[1], w[2])
    BY <1>2
  <2>2. w[1] \in Nat /\ w[2] \in Seq(Nat)
    BY InputAssumption
  <2>3. Issues(k, h) /\ Unnoticed(k, h)
    BY <1>1, <2>1, <2>2, WriteDataIssues, WriteDataUnnoticed
  <2>4. RecordsOther(k, h)
    BY <1>1, <2>1, OtherCallsRecord
  <2> QED BY <2>3, <2>4, QuietWorks
<1>3. CASE \E n \in Nat : h = truncate(k, i, n)
  <2>1. Issues(k, h) /\ Unnoticed(k, h)
    BY <1>1, <1>3, TruncateIssues, TruncateUnnoticed
  <2>2. RecordsOther(k, h)
    BY <1>1, <1>3, OtherCallsRecord
  <2> QED BY <2>1, <2>2, QuietWorks
<1>4. CASE \E m \in Modes : h = chmod(k, i, m)
  <2>1. Issues(k, h) /\ Unnoticed(k, h)
    BY <1>1, <1>4, ChmodIssues, ChmodUnnoticed
  <2>2. RecordsOther(k, h)
    BY <1>1, <1>4, OtherCallsRecord
  <2> QED BY <2>1, <2>2, QuietWorks
<1>5. CASE \E u, v \in Users : h = chown(k, i, u, v)
  <2>1. Issues(k, h) /\ Unnoticed(k, h)
    BY <1>1, <1>5, ChownIssues, ChownUnnoticed
  <2>2. RecordsOther(k, h)
    BY <1>1, <1>5, OtherCallsRecord
  <2> QED BY <2>1, <2>2, QuietWorks
<1>6. CASE \E key, v : h = setxattr(k, i, key, v)
  <2>1. PICK key, v : h = setxattr(k, i, key, v)
    BY <1>6
  <2>2. Issues(k, h) /\ Unnoticed(k, h)
    BY <1>1, <2>1, SetxattrIssues, SetxattrUnnoticed
  <2>3. CASE xattrs_with_key(k, i, key) = {}
    <3>1. h = new_xattr(k, i, key, v)
      BY <2>1, <2>3 DEF setxattr
    <3>2. RecordsOther(k, h)
      BY <1>1, <3>1, OtherCallsRecord
    <3> QED BY <2>2, <3>2, QuietWorks
  <2>4. CASE xattrs_with_key(k, i, key) # {}
    <3>1. \E x : h = [k EXCEPT !.xattrs = x]
      BY <2>1, <2>4 DEF setxattr
    <3>2. h.prov_log = k.prov_log /\ h.cap_ctx = k.cap_ctx
      BY <1>1, <3>1 DEF IsGraph, GraphFields
    <3> QED BY <2>2, <3>2, QuietWorks
  <2> QED BY <2>3, <2>4
<1>7. CASE \E key : h = removexattr(k, i, key)
  <2>1. Issues(k, h) /\ Unnoticed(k, h)
    BY <1>1, <1>7, RemovexattrIssues, RemovexattrUnnoticed
  <2>2. RecordsOther(k, h)
    BY <1>1, <1>7, OtherCallsRecord
  <2> QED BY <2>1, <2>2, QuietWorks
<1> QED BY <1>2, <1>3, <1>4, <1>5, <1>6, <1>7

LEMMA RenameWorks ==
  ASSUME NEW k, Good(k), NEW sd \in DOMAIN k.dirs, NEW src \in AllNames,
         NEW dd \in DOMAIN k.dirs, NEW dst \in AllNames,
         NEW h, h = rename(k, sd, src, dd, dst).graph, Roomy(h)
  PROVE  Works(k, h)
<1>1. Sound(k) /\ LogTyped(k)
  BY DEF Good
<1>2. Sound(h) /\ h.next_dir = k.next_dir /\ h.next_inode = k.next_inode
  BY <1>1, RenameSound DEF Roomy
<1>3. \/ h = k
      \/ \E r, j : /\ r = k \/ r = replace_destination(k, dd, dst).graph
                   /\ Enters(r, h, "Rename", j) /\ h.inodes = r.inodes
  BY <1>1, RenameEnters
<1>4. CASE h = k
  BY <1>4, WorksRefl
<1>5. ASSUME NEW r, NEW j, r = k \/ r = replace_destination(k, dd, dst).graph,
             Enters(r, h, "Rename", j), h.inodes = r.inodes
      PROVE  Works(k, h)
  <2>1. Works(k, r)
    <3>1. CASE r = k
      BY <3>1, WorksRefl
    <3>2. CASE unlink_ok(k, dd, dst) /\ r = unlink(k, dd, dst)
      BY <3>2, MoversWork
    <3>3. CASE rmdir_ok(k, dd, dst) /\ r = rmdir(k, dd, dst)
      BY <3>3, MoversWork
    <3> QED BY <1>1, <1>5, <3>1, <3>2, <3>3, ReplaceEnters
  <2>2. Good(r) /\ LogTyped(r)
    BY <2>1 DEF Works, Good
  <2>3. r.next_inode = k.next_inode
    <3>1. CASE r = k
      BY <3>1
    <3>2. CASE unlink_ok(k, dd, dst) /\ r = unlink(k, dd, dst)
      <4>1. Vacates(k, r, dd, dst)
        BY <1>1, <3>2, UnlinkSound
      <4> QED BY <4>1 DEF Vacates, SameIds
    <3>3. CASE rmdir_ok(k, dd, dst) /\ r = rmdir(k, dd, dst)
      <4>1. Vacates(k, r, dd, dst)
        BY <1>1, <3>3, RmdirSound
      <4> QED BY <4>1 DEF Vacates, SameIds
    <3> QED BY <1>1, <1>5, <3>1, <3>2, <3>3, ReplaceEnters
  <2>4. LogTyped(h) /\ Appended(r, h)
    BY <1>5, <2>2, EntersRecords, RecordsLogs DEF Logs
  <2>5. Good(h)
    BY <1>2, <2>4 DEF Good
  <2>6. Quiet(r, h)
    <3>1. \A i : SameNode(r, h, i)
      BY <1>5 DEF SameNode
    <3>2. RecordsOther(r, h)
      BY <1>5, LeavesUnrecorded DEF Enters, Beside, Carried, RecordsOther, EntryOps
    <3> QED BY <2>2, <3>1, <3>2, OthersAreQuiet
  <2>7. k.next_inode \in Nat
    BY <1>1, SoundGraph
  <2>8. Tells(r, h)
    BY <1>2, <2>2, <2>3, <2>5, <2>6, <2>7, QuietTells
  <2>9. Works(r, h)
    BY <2>4, <2>5, <2>8 DEF Works
  <2> QED BY <2>1, <2>9, WorksTrans
<1> QED BY <1>3, <1>4, <1>5

-----------------------------------------------------------------------------
(***************************************************************************)
(* The callbacks.                                                          *)
(***************************************************************************)
\* Every id that is issued has a slot.
MountsHaveRoom ==
  /\ MaxInode \in Int /\ MaxInode < NODE_CAPACITY
  /\ MaxEdge \in Int /\ MaxEdge < EDGE_CAPACITY

LEMMA RoomWithin ==
  ASSUME MountsHaveRoom, NEW k, NEW h, Issues(k, h), Within(h)
  PROVE  Roomy(h)
<1>1. h.next_inode \in Nat /\ h.next_edge \in Nat
  BY DEF Issues, FieldsTyped, Ids
<1> QED BY <1>1, CapacityAssumption DEF MountsHaveRoom, Within, Roomy

LEMMA ContextIs ==
  ASSUME Good(g), NEW u, NEW k, k = ctx_from_req(u)
  PROVE  /\ Good(k) /\ SameExcept(g, k, {"cap_ctx"})
         /\ k.cap_ctx.domain_id = u /\ k.prov_log = g.prov_log
         /\ k.dirs = g.dirs /\ k.inodes = g.inodes
         /\ k.next_inode = g.next_inode
<1>1. Sound(g) /\ FieldsTyped(g) /\ IsGraph(g)
  BY SoundGraph DEF Good
<1>2. SameExcept(g, k, {"cap_ctx"}) /\ k.cap_ctx = [cap_id |-> None, domain_id |-> u]
  BY <1>1 DEF ctx_from_req, SameExcept, IsGraph, GraphFields
<1>3. /\ k.prov_log = g.prov_log /\ k.dirs = g.dirs /\ k.inodes = g.inodes
      /\ k.next_inode = g.next_inode /\ k.next_dir = g.next_dir
  BY <1>2 DEF SameExcept, GraphFields
<1>4. SameExcept(g, k, Untyped) /\ SameExcept(g, k, Apart)
  BY <1>2 DEF SameExcept, Untyped, Apart
<1>5. Sound(k)
  BY <1>1, <1>4, UntypedKeeps, IssuesNothing, ApartIsSameTree, SameTreeSound
<1>6. Good(k)
  BY <1>3, <1>5 DEF Good, LogTyped
<1> QED BY <1>2, <1>3, <1>6

\* What a call that only sets the mode and the owner of inodes leaves.
Relabels(k, h) ==
  /\ SameExcept(k, h, {"inodes", "prov_log", "cap_ctx"})
  /\ DOMAIN h.inodes = DOMAIN k.inodes
  /\ \A i \in DOMAIN k.inodes :
       [h.inodes[i] EXCEPT !.mode = k.inodes[i].mode, !.uid = k.inodes[i].uid,
                           !.gid = k.inodes[i].gid] = k.inodes[i]

LEMMA RelabelsRefl ==
  ASSUME NEW k, FieldsTyped(k), NEW h, SameExcept(k, h, {"cap_ctx"})
  PROVE  Relabels(k, h)
<1>1. h.inodes = k.inodes /\ k.inodes \in [DOMAIN k.inodes -> Inode]
  BY DEF SameExcept, GraphFields, FieldsTyped
<1>2. \A x \in Inode : [x EXCEPT !.mode = x.mode, !.uid = x.uid, !.gid = x.gid] = x
  BY DEF Inode
<1> QED BY <1>1, <1>2 DEF Relabels, SameExcept

LEMMA RelabelsTrans ==
  ASSUME NEW k, FieldsTyped(k), NEW m, FieldsTyped(m), NEW h, FieldsTyped(h),
         Relabels(k, m), Relabels(m, h)
  PROVE  Relabels(k, h)
<1>1. /\ SameExcept(k, h, {"inodes", "prov_log", "cap_ctx"})
      /\ DOMAIN h.inodes = DOMAIN k.inodes /\ DOMAIN m.inodes = DOMAIN k.inodes
  BY DEF Relabels, SameExcept
<1>2. ASSUME NEW x \in Inode, NEW y \in Inode, NEW z \in Inode,
             [y EXCEPT !.mode = x.mode, !.uid = x.uid, !.gid = x.gid] = x,
             [z EXCEPT !.mode = y.mode, !.uid = y.uid, !.gid = y.gid] = y
      PROVE  [z EXCEPT !.mode = x.mode, !.uid = x.uid, !.gid = x.gid] = x
  BY <1>2 DEF Inode
<1>3. \A i \in DOMAIN k.inodes : /\ k.inodes[i] \in Inode /\ m.inodes[i] \in Inode
                                 /\ h.inodes[i] \in Inode
  BY <1>1 DEF FieldsTyped
<1>4. ASSUME NEW i \in DOMAIN k.inodes
      PROVE  [h.inodes[i] EXCEPT !.mode = k.inodes[i].mode, !.uid = k.inodes[i].uid,
                                 !.gid = k.inodes[i].gid] = k.inodes[i]
  <2>1. [m.inodes[i] EXCEPT !.mode = k.inodes[i].mode, !.uid = k.inodes[i].uid,
                            !.gid = k.inodes[i].gid] = k.inodes[i]
    BY DEF Relabels
  <2>2. [h.inodes[i] EXCEPT !.mode = m.inodes[i].mode, !.uid = m.inodes[i].uid,
                            !.gid = m.inodes[i].gid] = m.inodes[i]
    BY <1>1 DEF Relabels
  <2> QED BY <1>2, <1>3, <2>1, <2>2
<1> QED BY <1>1, <1>4 DEF Relabels

LEMMA AttributesRelabel ==
  ASSUME NEW k, FieldsTyped(k), NEW i \in DOMAIN k.inodes, NEW m, NEW u, NEW v
  PROVE  Relabels(k, chmod(k, i, m)) /\ Relabels(k, chown(k, i, u, v))
<1>1. IsGraph(k) /\ k.inodes \in [DOMAIN k.inodes -> Inode]
  BY DEF FieldsTyped
<1> DEFINE a == [k EXCEPT !.inodes[i].mode = m]
           b == [k EXCEPT !.inodes[i].uid = u, !.inodes[i].gid = v]
           P == [k.inodes EXCEPT ![i].mode = m]
           Q == [k.inodes EXCEPT ![i].uid = u, ![i].gid = v]
<1>2. /\ SameExcept(k, a, {"inodes"}) /\ a.inodes = P
      /\ SameExcept(k, b, {"inodes"}) /\ b.inodes = Q
  BY <1>1 DEF SameExcept, IsGraph, GraphFields
<1>3. \A x \in Inode : /\ [[x EXCEPT !.mode = m] EXCEPT !.mode = x.mode, !.uid = x.uid,
                                                       !.gid = x.gid] = x
                       /\ [[x EXCEPT !.uid = u, !.gid = v] EXCEPT
                              !.mode = x.mode, !.uid = x.uid, !.gid = x.gid] = x
                       /\ [x EXCEPT !.mode = x.mode, !.uid = x.uid, !.gid = x.gid] = x
  BY DEF Inode
<1>4. /\ DOMAIN P = DOMAIN k.inodes /\ DOMAIN Q = DOMAIN k.inodes
      /\ P[i] = [k.inodes[i] EXCEPT !.mode = m]
      /\ Q[i] = [k.inodes[i] EXCEPT !.uid = u, !.gid = v]
      /\ \A j \in DOMAIN k.inodes \ {i} : P[j] = k.inodes[j] /\ Q[j] = k.inodes[j]
  BY <1>1
<1>5. \A j \in DOMAIN k.inodes : k.inodes[j] \in Inode
  BY <1>1
<1> HIDE DEF a, b, P, Q
<1>6. \A j \in DOMAIN k.inodes :
        /\ [P[j] EXCEPT !.mode = k.inodes[j].mode, !.uid = k.inodes[j].uid,
                        !.gid = k.inodes[j].gid] = k.inodes[j]
        /\ [Q[j] EXCEPT !.mode = k.inodes[j].mode, !.uid = k.inodes[j].uid,
                        !.gid = k.inodes[j].gid] = k.inodes[j]
  <2> TAKE j \in DOMAIN k.inodes
  <2> DEFINE Back(x) == [x EXCEPT !.mode = k.inodes[j].mode, !.uid = k.inodes[j].uid,
                                  !.gid = k.inodes[j].gid]
  <2>1. CASE j = i
    <3>1. Back(P[i]) = k.inodes[j] /\ Back(Q[i]) = k.inodes[j]
      BY <1>3, <1>4, <1>5, <2>1
    <3> QED BY <2>1, <3>1
  <2>2. CASE j # i
    <3>1. P[j] = k.inodes[j] /\ Q[j] = k.inodes[j] /\ k.inodes[j] \in Inode
      BY <1>4, <1>5, <2>2
    <3> QED BY <1>3, <3>1
  <2> QED BY <2>1, <2>2
<1>7. \A x, op : IsGraph(x) => /\ SameExcept(x, record_prov(x, op, i), {"prov_log"})
                              /\ record_prov(x, op, i).inodes = x.inodes
  <2> TAKE x, op
  <2>1. CASE record_prov(x, op, i) = x
    BY <2>1 DEF SameExcept
  <2>2. ASSUME IsGraph(x), NEW l, record_prov(x, op, i) = [x EXCEPT !.prov_log = l]
        PROVE  /\ SameExcept(x, record_prov(x, op, i), {"prov_log"})
               /\ record_prov(x, op, i).inodes = x.inodes
    BY <2>2 DEF SameExcept, IsGraph, GraphFields
  <2>3. \/ record_prov(x, op, i) = x
        \/ \E l : record_prov(x, op, i) = [x EXCEPT !.prov_log = l]
    BY DEF record_prov
  <2> QED BY <2>1, <2>2, <2>3
<1>8. \A x, op : IsGraph(x) /\ SameExcept(k, x, {"inodes"}) =>
                  /\ SameExcept(k, record_prov(x, op, i), {"inodes", "prov_log", "cap_ctx"})
                  /\ record_prov(x, op, i).inodes = x.inodes
  BY <1>7 DEF SameExcept
<1>9. chmod(k, i, m) = record_prov(a, "Chmod", i) /\ chown(k, i, u, v) = record_prov(b, "Chown", i)
  BY DEF chmod, chown, a, b
<1>10. IsGraph(a) /\ IsGraph(b)
  BY <1>1 DEF a, b, IsGraph
<1>11. SameExcept(k, chmod(k, i, m), {"inodes", "prov_log", "cap_ctx"})
       /\ chmod(k, i, m).inodes = P
  BY <1>2, <1>8, <1>9, <1>10
<1>12. SameExcept(k, chown(k, i, u, v), {"inodes", "prov_log", "cap_ctx"})
       /\ chown(k, i, u, v).inodes = Q
  BY <1>2, <1>8, <1>9, <1>10
<1> DEFINE c == chmod(k, i, m)
           e == chown(k, i, u, v)
<1>13. /\ SameExcept(k, c, {"inodes", "prov_log", "cap_ctx"}) /\ c.inodes = P
       /\ SameExcept(k, e, {"inodes", "prov_log", "cap_ctx"}) /\ e.inodes = Q
  BY <1>11, <1>12
<1> HIDE DEF c, e
<1>14. Relabels(k, c) /\ Relabels(k, e)
  BY <1>4, <1>6, <1>13 DEF Relabels
<1> QED BY <1>14 DEF c, e
LEMMA SetattrWorks ==
  ASSUME NEW k, Good(k), NEW i \in Nat, NEW a \in SetattrRequests,
         NEW r, r = setattr(k, i, a)
  PROVE  Works(k, r.graph) /\ (r.ok # TRUE => Relabels(k, r.graph))
<1> DEFINE r1 == Then(Done(k), a.mode, attr_ok(k, i), chmod(k, i, The(a.mode, 0)))
           h1 == r1.graph
           own == chown(h1, i, The(a.uid, h1.inodes[i].uid), The(a.gid, h1.inodes[i].gid))
           r2 == Then(r1, a.uid \cup a.gid, attr_ok(h1, i), own)
           h2 == r2.graph
           r3 == Then(r2, a.size, regular_ok(h2, i), truncate(h2, i, The(a.size, 0)))
           Fine(h) == Works(k, h) /\ Relabels(k, h)
<1>1. r = [r3 EXCEPT !.ok = @ /\ i \in DOMAIN k.inodes]
  BY DEF setattr
<1>2. \A h : Done(h).graph = h /\ Fail(h).graph = h /\ Done(h).ok = TRUE /\ Fail(h).ok = FALSE
  BY DEF Done, Fail
<1>3. \A S, x : S # {} => The(S, x) \in S
  BY DEF The
<1>4. /\ a.mode \subseteq Modes /\ a.size \subseteq Nat
      /\ a.uid \subseteq Users /\ a.gid \subseteq Users
  BY RequestAssumption
<1>5. \A h : Good(h) => Sound(h) /\ FieldsTyped(h) /\ h.inodes \in [DOMAIN h.inodes -> Inode]
  BY DEF Good, Sound, FieldsTyped
<1>6. Fine(k)
  BY <1>5, WorksRefl, RelabelsRefl DEF SameExcept, FieldsTyped
<1>7. Fine(h1)
  <2>1. \/ r1 = Done(k) \/ r1 = Fail(Done(k).graph)
        \/ a.mode # {} /\ attr_ok(k, i) /\ h1 = chmod(k, i, The(a.mode, 0))
    BY DEF Then, Done
  <2>2. ASSUME a.mode # {}, attr_ok(k, i), h1 = chmod(k, i, The(a.mode, 0))
        PROVE  Fine(h1)
    <3>1. i \in DOMAIN k.inodes /\ The(a.mode, 0) \in Modes
      BY <1>3, <1>4, <2>2 DEF attr_ok
    <3>2. Works(k, h1)
      BY <2>2, <3>1, ContentsWork
    <3>3. Relabels(k, h1)
      BY <1>5, <2>2, <3>1, AttributesRelabel
    <3> QED BY <3>2, <3>3
  <2> QED BY <1>2, <1>6, <2>1, <2>2
<1>8. Fine(h2)
  <2>1. \/ r2 = r1 \/ r2 = Fail(h1)
        \/ a.uid \cup a.gid # {} /\ attr_ok(h1, i) /\ h2 = own
    BY DEF Then, Done
  <2>2. ASSUME attr_ok(h1, i), h2 = own
        PROVE  Fine(h2)
    <3>1. Good(h1)
      BY <1>7 DEF Works
    <3>2. i \in DOMAIN h1.inodes /\ h1.inodes[i] \in Inode
      BY <1>5, <2>2, <3>1 DEF attr_ok
    <3>3. /\ The(a.uid, h1.inodes[i].uid) \in Users
          /\ The(a.gid, h1.inodes[i].gid) \in Users
      BY <1>4, <3>2 DEF The, Inode
    <3> HIDE DEF h1
    <3>4. Works(h1, h2)
      BY <2>2, <3>1, <3>3, ContentsWork
    <3>5. Relabels(h1, h2)
      BY <1>5, <2>2, <3>1, <3>2, AttributesRelabel
    <3>6. Works(k, h2) /\ Good(h2)
      BY <1>7, <3>4, WorksTrans DEF Works
    <3>7. Relabels(k, h2)
      BY <1>5, <1>7, <3>1, <3>5, <3>6, RelabelsTrans
    <3> QED BY <3>6, <3>7
  <2> QED BY <1>2, <1>7, <2>1, <2>2
<1>9. Works(k, r3.graph)
      /\ (~(r3.ok = TRUE /\ i \in DOMAIN k.inodes) => Relabels(k, r3.graph))
  <2>1. \/ r3 = r2 \/ r3 = Fail(h2)
        \/ /\ a.size # {} /\ regular_ok(h2, i) /\ r3.ok = TRUE
           /\ r3.graph = truncate(h2, i, The(a.size, 0))
    BY DEF Then, Done
  <2>2. ASSUME a.size # {}, regular_ok(h2, i), r3.ok = TRUE,
               r3.graph = truncate(h2, i, The(a.size, 0))
        PROVE  Works(k, r3.graph) /\ r3.ok = TRUE /\ i \in DOMAIN k.inodes
    <3>1. The(a.size, 0) \in Nat
      BY <1>3, <1>4, <2>2
    <3>2. i \in DOMAIN k.inodes
      BY <1>8, <2>2 DEF regular_ok, Relabels
    <3>3. Good(h2)
      BY <1>8 DEF Works
    <3> HIDE DEF h2
    <3>4. Works(h2, r3.graph)
      BY <2>2, <3>1, <3>3, ContentsWork
    <3>5. Works(k, r3.graph)
      BY <1>8, <3>4, WorksTrans
    <3> QED BY <2>2, <3>2, <3>5
  <2> QED BY <1>2, <1>8, <2>1, <2>2
<1>10. r.graph = r3.graph /\ r.ok = (r3.ok /\ i \in DOMAIN k.inodes)
  <2>1. \A h : Done(h) \in [ok : BOOLEAN, graph : {h}] /\ Fail(h) \in [ok : BOOLEAN, graph : {h}]
    BY DEF Done, Fail
  <2>2. ASSUME NEW s, NEW given, NEW ok, NEW h, \E x : s \in [ok : BOOLEAN, graph : {x}]
        PROVE  \E x : Then(s, given, ok, h) \in [ok : BOOLEAN, graph : {x}]
    BY <2>1, <2>2 DEF Then
  <2>3. \E x : r1 \in [ok : BOOLEAN, graph : {x}]
    BY <2>1, <2>2
  <2>4. \E x : r2 \in [ok : BOOLEAN, graph : {x}]
    BY <2>2, <2>3
  <2>5. \E x : r3 \in [ok : BOOLEAN, graph : {x}]
    BY <2>2, <2>4
  <2> HIDE DEF r3
  <2> QED BY <1>1, <2>5
<1> QED BY <1>9, <1>10

\* What a callback that user u asked for has done when it returns.
Served(u) ==
  /\ phase = "up" /\ phase' = "up" /\ last'.uid = u
  /\ Works(ctx_from_req(u), g')
  /\ last'.res = "error" => Relabels(ctx_from_req(u), g')
  /\ history' = history \o Recorded(g')
  /\ UNCHANGED <<persisting, mounts, ghosts>>

LEMMA ReplyServes ==
  ASSUME NEW u, NEW res \in {"ok", "error"}, NEW h, Reply(u, res, h),
         Works(ctx_from_req(u), h), res = "error" => Relabels(ctx_from_req(u), h)
  PROVE  Served(u)
BY DEF Reply, Served

LEMMA AnswerServes ==
  ASSUME Good(g), NEW u, NEW ok, NEW h, Answer(u, ok, h),
         ok /\ Within(h) => Works(ctx_from_req(u), h)
  PROVE  Served(u)
<1> DEFINE k == ctx_from_req(u)
<1>1. Good(k)
  BY ContextIs
<1>2. Works(k, k) /\ Relabels(k, k)
  BY <1>1, WorksRefl, RelabelsRefl DEF Good, Sound, SameExcept, FieldsTyped
<1>3. Reply(u, "ok", h) => Within(h)
  BY DEF Reply
<1>4. CASE ok
  BY <1>3, <1>4, ReplyServes DEF Answer
<1>5. CASE ~ok
  BY <1>2, <1>5, ReplyServes DEF Answer
<1> QED BY <1>4, <1>5

LEMMA AnswerEntryServes ==
  ASSUME Good(g), NEW u, NEW ok, NEW h, NEW i, AnswerEntry(u, ok, h, i),
         ok /\ Within(h) => Works(ctx_from_req(u), h) /\ i \in DOMAIN h.inodes
  PROVE  Served(u)
<1>1. Reply(u, "panic", h) => Within(h)
  BY DEF Reply
<1>2. Answer(u, ok, h)
  BY <1>1 DEF AnswerEntry
<1> QED BY <1>2, AnswerServes

LEMMA ResultServes ==
  ASSUME NEW u, NEW r, AnswerResult(u, r),
         Within(r.graph) => /\ Works(ctx_from_req(u), r.graph)
                            /\ ~r.ok => Relabels(ctx_from_req(u), r.graph)
  PROVE  Served(u)
<1>1. Within(r.graph)
  BY DEF AnswerResult, Reply
<1>2. CASE r.ok
  BY <1>1, <1>2, ReplyServes DEF AnswerResult
<1>3. CASE ~r.ok
  BY <1>1, <1>3, ReplyServes DEF AnswerResult
<1> QED BY <1>2, <1>3

LEMMA DirOfInode ==
  ASSUME Good(g), NEW u, NEW k, k = ctx_from_req(u), NEW p, NEW d,
         d = dir_for_inode(g, p), d # None
  PROVE  d \in DOMAIN k.dirs /\ d \in Nat
<1>1. d \in DOMAIN g.dirs
  BY SoundGraph DEF Good, DirsPaired, dir_for_inode
<1>2. k.dirs = g.dirs /\ IdsIssued(g)
  BY ContextIs, SoundGraph DEF Good
<1> QED BY <1>1, <1>2 DEF IdsIssued

LEMMA MakersServe ==
  ASSUME MountsHaveRoom, Good(g), OnMkdir \/ OnCreate \/ OnSymlink
  PROVE  \E u \in Users : Served(u)
<1>1. ASSUME NEW u \in Users, NEW p, NEW n \in Names, NEW m \in Modes, NEW k, k = ctx_from_req(u),
             NEW d, d = dir_for_inode(g, p), NEW h,
             \/ h = create_file(k, d, n, m, u) \/ h = mkdir(k, d, n, m, u)
             \/ \E t \in Targets : h = symlink(k, d, n, t, u),
             d # None /\ new_entry_ok(k, d, n), Within(h)
      PROVE  Works(k, h) /\ g.next_inode \in DOMAIN h.inodes
  <2>1. Good(k) /\ Sound(k) /\ FieldsTyped(k) /\ k.next_inode = g.next_inode
    BY <1>1, ContextIs DEF Good, Sound
  <2>2. d \in DOMAIN k.dirs /\ d \in Nat /\ n \in AllNames
    BY <1>1, DirOfInode DEF AllNames
  <2>3. Issues(k, h)
    BY <1>1, <2>1, <2>2, CreateFileIssues, MkdirIssues, SymlinkIssues
  <2>4. Roomy(h)
    BY <1>1, <2>3, RoomWithin
  <2> QED BY <1>1, <2>1, <2>2, <2>4, MakersWork
<1>2. CASE OnMkdir
  <2>1. PICK p \in InodeIds, n \in Names, m \in Modes, u \in Users :
          AnswerEntry(u, dir_for_inode(g, p) # None
                         /\ new_entry_ok(ctx_from_req(u), dir_for_inode(g, p), n),
                      mkdir(ctx_from_req(u), dir_for_inode(g, p), n, m, u), g.next_inode)
    BY <1>2 DEF OnMkdir
  <2> DEFINE k == ctx_from_req(u)
             d == dir_for_inode(g, p)
             h == mkdir(k, d, n, m, u)
  <2>2. d # None /\ new_entry_ok(k, d, n) /\ Within(h)
        => Works(k, h) /\ g.next_inode \in DOMAIN h.inodes
    BY <1>1
  <2>3. AnswerEntry(u, d # None /\ new_entry_ok(k, d, n), h, g.next_inode)
    BY <2>1
  <2> HIDE DEF h, d
  <2> QED BY <2>2, <2>3, AnswerEntryServes
<1>3. CASE OnCreate
  <2>1. PICK p \in InodeIds, n \in Names, m \in Modes, u \in Users :
          AnswerEntry(u, dir_for_inode(g, p) # None
                         /\ new_entry_ok(ctx_from_req(u), dir_for_inode(g, p), n),
                      create_file(ctx_from_req(u), dir_for_inode(g, p), n, m, u),
                      g.next_inode)
    BY <1>3 DEF OnCreate
  <2> DEFINE k == ctx_from_req(u)
             d == dir_for_inode(g, p)
             h == create_file(k, d, n, m, u)
  <2>2. d # None /\ new_entry_ok(k, d, n) /\ Within(h)
        => Works(k, h) /\ g.next_inode \in DOMAIN h.inodes
    BY <1>1
  <2>3. AnswerEntry(u, d # None /\ new_entry_ok(k, d, n), h, g.next_inode)
    BY <2>1
  <2> HIDE DEF h, d
  <2> QED BY <2>2, <2>3, AnswerEntryServes
<1>4. CASE OnSymlink
  <2>1. PICK p \in InodeIds, n \in Names, t \in Targets, u \in Users :
          AnswerEntry(u, dir_for_inode(g, p) # None
                         /\ new_entry_ok(ctx_from_req(u), dir_for_inode(g, p), n),
                      symlink(ctx_from_req(u), dir_for_inode(g, p), n, t, u),
                      g.next_inode)
    BY <1>4 DEF OnSymlink
  <2>2. Modes # {}
    BY SoundGraph DEF Good, FieldsTyped, Inode, DirsPaired, IsDirInode
  <2> PICK m \in Modes : TRUE
    BY <2>2
  <2> DEFINE k == ctx_from_req(u)
             d == dir_for_inode(g, p)
             h == symlink(k, d, n, t, u)
  <2>3. d # None /\ new_entry_ok(k, d, n) /\ Within(h)
        => Works(k, h) /\ g.next_inode \in DOMAIN h.inodes
    BY <1>1
  <2>4. AnswerEntry(u, d # None /\ new_entry_ok(k, d, n), h, g.next_inode)
    BY <2>1
  <2> HIDE DEF h, d
  <2> QED BY <2>3, <2>4, AnswerEntryServes
<1> QED BY <1>2, <1>3, <1>4

LEMMA LinksServe ==
  ASSUME MountsHaveRoom, Good(g), OnLink \/ OnRmdir \/ OnUnlink
  PROVE  \E u \in Users : Served(u)
<1>1. \A u : Good(ctx_from_req(u)) /\ FieldsTyped(ctx_from_req(u)) /\ Sound(ctx_from_req(u))
  BY ContextIs DEF Good, Sound
<1>2. CASE OnLink
  <2>1. PICK i \in InodeIds, p \in InodeIds, n \in Names, u \in Users :
          AnswerEntry(u, dir_for_inode(g, p) # None
                         /\ link_ok(ctx_from_req(u), dir_for_inode(g, p), n, i),
                      link(ctx_from_req(u), dir_for_inode(g, p), n, i), i)
    BY <1>2 DEF OnLink
  <2> DEFINE k == ctx_from_req(u)
             d == dir_for_inode(g, p)
             h == link(k, d, n, i)
  <2>2. ASSUME d # None, link_ok(k, d, n, i), Within(h)
        PROVE  Works(k, h) /\ i \in DOMAIN h.inodes
    <3>1. d \in DOMAIN k.dirs /\ d \in Nat /\ n \in AllNames /\ i \in Nat
      BY <2>2, DirOfInode DEF AllNames, InodeIds
    <3>2. Issues(k, h) /\ Roomy(h)
      BY <1>1, <2>2, <3>1, LinkIssues, RoomWithin
    <3> HIDE DEF k, d
    <3>3. Works(k, h)
      BY <1>1, <2>2, <3>1, <3>2, MoversWork DEF k
    <3>4. IsGraph(k) /\ k.next_edge \in Nat /\ i \in DOMAIN k.inodes
      BY <1>1, <2>2 DEF FieldsTyped, Ids, link_ok, k
    <3>5. k.next_edge < EDGE_CAPACITY
      <4>1. h.next_edge = k.next_edge + 1
        BY <3>4, LinkTakes
      <4> QED BY <3>2, <3>4, <4>1, CapacityAssumption DEF Roomy
    <3>6. Adds(k, h, d, n, i)
      BY <1>1, <2>2, <3>1, <3>5, LinkSound DEF k
    <3> QED BY <3>3, <3>6 DEF Adds
  <2> QED BY <2>1, <2>2, AnswerEntryServes
<1>3. CASE OnRmdir
  <2>1. PICK p \in InodeIds, n \in Names, u \in Users :
          Answer(u, dir_for_inode(g, p) # None
                    /\ rmdir_ok(ctx_from_req(u), dir_for_inode(g, p), n),
                 rmdir(ctx_from_req(u), dir_for_inode(g, p), n))
    BY <1>3 DEF OnRmdir
  <2> QED BY <1>1, <2>1, AnswerServes, MoversWork
<1>4. CASE OnUnlink
  <2>1. PICK p \in InodeIds, n \in Names, u \in Users :
          Answer(u, dir_for_inode(g, p) # None
                    /\ unlink_ok(ctx_from_req(u), dir_for_inode(g, p), n),
                 unlink(ctx_from_req(u), dir_for_inode(g, p), n))
    BY <1>4 DEF OnUnlink
  <2> QED BY <1>1, <2>1, AnswerServes, MoversWork
<1> QED BY <1>2, <1>3, <1>4

LEMMA RenameServes ==
  ASSUME MountsHaveRoom, Good(g), OnRename
  PROVE  \E u \in Users : Served(u)
<1>1. PICK p \in InodeIds, q \in InodeIds, src \in Names, dst \in Names, u \in Users :
        \E sd \in {dir_for_inode(g, p)}, dd \in {dir_for_inode(g, q)},
           k \in {ctx_from_req(u)} :
          IF None \in {sd, dd} THEN AnswerResult(u, Fail(k))
          ELSE \E r \in {rename(k, sd, src, dd, dst)} : AnswerResult(u, r)
  BY DEF OnRename
<1>2. PICK sd, dd, k :
        /\ sd = dir_for_inode(g, p) /\ dd = dir_for_inode(g, q) /\ k = ctx_from_req(u)
        /\ IF None \in {sd, dd} THEN AnswerResult(u, Fail(k))
           ELSE AnswerResult(u, rename(k, sd, src, dd, dst))
  BY <1>1
<1>3. Good(k) /\ Sound(k) /\ FieldsTyped(k) /\ IdsIssued(k)
  BY <1>2, ContextIs DEF Good, Sound
<1>4. Works(k, k) /\ Relabels(k, k)
  BY <1>3, WorksRefl, RelabelsRefl DEF SameExcept, FieldsTyped
<1>5. CASE None \in {sd, dd}
  <2>1. Fail(k).graph = k
    BY DEF Fail
  <2> QED BY <1>2, <1>4, <1>5, <2>1, ResultServes
<1>6. CASE None \notin {sd, dd}
  <2> DEFINE r == rename(k, sd, src, dd, dst)
  <2>1. /\ sd \in DOMAIN k.dirs /\ dd \in DOMAIN k.dirs /\ dd \in Nat
        /\ src \in AllNames /\ dst \in AllNames
    BY <1>2, <1>6, DirOfInode DEF AllNames
  <2>2. Issues(k, r.graph)
    BY <1>3, <2>1, RenameIssues
  <2>3. ~r.ok => r.graph = k
    BY <1>3, <2>1, RenameSound
  <2>5. Within(r.graph) => Works(k, r.graph)
    BY <1>3, <2>1, <2>2, RoomWithin, RenameWorks
  <2>6. AnswerResult(u, r)
    BY <1>2, <1>6
  <2> HIDE DEF r
  <2> QED BY <1>2, <1>4, <2>3, <2>5, <2>6, ResultServes
<1> QED BY <1>5, <1>6

LEMMA ContentsServe ==
  ASSUME Good(g), OnWrite \/ OnSetxattr \/ OnRemovexattr
  PROVE  \E u \in Users : Served(u)
<1>1. \A u : Good(ctx_from_req(u))
  BY ContextIs
<1>2. InodeIds \subseteq Nat
  BY DEF InodeIds
<1>3. ASSUME NEW u, NEW ok, NEW h, NEW i \in InodeIds, Answer(u, ok, h),
             \/ \E w \in Writes : h = write_data(ctx_from_req(u), i, w[1], w[2])
             \/ \E key, v : h = setxattr(ctx_from_req(u), i, key, v)
             \/ \E key : h = removexattr(ctx_from_req(u), i, key)
      PROVE  Served(u)
  <2>1. Works(ctx_from_req(u), h)
    BY <1>1, <1>2, <1>3, ContentsWork
  <2> QED BY <1>3, <2>1, AnswerServes
<1>4. CASE OnWrite
  BY <1>3, <1>4 DEF OnWrite
<1>5. CASE OnSetxattr
  BY <1>3, <1>5 DEF OnSetxattr
<1>6. CASE OnRemovexattr
  BY <1>3, <1>6 DEF OnRemovexattr
<1> QED BY <1>4, <1>5, <1>6

LEMMA SetattrServes ==
  ASSUME Good(g), OnSetattr
  PROVE  \E u \in Users : Served(u)
<1>1. PICK i \in InodeIds, a \in SetattrRequests, u \in Users :
        AnswerResult(u, setattr(ctx_from_req(u), i, a))
  BY DEF OnSetattr
<1>2. Good(ctx_from_req(u)) /\ i \in Nat
  BY ContextIs DEF InodeIds
<1> DEFINE r == setattr(ctx_from_req(u), i, a)
<1>3. Works(ctx_from_req(u), r.graph) /\ (r.ok # TRUE => Relabels(ctx_from_req(u), r.graph))
  BY <1>2, SetattrWorks
<1>4. AnswerResult(u, r)
  BY <1>1
<1> HIDE DEF r
<1>5. ~r.ok => r.ok # TRUE
  OBVIOUS
<1> QED BY <1>3, <1>4, <1>5, ResultServes

\* Every callback, run in the context of the user that asked for it, keeps the
\* graph sound and its log true, and does not panic.
LEMMA CallbackServes ==
  ASSUME MountsHaveRoom, Good(g), Callback
  PROVE  \E u \in Users : Served(u)
BY MakersServe, LinksServe, RenameServes, ContentsServe, SetattrServes DEF Callback

-----------------------------------------------------------------------------
(***************************************************************************)
(* What is saved, and what a mount makes of it.                            *)
(***************************************************************************)
LEMMA NewGraphIsGood ==
  /\ Good(NewGraph)
  /\ NewGraph.prov_log = NoLog /\ IsGraph(NewGraph) /\ DOMAIN NewGraph.inodes = {1}
<1> DEFINE k == NewGraph
<1>1. FieldsTyped(k) /\ IdsIssued(k)
  BY RootTyped DEF NewGraph
<1>2. Indexed(k) /\ Tree(k) /\ k.next_dir = k.next_inode
  BY RootIsWellFormed DEF NewGraph
<1>3. Sound(k) /\ k.next_dir <= k.next_inode
  BY <1>1, <1>2, WellFormedIs DEF Sound, FieldsTyped, Ids
<1>4. k.prov_log = NoLog /\ DOMAIN k.inodes = {1}
  BY DEF NewGraph, new_graph, RootInode
<1>5. <<>> \in Seq({})
  OBVIOUS
<1>6. LogTyped(k)
  BY <1>4, <1>5 DEF LogTyped, NoLog
<1> QED BY <1>1, <1>3, <1>4, <1>6 DEF Good, FieldsTyped

LEMMA LookupIsScan ==
  ASSUME NEW k, Sound(k), NEW d, NEW n
  PROVE  lookup_name(k, d, n) = scan_name(k, d, n)
<1> DEFINE hits == {e \in entries(k, d) : k.edges[e].name = n}
<1>1. NamesExact(k) /\ ListingsExact(k) /\ FieldsTyped(k) /\ IdsIssued(k)
  BY SoundGraph
<1>2. entries(k, d) = {e \in ContainsEdges(k) : k.edges[e].src = d}
  BY <1>1, EntriesAre
<1>3. hits = IF <<d, n>> \in DOMAIN k.dir_name_idx
             THEN {k.dir_name_idx[<<d, n>>]} ELSE {}
  BY <1>1, <1>2 DEF NamesExact
<1>4. CASE <<d, n>> \in DOMAIN k.dir_name_idx
  <2>1. k.dir_name_idx[<<d, n>>] \in Nat
    BY <1>1, <1>4 DEF NamesExact, ContainsEdges, IdsIssued
  <2>2. First(hits) = k.dir_name_idx[<<d, n>>] /\ hits # {}
    BY <1>3, <1>4, <2>1 DEF First
  <2> QED BY <1>4, <2>2 DEF lookup_name, scan_name
<1>5. CASE <<d, n>> \notin DOMAIN k.dir_name_idx
  BY <1>3, <1>5 DEF lookup_name, scan_name
<1> QED BY <1>4, <1>5

\* An index rebuilt from the listings is the one that was not saved.
LEMMA RebuiltNames ==
  ASSUME NEW m, Sound(m), NEW s, IsGraph(s),
         s.edges = m.edges, s.dir_contains = m.dir_contains,
         NEW h, h = rebuild_dir_name_idx(s)
  PROVE  /\ SameExcept(s, h, {"dir_name_idx"})
         /\ DOMAIN h.dir_name_idx = DOMAIN m.dir_name_idx
         /\ \A q \in DOMAIN m.dir_name_idx : h.dir_name_idx[q] = m.dir_name_idx[q]
<1> DEFINE keys == UNION {{<<d, s.edges[e].name>> : e \in entries(s, d)} :
                            d \in DOMAIN s.dir_contains}
           named(q) == {e \in entries(s, q[1]) : s.edges[e].name = q[2]}
           idx == [q \in keys |-> CHOOSE e \in named(q) : \A f \in named(q) : f <= e]
<1>1. h = [s EXCEPT !.dir_name_idx = idx]
  BY DEF rebuild_dir_name_idx
<1>2. NamesExact(m) /\ ListingsExact(m) /\ FieldsTyped(m) /\ IdsIssued(m)
  BY SoundGraph
<1>3. \A d : entries(s, d) = {e \in ContainsEdges(m) : m.edges[e].src = d}
  <2>1. \A d : entries(s, d) = entries(m, d)
    BY DEF entries, ContainsEdges
  <2> QED BY <1>2, <2>1, EntriesAre
<1>4. keys = DOMAIN m.dir_name_idx
  <2>1. ASSUME NEW q \in keys
        PROVE  q \in DOMAIN m.dir_name_idx
    <3>1. PICK d, e : e \in entries(s, d) /\ q = <<d, s.edges[e].name>>
      OBVIOUS
    <3>2. e \in ContainsEdges(m) /\ m.edges[e].src = d /\ s.edges[e].name = m.edges[e].name
      BY <1>3, <3>1
    <3> QED BY <1>2, <3>1, <3>2 DEF NamesExact
  <2>2. ASSUME NEW q \in DOMAIN m.dir_name_idx
        PROVE  q \in keys
    <3> DEFINE e == m.dir_name_idx[q]
               d == m.edges[e].src
    <3>1. e \in ContainsEdges(m) /\ q = <<d, m.edges[e].name>>
      BY <1>2 DEF NamesExact
    <3>2. e \in entries(s, d)
      BY <1>3, <3>1
    <3>3. d \in DOMAIN s.dir_contains
      BY <3>2 DEF entries, SetAt
    <3> QED BY <3>1, <3>2, <3>3
  <2> QED BY <2>1, <2>2
<1>5. ASSUME NEW q \in DOMAIN m.dir_name_idx
      PROVE  idx[q] = m.dir_name_idx[q]
  <2>1. m.dir_name_idx[q] \in ContainsEdges(m) /\ m.dir_name_idx[q] \in Nat
    BY <1>2 DEF NamesExact, ContainsEdges, IdsIssued
  <2>2. q = <<m.edges[m.dir_name_idx[q]].src, m.edges[m.dir_name_idx[q]].name>>
    BY <1>2 DEF NamesExact
  <2>3. \A e \in ContainsEdges(m) :
          m.edges[e].src = q[1] /\ m.edges[e].name = q[2] => e = m.dir_name_idx[q]
    BY <1>2, <2>2 DEF NamesExact
  <2>4. named(q) = {m.dir_name_idx[q]}
    BY <1>3, <2>1, <2>2, <2>3
  <2> HIDE DEF named, keys
  <2>5. (CHOOSE e \in named(q) : \A f \in named(q) : f <= e) = m.dir_name_idx[q]
    BY <2>1, <2>4
  <2> QED BY <1>4, <2>5
<1>6. DOMAIN idx = keys
  OBVIOUS
<1> HIDE DEF idx, keys
<1>7. SameExcept(s, h, {"dir_name_idx"}) /\ h.dir_name_idx = idx
  BY <1>1 DEF SameExcept, IsGraph, GraphFields
<1> QED BY <1>4, <1>5, <1>6, <1>7

LEMMA SavedIs ==
  ASSUME NEW m, Good(m)
  PROVE  /\ SameExcept(m, Saved(m), {"dir_name_idx", "prov_log", "cap_ctx"})
         /\ Saved(m).prov_log = NoLog
         /\ Saved(m).inodes = m.inodes /\ Saved(m).next_inode = m.next_inode
<1>1. IsGraph(m)
  BY DEF Good, Sound, FieldsTyped
<1>2. /\ SameExcept(m, Saved(m), {"dir_name_idx", "prov_log", "cap_ctx"})
      /\ Saved(m).prov_log = NoLog
  BY <1>1 DEF Saved, SameExcept, IsGraph, GraphFields
<1> QED BY <1>2 DEF SameExcept, GraphFields

\* A graph with an empty log, whatever the log of the graph it was made from.
Fresh(m, b, h) ==
  /\ Good(h) /\ h.inodes = m.inodes /\ h.next_inode = m.next_inode
  /\ h.prov_log = [on |-> b, entries |-> <<>>]

SkippedFields == {"dir_name_idx", "prov_log", "cap_ctx"}

IsSwitch(b) == b \in BOOLEAN

LEMMA LogStarts ==
  ASSUME NEW m, Good(m), NEW h, SameExcept(m, h, SkippedFields),
         DOMAIN h.dir_name_idx = DOMAIN m.dir_name_idx,
         \A q \in DOMAIN m.dir_name_idx : h.dir_name_idx[q] = m.dir_name_idx[q],
         NEW b, IsSwitch(b), h.prov_log = [on |-> b, entries |-> <<>>]
  PROVE  Fresh(m, b, h)
<1>1. /\ h.inodes = m.inodes /\ h.next_inode = m.next_inode /\ h.next_dir = m.next_dir
      /\ h.dirs = m.dirs /\ h.dir_for_inode_idx = m.dir_for_inode_idx
      /\ h.dir_contains = m.dir_contains /\ h.edges = m.edges
      /\ h.inode_incoming_contains = m.inode_incoming_contains
  BY DEF SameExcept, GraphFields, SkippedFields
<1>2. SameTree(m, h)
  BY <1>1 DEF SameTree, ContainsEdges
<1>3. SameExcept(m, h, Untyped)
  BY DEF SameExcept, Untyped, SkippedFields
<1>4. Sound(h)
  BY <1>2, <1>3, UntypedKeeps, IssuesNothing, SameTreeSound DEF Good, Sound
<1>5. LogTyped(h)
  <2>1. h.prov_log \in [on : BOOLEAN, entries : Seq({})]
    BY DEF IsSwitch
  <2> QED BY <2>1 DEF LogTyped
<1>6. Good(h)
  BY <1>1, <1>4, <1>5 DEF Good
<1> QED BY <1>1, <1>6 DEF Fresh

\* Switching the log of a graph on or off.
Switched(k, b) == [k EXCEPT !.prov_log.on = b]

LEMMA SwitchedIs ==
  ASSUME NEW k, IsGraph(k), k.prov_log = NoLog, NEW b
  PROVE  /\ SameExcept(k, Switched(k, b), {"prov_log"})
         /\ Switched(k, b).dir_name_idx = k.dir_name_idx
         /\ Switched(k, b).prov_log = [on |-> b, entries |-> <<>>]
<1> DEFINE h == [k EXCEPT !.prov_log.on = b]
<1>1. SameExcept(k, h, {"prov_log"}) /\ h.prov_log = [k.prov_log EXCEPT !.on = b]
  BY DEF SameExcept, IsGraph, GraphFields
<1>2. h.dir_name_idx = k.dir_name_idx
  BY <1>1 DEF SameExcept, GraphFields
<1>3. h.prov_log = [on |-> b, entries |-> <<>>]
  BY <1>1 DEF NoLog
<1> QED BY <1>1, <1>2, <1>3 DEF Switched

LEMMA MountedIsFresh ==
  ASSUME NEW m, Good(m), NEW b, IsSwitch(b), NEW h,
         h = [load(Saved(m)) EXCEPT !.prov_log.on = b]
  PROVE  Fresh(m, b, h)
<1> DEFINE s == Saved(m)
           k == load(s)
<1>1. /\ SameExcept(m, s, SkippedFields) /\ s.prov_log = NoLog
      /\ IsGraph(s) /\ s.edges = m.edges /\ s.dir_contains = m.dir_contains
  BY SavedIs DEF SameExcept, GraphFields, SkippedFields
<1>2. k = rebuild_dir_name_idx(s)
  BY DEF load
<1>3. h = Switched(k, b)
  BY DEF Switched
<1> HIDE DEF s, k
<1>4. /\ SameExcept(s, k, {"dir_name_idx"})
      /\ DOMAIN k.dir_name_idx = DOMAIN m.dir_name_idx
      /\ \A q \in DOMAIN m.dir_name_idx : k.dir_name_idx[q] = m.dir_name_idx[q]
  BY <1>1, <1>2, RebuiltNames DEF Good
<1>5. SameExcept(m, k, SkippedFields) /\ IsGraph(k) /\ k.prov_log = NoLog
  BY <1>1, <1>4 DEF SameExcept, GraphFields, SkippedFields
<1>6. /\ SameExcept(k, h, {"prov_log"}) /\ h.dir_name_idx = k.dir_name_idx
      /\ h.prov_log = [on |-> b, entries |-> <<>>]
  <2>1. /\ SameExcept(k, Switched(k, b), {"prov_log"})
        /\ Switched(k, b).dir_name_idx = k.dir_name_idx
        /\ Switched(k, b).prov_log = [on |-> b, entries |-> <<>>]
    BY <1>5, SwitchedIs
  <2> QED BY <2>1, <1>3
<1>7. SameExcept(m, h, SkippedFields)
  BY <1>5, <1>6 DEF SameExcept, SkippedFields
<1> QED BY <1>4, <1>6, <1>7, LogStarts

LEMMA NewIsFresh ==
  ASSUME NEW b, IsSwitch(b), NEW h, h = [NewGraph EXCEPT !.prov_log.on = b]
  PROVE  Fresh(NewGraph, b, h)
<1> DEFINE m == NewGraph
<1>1. Good(m) /\ m.prov_log = NoLog /\ IsGraph(m)
  BY NewGraphIsGood
<1>2. h = Switched(m, b)
  BY DEF Switched
<1> HIDE DEF m
<1>3. /\ SameExcept(m, h, {"prov_log"}) /\ h.dir_name_idx = m.dir_name_idx
      /\ h.prov_log = [on |-> b, entries |-> <<>>]
  <2>1. /\ SameExcept(m, Switched(m, b), {"prov_log"})
        /\ Switched(m, b).dir_name_idx = m.dir_name_idx
        /\ Switched(m, b).prov_log = [on |-> b, entries |-> <<>>]
    BY <1>1, SwitchedIs
  <2> QED BY <2>1, <1>2
<1>4. SameExcept(m, h, SkippedFields)
  BY <1>3 DEF SameExcept, SkippedFields
<1>5. Fresh(m, b, h)
  BY <1>1, <1>3, <1>4, LogStarts
<1> QED BY <1>5 DEF m

LEMMA DrainedIsFresh ==
  ASSUME NEW k, Good(k), NEW h, h = [k EXCEPT !.prov_log.entries = <<>>]
  PROVE  IsSwitch(k.prov_log.on) /\ Fresh(k, k.prov_log.on, h)
<1>1. IsGraph(k) /\ IsSwitch(k.prov_log.on)
  BY DEF Good, Sound, FieldsTyped, LogTyped, IsSwitch
<1>2. h.prov_log = [k.prov_log EXCEPT !.entries = <<>>] /\ SameExcept(k, h, {"prov_log"})
  BY <1>1 DEF SameExcept, IsGraph, GraphFields
<1>3. h.prov_log = [on |-> k.prov_log.on, entries |-> <<>>]
  <2>1. PICK T : k.prov_log \in [on : BOOLEAN, entries : Seq(T)]
    BY DEF Good, LogTyped
  <2> QED BY <1>2, <2>1
<1>4. SameExcept(k, h, SkippedFields) /\ h.dir_name_idx = k.dir_name_idx
  BY <1>2 DEF SameExcept, SkippedFields, GraphFields
<1> QED BY <1>1, <1>3, <1>4, LogStarts

-----------------------------------------------------------------------------
(***************************************************************************)
(* The inductive invariant.                                                *)
(***************************************************************************)
LEMMA FitsSameObjects ==
  ASSUME NEW k, Good(k), NEW h, Good(h), h.inodes = k.inodes,
         h.next_inode = k.next_inode, NEW T, NEW s \in Seq(T), Fits(s, k)
  PROVE  Fits(s, h)
<1> DEFINE a == WithLog(k, s)
           b == WithLog(h, s)
<1>1. /\ a.prov_log = [on |-> TRUE, entries |-> s] /\ a.inodes = k.inodes
      /\ b.prov_log = [on |-> TRUE, entries |-> s] /\ b.inodes = h.inodes
  BY WithLogIs
<1>2. LogFits(a, k.next_inode)
  BY DEF Fits
<1> HIDE DEF a, b
<1>3. Quiet(a, b)
  BY <1>1 DEF Quiet, SameNode, SameCounts
<1>4. LogFits(b, k.next_inode)
  BY <1>2, <1>3, QuietFits
<1> QED BY <1>4 DEF Fits, b

LEMMA FitsReplays ==
  ASSUME NEW k, Good(k), NEW T, NEW s \in Seq(T), Fits(s, k)
  PROVE  Replays(s, k)
<1> DEFINE a == WithLog(k, s)
<1>1. /\ a.prov_log = [on |-> TRUE, entries |-> s] /\ a.inodes = k.inodes
      /\ a.next_inode = k.next_inode /\ LogTyped(a)
  BY WithLogIs
<1>2. LogFits(a, k.next_inode)
  BY DEF Fits
<1> HIDE DEF a
<1>3. Replays(s, a)
  <2>1. a.prov_log.on /\ a.prov_log.entries = s
    BY <1>1
  <2> QED BY <1>1, <1>2, <2>1, FitsReplay
<1> QED BY <1>1, <1>3 DEF Replays

LEMMA FitsNew == Fits(<<>>, NewGraph)
<1> DEFINE k == NewGraph
           a == WithLog(k, <<>>)
<1>1. Good(k) /\ DOMAIN k.inodes = {1}
  BY NewGraphIsGood
<1>2. <<>> \in Seq({})
  OBVIOUS
<1> HIDE DEF k
<1>3. a.prov_log = [on |-> TRUE, entries |-> <<>>] /\ DOMAIN a.inodes = {1}
  BY <1>1, <1>2, WithLogIs
<1>4. \A ops, i : Logged(<<>>, ops, i) = 0
  BY FS_EmptySet DEF Logged
<1> HIDE DEF a
<1>5. LogFits(a, k.next_inode)
  BY <1>3, <1>4 DEF LogFits, CountsFit
<1> QED BY <1>5 DEF Fits, a, k

\* Nothing has gone wrong so far, and there is a sidecar to drain the log to.
Clean == Sidecar /\ Logging /\ faults = {}

\* The save of this fsync or unmount has been tried.
Persisted == phase \in {"draining", "writing"}

Phases == {"up", "saving", "draining", "writing", "down"}

LogsTyped(T) ==
  /\ Log \in Seq(T) /\ pending \in Seq(T) /\ sidecar \in Seq(T)
  /\ history \in Seq(T) /\ disk_history \in Seq(T) /\ synced \in Seq(T)

GraphInv ==
  /\ phase \in Phases /\ Good(g) /\ \E T : LogsTyped(T)
  /\ phase # "down" => g.prov_log.on = Logging

HistoryInv ==
  /\ Prefix(synced, disk_history) /\ Prefix(disk_history, history)
  /\ Persisted /\ "save" \notin faults => disk_history = history

\* Between drain and the reply the log is empty, or there is no sidecar.
BufferInv ==
  /\ phase # "writing" => pending = <<>>
  /\ phase = "writing" => IF Sidecar THEN Log = <<>> ELSE pending = <<>>

\* Every entry on its way to the sidecar, or in it, was recorded, in order.
SidecarInv ==
  "save" \notin faults =>
    /\ Subsequence(sidecar, disk_history)
    /\ phase # "down" => Subsequence(sidecar \o pending \o Log, history)

AuditInv == Clean /\ phase # "down" => Fits(sidecar \o pending \o Log, g)

\* The graph m that a mount would load.  While the lines of a save are written
\* it is the graph in memory; otherwise the sidecar alone accounts for it.
Loads(m) ==
  /\ Good(m)
  /\ (disk = {} /\ m = NewGraph) \/ disk = {Saved(m)}
  /\ Clean => IF Persisted THEN m.inodes = g.inodes /\ m.next_inode = g.next_inode
              ELSE Fits(sidecar, m)

DaemonInv ==
  /\ GraphInv /\ HistoryInv /\ BufferInv /\ SidecarInv /\ AuditInv
  /\ \E m : Loads(m)

LEMMA EmptyLogs ==
  /\ <<>> \o <<>> = <<>> /\ \A T : <<>> \in Seq(T)
  /\ \A T : \A s \in Seq(T) : s \o <<>> = s /\ <<>> \o s = s
  /\ \A T : \A s, t \in Seq(T) : s \o t \in Seq(T)
  /\ \A T : \A s, t, r \in Seq(T) : (s \o t) \o r = s \o (t \o r)
<1>1. \A T : <<>> \in Seq(T)
  OBVIOUS
<1>2. \A T : \A s, t \in Seq(T) : s \o t \in Seq(T)
  OBVIOUS
<1>3. \A T : \A s \in Seq(T) : s \o <<>> = s /\ <<>> \o s = s
  OBVIOUS
<1>4. \A T : \A s, t, r \in Seq(T) : (s \o t) \o r = s \o (t \o r)
  OBVIOUS
<1> QED BY <1>1, <1>2, <1>3, <1>4

LEMMA InitDaemonInv == DaemonInit => DaemonInv
<1> SUFFICES ASSUME DaemonInit PROVE DaemonInv
  OBVIOUS
<1>1. Fresh(NewGraph, Logging, g)
  <2>1. g = [NewGraph EXCEPT !.prov_log.on = Logging]
    BY DEF DaemonInit, Init, NewGraph
  <2> QED BY <2>1, InputAssumption, NewIsFresh DEF IsSwitch
<1>2. /\ phase = "up" /\ pending = <<>> /\ disk = {} /\ sidecar = <<>>
      /\ history = <<>> /\ disk_history = <<>> /\ synced = <<>> /\ faults = {}
      /\ Log = <<>> /\ g.prov_log.on = Logging
  BY <1>1 DEF DaemonInit, Fresh, Log
<1>3. GraphInv
  BY <1>1, <1>2 DEF GraphInv, Phases, LogsTyped, Fresh
<1>4. HistoryInv
  BY <1>2 DEF HistoryInv, Persisted, Prefix
<1>5. SidecarInv
  <2>1. <<>> \in Seq({})
    OBVIOUS
  <2>2. Subsequence(<<>>, <<>>)
    BY <2>1, SubsequenceOfSelf
  <2> QED BY <1>2, <2>2, EmptyLogs DEF SidecarInv
<1>6. AuditInv
  <2>1. Fits(<<>>, g)
    BY <1>1, EmptyLogs, FitsNew, FitsSameObjects, NewGraphIsGood DEF Fresh
  <2> QED BY <1>2, <2>1, EmptyLogs DEF AuditInv
<1>7. Loads(NewGraph)
  BY <1>2, FitsNew, NewGraphIsGood DEF Loads, Persisted
<1> QED BY <1>2, <1>3, <1>4, <1>5, <1>6, <1>7 DEF DaemonInv, BufferInv

LEMMA ServedKeeps ==
  ASSUME DaemonInv, NEW u, Served(u)
  PROVE  DaemonInv'
<1> DEFINE k == ctx_from_req(u)
           R == Recorded(g')
           X == sidecar \o pending
<1>1. /\ phase = "up" /\ phase' = "up" /\ pending' = pending /\ disk' = disk
      /\ sidecar' = sidecar /\ history' = history \o R
      /\ disk_history' = disk_history /\ synced' = synced /\ faults' = faults
  BY DEF Served, persisting, ghosts
<1>2. /\ Good(k) /\ k.prov_log = g.prov_log /\ k.inodes = g.inodes
      /\ k.next_inode = g.next_inode
  BY ContextIs DEF DaemonInv, GraphInv
<1>3. Good(g') /\ Appended(k, g') /\ Tells(k, g') /\ LogTyped(g')
  BY DEF Served, Works, Good
<1>4. PICK T : LogsTyped(T)
  BY DEF DaemonInv, GraphInv
<1>5. PICK U : Log' \in Seq(U)
  BY <1>3 DEF LogTyped, Log
<1> DEFINE V == T \cup U
<1>6. LogsTyped(V) /\ Log' \in Seq(V)
  BY <1>4, <1>5, WiderSeq DEF LogsTyped
<1>7. Prefix(Log, Log')
  BY <1>2, <1>3 DEF Appended, Prefix, Log
<1>8. R \in Seq(V) /\ Log' = Log \o R
  <2>1. R = SubSeq(Log', Len(Log) + 1, Len(Log'))
    BY DEF Recorded, Log
  <2> HIDE DEF R, V
  <2>2. Log \in Seq(V)
    BY <1>6 DEF LogsTyped
  <2> QED BY <1>6, <1>7, <2>1, <2>2, PrefixAndRest
<1> HIDE DEF R, V
<1>9. /\ X \in Seq(V) /\ X \o Log \in Seq(V)
      /\ X \o Log' = (X \o Log) \o R
  <2>1. X \in Seq(V) /\ Log \in Seq(V)
    BY <1>6, EmptyLogs DEF LogsTyped
  <2> HIDE DEF X
  <2>2. X \o (Log \o R) = (X \o Log) \o R
    BY <1>8, <2>1, EmptyLogs
  <2> QED BY <1>8, <2>1, <2>2, EmptyLogs
<1> HIDE DEF X
<1>10. X' = X /\ X = sidecar \o pending
  BY <1>1 DEF X
<1>11. GraphInv'
  <2>1. LogsTyped(V)'
    BY <1>1, <1>6, <1>8, EmptyLogs DEF LogsTyped
  <2>2. g'.prov_log.on = Logging
    BY <1>1, <1>2, <1>3 DEF DaemonInv, GraphInv, Appended
  <2> QED BY <1>1, <1>3, <2>1, <2>2 DEF GraphInv, Phases
<1>12. HistoryInv'
  <2>1. Prefix(disk_history, history \o R)
    BY <1>6, <1>8, PrefixOfConcat DEF DaemonInv, HistoryInv, LogsTyped
  <2> QED BY <1>1, <2>1 DEF DaemonInv, HistoryInv, Persisted, Prefix
<1>13. SidecarInv'
  <2>1. ASSUME "save" \notin faults
        PROVE  Subsequence(X \o Log', history \o R)
    <3>1. Subsequence(X \o Log, history)
      BY <1>1, <1>10, <2>1 DEF DaemonInv, SidecarInv
    <3> QED BY <1>6, <1>8, <1>9, <3>1, SubsequenceGrows DEF LogsTyped
  <2> QED BY <1>1, <1>10, <2>1 DEF DaemonInv, SidecarInv
<1>14. AuditInv'
  <2>1. ASSUME Clean
        PROVE  Fits(X \o Log', g')
    <3>1. Fits(X \o Log, g)
      BY <1>1, <1>10, <2>1 DEF DaemonInv, AuditInv
    <3>2. Fits(X \o k.prov_log.entries, k)
      BY <1>2, <1>9, <3>1, FitsSameObjects DEF DaemonInv, GraphInv, Log
    <3>3. k.prov_log.on
      BY <1>1, <1>2, <2>1 DEF DaemonInv, GraphInv, Clean
    <3> QED BY <1>3, <1>9, <3>2, <3>3 DEF Tells, Log
  <2> QED BY <1>1, <1>10, <2>1 DEF AuditInv, Clean
<1>15. \E m : Loads(m)'
  BY <1>1 DEF DaemonInv, Loads, Clean, Persisted
<1> QED BY <1>1, <1>11, <1>12, <1>13, <1>14, <1>15 DEF DaemonInv, BufferInv

\* A step that leaves the graph, the logs and the disk.
LEMMA PersistKeeps ==
  ASSUME DaemonInv, OnFsync \/ OnDestroy
  PROVE  DaemonInv'
<1>1. /\ phase = "up" /\ phase' = "saving" /\ g' = g /\ pending' = pending
      /\ disk' = disk /\ sidecar' = sidecar /\ history' = history
      /\ disk_history' = disk_history /\ synced' = synced /\ faults' = faults
  BY DEF OnFsync, OnDestroy, Persist, ghosts
<1>2. Log' = Log
  BY <1>1 DEF Log
<1>3. GraphInv'
  BY <1>1, <1>2 DEF DaemonInv, GraphInv, Phases, LogsTyped
<1>4. HistoryInv' /\ BufferInv' /\ SidecarInv'
  BY <1>1, <1>2 DEF DaemonInv, HistoryInv, BufferInv, SidecarInv, Persisted, Prefix
<1>5. AuditInv' /\ \E m : Loads(m)'
  BY <1>1, <1>2 DEF DaemonInv, AuditInv, Loads, Clean, Persisted
<1> QED BY <1>3, <1>4, <1>5 DEF DaemonInv

LEMMA AllInvolved ==
  ASSUME NEW T, LogsTyped(T), Subsequence(sidecar \o pending \o Log, history)
  PROVE  Subsequence(sidecar, history) /\ Subsequence(sidecar \o pending, history)
<1>1. /\ sidecar \in Seq(T) /\ pending \in Seq(T) /\ Log \in Seq(T) /\ history \in Seq(T)
      /\ sidecar \o pending \in Seq(T)
  BY EmptyLogs DEF LogsTyped
<1>2. Subsequence(sidecar \o pending, history)
  BY <1>1, SubsequenceCut
<1>3. Subsequence(sidecar, history)
  BY <1>1, <1>2, SubsequenceCut
<1> QED BY <1>2, <1>3

LEMMA SaveKeeps ==
  ASSUME DaemonInv, Save
  PROVE  DaemonInv'
<1>1. /\ phase = "saving" /\ phase' = "draining" /\ g' = g /\ pending' = pending
      /\ disk' = {Saved(g)} /\ sidecar' = sidecar /\ history' = history
      /\ disk_history' = history /\ synced' = synced /\ faults' = faults
  BY DEF Save
<1>2. Log' = Log
  BY <1>1 DEF Log
<1>3. PICK T : LogsTyped(T)
  BY DEF DaemonInv, GraphInv
<1>4. GraphInv'
  BY <1>1, <1>2, <1>3 DEF DaemonInv, GraphInv, Phases, LogsTyped
<1>5. HistoryInv'
  <2>1. Prefix(synced, history)
    BY <1>3, PrefixTrans DEF DaemonInv, HistoryInv, LogsTyped
  <2>2. Len(history) \in Nat
    BY <1>3 DEF LogsTyped
  <2> QED BY <1>1, <2>1, <2>2 DEF HistoryInv, Prefix
<1>6. SidecarInv'
  BY <1>1, <1>2, <1>3, AllInvolved DEF DaemonInv, SidecarInv
<1>7. AuditInv' /\ BufferInv'
  BY <1>1, <1>2 DEF DaemonInv, AuditInv, BufferInv, Clean
<1>8. \E m : Loads(m)'
  <2>1. /\ Good(g) /\ disk' = {Saved(g)}
        /\ Persisted' /\ g.inodes = g'.inodes /\ g.next_inode = g'.next_inode
    BY <1>1 DEF DaemonInv, GraphInv, Persisted
  <2> QED BY <2>1 DEF Loads
<1> QED BY <1>4, <1>5, <1>6, <1>7, <1>8 DEF DaemonInv

LEMMA SaveFailsKeeps ==
  ASSUME DaemonInv, SaveFails
  PROVE  DaemonInv'
<1>1. /\ phase = "saving" /\ phase' = "draining" /\ g' = g /\ pending' = pending
      /\ disk' = disk /\ sidecar' = sidecar /\ history' = history
      /\ disk_history' = disk_history /\ synced' = synced /\ "save" \in faults'
  BY DEF SaveFails, Note, persisting
<1>2. Log' = Log /\ ~Clean'
  BY <1>1 DEF Log, Clean
<1>3. GraphInv'
  BY <1>1, <1>2 DEF DaemonInv, GraphInv, Phases, LogsTyped
<1>4. HistoryInv' /\ BufferInv' /\ SidecarInv'
  BY <1>1, <1>2 DEF DaemonInv, HistoryInv, BufferInv, SidecarInv, Prefix
<1>5. AuditInv' /\ \E m : Loads(m)'
  BY <1>1, <1>2 DEF DaemonInv, AuditInv, Loads
<1> QED BY <1>3, <1>4, <1>5 DEF DaemonInv

LEMMA DrainKeeps ==
  ASSUME DaemonInv, Drain
  PROVE  DaemonInv'
<1>1. /\ phase = "draining" /\ phase' = "writing" /\ pending = <<>>
      /\ disk' = disk /\ sidecar' = sidecar /\ history' = history
      /\ disk_history' = disk_history /\ synced' = synced /\ faults' = faults
  BY DEF Drain, ghosts, DaemonInv, BufferInv
<1>2. PICK T : LogsTyped(T)
  BY DEF DaemonInv, GraphInv
<1>3. /\ Good(g') /\ g'.inodes = g.inodes /\ g'.next_inode = g.next_inode
      /\ g'.prov_log.on = g.prov_log.on
      /\ IF Sidecar THEN pending' = Log /\ Log' = <<>> ELSE pending' = <<>> /\ Log' = Log
  <2>1. CASE Sidecar
    <3>1. pending' = Log /\ g' = [g EXCEPT !.prov_log.entries = <<>>]
      BY <2>1 DEF Drain
    <3>2. Fresh(g, g.prov_log.on, g')
      BY <3>1, DrainedIsFresh DEF DaemonInv, GraphInv
    <3> QED BY <2>1, <3>1, <3>2 DEF Fresh, Log
  <2>2. CASE ~Sidecar
    BY <1>1, <2>2 DEF Drain, DaemonInv, GraphInv, Log
  <2> QED BY <2>1, <2>2
<1>4. LogsTyped(T)'
  BY <1>1, <1>2, <1>3, EmptyLogs DEF LogsTyped
<1>5. (sidecar \o pending \o Log)' = sidecar \o pending \o Log
  <2>1. sidecar \in Seq(T) /\ Log \in Seq(T) /\ sidecar \o Log \in Seq(T)
    BY <1>2, EmptyLogs DEF LogsTyped
  <2> QED BY <1>1, <1>3, <2>1, EmptyLogs
<1>6. GraphInv'
  BY <1>1, <1>3, <1>4 DEF DaemonInv, GraphInv, Phases
<1>7. HistoryInv'
  BY <1>1 DEF DaemonInv, HistoryInv, Persisted, Prefix
<1>8. BufferInv'
  BY <1>1, <1>3 DEF BufferInv
<1>9. SidecarInv'
  BY <1>1, <1>5 DEF DaemonInv, SidecarInv
<1>10. AuditInv'
  <2>1. ASSUME Clean
        PROVE  Fits(sidecar \o pending \o Log, g')
    <3>1. sidecar \o pending \o Log \in Seq(T)
      BY <1>2, EmptyLogs DEF LogsTyped
    <3> QED BY <1>1, <1>3, <2>1, <3>1, FitsSameObjects DEF DaemonInv, GraphInv, AuditInv
  <2> QED BY <1>1, <1>5, <2>1 DEF AuditInv, Clean
<1>11. \E m : Loads(m)'
  BY <1>1, <1>3 DEF DaemonInv, Loads, Clean, Persisted
<1> QED BY <1>6, <1>7, <1>8, <1>9, <1>10, <1>11 DEF DaemonInv

LEMMA LineMoves ==
  ASSUME NEW T, NEW s \in Seq(T), NEW p \in Seq(T), p # <<>>
  PROVE  /\ Append(s, Head(p)) \in Seq(T) /\ Tail(p) \in Seq(T)
         /\ Append(s, Head(p)) \o Tail(p) = s \o p
<1>1. Append(s, Head(p)) \in Seq(T) /\ Tail(p) \in Seq(T)
  OBVIOUS
<1>2. Append(s, Head(p)) \o Tail(p) = s \o p
  OBVIOUS
<1> QED BY <1>1, <1>2

LEMMA WriteLineKeeps ==
  ASSUME DaemonInv, WriteLine
  PROVE  DaemonInv'
<1>1. /\ phase = "writing" /\ phase' = "writing" /\ pending # <<>> /\ g' = g
      /\ sidecar' = Append(sidecar, Head(pending)) /\ pending' = Tail(pending)
      /\ disk' = disk /\ history' = history
      /\ disk_history' = disk_history /\ synced' = synced /\ faults' = faults
  BY DEF WriteLine, ghosts
<1>2. PICK T : LogsTyped(T)
  BY DEF DaemonInv, GraphInv
<1>3. /\ sidecar' \in Seq(T) /\ pending' \in Seq(T)
      /\ sidecar' \o pending' = sidecar \o pending
  BY <1>1, <1>2, LineMoves, SMTT(30) DEF LogsTyped
<1>4. Sidecar /\ Log = <<>> /\ Log' = Log
  BY <1>1 DEF DaemonInv, BufferInv, Log
<1>5. LogsTyped(T)'
  BY <1>1, <1>2, <1>3, <1>4 DEF LogsTyped
<1>6. (sidecar \o pending \o Log)' = sidecar \o pending \o Log
  BY <1>3, <1>4
<1>7. GraphInv'
  BY <1>1, <1>5 DEF DaemonInv, GraphInv
<1>8. HistoryInv'
  BY <1>1 DEF DaemonInv, HistoryInv, Persisted, Prefix
<1>9. BufferInv'
  BY <1>1, <1>4 DEF BufferInv
<1>10. SidecarInv'
  <2>1. ASSUME "save" \notin faults
        PROVE  Subsequence(sidecar', disk_history)
    <3>1. Subsequence(sidecar \o pending \o Log, history) /\ disk_history = history
      BY <1>1, <2>1 DEF DaemonInv, SidecarInv, HistoryInv, Persisted
    <3>2. Subsequence(sidecar' \o pending', history)
      BY <1>2, <1>3, <3>1, AllInvolved
    <3>3. history \in Seq(T)
      BY <1>2 DEF LogsTyped
    <3> QED BY <1>3, <3>1, <3>2, <3>3, SubsequenceCut
  <2> QED BY <1>1, <1>6, <2>1 DEF DaemonInv, SidecarInv
<1>11. AuditInv'
  BY <1>1, <1>6 DEF DaemonInv, AuditInv, Clean
<1>12. \E m : Loads(m)'
  BY <1>1 DEF DaemonInv, Loads, Clean, Persisted
<1> QED BY <1>7, <1>8, <1>9, <1>10, <1>11, <1>12 DEF DaemonInv

LEMMA WriteFailsKeeps ==
  ASSUME DaemonInv, WriteFails
  PROVE  DaemonInv'
<1>1. /\ phase = "writing" /\ phase' = "writing" /\ pending # <<>> /\ g' = g
      /\ sidecar' = sidecar /\ pending' = <<>> /\ disk' = disk /\ history' = history
      /\ disk_history' = disk_history /\ synced' = synced
      /\ faults' = faults \cup {"write"}
  BY DEF WriteFails, Note
<1>2. PICK T : LogsTyped(T)
  BY DEF DaemonInv, GraphInv
<1>3. Sidecar /\ Log = <<>> /\ Log' = Log /\ ~Clean'
  BY <1>1 DEF DaemonInv, BufferInv, Log, Clean
<1>4. LogsTyped(T)'
  BY <1>1, <1>2, <1>3, EmptyLogs DEF LogsTyped
<1>5. GraphInv'
  BY <1>1, <1>4 DEF DaemonInv, GraphInv
<1>6. HistoryInv' /\ BufferInv'
  BY <1>1, <1>3 DEF DaemonInv, HistoryInv, BufferInv, Persisted, Prefix
<1>7. SidecarInv'
  <2>1. (sidecar \o pending \o Log)' = sidecar
    <3>1. sidecar \in Seq(T)
      BY <1>2 DEF LogsTyped
    <3> QED BY <1>1, <1>3, <3>1, EmptyLogs
  <2>2. "save" \notin faults => Subsequence(sidecar, history)
    BY <1>1, <1>2, AllInvolved DEF DaemonInv, SidecarInv
  <2> QED BY <1>1, <2>1, <2>2 DEF DaemonInv, SidecarInv
<1>8. AuditInv' /\ \E m : Loads(m)'
  BY <1>1, <1>3 DEF DaemonInv, AuditInv, Loads
<1> QED BY <1>5, <1>6, <1>7, <1>8 DEF DaemonInv

\* At the reply, what is in memory is what a mount would load.
LEMMA RepliesLoad ==
  ASSUME DaemonInv, phase = "writing", pending = <<>>, NEW m, Loads(m), Clean
  PROVE  Fits(sidecar, m)
<1>1. PICK T : LogsTyped(T)
  BY DEF DaemonInv, GraphInv
<1>2. Log = <<>> /\ sidecar \in Seq(T)
  BY <1>1 DEF DaemonInv, BufferInv, Clean, LogsTyped
<1>3. Fits(sidecar, g)
  <2>1. sidecar \o pending \o Log = sidecar
    BY <1>2, EmptyLogs
  <2> QED BY <2>1 DEF DaemonInv, AuditInv
<1>4. Good(m) /\ m.inodes = g.inodes /\ m.next_inode = g.next_inode /\ Good(g)
  BY DEF Loads, Persisted, DaemonInv, GraphInv
<1> QED BY <1>2, <1>3, <1>4, FitsSameObjects

LEMMA RepliesKeep ==
  ASSUME DaemonInv, FsyncReplies
  PROVE  DaemonInv'
<1>1. /\ phase = "writing" /\ phase' = "up" /\ pending = <<>> /\ g' = g
      /\ sidecar' = sidecar /\ pending' = pending /\ disk' = disk /\ history' = history
      /\ disk_history' = disk_history /\ faults' = faults
      /\ synced' = IF "save" \in faults THEN synced ELSE history
  BY DEF FsyncReplies, persisting
<1>2. PICK T : LogsTyped(T)
  BY DEF DaemonInv, GraphInv
<1>3. Log' = Log
  BY <1>1 DEF Log
<1>4. LogsTyped(T)'
  BY <1>1, <1>2, <1>3 DEF LogsTyped
<1>5. GraphInv'
  BY <1>1, <1>4 DEF DaemonInv, GraphInv, Phases
<1>6. HistoryInv'
  <2>1. CASE "save" \in faults
    BY <1>1, <2>1 DEF DaemonInv, HistoryInv, Persisted, Prefix
  <2>2. CASE "save" \notin faults
    <3>1. synced' = history /\ disk_history = history /\ Len(history) \in Nat
      BY <1>1, <1>2, <2>2 DEF DaemonInv, HistoryInv, Persisted, LogsTyped
    <3> QED BY <1>1, <3>1 DEF HistoryInv, Persisted, Prefix
  <2> QED BY <2>1, <2>2
<1>7. BufferInv' /\ SidecarInv' /\ AuditInv'
  BY <1>1, <1>3 DEF DaemonInv, BufferInv, SidecarInv, AuditInv, Clean
<1>8. \E m : Loads(m)'
  <2>1. PICK m : Loads(m)
    BY DEF DaemonInv
  <2>2. Clean => Fits(sidecar, m)
    BY <1>1, <2>1, RepliesLoad
  <2>3. Loads(m)'
    BY <1>1, <2>1, <2>2 DEF Loads, Clean, Persisted
  <2> QED BY <2>3
<1> QED BY <1>5, <1>6, <1>7, <1>8 DEF DaemonInv

LEMMA DownKeeps ==
  ASSUME DaemonInv, Unmounted \/ Crash
  PROVE  DaemonInv'
<1>1. /\ phase' = "down" /\ g' = NewGraph /\ pending' = <<>> /\ sidecar' = sidecar
      /\ disk' = disk /\ history' = history
      /\ disk_history' = disk_history /\ synced' = synced /\ faults \subseteq faults'
  BY DEF Unmounted, Crash, GoDown, Note
<1>2. PICK T : LogsTyped(T)
  BY DEF DaemonInv, GraphInv
<1>3. Log' = <<>> /\ Good(g')
  BY <1>1, NewGraphIsGood DEF Log, NoLog
<1>4. LogsTyped(T)'
  BY <1>1, <1>2, <1>3, EmptyLogs DEF LogsTyped
<1>5. GraphInv'
  BY <1>1, <1>3, <1>4 DEF GraphInv, Phases
<1>6. HistoryInv' /\ BufferInv' /\ AuditInv'
  BY <1>1 DEF DaemonInv, HistoryInv, BufferInv, AuditInv, Persisted, Prefix
<1>7. SidecarInv'
  BY <1>1 DEF DaemonInv, SidecarInv
<1>8. \E m : Loads(m)'
  <2>1. PICK m : Loads(m)
    BY DEF DaemonInv
  <2>2. ASSUME Clean' PROVE Fits(sidecar, m)
    <3>1. Clean
      BY <1>1, <2>2 DEF Clean
    <3>2. CASE Unmounted
      BY <2>1, <3>1, <3>2, RepliesLoad DEF Unmounted
    <3>3. CASE Crash
      <4>1. ~Persisted
        BY <2>2, <3>3 DEF Crash, Note, Clean, Persisted
      <4> QED BY <2>1, <3>1, <4>1 DEF Loads
    <3> QED BY <3>2, <3>3
  <2>3. Loads(m)'
    BY <1>1, <2>1, <2>2 DEF Loads, Persisted
  <2> QED BY <2>3
<1> QED BY <1>5, <1>6, <1>7, <1>8 DEF DaemonInv

LEMMA MountKeeps ==
  ASSUME DaemonInv, Mount
  PROVE  DaemonInv'
<1>1. /\ phase = "down" /\ phase' = "up" /\ pending' = pending /\ pending = <<>>
      /\ sidecar' = sidecar /\ disk' = disk /\ history' = disk_history
      /\ disk_history' = disk_history /\ synced' = synced /\ faults' = faults
  BY DEF Mount, persisting, ghosts, DaemonInv, BufferInv
<1>2. PICK T : LogsTyped(T)
  BY DEF DaemonInv, GraphInv
<1>3. PICK m : Loads(m)
  BY DEF DaemonInv
<1>4. Fresh(m, Logging, g')
  <2>1. IsSwitch(Logging) /\ Good(m)
    BY <1>3, InputAssumption DEF IsSwitch, Loads
  <2>2. CASE disk = {} /\ m = NewGraph
    <3>1. g' = [NewGraph EXCEPT !.prov_log.on = Logging]
      BY <2>2 DEF Mount
    <3> QED BY <2>1, <2>2, <3>1, NewIsFresh
  <2>3. CASE disk = {Saved(m)}
    <3>1. (CHOOSE image \in disk : TRUE) = Saved(m) /\ disk # {}
      BY <2>3
    <3>2. g' = [load(Saved(m)) EXCEPT !.prov_log.on = Logging]
      BY <3>1 DEF Mount
    <3> QED BY <2>1, <3>2, MountedIsFresh
  <2> QED BY <1>3, <2>2, <2>3 DEF Loads
<1>5. Log' = <<>> /\ Good(g') /\ g'.prov_log.on = Logging
  BY <1>4 DEF Fresh, Log
<1>6. LogsTyped(T)'
  BY <1>1, <1>2, <1>5, EmptyLogs DEF LogsTyped
<1>7. (sidecar \o pending \o Log)' = sidecar /\ sidecar \in Seq(T)
  BY <1>1, <1>2, <1>5, EmptyLogs DEF LogsTyped
<1>8. GraphInv'
  BY <1>1, <1>5, <1>6 DEF GraphInv, Phases
<1>9. HistoryInv'
  <2>1. Len(disk_history) \in Nat
    BY <1>2 DEF LogsTyped
  <2> QED BY <1>1, <2>1 DEF DaemonInv, HistoryInv, Persisted, Prefix
<1>10. BufferInv' /\ SidecarInv'
  BY <1>1, <1>7 DEF DaemonInv, BufferInv, SidecarInv
<1>11. AuditInv'
  <2>1. ASSUME Clean PROVE Fits(sidecar, g')
    <3>1. Fits(sidecar, m) /\ Good(m)
      BY <1>1, <1>3, <2>1 DEF Loads, Persisted
    <3> QED BY <1>4, <1>7, <3>1, FitsSameObjects DEF Fresh
  <2> QED BY <1>1, <1>7, <2>1 DEF AuditInv, Clean
<1>12. Loads(m)'
  BY <1>1, <1>3 DEF Loads, Clean, Persisted
<1> QED BY <1>8, <1>9, <1>10, <1>11, <1>12 DEF DaemonInv

LEMMA StepKeeps ==
  ASSUME MountsHaveRoom, DaemonInv, [DaemonNext]_vars
  PROVE  DaemonInv'
<1>1. CASE Callback
  <2>1. PICK u \in Users : Served(u)
    BY <1>1, CallbackServes DEF DaemonInv, GraphInv
  <2> QED BY <2>1, ServedKeeps
<1>2. CASE OnFsync \/ OnDestroy
  BY <1>2, PersistKeeps
<1>3. CASE Save
  BY <1>3, SaveKeeps
<1>4. CASE SaveFails
  BY <1>4, SaveFailsKeeps
<1>5. CASE Drain
  BY <1>5, DrainKeeps
<1>6. CASE WriteLine
  BY <1>6, WriteLineKeeps
<1>7. CASE WriteFails
  BY <1>7, WriteFailsKeeps
<1>8. CASE FsyncReplies
  BY <1>8, RepliesKeep
<1>9. CASE Unmounted \/ Crash
  BY <1>9, DownKeeps
<1>10. CASE Mount
  BY <1>10, MountKeeps
<1>11. CASE vars' = vars
  <2>1. /\ g' = g /\ phase' = phase /\ pending' = pending /\ disk' = disk
        /\ sidecar' = sidecar /\ history' = history /\ disk_history' = disk_history
        /\ synced' = synced /\ faults' = faults
    BY <1>11 DEF vars, persisting, ghosts
  <2>2. Log' = Log
    BY <2>1 DEF Log
  <2>3. GraphInv' /\ HistoryInv' /\ BufferInv'
    BY <2>1, <2>2 DEF DaemonInv, GraphInv, HistoryInv, BufferInv, LogsTyped, Persisted,
                      Prefix
  <2>4. SidecarInv' /\ AuditInv' /\ \E m : Loads(m)'
    BY <2>1, <2>2 DEF DaemonInv, SidecarInv, AuditInv, Loads, Clean, Persisted
  <2> QED BY <2>3, <2>4 DEF DaemonInv
<1> QED BY <1>1, <1>2, <1>3, <1>4, <1>5, <1>6, <1>7, <1>8, <1>9, <1>10, <1>11
        DEF DaemonNext

LEMMA DaemonAlways ==
  ASSUME MountsHaveRoom
  PROVE  DaemonSpec => []DaemonInv
<1>1. DaemonInit => DaemonInv
  BY InitDaemonInv
<1>2. DaemonInv /\ [DaemonNext]_vars => DaemonInv'
  BY StepKeeps
<1> QED BY <1>1, <1>2, PTL DEF DaemonSpec

-----------------------------------------------------------------------------
(***************************************************************************)
(* What the daemon promises.                                               *)
(***************************************************************************)

\* No callback meets the .expect of its reply: while the pools have room, an
\* operation that succeeded has stored the inode it returns.  (With a full
\* pool it has not: the run full_pool.)
THEOREM CallbacksReply ==
  ASSUME MountsHaveRoom
  PROVE  DaemonSpec => []NoCallbackPanics
<1>1. DaemonInv => NoCallbackPanics
  BY DEF DaemonInv, GraphInv, Phases, NoCallbackPanics
<1> QED BY <1>1, DaemonAlways, PTL

\* What fsync has replied for survives every crash and remount.
THEOREM SyncedCallsSurvive ==
  ASSUME MountsHaveRoom
  PROVE  DaemonSpec => []SyncedHistorySurvives
<1>1. ASSUME DaemonInv PROVE SyncedHistorySurvives
  <2>1. PICK T : LogsTyped(T)
    BY <1>1 DEF DaemonInv, GraphInv
  <2>2. Prefix(synced, history)
    BY <1>1, <2>1, PrefixTrans DEF DaemonInv, HistoryInv, LogsTyped
  <2>3. Len(synced) <= Len(history) /\ SubSeq(history, 1, Len(synced)) = synced
    BY <2>1, <2>2, PrefixIsSubSeq DEF LogsTyped
  <2> QED BY <2>3 DEF SyncedHistorySurvives
<1> QED BY <1>1, DaemonAlways, PTL

\* Unless a save failed, the sidecar holds only lines of operations that are in
\* the stored image, once each and in their order, at every point of a drain, a
\* crash and a remount.
THEOREM SidecarIsBehindTheImage ==
  ASSUME MountsHaveRoom
  PROVE  DaemonSpec => []SidecarFollowsDisk
<1>1. DaemonInv => SidecarFollowsDisk
  BY DEF DaemonInv, SidecarInv, SidecarFollowsDisk
<1> QED BY <1>1, DaemonAlways, PTL

\* The graph is well formed and every lookup through the index agrees with a
\* scan, before and after any number of remounts, though the index is not saved.
THEOREM RemountsKeepNames ==
  ASSUME MountsHaveRoom
  PROVE  DaemonSpec => []NamesSurviveRemount
<1>1. ASSUME DaemonInv PROVE NamesSurviveRemount
  <2>1. Sound(g)
    BY <1>1 DEF DaemonInv, GraphInv, Good
  <2> QED BY <2>1, LookupIsScan DEF NamesSurviveRemount, Sound
<1> QED BY <1>1, DaemonAlways, PTL

\* With a sidecar and no I/O error or half-way crash, the sidecar with what is
\* still in memory tells which objects exist and how many names each file has.
THEOREM SidecarTellsTheNamespace ==
  ASSUME MountsHaveRoom, Sidecar
  PROVE  DaemonSpec => []AuditReplaysToNamespace
<1>1. ASSUME DaemonInv PROVE AuditReplaysToNamespace
  <2>1. PICK T : LogsTyped(T)
    BY <1>1 DEF DaemonInv, GraphInv
  <2>2. sidecar \o pending \o Log \in Seq(T)
    BY <2>1, EmptyLogs DEF LogsTyped
  <2>3. ASSUME Logging, faults = {}, phase \notin {"down", "panicked"}
        PROVE  Replays(sidecar \o pending \o Log, g)
    BY <1>1, <2>2, <2>3, FitsReplays DEF DaemonInv, GraphInv, AuditInv, Clean
  <2> QED BY <2>3 DEF AuditReplaysToNamespace
<1> QED BY <1>1, DaemonAlways, PTL

\* An entry names the user of the request that is being answered.
THEOREM EntriesNameTheirRequester ==
  ASSUME MountsHaveRoom
  PROVE  DaemonSpec => EntriesNameTheRequester
<1> DEFINE A == \A k \in Len(history) + 1 .. Len(history') :
                  history'[k].domain = last'.uid
<1>1. ASSUME DaemonInv, [DaemonNext]_vars
      PROVE  [A]_vars
  <2>1. PICK T : LogsTyped(T)
    BY <1>1 DEF DaemonInv, GraphInv
  <2>2. CASE Callback
    <3>1. PICK u \in Users : Served(u)
      BY <1>1, <2>2, CallbackServes DEF DaemonInv, GraphInv
    <3> DEFINE c == ctx_from_req(u)
               R == Recorded(g')
    <3>2. history' = history \o R /\ last'.uid = u /\ Appended(c, g') /\ LogTyped(g')
      BY <3>1 DEF Served, Works, Good
    <3>3. c.prov_log = g.prov_log /\ c.cap_ctx.domain_id = u
      BY <1>1, ContextIs DEF DaemonInv, GraphInv
    <3>4. PICK U : Log' \in Seq(U)
      BY <3>2 DEF LogTyped, Log
    <3> DEFINE V == T \cup U
    <3>5. Log \in Seq(V) /\ history \in Seq(V) /\ Log' \in Seq(V)
      BY <2>1, <3>4, WiderSeq DEF LogsTyped
    <3>6. Prefix(Log, Log')
      BY <3>2, <3>3 DEF Appended, Prefix, Log
    <3>7. R = SubSeq(Log', Len(Log) + 1, Len(Log'))
      BY DEF Recorded, Log
    <3> HIDE DEF R, V, c
    <3>8. /\ R \in Seq(V) /\ Len(R) = Len(Log') - Len(Log)
          /\ \A x \in 1 .. Len(R) : R[x] = Log'[x + Len(Log)]
      BY <3>5, <3>6, <3>7, PrefixAndRest, SMTT(30)
    <3>9. \A x \in Len(Log) + 1 .. Len(Log') : Log'[x].domain = u
      BY <3>2, <3>3 DEF Appended, Log
    <3>10. \A x \in 1 .. Len(R) : R[x].domain = u
      <4> TAKE x \in 1 .. Len(R)
      <4>1. Len(Log) \in Nat /\ Len(Log') \in Nat
        BY <3>5
      <4>2. x + Len(Log) \in Len(Log) + 1 .. Len(Log')
        BY <3>8, <4>1
      <4> QED BY <3>8, <3>9, <4>2
    <3>11. \A x \in Len(history) + 1 .. Len(history \o R) :
             /\ x - Len(history) \in 1 .. Len(R)
             /\ (history \o R)[x] = R[x - Len(history)]
      BY <3>5, <3>8
    <3> QED BY <3>2, <3>10, <3>11
  <2>3. ASSUME history' = history \/ history' = disk_history
        PROVE  A
    <3>1. Len(history') <= Len(history) /\ Len(history) \in Nat /\ Len(history') \in Nat
      BY <1>1, <2>1, <2>3 DEF DaemonInv, HistoryInv, Prefix, LogsTyped
    <3> QED BY <3>1
  <2>4. CASE ~Callback /\ DaemonNext
    <3>1. history' = history \/ history' = disk_history
      BY <2>4 DEF DaemonNext, OnFsync, OnDestroy, Persist, Save, SaveFails, Drain, WriteLine,
                  WriteFails, FsyncReplies, Unmounted, Crash, GoDown, Mount
    <3> QED BY <2>3, <3>1
  <2> QED BY <1>1, <2>2, <2>4
<1>2. DaemonInv /\ [DaemonNext]_vars => [A]_vars
  BY <1>1
<1> HIDE DEF A
<1>3. DaemonSpec => [][A]_vars
  BY <1>2, DaemonAlways, PTL DEF DaemonSpec
<1> QED BY <1>3, PTL DEF EntriesNameTheRequester, A

\* A callback that replies with an error has changed nothing, but for the mode
\* and the owner that a setattr set before it failed.
THEOREM ErrorsChangeNoTree ==
  ASSUME MountsHaveRoom
  PROVE  DaemonSpec => ErrorsLeaveTheTree
<1> DEFINE Back(i) == [g'.inodes[i] EXCEPT !.mode = g.inodes[i].mode,
                                           !.uid  = g.inodes[i].uid,
                                           !.gid  = g.inodes[i].gid]
           A == last'.res = "error" /\ phase = "up" /\ phase' = "up" =>
                  /\ DOMAIN g'.inodes = DOMAIN g.inodes
                  /\ \A i \in DOMAIN g.inodes : Back(i) = g.inodes[i]
                  /\ g' = [g EXCEPT !.inodes = g'.inodes, !.cap_ctx = g'.cap_ctx,
                                    !.prov_log = g'.prov_log]
<1>1. ASSUME DaemonInv, [DaemonNext]_vars
      PROVE  [A]_vars
  <2>1. CASE Callback
    <3>1. PICK u \in Users : Served(u)
      BY <1>1, <2>1, CallbackServes DEF DaemonInv, GraphInv
    <3> DEFINE k == ctx_from_req(u)
    <3>2. ASSUME last'.res = "error"
          PROVE  /\ DOMAIN g'.inodes = DOMAIN g.inodes
                 /\ \A i \in DOMAIN g.inodes : Back(i) = g.inodes[i]
                 /\ g' = [g EXCEPT !.inodes = g'.inodes, !.cap_ctx = g'.cap_ctx,
                                   !.prov_log = g'.prov_log]
      <4>1. /\ Relabels(k, g') /\ Good(g') /\ Good(g)
            /\ k.inodes = g.inodes /\ SameExcept(g, k, {"cap_ctx"})
        BY <1>1, <3>1, <3>2, ContextIs DEF Served, DaemonInv, GraphInv, Works
      <4>2. IsGraph(g) /\ IsGraph(g')
        BY <4>1 DEF Good, Sound, FieldsTyped
      <4> HIDE DEF k
      <4>3. \A f \in GraphFields \ {"inodes", "prov_log", "cap_ctx"} : g'[f] = g[f]
        BY <4>1 DEF Relabels, SameExcept
      <4>4. g' = [g EXCEPT !.inodes = g'.inodes, !.cap_ctx = g'.cap_ctx,
                           !.prov_log = g'.prov_log]
        BY <4>2, <4>3 DEF IsGraph, GraphFields
      <4> QED BY <4>1, <4>4 DEF Relabels
    <3> QED BY <3>2
  <2>2. CASE ~Callback /\ DaemonNext
    <3>1. phase # "up" \/ phase' # "up"
      BY <2>2 DEF DaemonNext, OnFsync, OnDestroy, Persist, Save, SaveFails, Drain, WriteLine,
                  WriteFails, FsyncReplies, Unmounted, Crash, GoDown, Mount
    <3> QED BY <3>1
  <2> QED BY <1>1, <2>1, <2>2
<1>2. DaemonInv /\ [DaemonNext]_vars => [A]_vars
  BY <1>1
<1> HIDE DEF A
<1>3. DaemonSpec => [][A]_vars
  BY <1>2, DaemonAlways, PTL DEF DaemonSpec
<1> QED BY <1>3 DEF ErrorsLeaveTheTree, A
=============================================================================
