---------------------------- MODULE ArenaProofs ----------------------------
(***************************************************************************)
(* Proofs about the slot arena, for every capacity and every set of        *)
(* values.                                                                 *)
(***************************************************************************)
EXTENDS Arena, FiniteSetTheorems, SequenceTheorems, TLAPS

\* Every slot below the bump pointer is on the free list or live: counting
\* them shows that remove always finds room on the free list.
Counted ==
  /\ IsFiniteSet(DOMAIN data)
  /\ style = "alloc" /\ ~Mixed => Len(free_list) + len = next_bump

\* The inductive invariant.  FreeListExact needs Counted for remove, and
\* IterationSeesAll needs FreeListExact for alloc.
IInv == TypeOK /\ Counted /\ (~Mixed => FreeListExact /\ IterationSeesAll)

-----------------------------------------------------------------------------
\* A slot that was vacant is written: the facts about data and len that both
\* ways of taking a slot share.
LEMMA OccupyVacant ==
  ASSUME TypeOK, IsFiniteSet(DOMAIN data), NEW s \in Slots, NEW v \in Values,
         Occupy(s, v)
  PROVE  /\ DOMAIN data' = DOMAIN data \cup {s}
         /\ \A x \in DOMAIN data' : data'[x] \in Values
         /\ len' = len + 1
         /\ IsFiniteSet(DOMAIN data')
         /\ s \notin DOMAIN data =>
              Cardinality(DOMAIN data') = Cardinality(DOMAIN data) + 1
<1>1. /\ DOMAIN data' = DOMAIN data \cup {s}
      /\ \A x \in DOMAIN data' : data'[x] \in Values
      /\ len' = len + 1
  BY DEF Occupy, TypeOK
<1>2. /\ IsFiniteSet(DOMAIN data')
      /\ s \notin DOMAIN data =>
           Cardinality(DOMAIN data') = Cardinality(DOMAIN data) + 1
  BY <1>1, FS_AddElement
<1> QED BY <1>1, <1>2

LEMMA InitInv == Init => IInv
<1> SUFFICES ASSUME Init PROVE IInv
  OBVIOUS
<1>1. DOMAIN data = {} /\ Len(free_list) = 0
  BY DEF Init
<1>2. IsFiniteSet(DOMAIN data) /\ Cardinality(DOMAIN data) = 0
  BY <1>1, FS_EmptySet
<1>3. TypeOK
  BY <1>1, CapacityAssumption DEF Init, TypeOK
<1>4. FreeListExact
  BY <1>1 DEF Init, FreeListExact, Slots, OnFreeList
<1> QED BY <1>1, <1>2, <1>3, <1>4 DEF Init, IInv, Counted, IterationSeesAll

LEMMA AllocFreedInv ==
  ASSUME IInv, NEW v \in Values, AllocFreed(v)
  PROVE  IInv'
<1> DEFINE n == Len(free_list)
           s == free_list[n]
<1>1. /\ n \in Nat \ {0} /\ s \in Slots /\ n <= CAPACITY
      /\ free_list' = SubSeq(free_list, 1, n - 1)
      /\ Occupy(s, v) /\ UNCHANGED <<next_bump, style>>
  BY DEF AllocFreed, IInv, TypeOK
<1>2. /\ free_list' \in Seq(Slots) /\ Len(free_list') = n - 1
      /\ \A k \in 1 .. n - 1 : free_list'[k] = free_list[k]
  <2>1. n - 1 \in Int /\ \A k \in 1 .. n - 1 : free_list[k] \in Slots
    BY <1>1 DEF IInv, TypeOK
  <2>2. /\ SubSeq(free_list, 1, n - 1) \in Seq(Slots)
        /\ Len(SubSeq(free_list, 1, n - 1)) =
             IF 1 <= n - 1 THEN (n - 1) - 1 + 1 ELSE 0
        /\ \A k \in 1 .. (n - 1) - 1 + 1 :
             SubSeq(free_list, 1, n - 1)[k] = free_list[1 + k - 1]
    BY <2>1, SubSeqProperties
  <2> HIDE DEF n, s
  <2> QED BY <1>1, <2>2
<1>3. /\ DOMAIN data' = DOMAIN data \cup {s}
      /\ \A x \in DOMAIN data' : data'[x] \in Values
      /\ len' = len + 1
      /\ IsFiniteSet(DOMAIN data')
      /\ s \notin DOMAIN data =>
           Cardinality(DOMAIN data') = Cardinality(DOMAIN data) + 1
  BY <1>1, OccupyVacant DEF IInv, Counted
<1> HIDE DEF s, n
<1>4. TypeOK'
  BY <1>1, <1>2, <1>3, CapacityAssumption DEF IInv, TypeOK
<1>5. Counted'
  <2>1. style = "alloc" /\ ~Mixed => n + len = next_bump
    BY DEF IInv, Counted, n
  <2>2. len \in Int /\ next_bump \in Int
    BY DEF IInv, TypeOK
  <2> QED BY <1>1, <1>2, <1>3, <2>1, <2>2 DEF Counted
<1>6. ASSUME ~Mixed PROVE FreeListExact' /\ IterationSeesAll'
  <2>1. style = "alloc"
    BY <1>6 DEF AllocFreed, Allowed
  <2>2. /\ \A x \in Slots : x < next_bump <=> (x \in DOMAIN data \/ OnFreeList(x))
        /\ \A x \in DOMAIN data : ~OnFreeList(x)
        /\ \A j, k \in 1 .. n : free_list[j] = free_list[k] => j = k
    BY <1>6, <2>1 DEF IInv, FreeListExact, n
  <2>3. OnFreeList(s)
    BY <1>1 DEF OnFreeList, s, n
  <2>4. \A x : OnFreeList(x)' <=> OnFreeList(x) /\ x # s
    <3>1. \A x : OnFreeList(x)' <=> \E k \in 1 .. n - 1 : free_list[k] = x
      BY <1>2 DEF OnFreeList
    <3>2. \A x : OnFreeList(x) <=> \E k \in 1 .. n : free_list[k] = x
      BY DEF OnFreeList, n
    <3>3. \A k \in 1 .. n - 1 : free_list[k] # s
      BY <1>1, <2>2 DEF s
    <3>4. \A k \in 1 .. n : k \in 1 .. n - 1 \/ k = n
      BY <1>1
    <3>5. 1 .. n - 1 \subseteq 1 .. n
      BY <1>1
    <3> QED BY <3>1, <3>2, <3>3, <3>4, <3>5 DEF s
  <2>5. s \notin DOMAIN data /\ s < next_bump
    BY <1>1, <2>2, <2>3
  <2>6. \A x \in Slots : x < next_bump' <=> (x \in DOMAIN data' \/ OnFreeList(x)')
    BY <1>1, <1>3, <2>2, <2>3, <2>4
  <2>7. \A x \in DOMAIN data' : ~OnFreeList(x)'
    BY <1>3, <2>2, <2>4
  <2>8. \A j, k \in 1 .. Len(free_list') : free_list'[j] = free_list'[k] => j = k
    BY <1>1, <1>2, <2>2
  <2>9. FreeListExact'
    BY <2>6, <2>7, <2>8 DEF FreeListExact
  <2>10. IterationSeesAll'
    BY <1>1, <1>3, <1>6, <2>5, CapacityAssumption
       DEF IInv, TypeOK, IterationSeesAll, Slots
  <2> QED BY <2>9, <2>10
<1> QED BY <1>4, <1>5, <1>6 DEF IInv

LEMMA AllocFreshInv ==
  ASSUME IInv, NEW v \in Values, AllocFresh(v)
  PROVE  IInv'
<1> DEFINE s == next_bump
<1>1. /\ s \in Slots /\ free_list = <<>> /\ Occupy(s, v)
      /\ next_bump' = s + 1 /\ UNCHANGED <<free_list, style>>
  BY CapacityAssumption DEF AllocFresh, IInv, TypeOK, Slots
<1>2. /\ DOMAIN data' = DOMAIN data \cup {s}
      /\ \A x \in DOMAIN data' : data'[x] \in Values
      /\ len' = len + 1
      /\ IsFiniteSet(DOMAIN data')
      /\ s \notin DOMAIN data =>
           Cardinality(DOMAIN data') = Cardinality(DOMAIN data) + 1
  BY <1>1, OccupyVacant DEF IInv, Counted
<1> HIDE DEF s
<1>3. TypeOK'
  BY <1>1, <1>2, CapacityAssumption DEF IInv, TypeOK, Slots
<1>4. Counted'
  BY <1>1, <1>2, CapacityAssumption DEF IInv, TypeOK, Counted, s
<1>5. ASSUME ~Mixed PROVE FreeListExact' /\ IterationSeesAll'
  <2>1. style = "alloc"
    BY <1>5 DEF AllocFresh, Allowed
  <2>2. \A x : ~OnFreeList(x) /\ ~OnFreeList(x)'
    BY <1>1 DEF OnFreeList
  <2>3. \A x \in Slots : x < s <=> x \in DOMAIN data
    BY <1>5, <2>1, <2>2 DEF IInv, FreeListExact, s
  <2>4. s \notin DOMAIN data
    BY <1>1, <2>3 DEF Slots
  <2>5. FreeListExact'
    BY <1>1, <1>2, <2>2, <2>3 DEF FreeListExact, Slots
  <2>6. IterationSeesAll'
    BY <1>1, <1>2, <1>5, <2>4, CapacityAssumption
       DEF IInv, TypeOK, IterationSeesAll, Slots, s
  <2> QED BY <2>5, <2>6
<1> QED BY <1>3, <1>4, <1>5 DEF IInv

LEMMA InsertAtInv ==
  ASSUME IInv, NEW s \in Slots, NEW v \in Values, InsertAt(s, v)
  PROVE  IInv'
<1>1. /\ s \notin DOMAIN data /\ Occupy(s, v)
      /\ next_bump' = IF s >= next_bump THEN s + 1 ELSE next_bump
      /\ UNCHANGED <<free_list, style>>
  BY DEF InsertAt
<1>2. /\ DOMAIN data' = DOMAIN data \cup {s}
      /\ \A x \in DOMAIN data' : data'[x] \in Values
      /\ len' = len + 1
      /\ IsFiniteSet(DOMAIN data')
      /\ Cardinality(DOMAIN data') = Cardinality(DOMAIN data) + 1
  BY <1>1, OccupyVacant DEF IInv, Counted
<1>3. TypeOK'
  BY <1>1, <1>2, CapacityAssumption DEF IInv, TypeOK, Slots
<1>4. ~Mixed => style' # "alloc"
  BY <1>1 DEF InsertAt, Allowed
<1>5. Counted' /\ (~Mixed => FreeListExact')
  BY <1>2, <1>4 DEF Counted, FreeListExact
<1>6. ~Mixed => IterationSeesAll'
  BY <1>1, <1>2, CapacityAssumption DEF IInv, TypeOK, IterationSeesAll, Slots
<1> QED BY <1>3, <1>5, <1>6 DEF IInv

LEMMA RemoveInv ==
  ASSUME IInv, NEW s \in Slots, Remove(s)
  PROVE  IInv'
<1> DEFINE n == Len(free_list)
<1>1. /\ s \in DOMAIN data
      /\ DOMAIN data' = DOMAIN data \ {s}
      /\ \A x \in DOMAIN data' : data'[x] \in Values
      /\ len' = len - 1
      /\ free_list' = IF n < CAPACITY THEN Append(free_list, s) ELSE free_list
      /\ UNCHANGED <<next_bump, style>>
  BY DEF Remove, IInv, TypeOK
<1>2. n \in Nat /\ free_list \in Seq(Slots) /\ n <= CAPACITY
  BY DEF IInv, TypeOK
<1>3. /\ IsFiniteSet(DOMAIN data') /\ IsFiniteSet(DOMAIN data)
      /\ Cardinality(DOMAIN data') = Cardinality(DOMAIN data) - 1
      /\ Cardinality(DOMAIN data) \in Nat /\ Cardinality(DOMAIN data') \in Nat
  BY <1>1, FS_RemoveElement, FS_CardinalityType DEF IInv, Counted
<1>4. TypeOK'
  BY <1>1, <1>2, CapacityAssumption DEF IInv, TypeOK
<1>5. ASSUME ~Mixed PROVE IterationSeesAll'
  BY <1>1, <1>3, <1>5, CapacityAssumption DEF IInv, TypeOK, IterationSeesAll
<1>6. ASSUME ~Mixed, style = "alloc"
      PROVE  n < CAPACITY
  <2>1. len = Cardinality(DOMAIN data) /\ n + len = next_bump
    BY <1>6 DEF IInv, IterationSeesAll, Counted
  <2>2. next_bump \in 0 .. CAPACITY
    BY DEF IInv, TypeOK
  <2> HIDE DEF n
  <2> QED BY <1>2, <1>3, <2>1, <2>2, CapacityAssumption
<1>7. Counted'
  <2>1. ASSUME ~Mixed, style = "alloc" PROVE Len(free_list') + len' = next_bump'
    <3>1. Len(free_list') = n + 1
      BY <1>1, <1>2, <1>6, <2>1
    <3>2. n + len = next_bump /\ len \in Int
      BY <2>1 DEF IInv, Counted, TypeOK
    <3> HIDE DEF n
    <3> QED BY <1>1, <1>2, <3>1, <3>2
  <2> QED BY <1>1, <1>3, <2>1 DEF Counted
<1>8. ASSUME ~Mixed PROVE FreeListExact'
  <2> SUFFICES ASSUME style = "alloc"
               PROVE  /\ \A x \in Slots :
                           x < next_bump' <=> (x \in DOMAIN data' \/ OnFreeList(x)')
                      /\ \A x \in DOMAIN data' : ~OnFreeList(x)'
                      /\ \A j, k \in 1 .. Len(free_list') :
                           free_list'[j] = free_list'[k] => j = k
    BY <1>1 DEF FreeListExact
  <2>1. /\ \A x \in Slots : x < next_bump <=> (x \in DOMAIN data \/ OnFreeList(x))
        /\ \A x \in DOMAIN data : ~OnFreeList(x)
        /\ \A j, k \in 1 .. n : free_list[j] = free_list[k] => j = k
    BY <1>8 DEF IInv, FreeListExact
  <2>2. free_list' = Append(free_list, s)
    BY <1>1, <1>6, <1>8
  <2>3. /\ Len(free_list') = n + 1 /\ free_list'[n + 1] = s
        /\ \A k \in 1 .. n : free_list'[k] = free_list[k]
    BY <1>2, <2>2
  <2> HIDE DEF n
  <2>4. \A x : OnFreeList(x) <=> \E k \in 1 .. n : free_list[k] = x
    BY DEF OnFreeList, n
  <2>5. \A k \in 1 .. n + 1 : k \in 1 .. n \/ k = n + 1
    BY <1>2
  <2>6. 1 .. n \subseteq 1 .. n + 1 /\ n + 1 \in 1 .. n + 1
    BY <1>2
  <2>7. \A x : OnFreeList(x)' <=> OnFreeList(x) \/ x = s
    <3>1. \A x : OnFreeList(x)' <=> \E k \in 1 .. n + 1 : free_list'[k] = x
      BY <2>3 DEF OnFreeList
    <3> QED BY <2>3, <2>4, <2>5, <2>6, <3>1
  <2>8. \A k \in 1 .. n : free_list[k] # s
    BY <1>1, <2>1, <2>4
  <2>9. \A j, k \in 1 .. Len(free_list') : free_list'[j] = free_list'[k] => j = k
    BY <2>1, <2>3, <2>5, <2>8
  <2>10. \A x \in Slots : x < next_bump' <=> (x \in DOMAIN data' \/ OnFreeList(x)')
    BY <1>1, <2>1, <2>7
  <2>11. \A x \in DOMAIN data' : ~OnFreeList(x)'
    BY <1>1, <2>1, <2>7
  <2> QED BY <2>9, <2>10, <2>11
<1> QED BY <1>4, <1>5, <1>7, <1>8 DEF IInv

LEMMA StepInv == IInv /\ [Next]_vars => IInv'
<1> SUFFICES ASSUME IInv, [Next]_vars PROVE IInv'
  OBVIOUS
<1>1. ASSUME NEW v \in Values, AllocFreed(v) PROVE IInv'
  BY <1>1, AllocFreedInv
<1>2. ASSUME NEW v \in Values, AllocFresh(v) PROVE IInv'
  BY <1>2, AllocFreshInv
<1>3. ASSUME NEW s \in Slots, NEW v \in Values, InsertAt(s, v) PROVE IInv'
  BY <1>3, InsertAtInv
<1>4. ASSUME NEW s \in Slots, Remove(s) PROVE IInv'
  BY <1>4, RemoveInv
<1>5. CASE UNCHANGED vars
  BY <1>5 DEF vars, IInv, TypeOK, Counted, FreeListExact, OnFreeList,
              IterationSeesAll
<1> QED BY <1>1, <1>2, <1>3, <1>4, <1>5 DEF Next

LEMMA Invariance == Spec => []IInv
BY InitInv, StepInv, PTL DEF Spec

-----------------------------------------------------------------------------
\* The fields of an arena keep their types: no index into its arrays is ever
\* out of range, not even in an arena used through both interfaces.
THEOREM ArenaTyped == Spec => []TypeOK
<1>1. IInv => TypeOK
  BY DEF IInv
<1> QED BY <1>1, Invariance, PTL

\* No slot leaks and none is handed out twice, at any capacity: in an arena
\* used through alloc only, remove's bound on the free list never drops one.
THEOREM FreeListIsExact ==
  ASSUME ~Mixed
  PROVE  Spec => []FreeListExact
<1>1. IInv => FreeListExact
  BY DEF IInv
<1> QED BY <1>1, Invariance, PTL

\* clone, the iterators and the serialized length see every live slot.
THEOREM IterationIsComplete ==
  ASSUME ~Mixed
  PROVE  Spec => []IterationSeesAll
<1>1. IInv => IterationSeesAll
  BY DEF IInv
<1> QED BY <1>1, Invariance, PTL
=============================================================================
