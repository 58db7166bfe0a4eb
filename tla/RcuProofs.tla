----------------------------- MODULE RcuProofs -----------------------------
(***************************************************************************)
(* Proofs about RcuGraph, for every number of readers, writers, slots and  *)
(* writes.                                                                 *)
(***************************************************************************)
EXTENDS Rcu, FiniteSetTheorems, TLAPS

Busy(w) == wr[w].pc # "idle"
Editing(w) == wr[w].pc \in {"mutate", "swap"}

\* The spin lock: at most one writer is inside write().
OneWriter ==
  /\ \A w \in Writers : Busy(w) => write_locked
  /\ \A w, x \in Writers : Busy(w) /\ Busy(x) => w = x

\* What the writer that has the lock knows of the two copies.
WriterKnows ==
  \A w \in Writers :
    LET other == graphs[1 - wr[w].current] IN
    /\ wr[w].pc \in {"snapshot", "clone", "mutate", "swap"} => wr[w].current = active
    /\ wr[w].pc \in {"scan", "unlock"} => active = 1 - wr[w].current
    /\ wr[w].pc \in {"load", "snapshot", "clone"} => Next_object <= MaxWrites
    /\ Editing(w) => other # graphs[active] /\ Next_object = swaps + 2
    /\ wr[w].pc = "mutate" => value[other] = swaps
    /\ wr[w].pc = "swap" => value[other] = swaps + 1

\* There is one object per visible write, the first one, and the one that is
\* being changed.
ObjectsCounted ==
  /\ Next_object <= MaxWrites + 1
  /\ (\A w \in Writers : ~Editing(w)) => Next_object = swaps + 1

\* The inductive invariant of the writers.
WriteInv ==
  /\ TypeOK /\ IsFiniteSet(DOMAIN value)
  /\ OneWriter /\ WriterKnows /\ ObjectsCounted /\ WritesAreNotLost

\* A thread inside read() has taken a stamp.
Stamped ==
  \A r \in Readers : rd[r].pc = "claim" \/ Inside(r) => rd[r].stamp # Inactive

\* SlotsHeldByOneReader reader by reader: the stamp of a reader inside is in its
\* slot, no two share a slot, and no slot is taken without a reader.
Owned ==
  /\ \A r \in Readers : Inside(r) =>
       reader_epochs[rd[r].slot] = rd[r].stamp /\ rd[r].stamp # Inactive
  /\ \A q, r \in Readers : Inside(q) /\ Inside(r) /\ rd[q].slot = rd[r].slot => q = r
  /\ \A s \in Slots : reader_epochs[s] # Inactive =>
       \E r \in Readers : Inside(r) /\ rd[r].slot = s

\* A reader of the old copy from before the snapshot is at or after the slot
\* that the scan has come to.
ScanCovers ==
  \A w \in Writers, r \in Readers :
    /\ wr[w].pc = "scan"
    /\ rd[r].pc \in {"deref", "closure"}
    /\ rd[r].stamp = Old
    /\ rd[r].idx = wr[w].current
    => rd[r].slot >= wr[w].scan

\* The readers that look for a slot, or have one, at position s or after it.
From(s) ==
  {r \in Readers : (rd[r].pc = "claim" \/ Inside(r)) /\ rd[r].slot >= s}

\* From every position on there is room for the readers that have come that far.
RoomFor ==
  Cardinality(Readers) <= MAX_READERS =>
    \A s \in Slots : Cardinality(From(s)) <= MAX_READERS - s + 1

\* The inductive invariant.
IInv ==
  /\ WriteInv
  /\ Stamped /\ Owned
  /\ ScanCovers /\ SnapshotReadersAreGone
  /\ RoomFor /\ NoPanicWithinSlots

-----------------------------------------------------------------------------
(***************************************************************************)
(* The writers                                                             *)
(***************************************************************************)
\* Records stay in their types when fields are replaced.
LEMMA RecordUpdates ==
  /\ \A u \in Reader, p \in RdPcs, t \in 0 .. 2 :
       [u EXCEPT !.pc = p, !.stamp = t] \in Reader
  /\ \A u \in Reader, p \in RdPcs, t \in 0 .. 2, s \in Slots :
       [u EXCEPT !.pc = p, !.stamp = t, !.slot = s] \in Reader
  /\ \A u \in Writer, p \in WrPcs, s \in 1 .. MAX_READERS + 1 :
       [u EXCEPT !.pc = p, !.scan = s] \in Writer
<1>1. ASSUME NEW u \in Reader, NEW p \in RdPcs, NEW t \in 0 .. 2
      PROVE  [u EXCEPT !.pc = p, !.stamp = t] \in Reader
  BY DEF Reader, RdPcs, Slots
<1>2. ASSUME NEW u \in Reader, NEW p \in RdPcs, NEW t \in 0 .. 2, NEW s \in Slots
      PROVE  [u EXCEPT !.pc = p, !.stamp = t, !.slot = s] \in Reader
  BY DEF Reader, RdPcs, Slots
<1>3. ASSUME NEW u \in Writer, NEW p \in WrPcs, NEW s \in 1 .. MAX_READERS + 1
      PROVE  [u EXCEPT !.pc = p, !.scan = s] \in Writer
  BY DEF Writer, WrPcs
<1> QED BY <1>1, <1>2, <1>3

\* The objects are numbered from 0, and there is one at least.
LEMMA Objects ==
  ASSUME WriteInv
  PROVE  /\ Next_object \in Nat \ {0}
         /\ DOMAIN value = 0 .. Next_object - 1
         /\ DOMAIN value \subseteq 0 .. MaxWrites
         /\ Next_object <= MaxWrites + 1
<1>1. Next_object \in Nat
  BY FS_CardinalityType DEF WriteInv, Next_object
<1>2. DOMAIN value = 0 .. Next_object - 1
  BY DEF WriteInv, TypeOK, Next_object
<1>3. graphs[0] \in DOMAIN value
  BY DEF WriteInv, TypeOK
<1>4. Next_object # 0
  BY <1>1, <1>2, <1>3
<1>5. Next_object <= MaxWrites + 1
  BY DEF WriteInv, ObjectsCounted
<1> QED BY <1>1, <1>2, <1>4, <1>5, ThreadAssumption

LEMMA WriteInit == Init => WriteInv
<1> SUFFICES ASSUME Init PROVE WriteInv
  OBVIOUS
<1>1. IsFiniteSet({0}) /\ Cardinality({0}) = 1
  BY FS_Singleton
<1>2. DOMAIN value = {0} /\ Next_object = 1
  BY <1>1 DEF Init, Next_object
<1>3. TypeOK
  <2>1. rd \in [Readers -> Reader] /\ wr \in [Writers -> Writer]
    BY SlotAssumption, ThreadAssumption
    DEF Init, Slots, Inactive, Reader, Writer, RdPcs, WrPcs
  <2>2. reader_epochs \in [Slots -> 0 .. 2]
    BY DEF Init, Inactive
  <2>3. /\ value \in [0 .. Cardinality(DOMAIN value) - 1 -> 0 .. MaxWrites]
        /\ graphs \in [{0, 1} -> DOMAIN value]
    BY <1>2, ThreadAssumption DEF Init, Next_object
  <2> QED BY <2>1, <2>2, <2>3, ThreadAssumption DEF Init, TypeOK
<1> QED
  BY <1>1, <1>2, <1>3, ThreadAssumption
  DEF Init, WriteInv, OneWriter, WriterKnows, ObjectsCounted, WritesAreNotLost,
      Busy, Editing

\* A step of a reader keeps what the writers rely on.
LEMMA ReaderKeepsWriteInv ==
  ASSUME WriteInv, UNCHANGED writing,
         reader_epochs' \in [Slots -> 0 .. 2], rd' \in [Readers -> Reader]
  PROVE  WriteInv'
<1>1. TypeOK'
  BY DEF WriteInv, TypeOK, writing
<1> QED
  BY <1>1 DEF WriteInv, OneWriter, WriterKnows, ObjectsCounted, WritesAreNotLost,
              Busy, Editing, Next_object, writing

LEMMA ReadStepWriteInv ==
  ASSUME WriteInv, NEW r \in Readers, FetchEpoch(r) \/ InRead(r)
  PROVE  WriteInv'
<1> USE SlotAssumption
<1>0. /\ reader_epochs \in [Slots -> 0 .. 2] /\ rd \in [Readers -> Reader]
      /\ graphs \in [{0, 1} -> DOMAIN value] /\ active \in {0, 1}
      /\ DOMAIN value \subseteq 0 .. MaxWrites
  BY Objects DEF WriteInv, TypeOK
<1>1. CASE FetchEpoch(r)
  <2> DEFINE x == [rd[r] EXCEPT !.pc = "claim", !.stamp = New, !.slot = 1]
  <2>1. x \in Reader
    <3>1. rd[r] \in Reader /\ "claim" \in RdPcs /\ New \in 0 .. 2 /\ 1 \in Slots
      BY <1>0 DEF RdPcs, New, Slots
    <3> QED BY <3>1, RecordUpdates
  <2>2. rd' = [rd EXCEPT ![r] = x]
    BY <1>0, <1>1 DEF FetchEpoch
  <2> QED
    BY <1>0, <1>1, <2>1, <2>2, ReaderKeepsWriteInv DEF FetchEpoch
<1>2. CASE ClaimSlot(r)
  BY <1>0, <1>2, ReaderKeepsWriteInv DEF ClaimSlot, Reader, RdPcs
<1>3. CASE PassSlot(r)
  <2>1. rd[r].slot \in Slots
    BY <1>0 DEF Reader
  <2>2. rd' \in [Readers -> Reader]
    <3>1. CASE rd[r].slot < MAX_READERS
      <4>1. rd[r].slot + 1 \in Slots
        BY <2>1, <3>1 DEF Slots
      <4> QED BY <1>0, <1>3, <3>1, <4>1 DEF PassSlot, Reader
    <3>2. CASE ~(rd[r].slot < MAX_READERS)
      BY <1>0, <1>3, <3>2 DEF PassSlot, Reader, RdPcs
    <3> QED BY <3>1, <3>2
  <2> QED BY <1>0, <1>3, <2>2, ReaderKeepsWriteInv DEF PassSlot
<1>4. CASE LoadActive(r)
  BY <1>0, <1>4, ReaderKeepsWriteInv DEF LoadActive, Reader, RdPcs
<1>5. CASE Deref(r)
  <2>1. rd[r].idx \in {0, 1}
    BY <1>0 DEF Reader
  <2>2. graphs[rd[r].idx] \in 0 .. MaxWrites
    BY <1>0, <2>1
  <2> QED
    BY <1>0, <1>5, <2>2, ReaderKeepsWriteInv DEF Deref, Reader, RdPcs
<1>6. CASE ReadUnlock(r)
  <2> DEFINE x == [rd[r] EXCEPT !.pc = "out", !.stamp = Inactive]
  <2>1. x \in Reader
    <3>1. rd[r] \in Reader /\ "out" \in RdPcs /\ Inactive \in 0 .. 2
      BY <1>0 DEF RdPcs, Inactive
    <3> QED BY <3>1, RecordUpdates
  <2>2. rd' = [rd EXCEPT ![r] = x]
    BY <1>0, <1>6 DEF ReadUnlock
  <2>3. reader_epochs' \in [Slots -> 0 .. 2]
    <3>1. reader_epochs' = [reader_epochs EXCEPT ![rd[r].slot] = Inactive]
      BY <1>6 DEF ReadUnlock
    <3>2. reader_epochs \in [Slots -> 0 .. 2] /\ Inactive \in 0 .. 2
      BY <1>0 DEF Inactive
    <3> QED BY <3>1, <3>2
  <2> QED
    BY <1>0, <1>6, <2>1, <2>2, <2>3, ReaderKeepsWriteInv DEF ReadUnlock
<1> QED
  BY <1>1, <1>2, <1>3, <1>4, <1>5, <1>6 DEF InRead

\* Every step of a writer needs the lock, so it is the only one inside.
LEMMA WriterAlone ==
  ASSUME WriteInv, NEW w \in Writers, Busy(w)
  PROVE  write_locked /\ \A x \in Writers : x # w => wr[x].pc = "idle"
BY DEF WriteInv, OneWriter, Busy

LEMMA AcquireLockInv ==
  ASSUME WriteInv, NEW w \in Writers, AcquireLock(w)
  PROVE  WriteInv'
<1>1. \A x \in Writers : wr[x].pc = "idle"
  BY DEF WriteInv, OneWriter, Busy, AcquireLock
<1>2. TypeOK' /\ Next_object' = Next_object
  BY DEF WriteInv, TypeOK, AcquireLock, Writer, WrPcs, Next_object
<1>3. /\ wr'[w].pc = "load"
      /\ \A x \in Writers : x # w => wr'[x].pc = "idle"
  BY <1>1 DEF WriteInv, TypeOK, AcquireLock
<1> QED
  BY <1>1, <1>2, <1>3
  DEF AcquireLock, WriteInv, OneWriter, WriterKnows, ObjectsCounted,
      WritesAreNotLost, Busy, Editing, Next_object

LEMMA LoadCurrentInv ==
  ASSUME WriteInv, NEW w \in Writers, LoadCurrent(w)
  PROVE  WriteInv'
<1>1. Busy(w) /\ \A x \in Writers : x # w => wr[x].pc = "idle"
  BY WriterAlone DEF Busy, LoadCurrent
<1>2. TypeOK' /\ Next_object' = Next_object
  BY DEF WriteInv, TypeOK, LoadCurrent, Writer, WrPcs, Next_object
<1>3. /\ wr'[w].pc = "snapshot" /\ wr'[w].current = active
      /\ \A x \in Writers : x # w => wr'[x].pc = "idle"
  BY <1>1 DEF WriteInv, TypeOK, LoadCurrent
<1> QED
  BY <1>1, <1>2, <1>3
  DEF LoadCurrent, WriteInv, OneWriter, WriterKnows, ObjectsCounted,
      WritesAreNotLost, Busy, Editing, Next_object

LEMMA SnapshotEpochInv ==
  ASSUME WriteInv, NEW w \in Writers, SnapshotEpoch(w)
  PROVE  WriteInv'
<1>1. Busy(w) /\ \A x \in Writers : x # w => wr[x].pc = "idle"
  BY WriterAlone DEF Busy, SnapshotEpoch
<1>2. TypeOK' /\ Next_object' = Next_object
  <2>1. \A e \in 0 .. 2 : Aged(e) \in 0 .. 2
    BY DEF Aged, Inactive, Old
  <2>2. rd' \in [Readers -> Reader]
    <3>1. ASSUME NEW r \in Readers PROVE [rd[r] EXCEPT !.stamp = Aged(@)] \in Reader
      BY <2>1 DEF WriteInv, TypeOK, Reader
    <3> QED BY <3>1 DEF SnapshotEpoch
  <2>3. reader_epochs' \in [Slots -> 0 .. 2]
    BY <2>1 DEF WriteInv, TypeOK, SnapshotEpoch
  <2>4. wr' \in [Writers -> Writer]
    BY DEF WriteInv, TypeOK, SnapshotEpoch, Writer, WrPcs
  <2> QED
    BY <2>2, <2>3, <2>4 DEF WriteInv, TypeOK, SnapshotEpoch, Next_object
<1>3. /\ wr'[w].pc = "clone" /\ wr'[w].current = wr[w].current
      /\ \A x \in Writers : x # w => wr'[x].pc = "idle"
  BY <1>1 DEF WriteInv, TypeOK, SnapshotEpoch, Writer
<1> QED
  BY <1>1, <1>2, <1>3
  DEF SnapshotEpoch, WriteInv, OneWriter, WriterKnows, ObjectsCounted,
      WritesAreNotLost, Busy, Editing, Next_object

LEMMA CloneInv ==
  ASSUME WriteInv, NEW w \in Writers, Clone(w)
  PROVE  WriteInv'
<1> DEFINE k == Next_object
           v == value[graphs[wr[w].current]]
<1>1. Busy(w) /\ \A x \in Writers : x # w => wr[x].pc = "idle"
  BY WriterAlone DEF Busy, Clone
<1>2. /\ active \in {0, 1} /\ wr[w].current = active /\ k <= MaxWrites
      /\ v = swaps /\ k = swaps + 1 /\ swaps \in 0 .. MaxWrites
      /\ graphs[0] \in DOMAIN value /\ graphs[1] \in DOMAIN value
  BY <1>1 DEF Clone, WriteInv, TypeOK, WriterKnows, ObjectsCounted, Editing,
              WritesAreNotLost
<1>3. k \in Nat /\ DOMAIN value = 0 .. k - 1 /\ k \notin DOMAIN value
  BY Objects
<1>4. /\ DOMAIN value' = DOMAIN value \cup {k}
      /\ value'[k] = v
      /\ \A x \in DOMAIN value : value'[x] = value[x]
  BY <1>3 DEF Clone
<1>5. IsFiniteSet(DOMAIN value') /\ Next_object' = k + 1
  BY <1>3, <1>4, FS_AddElement DEF WriteInv, Next_object
<1>6. /\ graphs' \in [{0, 1} -> DOMAIN value']
      /\ graphs'[1 - active] = k /\ graphs'[active] = graphs[active]
  BY <1>2, <1>4 DEF Clone, WriteInv, TypeOK
<1>7. value' \in [0 .. Next_object' - 1 -> 0 .. MaxWrites]
  <2>1. DOMAIN value' = 0 .. Next_object' - 1
    BY <1>3, <1>4, <1>5
  <2>2. \A x \in DOMAIN value' : value'[x] \in 0 .. MaxWrites
    BY <1>2, <1>4 DEF WriteInv, TypeOK
  <2>3. value' = [x \in DOMAIN value' |-> value'[x]]
    BY <1>4 DEF Clone
  <2> QED BY <2>1, <2>2, <2>3
<1>8. /\ wr'[w].pc = "mutate" /\ wr'[w].current = active
      /\ \A x \in Writers : x # w => wr'[x].pc = "idle"
      /\ wr' \in [Writers -> Writer]
  BY <1>1, <1>2 DEF WriteInv, TypeOK, Clone, Writer, WrPcs
<1>9. TypeOK'
  BY <1>6, <1>7, <1>8 DEF Clone, WriteInv, TypeOK, Next_object
<1>10. WriterKnows'
  <2>1. /\ active' = active /\ swaps' = swaps
        /\ k # graphs[active] /\ Next_object' = swaps + 2
    BY <1>2, <1>3, <1>5 DEF Clone
  <2> QED BY <1>2, <1>4, <1>6, <1>8, <2>1 DEF WriterKnows, Editing
<1>11. OneWriter' /\ ObjectsCounted' /\ WritesAreNotLost'
  <2>1. write_locked' /\ active' = active /\ swaps' = swaps
    BY <1>1, WriterAlone DEF Clone
  <2>2. Editing(w)'
    BY <1>8 DEF Editing
  <2>3. value'[graphs'[active]] = swaps
    BY <1>2, <1>4, <1>6
  <2> QED
    BY <1>2, <1>5, <1>8, <2>1, <2>2, <2>3, ThreadAssumption
    DEF OneWriter, ObjectsCounted, WritesAreNotLost, Busy
<1> QED BY <1>5, <1>9, <1>10, <1>11 DEF WriteInv

LEMMA MutateInv ==
  ASSUME WriteInv, NEW w \in Writers, Mutate(w)
  PROVE  WriteInv'
<1> DEFINE o == graphs[1 - wr[w].current]
<1>1. Busy(w) /\ \A x \in Writers : x # w => wr[x].pc = "idle"
  BY WriterAlone DEF Busy, Mutate
<1>2. /\ active \in {0, 1} /\ wr[w].current = active
      /\ o # graphs[active] /\ o \in DOMAIN value /\ value[o] = swaps
      /\ Next_object = swaps + 2 /\ swaps \in 0 .. MaxWrites
      /\ graphs[active] \in DOMAIN value
  BY DEF Mutate, WriteInv, TypeOK, WriterKnows, Editing
<1>3. swaps + 1 \in 0 .. MaxWrites
  BY <1>2, Objects, ThreadAssumption
<1>4. /\ DOMAIN value' = DOMAIN value /\ Next_object' = Next_object
      /\ value'[o] = swaps + 1
      /\ value'[graphs[active]] = value[graphs[active]]
  BY <1>2 DEF Mutate, Next_object
<1>5. value' \in [0 .. Next_object' - 1 -> 0 .. MaxWrites]
  BY <1>2, <1>3, <1>4, Objects DEF Mutate, WriteInv, TypeOK, Next_object
<1>6. /\ wr'[w].pc = "swap" /\ wr'[w].current = active
      /\ \A x \in Writers : x # w => wr'[x].pc = "idle"
      /\ wr' \in [Writers -> Writer]
  BY <1>1, <1>2 DEF WriteInv, TypeOK, Mutate, Writer, WrPcs
<1>7. TypeOK'
  BY <1>4, <1>5, <1>6 DEF Mutate, WriteInv, TypeOK, Next_object
<1>8. WriterKnows'
  <2>1. active' = active /\ swaps' = swaps /\ graphs' = graphs
    BY DEF Mutate
  <2> QED BY <1>2, <1>4, <1>6, <2>1 DEF WriterKnows, Editing
<1>9. OneWriter' /\ ObjectsCounted' /\ WritesAreNotLost'
  <2>1. write_locked' /\ active' = active /\ swaps' = swaps /\ graphs' = graphs
    BY <1>1, WriterAlone DEF Mutate
  <2>2. Editing(w)'
    BY <1>6 DEF Editing
  <2> QED
    BY <1>4, <1>6, <2>1, <2>2
    DEF WriteInv, OneWriter, ObjectsCounted, WritesAreNotLost, Busy
<1> QED BY <1>4, <1>7, <1>8, <1>9 DEF WriteInv

LEMMA SwapInv ==
  ASSUME WriteInv, NEW w \in Writers, Swap(w)
  PROVE  WriteInv'
<1>1. Busy(w) /\ \A x \in Writers : x # w => wr[x].pc = "idle"
  BY WriterAlone DEF Busy, Swap
<1>2. /\ active \in {0, 1} /\ wr[w].current = active
      /\ value[graphs[1 - active]] = swaps + 1
      /\ Next_object = swaps + 2 /\ swaps \in 0 .. MaxWrites
  BY DEF Swap, WriteInv, TypeOK, WriterKnows, Editing
<1>3. swaps' = swaps + 1 /\ swaps' \in 0 .. MaxWrites
      /\ active' = 1 - active /\ active' \in {0, 1}
  BY <1>2, Objects, ThreadAssumption DEF Swap
<1>4. /\ wr'[w].pc = "scan" /\ wr'[w].current = active
      /\ \A x \in Writers : x # w => wr'[x].pc = "idle"
      /\ wr' \in [Writers -> Writer]
  <2> DEFINE x == [wr[w] EXCEPT !.pc = "scan", !.scan = 1]
  <2>1. wr \in [Writers -> Writer]
    BY DEF WriteInv, TypeOK
  <2>2. x \in Writer /\ x.pc = "scan" /\ x.current = active
    <3>1. wr[w] \in Writer /\ "scan" \in WrPcs /\ 1 \in 1 .. MAX_READERS + 1
      BY <2>1, SlotAssumption DEF WrPcs
    <3> QED BY <1>2, <3>1, RecordUpdates DEF Writer
  <2>3. wr' = [wr EXCEPT ![w] = x]
    BY <2>1 DEF Swap
  <2> HIDE DEF x
  <2> QED BY <1>1, <2>1, <2>2, <2>3
<1>5. TypeOK' /\ Next_object' = Next_object
  BY <1>3, <1>4 DEF Swap, WriteInv, TypeOK, Next_object
<1> QED
  BY <1>1, <1>2, <1>3, <1>4, <1>5
  DEF Swap, WriteInv, OneWriter, WriterKnows, ObjectsCounted,
      WritesAreNotLost, Busy, Editing, Next_object

LEMMA ScanSlotInv ==
  ASSUME WriteInv, NEW w \in Writers, ScanSlot(w)
  PROVE  WriteInv'
<1>1. Busy(w) /\ \A x \in Writers : x # w => wr[x].pc = "idle"
  BY WriterAlone DEF Busy, ScanSlot
<1>2. wr[w] \in Writer
  BY DEF WriteInv, TypeOK
<1>3. /\ wr'[w].pc \in {"scan", "unlock"} /\ wr'[w].current = wr[w].current
      /\ \A x \in Writers : x # w => wr'[x].pc = "idle"
      /\ wr' \in [Writers -> Writer]
  <2>1. CASE wr[w].scan > MAX_READERS
    <3>1. wr' = [wr EXCEPT ![w].pc = "unlock"]
      BY <2>1 DEF ScanSlot
    <3> QED
      BY <1>1, <1>2, <3>1 DEF WriteInv, TypeOK, Writer, WrPcs
  <2>2. CASE ~(wr[w].scan > MAX_READERS)
    <3> DEFINE e == reader_epochs[wr[w].scan]
               n == IF e # Inactive /\ e <= Old THEN 1 ELSE wr[w].scan + 1
    <3>1. n \in 1 .. MAX_READERS + 1
      BY <1>2, <2>2, SlotAssumption DEF Writer
    <3>2. wr' = [wr EXCEPT ![w].scan = n]
      BY <2>2 DEF ScanSlot
    <3> HIDE DEF n
    <3> QED
      BY <1>1, <1>2, <3>1, <3>2 DEF WriteInv, TypeOK, ScanSlot, Writer
  <2> QED BY <2>1, <2>2
<1>4. TypeOK' /\ Next_object' = Next_object
  BY <1>3 DEF ScanSlot, WriteInv, TypeOK, Next_object
<1> QED
  BY <1>1, <1>3, <1>4
  DEF ScanSlot, WriteInv, OneWriter, WriterKnows, ObjectsCounted,
      WritesAreNotLost, Busy, Editing, Next_object

LEMMA ReleaseLockInv ==
  ASSUME WriteInv, NEW w \in Writers, ReleaseLock(w)
  PROVE  WriteInv'
<1>1. Busy(w) /\ \A x \in Writers : x # w => wr[x].pc = "idle"
  BY WriterAlone DEF Busy, ReleaseLock
<1>2. \A x \in Writers : wr'[x].pc = "idle"
  BY <1>1 DEF WriteInv, TypeOK, ReleaseLock
<1>3. TypeOK' /\ Next_object' = Next_object
  BY DEF WriteInv, TypeOK, ReleaseLock, Writer, WrPcs, Next_object
<1> QED
  BY <1>1, <1>2, <1>3
  DEF ReleaseLock, WriteInv, OneWriter, WriterKnows, ObjectsCounted,
      WritesAreNotLost, Busy, Editing, Next_object

LEMMA WriteStep == WriteInv /\ [Next]_vars => WriteInv'
<1> SUFFICES ASSUME WriteInv, [Next]_vars PROVE WriteInv'
  OBVIOUS
<1>1. CASE UNCHANGED vars
  BY <1>1
  DEF vars, WriteInv, TypeOK, OneWriter, WriterKnows, ObjectsCounted,
      WritesAreNotLost, Busy, Editing, Next_object
<1>2. ASSUME NEW r \in Readers, FetchEpoch(r) \/ InRead(r) PROVE WriteInv'
  BY <1>2, ReadStepWriteInv
<1>3. ASSUME NEW w \in Writers, AcquireLock(w) \/ InWrite(w) PROVE WriteInv'
  BY <1>3, AcquireLockInv, LoadCurrentInv, SnapshotEpochInv, CloneInv, MutateInv,
     SwapInv, ScanSlotInv, ReleaseLockInv DEF InWrite
<1> QED BY <1>1, <1>2, <1>3 DEF Next

-----------------------------------------------------------------------------
(***************************************************************************)
(* The slots                                                               *)
(***************************************************************************)
LEMMA OwnedSlots ==
  ASSUME TypeOK, Stamped
  PROVE  SlotsHeldByOneReader <=> Owned
<1>1. \A r \in Readers : rd[r].slot \in Slots
  BY DEF TypeOK, Reader
<1>2. ASSUME SlotsHeldByOneReader PROVE Owned
  <2>1. ASSUME NEW r \in Readers, Inside(r)
        PROVE  /\ reader_epochs[rd[r].slot] = rd[r].stamp
               /\ rd[r].stamp # Inactive
               /\ \A q \in Readers : Inside(q) /\ rd[q].slot = rd[r].slot => q = r
    <3> DEFINE s == rd[r].slot
               holders == {q \in Readers : Inside(q) /\ rd[q].slot = s}
    <3>1. r \in holders /\ s \in Slots
      BY <1>1, <2>1
    <3>2. reader_epochs[s] # Inactive
      BY <1>2, <3>1 DEF SlotsHeldByOneReader
    <3>3. PICK h \in holders : holders = {h} /\ rd[h].stamp = reader_epochs[s]
      BY <1>2, <3>1, <3>2 DEF SlotsHeldByOneReader
    <3>4. h = r
      BY <3>1, <3>3
    <3> QED BY <3>2, <3>3, <3>4
  <2>2. ASSUME NEW s \in Slots, reader_epochs[s] # Inactive
        PROVE  \E r \in Readers : Inside(r) /\ rd[r].slot = s
    BY <1>2, <2>2 DEF SlotsHeldByOneReader
  <2> QED BY <2>1, <2>2 DEF Owned
<1>3. ASSUME Owned PROVE SlotsHeldByOneReader
  <2> SUFFICES ASSUME NEW s \in Slots
               PROVE  LET holders == {r \in Readers : Inside(r) /\ rd[r].slot = s}
                      IN IF reader_epochs[s] = Inactive THEN holders = {}
                         ELSE \E r \in holders :
                                holders = {r} /\ rd[r].stamp = reader_epochs[s]
    BY DEF SlotsHeldByOneReader
  <2> DEFINE holders == {r \in Readers : Inside(r) /\ rd[r].slot = s}
  <2>1. CASE reader_epochs[s] = Inactive
    BY <1>3, <2>1 DEF Owned
  <2>2. CASE reader_epochs[s] # Inactive
    <3>1. PICK r \in Readers : Inside(r) /\ rd[r].slot = s
      BY <1>3, <2>2 DEF Owned
    <3>2. holders = {r} /\ rd[r].stamp = reader_epochs[s]
      BY <1>3, <3>1 DEF Owned
    <3> QED BY <2>2, <3>1, <3>2
  <2> QED BY <2>1, <2>2
<1> QED BY <1>2, <1>3

LEMMA SlotInit == Init => Stamped /\ Owned
BY DEF Init, Stamped, Owned, Inside, Slots

\* The reader r moves and the others stay.
LEMMA OthersStay ==
  ASSUME TypeOK, NEW r \in Readers, FetchEpoch(r) \/ InRead(r)
  PROVE  \A q \in Readers \ {r} : rd'[q] = rd[q]
BY DEF TypeOK, FetchEpoch, InRead, ClaimSlot, PassSlot, LoadActive, Deref, ReadUnlock

LEMMA ReadStepSlots ==
  ASSUME TypeOK, Stamped, Owned, NEW r \in Readers, FetchEpoch(r) \/ InRead(r)
  PROVE  Stamped' /\ Owned'
<1>0. /\ rd \in [Readers -> Reader] /\ reader_epochs \in [Slots -> 0 .. 2]
      /\ \A q \in Readers : rd[q].slot \in Slots
      /\ \A q \in Readers \ {r} : rd'[q] = rd[q]
  BY OthersStay DEF TypeOK, Reader
<1>1. CASE FetchEpoch(r)
  <2>1. rd'[r].pc = "claim" /\ rd'[r].stamp = New /\ reader_epochs' = reader_epochs
        /\ rd[r].pc = "out"
    BY <1>0, <1>1 DEF FetchEpoch, Reader
  <2> QED
    BY <1>0, <2>1 DEF Stamped, Owned, Inside, New, Inactive
<1>2. CASE ClaimSlot(r)
  <2> DEFINE s == rd[r].slot
  <2>1. /\ rd'[r].pc = "load" /\ rd'[r].stamp = rd[r].stamp /\ rd'[r].slot = s
        /\ rd[r].pc = "claim" /\ reader_epochs[s] = Inactive
        /\ reader_epochs'[s] = rd[r].stamp
        /\ \A t \in Slots \ {s} : reader_epochs'[t] = reader_epochs[t]
    BY <1>0, <1>2 DEF ClaimSlot, Reader
  <2>2. rd[r].stamp # Inactive
    BY <2>1 DEF Stamped
  <2>3. Stamped'
    BY <1>0, <2>1, <2>2 DEF Stamped, Inside
  <2>4. \A q \in Readers : Inside(q) => rd[q].slot # s
    BY <2>1 DEF Owned
  <2>5. \A q \in Readers : Inside(q)' <=> (q = r \/ Inside(q))
    BY <1>0, <2>1 DEF Inside
  <2>6. \A q \in Readers : rd'[q].slot = rd[q].slot /\ rd'[q].stamp = rd[q].stamp
    BY <1>0, <2>1
  <2> QED
    BY <1>0, <2>1, <2>2, <2>3, <2>4, <2>5, <2>6 DEF Owned
<1>3. CASE PassSlot(r)
  <2>1. rd'[r].pc \in {"claim", "panicked"} /\ rd'[r].stamp = rd[r].stamp
        /\ rd[r].pc = "claim" /\ reader_epochs' = reader_epochs
    BY <1>0, <1>3 DEF PassSlot, Reader
  <2> QED
    BY <1>0, <2>1 DEF Stamped, Owned, Inside
<1>4. CASE LoadActive(r)
  <2>1. rd'[r].pc = "deref" /\ rd'[r].stamp = rd[r].stamp /\ rd'[r].slot = rd[r].slot
        /\ rd[r].pc = "load" /\ reader_epochs' = reader_epochs
    BY <1>0, <1>4 DEF LoadActive, Reader
  <2>2. \A q \in Readers : Inside(q)' <=> Inside(q)
    BY <1>0, <2>1 DEF Inside
  <2>3. \A q \in Readers : rd'[q].slot = rd[q].slot /\ rd'[q].stamp = rd[q].stamp
    BY <1>0, <2>1
  <2> QED BY <1>0, <2>1, <2>2, <2>3 DEF Stamped, Owned, Inside
<1>5. CASE Deref(r)
  <2>1. rd'[r].pc = "closure" /\ rd'[r].stamp = rd[r].stamp
        /\ rd'[r].slot = rd[r].slot
        /\ rd[r].pc = "deref" /\ reader_epochs' = reader_epochs
    BY <1>0, <1>5 DEF Deref, Reader
  <2>2. \A q \in Readers : Inside(q)' <=> Inside(q)
    BY <1>0, <2>1 DEF Inside
  <2>3. \A q \in Readers : rd'[q].slot = rd[q].slot /\ rd'[q].stamp = rd[q].stamp
    BY <1>0, <2>1
  <2> QED BY <1>0, <2>1, <2>2, <2>3 DEF Stamped, Owned, Inside
<1>6. CASE ReadUnlock(r)
  <2> DEFINE s == rd[r].slot
  <2>1. /\ rd'[r].pc = "out" /\ Inside(r)
        /\ reader_epochs'[s] = Inactive
        /\ \A t \in Slots \ {s} : reader_epochs'[t] = reader_epochs[t]
    BY <1>0, <1>6 DEF ReadUnlock, Reader, Inside
  <2>2. \A q \in Readers : Inside(q)' <=> (q # r /\ Inside(q))
    BY <1>0, <2>1 DEF Inside
  <2>3. Stamped'
    BY <1>0, <2>1, <2>2 DEF Stamped
  <2>4. \A q \in Readers \ {r} : Inside(q) => rd[q].slot # s
    BY <2>1 DEF Owned
  <2> QED
    BY <1>0, <2>1, <2>2, <2>3, <2>4 DEF Owned
<1> QED BY <1>1, <1>2, <1>3, <1>4, <1>5, <1>6 DEF InRead

\* A new snapshot ages every stamp and every slot alike.
LEMMA SnapshotEpochSlots ==
  ASSUME TypeOK, Stamped, Owned, NEW w \in Writers, SnapshotEpoch(w)
  PROVE  Stamped' /\ Owned'
<1>1. \A r \in Readers : /\ rd'[r].pc = rd[r].pc /\ rd'[r].slot = rd[r].slot
                         /\ rd'[r].stamp = Aged(rd[r].stamp)
  BY DEF TypeOK, SnapshotEpoch, Reader
<1>2. \A s \in Slots : reader_epochs'[s] = Aged(reader_epochs[s])
  BY DEF SnapshotEpoch
<1>3. \A e : Aged(e) = Inactive <=> e = Inactive
  BY DEF Aged, Old, Inactive
<1>4. \A r \in Readers : Inside(r)' <=> Inside(r)
  BY <1>1 DEF Inside
<1>5. \A r \in Readers : rd[r].slot \in Slots
  BY DEF TypeOK, Reader
<1>6. Stamped'
  BY <1>1, <1>3, <1>4 DEF Stamped
<1> QED BY <1>1, <1>2, <1>3, <1>4, <1>5, <1>6 DEF Owned

LEMMA OtherStepSlots ==
  ASSUME Stamped, Owned, UNCHANGED <<rd, reader_epochs>>
  PROVE  Stamped' /\ Owned'
BY DEF Stamped, Owned, Inside

LEMMA SlotStep ==
  ASSUME TypeOK, Stamped, Owned, [Next]_vars
  PROVE  Stamped' /\ Owned'
<1>1. CASE UNCHANGED vars
  BY <1>1, OtherStepSlots DEF vars
<1>2. ASSUME NEW r \in Readers, FetchEpoch(r) \/ InRead(r) PROVE Stamped' /\ Owned'
  BY <1>2, ReadStepSlots
<1>3. ASSUME NEW w \in Writers, AcquireLock(w) \/ InWrite(w) PROVE Stamped' /\ Owned'
  <2>1. CASE SnapshotEpoch(w)
    BY <2>1, SnapshotEpochSlots
  <2>2. CASE ~SnapshotEpoch(w)
    BY <1>3, <2>2, OtherStepSlots
    DEF InWrite, AcquireLock, LoadCurrent, Clone, Mutate, Swap, ScanSlot, ReleaseLock
  <2> QED BY <2>1, <2>2
<1> QED BY <1>1, <1>2, <1>3 DEF Next

-----------------------------------------------------------------------------
(***************************************************************************)
(* The grace period                                                        *)
(***************************************************************************)
LEMMA ReadStepGrace ==
  ASSUME WriteInv, ScanCovers, SnapshotReadersAreGone,
         NEW r \in Readers, FetchEpoch(r) \/ InRead(r)
  PROVE  ScanCovers' /\ SnapshotReadersAreGone'
<1>0. /\ rd \in [Readers -> Reader] /\ wr' = wr
      /\ \A q \in Readers \ {r} : rd'[q] = rd[q]
      /\ \A w \in Writers : wr[w].pc \in {"scan", "unlock"} => active # wr[w].current
  <2>1. TypeOK
    BY DEF WriteInv
  <2>2. \A w \in Writers : wr[w].pc \in {"scan", "unlock"} => active = 1 - wr[w].current
    BY DEF WriteInv, WriterKnows
  <2>3. \A w \in Writers : wr[w].current \in {0, 1}
    BY <2>1 DEF TypeOK, Writer
  <2>4. \A w \in Writers : wr[w].pc \in {"scan", "unlock"} => active # wr[w].current
    BY <2>2, <2>3
  <2>5. wr' = wr
    BY DEF FetchEpoch, InRead, ClaimSlot, PassSlot, LoadActive, Deref, ReadUnlock,
           writing
  <2> QED BY <2>1, <2>4, <2>5, OthersStay DEF TypeOK
<1>1. \/ rd'[r].pc \notin {"deref", "closure"}
      \/ rd'[r].idx = active
      \/ /\ rd[r].pc \in {"deref", "closure"}
         /\ rd'[r].stamp = rd[r].stamp /\ rd'[r].slot = rd[r].slot
         /\ rd'[r].idx = rd[r].idx
  <2>1. CASE FetchEpoch(r)
    BY <1>0, <2>1 DEF FetchEpoch, Reader
  <2>2. CASE ClaimSlot(r) \/ PassSlot(r)
    BY <1>0, <2>2 DEF ClaimSlot, PassSlot, Reader
  <2>3. CASE LoadActive(r)
    BY <1>0, <2>3 DEF LoadActive, Reader
  <2>4. CASE Deref(r)
    BY <1>0, <2>4 DEF Deref, Reader
  <2>5. CASE ReadUnlock(r)
    BY <1>0, <2>5 DEF ReadUnlock, Reader
  <2> QED BY <2>1, <2>2, <2>3, <2>4, <2>5 DEF InRead
<1> QED BY <1>0, <1>1 DEF ScanCovers, SnapshotReadersAreGone

\* Outside the scan and the unlock nothing is claimed.
LEMMA NobodyScans ==
  ASSUME \A w \in Writers : wr[w].pc \notin {"scan", "unlock"}
  PROVE  ScanCovers /\ SnapshotReadersAreGone
BY DEF ScanCovers, SnapshotReadersAreGone

LEMMA SwapGrace ==
  ASSUME WriteInv, NEW w \in Writers, Swap(w)
  PROVE  ScanCovers' /\ SnapshotReadersAreGone'
<1>1. \A x \in Writers : x # w => wr[x].pc = "idle"
  BY WriterAlone DEF Busy, Swap
<1>2. /\ wr'[w].pc = "scan" /\ wr'[w].scan = 1 /\ rd' = rd
      /\ \A x \in Writers : x # w => wr'[x].pc = "idle"
  BY <1>1 DEF WriteInv, TypeOK, Swap, Writer
<1>3. \A r \in Readers : rd[r].slot >= 1
  BY SlotAssumption DEF WriteInv, TypeOK, Reader, Slots
<1> QED BY <1>2, <1>3 DEF ScanCovers, SnapshotReadersAreGone

\* A slot that the scan passes holds no reader from before the snapshot.
LEMMA ScanSlotGrace ==
  ASSUME WriteInv, Owned, ScanCovers, NEW w \in Writers, ScanSlot(w)
  PROVE  ScanCovers' /\ SnapshotReadersAreGone'
<1> DEFINE Behind(r) == /\ rd[r].pc \in {"deref", "closure"}
                        /\ rd[r].stamp = Old
                        /\ rd[r].idx = wr[w].current
           n == wr[w].scan
<1>1. \A x \in Writers : x # w => wr[x].pc = "idle"
  BY WriterAlone DEF Busy, ScanSlot
<1>2. /\ rd' = rd /\ wr[w].pc = "scan" /\ n \in 1 .. MAX_READERS + 1
      /\ \A r \in Readers : rd[r].slot \in 1 .. MAX_READERS
      /\ \A r \in Readers : Behind(r) => rd[r].slot >= n
  BY DEF WriteInv, TypeOK, ScanSlot, Writer, Reader, Slots, ScanCovers
<1>3. \A x \in Writers : x # w => wr'[x].pc = "idle"
  BY <1>1 DEF WriteInv, TypeOK, ScanSlot
<1>4. CASE n > MAX_READERS
  <2>1. wr'[w].pc = "unlock" /\ wr'[w].current = wr[w].current
    BY <1>4 DEF WriteInv, TypeOK, ScanSlot, Writer
  <2>2. \A r \in Readers : ~Behind(r)
    BY <1>2, <1>4, SlotAssumption
  <2> QED BY <1>2, <1>3, <2>1, <2>2 DEF ScanCovers, SnapshotReadersAreGone
<1>5. CASE ~(n > MAX_READERS)
  <2> DEFINE e == reader_epochs[n]
             m == IF e # Inactive /\ e <= Old THEN 1 ELSE n + 1
  <2>1. wr' = [wr EXCEPT ![w].scan = m]
    BY <1>5 DEF ScanSlot
  <2>2. wr'[w].pc = "scan" /\ wr'[w].current = wr[w].current /\ wr'[w].scan = m
    BY <1>2, <2>1 DEF WriteInv, TypeOK, Writer
  <2>3. ASSUME NEW r \in Readers, Behind(r) PROVE rd[r].slot >= m
    <3>1. CASE e # Inactive /\ e <= Old
      BY <1>2, <3>1, SlotAssumption
    <3>2. CASE ~(e # Inactive /\ e <= Old)
      <4>1. reader_epochs[rd[r].slot] = Old
        BY <2>3 DEF Owned, Inside
      <4>2. e # Old
        BY <3>2 DEF Old, Inactive
      <4>3. rd[r].slot # n
        BY <4>1, <4>2
      <4> QED BY <1>2, <2>3, <3>2, <4>3, SlotAssumption
    <3> QED BY <3>1, <3>2
  <2> HIDE DEF m
  <2> QED BY <1>2, <1>3, <2>2, <2>3 DEF ScanCovers, SnapshotReadersAreGone
<1> QED BY <1>4, <1>5

LEMMA GraceStep ==
  ASSUME WriteInv, Owned, ScanCovers, SnapshotReadersAreGone, [Next]_vars
  PROVE  ScanCovers' /\ SnapshotReadersAreGone'
<1>1. CASE UNCHANGED vars
  BY <1>1 DEF vars, ScanCovers, SnapshotReadersAreGone
<1>2. ASSUME NEW r \in Readers, FetchEpoch(r) \/ InRead(r)
      PROVE  ScanCovers' /\ SnapshotReadersAreGone'
  BY <1>2, ReadStepGrace
<1>3. ASSUME NEW w \in Writers, AcquireLock(w) \/ InWrite(w)
      PROVE  ScanCovers' /\ SnapshotReadersAreGone'
  <2>1. CASE Swap(w)
    BY <2>1, SwapGrace
  <2>2. CASE ScanSlot(w)
    BY <2>2, ScanSlotGrace
  <2>3. CASE ~Swap(w) /\ ~ScanSlot(w)
    <3>1. \A x \in Writers : x # w => wr[x].pc = "idle"
      BY <1>3, <2>3, WriterAlone
      DEF WriteInv, OneWriter, Busy, InWrite, AcquireLock, LoadCurrent,
          SnapshotEpoch, Clone, Mutate, ReleaseLock
    <3>2. /\ wr'[w].pc \notin {"scan", "unlock"}
          /\ \A x \in Writers : x # w => wr'[x].pc = wr[x].pc
      <4>1. wr \in [Writers -> Writer]
        BY DEF WriteInv, TypeOK
      <4>2. CASE AcquireLock(w) \/ LoadCurrent(w)
        BY <4>1, <4>2 DEF AcquireLock, LoadCurrent, Writer
      <4>3. CASE SnapshotEpoch(w) \/ Clone(w)
        BY <4>1, <4>3 DEF SnapshotEpoch, Clone, Writer
      <4>4. CASE Mutate(w) \/ ReleaseLock(w)
        BY <4>1, <4>4 DEF Mutate, ReleaseLock, Writer
      <4> QED BY <1>3, <2>3, <4>2, <4>3, <4>4 DEF InWrite
    <3>3. \A x \in Writers : wr'[x].pc \notin {"scan", "unlock"}
      BY <3>1, <3>2
    <3> QED BY <3>3 DEF ScanCovers, SnapshotReadersAreGone
  <2> QED BY <2>1, <2>2, <2>3
<1> QED BY <1>1, <1>2, <1>3 DEF Next

-----------------------------------------------------------------------------
(***************************************************************************)
(* The search for a slot                                                   *)
(***************************************************************************)
\* The rooms as numbers: From(s) is finite and no larger than Readers.
LEMMA FromFinite ==
  \A s \in Slots :
    /\ IsFiniteSet(From(s)) /\ Cardinality(From(s)) \in Nat
    /\ Cardinality(From(s)) <= Cardinality(Readers)
    /\ Cardinality(Readers) \in Nat
<1> SUFFICES ASSUME NEW s \in Slots
             PROVE  /\ IsFiniteSet(From(s)) /\ Cardinality(From(s)) \in Nat
                    /\ Cardinality(From(s)) <= Cardinality(Readers)
                    /\ Cardinality(Readers) \in Nat
  OBVIOUS
<1>1. From(s) \subseteq Readers
  BY DEF From
<1> QED BY <1>1, ThreadAssumption, FS_Subset, FS_CardinalityType

\* Where no reader comes further, there is room as before.
LEMMA RoomKept ==
  ASSUME RoomFor, \A s \in Slots : From(s)' \subseteq From(s)
  PROVE  RoomFor'
<1> SUFFICES ASSUME Cardinality(Readers) <= MAX_READERS, NEW s \in Slots
             PROVE  Cardinality(From(s)') <= MAX_READERS - s + 1
  BY DEF RoomFor, Slots
<1>1. /\ Cardinality(From(s)) <= MAX_READERS - s + 1
      /\ IsFiniteSet(From(s)) /\ Cardinality(From(s)) \in Nat
  BY FromFinite DEF RoomFor
<1>2. /\ Cardinality(From(s)') <= Cardinality(From(s))
      /\ Cardinality(From(s)') \in Nat
  BY <1>1, FS_Subset, FS_CardinalityType
<1> QED BY <1>1, <1>2, SlotAssumption DEF Slots

\* The reader that moves on from slot n leaves its holder behind there.
LEMMA HolderStaysBehind ==
  ASSUME TypeOK, Owned, RoomFor, Cardinality(Readers) <= MAX_READERS,
         NEW r \in Readers, PassSlot(r)
  PROVE  /\ rd[r].slot < MAX_READERS
         /\ rd[r].slot + 1 \in Slots
         /\ Cardinality(From(rd[r].slot + 1)) + 1 <= MAX_READERS - rd[r].slot
<1> DEFINE n == rd[r].slot
<1>1. n \in Slots /\ n \in 1 .. MAX_READERS /\ rd[r].pc = "claim"
  BY DEF TypeOK, Reader, Slots, PassSlot
<1>2. PICK h \in Readers : Inside(h) /\ rd[h].slot = n
  BY <1>1 DEF PassSlot, Owned
<1>3. h # r
  BY <1>1, <1>2 DEF Inside
<1>4. r \in From(n) /\ h \in From(n)
  BY <1>1, <1>2, SlotAssumption DEF From
<1>5. /\ IsFiniteSet(From(n)) /\ Cardinality(From(n)) \in Nat
      /\ Cardinality(From(n)) <= MAX_READERS - n + 1
  BY <1>1, FromFinite DEF RoomFor
<1>6. /\ Cardinality(From(n) \ {r}) = Cardinality(From(n)) - 1
      /\ IsFiniteSet(From(n) \ {r})
  BY <1>4, <1>5, FS_RemoveElement
<1>7. /\ Cardinality((From(n) \ {r}) \ {h}) = Cardinality(From(n)) - 2
      /\ IsFiniteSet((From(n) \ {r}) \ {h})
  <2>1. h \in From(n) \ {r}
    BY <1>3, <1>4
  <2>2. /\ Cardinality((From(n) \ {r}) \ {h}) = Cardinality(From(n) \ {r}) - 1
        /\ IsFiniteSet((From(n) \ {r}) \ {h})
    BY <1>6, <2>1, FS_RemoveElement
  <2> QED BY <1>5, <1>6, <2>2
<1>8. From(n + 1) \subseteq (From(n) \ {r}) \ {h}
  <2>1. ASSUME NEW q \in From(n + 1) PROVE q \in From(n) /\ rd[q].slot # n
    <3>1. q \in Readers /\ rd[q].slot \in Slots /\ rd[q].slot >= n + 1
      BY <2>1 DEF From, TypeOK, Reader
    <3> QED BY <1>1, <2>1, <3>1, SlotAssumption DEF From, Slots
  <2> QED BY <1>2, <2>1
<1>9. Cardinality(From(n + 1)) <= Cardinality(From(n)) - 2
  BY <1>7, <1>8, FS_Subset
<1>10. Cardinality((From(n) \ {r}) \ {h}) \in Nat
  BY <1>7, FS_CardinalityType
<1>11. n < MAX_READERS
  BY <1>1, <1>5, <1>7, <1>10, SlotAssumption
<1>12. n + 1 \in Slots
  BY <1>1, <1>11, SlotAssumption DEF Slots
<1>13. Cardinality(From(n + 1)) \in Nat
  BY <1>12, FromFinite
<1> QED BY <1>1, <1>5, <1>9, <1>11, <1>12, <1>13, SlotAssumption

LEMMA PassSlotRoom ==
  ASSUME TypeOK, Owned, RoomFor, NEW r \in Readers, PassSlot(r)
  PROVE  RoomFor'
<1> SUFFICES ASSUME Cardinality(Readers) <= MAX_READERS, NEW s \in Slots
             PROVE  Cardinality(From(s)') <= MAX_READERS - s + 1
  BY DEF RoomFor, Slots
<1> DEFINE n == rd[r].slot
<1>1. /\ n \in 1 .. MAX_READERS /\ n < MAX_READERS /\ n + 1 \in Slots
      /\ Cardinality(From(n + 1)) + 1 <= MAX_READERS - n
  BY HolderStaysBehind DEF TypeOK, Reader, Slots
<1>2. /\ rd'[r].slot = n + 1 /\ rd'[r].pc = "claim" /\ rd[r].pc = "claim"
      /\ \A q \in Readers \ {r} : rd'[q] = rd[q]
  BY <1>1 DEF PassSlot, TypeOK, Reader
<1>3. /\ IsFiniteSet(From(s)) /\ Cardinality(From(s)) \in Nat
      /\ Cardinality(From(s)) <= MAX_READERS - s + 1
  BY FromFinite DEF RoomFor
<1>4. s \in 1 .. MAX_READERS
  BY DEF Slots
<1>5. CASE s = n + 1
  <2>1. From(s)' \subseteq From(s) \cup {r}
    BY <1>2 DEF From, Inside
  <2>2. /\ IsFiniteSet(From(s) \cup {r})
        /\ Cardinality(From(s) \cup {r}) <= Cardinality(From(s)) + 1
        /\ Cardinality(From(s) \cup {r}) \in Nat
    <3>1. CASE r \in From(s)
      <4> DEFINE both == From(s) \cup {r}
      <4>1. both = From(s)
        BY <3>1
      <4> HIDE DEF both
      <4>2. /\ IsFiniteSet(both) /\ Cardinality(both) <= Cardinality(From(s)) + 1
            /\ Cardinality(both) \in Nat
        BY <1>3, <4>1
      <4> QED BY <4>2 DEF both
    <3>2. CASE r \notin From(s)
      BY <1>3, <3>2, FS_AddElement, SMTT(30)
    <3> QED BY <3>1, <3>2
  <2>3. /\ Cardinality(From(s)') <= Cardinality(From(s) \cup {r})
        /\ Cardinality(From(s)') \in Nat
    BY <2>1, <2>2, FS_Subset, FS_CardinalityType
  <2> QED BY <1>1, <1>3, <1>5, <2>2, <2>3, SlotAssumption
<1>6. CASE s # n + 1
  <2>1. From(s)' \subseteq From(s)
    <3>1. ASSUME NEW q \in Readers, (rd[q].pc = "claim" \/ Inside(q))', rd'[q].slot >= s
          PROVE  q \in From(s)
      <4>1. CASE q = r
        BY <1>1, <1>2, <1>4, <1>6, <3>1, <4>1, SlotAssumption DEF From
      <4>2. CASE q # r
        BY <1>2, <3>1, <4>2 DEF From, Inside
      <4> QED BY <4>1, <4>2
    <3> QED BY <3>1 DEF From
  <2>2. /\ Cardinality(From(s)') <= Cardinality(From(s))
        /\ Cardinality(From(s)') \in Nat
    BY <1>3, <2>1, FS_Subset, FS_CardinalityType
  <2> QED BY <1>3, <1>4, <2>2, SlotAssumption
<1> QED BY <1>5, <1>6

LEMMA FetchEpochRoom ==
  ASSUME TypeOK, RoomFor, NEW r \in Readers, FetchEpoch(r)
  PROVE  RoomFor'
<1> SUFFICES ASSUME Cardinality(Readers) <= MAX_READERS, NEW s \in Slots
             PROVE  Cardinality(From(s)') <= MAX_READERS - s + 1
  BY DEF RoomFor, Slots
<1>1. /\ rd'[r].slot = 1
      /\ \A q \in Readers \ {r} : rd'[q] = rd[q]
  BY DEF FetchEpoch, TypeOK, Reader
<1>2. /\ IsFiniteSet(From(s)) /\ Cardinality(From(s)) \in Nat
      /\ Cardinality(From(s)) <= MAX_READERS - s + 1
      /\ s \in 1 .. MAX_READERS /\ Cardinality(Readers) \in Nat
  BY FromFinite DEF RoomFor, Slots
<1>3. CASE s = 1
  <2>1. From(s)' \subseteq Readers
    BY DEF From
  <2>2. /\ Cardinality(From(s)') <= Cardinality(Readers)
        /\ Cardinality(From(s)') \in Nat
    BY <2>1, ThreadAssumption, FS_Subset, FS_CardinalityType
  <2> QED BY <1>2, <1>3, <2>2, SlotAssumption
<1>4. CASE s # 1
  <2>1. From(s)' \subseteq From(s)
    <3>1. ~(1 >= s)
      BY <1>2, <1>4, SlotAssumption
    <3> QED BY <1>1, <3>1 DEF From, Inside
  <2>2. /\ Cardinality(From(s)') <= Cardinality(From(s))
        /\ Cardinality(From(s)') \in Nat
    BY <1>2, <2>1, FS_Subset, FS_CardinalityType
  <2> QED BY <1>2, <2>2, SlotAssumption
<1> QED BY <1>3, <1>4

\* A step that lets no reader come further or panic.
LEMMA RoomStepKept ==
  ASSUME RoomFor, NoPanicWithinSlots,
         \A q \in Readers :
           /\ rd'[q].slot = rd[q].slot
           /\ (rd[q].pc = "claim" \/ Inside(q))' => rd[q].pc = "claim" \/ Inside(q)
           /\ rd'[q].pc = "panicked" => rd[q].pc = "panicked"
  PROVE  RoomFor' /\ NoPanicWithinSlots'
<1>1. \A s \in Slots : From(s)' \subseteq From(s)
  BY DEF From
<1> QED BY <1>1, RoomKept DEF NoPanicWithinSlots

LEMMA ReadStepRoom ==
  ASSUME TypeOK, Owned, RoomFor, NoPanicWithinSlots,
         NEW r \in Readers, FetchEpoch(r) \/ InRead(r)
  PROVE  RoomFor' /\ NoPanicWithinSlots'
<1>0. /\ rd \in [Readers -> Reader]
      /\ \A q \in Readers \ {r} : rd'[q] = rd[q]
  BY OthersStay DEF TypeOK
<1>1. CASE FetchEpoch(r)
  <2>1. rd'[r].pc = "claim"
    BY <1>0, <1>1 DEF FetchEpoch, Reader
  <2> QED BY <1>0, <1>1, <2>1, FetchEpochRoom DEF NoPanicWithinSlots
<1>2. CASE PassSlot(r)
  <2>1. Cardinality(Readers) <= MAX_READERS => rd'[r].pc = "claim"
    BY <1>0, <1>2, HolderStaysBehind DEF PassSlot, Reader
  <2> QED BY <1>0, <1>2, <2>1, PassSlotRoom DEF NoPanicWithinSlots
<1>3. CASE ClaimSlot(r)
  BY <1>0, <1>3, RoomStepKept DEF ClaimSlot, Reader, Inside
<1>4. CASE LoadActive(r)
  BY <1>0, <1>4, RoomStepKept DEF LoadActive, Reader, Inside
<1>5. CASE Deref(r)
  BY <1>0, <1>5, RoomStepKept DEF Deref, Reader, Inside
<1>6. CASE ReadUnlock(r)
  BY <1>0, <1>6, RoomStepKept DEF ReadUnlock, Reader, Inside
<1> QED BY <1>1, <1>2, <1>3, <1>4, <1>5, <1>6 DEF InRead

LEMMA RoomStep ==
  ASSUME TypeOK, Owned, RoomFor, NoPanicWithinSlots, [Next]_vars
  PROVE  RoomFor' /\ NoPanicWithinSlots'
<1>1. CASE UNCHANGED vars
  BY <1>1, RoomStepKept DEF vars, Inside
<1>2. ASSUME NEW r \in Readers, FetchEpoch(r) \/ InRead(r)
      PROVE  RoomFor' /\ NoPanicWithinSlots'
  BY <1>2, ReadStepRoom
<1>3. ASSUME NEW w \in Writers, AcquireLock(w) \/ InWrite(w)
      PROVE  RoomFor' /\ NoPanicWithinSlots'
  <2>1. \A q \in Readers : rd'[q].pc = rd[q].pc /\ rd'[q].slot = rd[q].slot
    BY <1>3
    DEF TypeOK, Reader, InWrite, AcquireLock, LoadCurrent, SnapshotEpoch, Clone, Mutate,
        Swap, ScanSlot, ReleaseLock
  <2> QED BY <2>1, RoomStepKept DEF Inside
<1> QED BY <1>1, <1>2, <1>3 DEF Next

LEMMA RoomInit == Init => RoomFor /\ NoPanicWithinSlots
<1> SUFFICES ASSUME Init PROVE RoomFor /\ NoPanicWithinSlots
  OBVIOUS
<1>0. \A r \in Readers : rd[r].pc = "out"
  BY DEF Init
<1>1. \A s \in Slots : From(s) = {}
  BY <1>0 DEF From, Inside
<1>2. Cardinality({}) = 0
  BY FS_EmptySet
<1>3. RoomFor
  BY <1>1, <1>2, SlotAssumption DEF RoomFor, Slots
<1> QED BY <1>0, <1>3 DEF NoPanicWithinSlots

-----------------------------------------------------------------------------
LEMMA Invariance == Spec => []IInv
<1>1. Init => IInv
  BY WriteInit, SlotInit, RoomInit
  DEF IInv, Init, ScanCovers, SnapshotReadersAreGone
<1>2. IInv /\ [Next]_vars => IInv'
  <2> SUFFICES ASSUME IInv, [Next]_vars PROVE IInv'
    OBVIOUS
  <2>1. TypeOK
    BY DEF IInv, WriteInv
  <2> QED
    BY <2>1, WriteStep, SlotStep, GraceStep, RoomStep DEF IInv
<1> QED BY <1>1, <1>2, PTL DEF Spec

\* Threads, slots and objects keep their types; in particular no write counts
\* past its bound and no slot index leaves the array (rcu.rs, ReaderSlot).
THEOREM RcuTyped == Spec => []TypeOK
<1>1. IInv => TypeOK
  BY DEF IInv, WriteInv
<1> QED BY <1>1, Invariance, PTL

\* write() never starts from a copy that misses an earlier write, whoever reads
\* and however many writers contend for write_lock.
THEOREM WritesKept == Spec => []WritesAreNotLost
<1>1. IInv => WritesAreNotLost
  BY DEF IInv, WriteInv
<1> QED BY <1>1, Invariance, PTL

\* rcu_read_lock gives a slot to one reader at a time, and the slot holds the
\* stamp that reader took.
THEOREM SlotsExclusive == Spec => []SlotsHeldByOneReader
<1>1. IInv => SlotsHeldByOneReader
  BY OwnedSlots DEF IInv, WriteInv
<1> QED BY <1>1, Invariance, PTL

\* When rcu_synchronize ends, no reader from before the epoch snapshot is on
\* the copy that the next write() replaces.
THEOREM GracePeriod == Spec => []SnapshotReadersAreGone
<1>1. IInv => SnapshotReadersAreGone
  BY DEF IInv
<1> QED BY <1>1, Invariance, PTL

\* With no more reader threads than slots, rcu_read_lock never panics.
THEOREM NoPanic == Spec => []NoPanicWithinSlots
<1>1. IInv => NoPanicWithinSlots
  BY DEF IInv
<1> QED BY <1>1, Invariance, PTL
=============================================================================
