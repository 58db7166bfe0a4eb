-------------------------------- MODULE Rcu --------------------------------
(***************************************************************************)
(* RcuGraph (sotfs-graph/src/rcu.rs): lock-free readers of one of two      *)
(* boxed graphs, one writer at a time on the other one, a swap and a grace *)
(* period.  Each atomic access is a step, under sequential consistency;    *)
(* the graphs themselves are heap objects that a writer clones and then    *)
(* changes in place, object k being the one the k-th write made.           *)
(*                                                                         *)
(* A stamp taken from global_epoch is only ever compared with the value    *)
(* the writer that holds the lock loaded from it, so three values do: Old  *)
(* for one taken before that load, New for one taken since, Inactive for   *)
(* none.  A new load turns every New into Old.                             *)
(***************************************************************************)
EXTENDS Integers, FiniteSets

CONSTANTS
  Readers, Writers,  \* threads
  MAX_READERS,       \* reader slots
  MaxWrites          \* bound: calls of write; reads are not bounded

ASSUME SlotAssumption == MAX_READERS \in Nat \ {0}
ASSUME ThreadAssumption == IsFiniteSet(Readers) /\ MaxWrites \in Nat

VARIABLES
  active,        \* index of the copy that readers use
  graphs,        \* the object each of the two boxes points to
  value,         \* for each object: how many writes it holds
  write_locked,
  reader_epochs, \* the stamp in each slot
  rd,            \* a reader: pc, stamp, slot, the index it loaded, its object
  wr,            \* a writer: pc, the index it loaded, its scan position
  swaps          \* writes made visible (history)

vars == <<active, graphs, value, write_locked, reader_epochs, rd, wr, swaps>>

Inactive == 0
Old == 1
New == 2
Slots == 1 .. MAX_READERS
NoWrite == -1

RdPcs == {"out", "claim", "load", "deref", "closure", "panicked"}
WrPcs == {"idle", "load", "snapshot", "clone", "mutate", "swap", "scan", "unlock"}

Reader == [pc : RdPcs, stamp : 0 .. 2, slot : Slots, idx : {0, 1},
           obj : 0 .. MaxWrites]
Writer == [pc : WrPcs, current : {0, 1}, scan : 1 .. MAX_READERS + 1]

Init ==
  /\ active = 0
  /\ graphs = [x \in {0, 1} |-> 0]
  /\ value = [k \in {0} |-> 0]
  /\ write_locked = FALSE
  /\ reader_epochs = [s \in Slots |-> Inactive]
  /\ rd = [r \in Readers |->
             [pc |-> "out", stamp |-> Inactive, slot |-> 1, idx |-> 0, obj |-> 0]]
  /\ wr = [w \in Writers |-> [pc |-> "idle", current |-> 0, scan |-> 1]]
  /\ swaps = 0

-----------------------------------------------------------------------------
(***************************************************************************)
(* read()                                                                  *)
(***************************************************************************)
writing == <<active, graphs, value, write_locked, wr, swaps>>

\* rcu_read_lock: fetch_add on the epoch, then a compare-exchange on each slot
\* in turn.
FetchEpoch(r) ==
  /\ rd[r].pc = "out"
  /\ rd' = [rd EXCEPT ![r].pc = "claim", ![r].stamp = New, ![r].slot = 1]
  /\ UNCHANGED <<writing, reader_epochs>>

\* The slot is tested with a load and then written with a store.
ClaimSlot_unchecked(r) ==
  /\ rd[r].pc = "claim"
  /\ reader_epochs' = [reader_epochs EXCEPT ![rd[r].slot] = rd[r].stamp]
  /\ rd' = [rd EXCEPT ![r].pc = "load"]
  /\ UNCHANGED writing

ClaimSlot(r) ==
  /\ rd[r].pc = "claim"
  /\ reader_epochs[rd[r].slot] = Inactive
  /\ reader_epochs' = [reader_epochs EXCEPT ![rd[r].slot] = rd[r].stamp]
  /\ rd' = [rd EXCEPT ![r].pc = "load"]
  /\ UNCHANGED writing

\* One slot too many is tried before the panic.
PassSlot_past_end(r) ==
  /\ rd[r].pc = "claim"
  /\ reader_epochs[rd[r].slot] # Inactive
  /\ rd' = IF rd[r].slot <= MAX_READERS
           THEN [rd EXCEPT ![r].slot = @ + 1]
           ELSE [rd EXCEPT ![r].pc = "panicked"]
  /\ UNCHANGED <<writing, reader_epochs>>

\* A taken slot is passed over for good; after the last one the thread panics.
PassSlot(r) ==
  /\ rd[r].pc = "claim"
  /\ reader_epochs[rd[r].slot] # Inactive
  /\ rd' = IF rd[r].slot < MAX_READERS
           THEN [rd EXCEPT ![r].slot = @ + 1]
           ELSE [rd EXCEPT ![r].pc = "panicked"]
  /\ UNCHANGED <<writing, reader_epochs>>

\* A reader that waits for the writer before it looks.
LoadActive_locked(r) ==
  /\ rd[r].pc = "load"
  /\ ~write_locked
  /\ rd' = [rd EXCEPT ![r].pc = "deref", ![r].idx = active]
  /\ UNCHANGED <<writing, reader_epochs>>

LoadActive(r) ==
  /\ rd[r].pc = "load"
  /\ rd' = [rd EXCEPT ![r].pc = "deref", ![r].idx = active]
  /\ UNCHANGED <<writing, reader_epochs>>

\* The box is followed; from here on the reader holds the object.
Deref(r) ==
  /\ rd[r].pc = "deref"
  /\ rd' = [rd EXCEPT ![r].pc = "closure", ![r].obj = graphs[rd[r].idx]]
  /\ UNCHANGED <<writing, reader_epochs>>

\* The slot is not cleared.
ReadUnlock_keep(r) ==
  /\ rd[r].pc = "closure"
  /\ rd' = [rd EXCEPT ![r].pc = "out", ![r].stamp = Inactive]
  /\ UNCHANGED <<writing, reader_epochs>>

\* The closure ends and rcu_read_unlock clears the slot.
ReadUnlock(r) ==
  /\ rd[r].pc = "closure"
  /\ reader_epochs' = [reader_epochs EXCEPT ![rd[r].slot] = Inactive]
  /\ rd' = [rd EXCEPT ![r].pc = "out", ![r].stamp = Inactive]
  /\ UNCHANGED writing

-----------------------------------------------------------------------------
(***************************************************************************)
(* write()                                                                 *)
(***************************************************************************)
Next_object == Cardinality(DOMAIN value)

AcquireLock_always(w) ==
  /\ wr[w].pc = "idle" /\ Next_object <= MaxWrites
  /\ write_locked' = TRUE
  /\ wr' = [wr EXCEPT ![w].pc = "load"]
  /\ UNCHANGED <<active, graphs, value, reader_epochs, rd, swaps>>

AcquireLock(w) ==
  /\ wr[w].pc = "idle" /\ Next_object <= MaxWrites
  /\ ~write_locked
  /\ write_locked' = TRUE
  /\ wr' = [wr EXCEPT ![w].pc = "load"]
  /\ UNCHANGED <<active, graphs, value, reader_epochs, rd, swaps>>

LoadCurrent(w) ==
  /\ wr[w].pc = "load"
  /\ wr' = [wr EXCEPT ![w].pc = "snapshot", ![w].current = active]
  /\ UNCHANGED <<active, graphs, value, write_locked, reader_epochs, rd, swaps>>

Aged(stamp) == IF stamp = Inactive THEN Inactive ELSE Old

\* pre_swap_epoch = global_epoch, before the clone.
SnapshotEpoch(w) ==
  /\ wr[w].pc = "snapshot"
  /\ reader_epochs' = [s \in Slots |-> Aged(reader_epochs[s])]
  /\ rd' = [r \in Readers |-> [rd[r] EXCEPT !.stamp = Aged(@)]]
  /\ wr' = [wr EXCEPT ![w].pc = "clone"]
  /\ UNCHANGED <<active, graphs, value, write_locked, swaps>>

\* clone_boxed, and ptr::write over the other box: the object it pointed to
\* is leaked, not freed.
Clone(w) ==
  LET k == Next_object
      v == value[graphs[wr[w].current]]
  IN /\ wr[w].pc = "clone"
     /\ value' = [x \in DOMAIN value \cup {k} |-> IF x = k THEN v ELSE value[x]]
     /\ graphs' = [graphs EXCEPT ![1 - wr[w].current] = k]
     /\ wr' = [wr EXCEPT ![w].pc = "mutate"]
     /\ UNCHANGED <<active, write_locked, reader_epochs, rd, swaps>>

\* The closure changes the new object in place and ends.
Mutate(w) ==
  /\ wr[w].pc = "mutate"
  /\ value' = [value EXCEPT ![graphs[1 - wr[w].current]] = @ + 1]
  /\ wr' = [wr EXCEPT ![w].pc = "swap"]
  /\ UNCHANGED <<active, graphs, write_locked, reader_epochs, rd, swaps>>

Swap(w) ==
  /\ wr[w].pc = "swap"
  /\ active' = 1 - wr[w].current
  /\ swaps' = swaps + 1
  /\ wr' = [wr EXCEPT ![w].pc = "scan", ![w].scan = 1]
  /\ UNCHANGED <<graphs, value, write_locked, reader_epochs, rd>>

\* rcu_synchronize that stops at a slot and does not start over.
ScanSlot_once(w) ==
  /\ wr[w].pc = "scan"
  /\ IF wr[w].scan > MAX_READERS
     THEN wr' = [wr EXCEPT ![w].pc = "unlock"]
     ELSE wr' = [wr EXCEPT ![w].scan = @ + 1]
  /\ UNCHANGED <<active, graphs, value, write_locked, reader_epochs, rd, swaps>>

\* rcu_synchronize reads one slot at a time: a stamp not above the snapshot
\* sends it back to the first slot.
ScanSlot(w) ==
  /\ wr[w].pc = "scan"
  /\ IF wr[w].scan > MAX_READERS
     THEN wr' = [wr EXCEPT ![w].pc = "unlock"]
     ELSE LET e == reader_epochs[wr[w].scan]
          IN wr' = [wr EXCEPT ![w].scan = IF e # Inactive /\ e <= Old THEN 1 ELSE @ + 1]
  /\ UNCHANGED <<active, graphs, value, write_locked, reader_epochs, rd, swaps>>

ReleaseLock(w) ==
  /\ wr[w].pc = "unlock"
  /\ write_locked' = FALSE
  /\ wr' = [wr EXCEPT ![w].pc = "idle"]
  /\ UNCHANGED <<active, graphs, value, reader_epochs, rd, swaps>>

-----------------------------------------------------------------------------
InRead(r) ==
  ClaimSlot(r) \/ PassSlot(r) \/ LoadActive(r) \/ Deref(r) \/ ReadUnlock(r)

InWrite(w) ==
  \/ LoadCurrent(w) \/ SnapshotEpoch(w) \/ Clone(w) \/ Mutate(w) \/ Swap(w)
  \/ ScanSlot(w) \/ ReleaseLock(w)

Next ==
  \/ \E r \in Readers : FetchEpoch(r) \/ InRead(r)
  \/ \E w \in Writers : AcquireLock(w) \/ InWrite(w)

\* Threads inside a call are scheduled again and closures end.  Nobody has to
\* start a call, and a thread that spins on the lock may lose every race.
Fairness == /\ \A r \in Readers : WF_vars(InRead(r))
            /\ \A w \in Writers : WF_vars(InWrite(w))

Spec == Init /\ [][Next]_vars /\ Fairness

-----------------------------------------------------------------------------
\* Threads hold what their program counters say.
TypeOK ==
  /\ active \in {0, 1}
  /\ graphs \in [{0, 1} -> DOMAIN value]
  /\ value \in [0 .. Cardinality(DOMAIN value) - 1 -> 0 .. MaxWrites]
  /\ write_locked \in BOOLEAN
  /\ reader_epochs \in [Slots -> 0 .. 2]
  /\ rd \in [Readers -> Reader]
  /\ wr \in [Writers -> Writer]
  /\ swaps \in 0 .. MaxWrites

Inside(r) == rd[r].pc \in {"load", "deref", "closure"}

\* The graph that readers are directed to holds every write that was made
\* visible: no write() starts from a copy that misses an earlier one, and none
\* changes the active copy in place.
WritesAreNotLost == value[graphs[active]] = swaps

\* Each taken slot has exactly one reader inside, with the stamp it took: a
\* slot that two readers shared would be cleared by the first to leave, and
\* the writer would not wait for the second.
SlotsHeldByOneReader ==
  \A s \in Slots :
    LET holders == {r \in Readers : Inside(r) /\ rd[r].slot = s}
    IN IF reader_epochs[s] = Inactive THEN holders = {}
       ELSE \E r \in holders :
              holders = {r} /\ rd[r].stamp = reader_epochs[s]

\* The panic "all reader slots occupied" needs more threads than slots: a
\* reader that passes over busy slots always finds one, whoever comes and goes
\* behind it.
NoPanicWithinSlots ==
  Cardinality(Readers) <= MAX_READERS => \A r \in Readers : rd[r].pc # "panicked"

\* What the grace period does achieve, although it reads the slots one at a
\* time: when write() is about to return, no reader that entered before the
\* epoch snapshot is still on the old copy.
SnapshotReadersAreGone ==
  \A w \in Writers, r \in Readers :
    wr[w].pc = "unlock" /\ rd[r].pc \in {"deref", "closure"} /\ rd[r].stamp = Old
      => rd[r].idx # wr[w].current

\* A write that has the lock returns, however many readers keep arriving.
WritesReturn == \A w \in Writers : wr[w].pc = "load" ~> wr[w].pc = "idle"

\* A read never waits for a writer.
ReadsReturn == \A r \in Readers : rd[r].pc = "claim" ~> rd[r].pc \in {"out", "panicked"}

-----------------------------------------------------------------------------
\* rcu.rs, "SAFETY: [...] Readers only access graphs[current], never
\* graphs[inactive]", and "wait for all readers that entered BEFORE the swap to
\* finish": while a writer replaces and changes the other copy, no reader is
\* on its way into it or inside it.
InactiveCopyIsPrivate ==
  \A w \in Writers, r \in Readers :
    wr[w].pc \in {"mutate", "swap"} =>
      /\ rd[r].pc = "deref" => rd[r].idx = wr[w].current
      /\ rd[r].pc = "closure" => rd[r].obj # graphs[1 - wr[w].current]
=============================================================================
