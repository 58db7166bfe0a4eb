------------------------------- MODULE Arena -------------------------------
(***************************************************************************)
(* The slot arena (sotfs-graph/src/arena.rs): a stack of freed slots, a    *)
(* bump pointer for the slots never used, and insert_at for callers that   *)
(* bring their own ids.                                                    *)
(***************************************************************************)
EXTENDS Integers, Sequences, FiniteSets

CONSTANTS
  CAPACITY,   \* number of slots, numbered from 0
  Values,     \* what a slot may hold
  Mixed       \* TRUE: one arena may be used through both interfaces

ASSUME CapacityAssumption == CAPACITY \in Nat

VARIABLES
  data,       \* the occupied slots and what they hold
  len,
  free_list,  \* free_list[1 .. free_count], the top at the end
  next_bump,
  style       \* the interface this arena is used through

vars == <<data, len, free_list, next_bump, style>>

Styles == {"alloc", "insert_at"}
Slots  == 0 .. CAPACITY - 1

Init ==
  /\ data = [s \in {} |-> 0]
  /\ len = 0
  /\ free_list = <<>>
  /\ next_bump = 0
  /\ style \in Styles

Allowed(s) == Mixed \/ style = s

\* The value is written and the slot marked, whatever it held before.
Occupy(s, v) ==
  /\ data' = [x \in DOMAIN data \cup {s} |-> IF x = s THEN v ELSE data[x]]
  /\ len' = len + 1

\* alloc pops the free list.
AllocFreed(v) ==
  /\ Allowed("alloc") /\ free_list # <<>>
  /\ Occupy(free_list[Len(free_list)], v)
  /\ free_list' = SubSeq(free_list, 1, Len(free_list) - 1)
  /\ UNCHANGED <<next_bump, style>>

\* The slot is read off the list but stays on it.
AllocFreed_peek(v) ==
  /\ Allowed("alloc") /\ free_list # <<>>
  /\ Occupy(free_list[Len(free_list)], v)
  /\ UNCHANGED <<free_list, next_bump, style>>

\* alloc takes a slot never used; when there is none either, it returns None.
AllocFresh(v) ==
  /\ Allowed("alloc") /\ free_list = <<>> /\ next_bump < CAPACITY
  /\ Occupy(next_bump, v)
  /\ next_bump' = next_bump + 1
  /\ UNCHANGED <<free_list, style>>

\* The bump pointer stays behind a slot beyond it.
InsertAt_no_bump(s, v) ==
  /\ Allowed("insert_at")
  /\ s < CAPACITY /\ s \notin DOMAIN data
  /\ Occupy(s, v)
  /\ UNCHANGED <<next_bump, free_list, style>>

\* insert_at: an occupied slot and one out of range are refused; the free list
\* is not looked at.
InsertAt(s, v) ==
  /\ Allowed("insert_at")
  /\ s < CAPACITY /\ s \notin DOMAIN data
  /\ Occupy(s, v)
  /\ next_bump' = IF s >= next_bump THEN s + 1 ELSE next_bump
  /\ UNCHANGED <<free_list, style>>

\* A vacant slot is freed again.
Remove_unchecked(s) ==
  /\ s < next_bump
  /\ data' = [x \in DOMAIN data \ {s} |-> data[x]]
  /\ len' = IF s \in DOMAIN data THEN len - 1 ELSE len
  /\ free_list' = IF Len(free_list) < CAPACITY THEN Append(free_list, s)
                                              ELSE free_list
  /\ UNCHANGED <<next_bump, style>>

\* dealloc and remove: the slot goes on the free list while there is room.
Remove(s) ==
  /\ s \in DOMAIN data
  /\ data' = [x \in DOMAIN data \ {s} |-> data[x]]
  /\ len' = len - 1
  /\ free_list' = IF Len(free_list) < CAPACITY THEN Append(free_list, s)
                                              ELSE free_list
  /\ UNCHANGED <<next_bump, style>>

Next ==
  \/ \E v \in Values : AllocFreed(v) \/ AllocFresh(v)
  \/ \E s \in Slots, v \in Values : InsertAt(s, v)
  \/ \E s \in Slots : Remove(s)

Spec == Init /\ [][Next]_vars

-----------------------------------------------------------------------------
\* The fields have their types; the free list never outgrows its array.
TypeOK ==
  /\ DOMAIN data \subseteq Slots
  /\ \A s \in DOMAIN data : data[s] \in Values
  /\ len \in Int
  /\ free_list \in Seq(Slots) /\ Len(free_list) <= CAPACITY
  /\ next_bump \in 0 .. CAPACITY
  /\ style \in Styles

OnFreeList(s) == \E k \in 1 .. Len(free_list) : free_list[k] = s

\* A slot below the bump pointer is either live or on the free list, once: no
\* slot leaks, none is handed out twice, and alloc returns None only when
\* every slot is live.  This is what alloc's debug_assert relies on, for an
\* arena that is not also used through insert_at.
FreeListExact ==
  style = "alloc" /\ ~Mixed =>
    /\ \A s \in Slots : s < next_bump <=> (s \in DOMAIN data \/ OnFreeList(s))
    /\ \A s \in DOMAIN data : ~OnFreeList(s)
    /\ \A j, k \in 1 .. Len(free_list) : free_list[j] = free_list[k] => j = k

\* clone and the iterators stop at the bump pointer, and arena_serde writes len
\* as the length of what they yield: both see every live slot.
IterationSeesAll ==
  DOMAIN data \subseteq 0 .. next_bump - 1 /\ len = Cardinality(DOMAIN data)

=============================================================================
