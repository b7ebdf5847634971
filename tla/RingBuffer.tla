----------------------------- MODULE RingBuffer -----------------------------
(***************************************************************************)
(* RingBuffer<T> of 13-heap_ring_buffer/src/lib.rs, from new to drop, and  *)
(* a caller that owns a set of elements and pushes and pops in any order.  *)
(* Elements are objects that are moved: push takes one from the caller,    *)
(* pop gives one back.  Reading a slot copies its bits and leaves them     *)
(* there, so a popped element's bits stay in the array until overwritten.  *)
(* Layout::array limits the capacity to isize::MAX bytes, so no index      *)
(* computation overflows usize and indices are natural numbers here.       *)
(***************************************************************************)
EXTENDS Integers, Sequences

CONSTANTS
  Item,         \* the elements
  Capacities,   \* the capacities new is called with
  MaxCap,       \* the largest capacity whose Layout does not overflow
  Uninit        \* the content of a slot never written

ASSUME CapacityAssumption == Capacities \subseteq Nat /\ MaxCap \in Nat
ASSUME UninitAssumption == Uninit \notin Item

VARIABLES
  phase,      \* "none", "live", "dropping", "gone" or "panicked"
  buf,        \* the slots
  cap, head, tail, len,
  i,          \* the loop variable of drop
  outside,    \* the elements the caller owns
  destroyed,  \* the elements whose destructor has run
  ret         \* what the last call of push or pop returned

fields == <<buf, cap, head, tail, len>>
vars == <<phase, fields, i, outside, destroyed, ret>>

TypeOK ==
  /\ phase \in {"none", "live", "dropping", "gone", "panicked"}
  /\ cap \in Nat
  /\ buf \in [0 .. cap - 1 -> Item \cup {Uninit}]
  /\ head \in Nat /\ tail \in Nat
  /\ len \in 0 .. cap /\ i \in 0 .. len
  /\ outside \subseteq Item /\ destroyed \subseteq Item
  /\ ret \in {<<"unit">>, <<"ok">>, <<"none">>} \cup ({"err", "some"} \X Item)

NoSlots == [k \in 0 .. 0 - 1 |-> Uninit]

Init ==
  /\ phase = "none"
  /\ buf = NoSlots
  /\ cap = 0 /\ head = 0 /\ tail = 0 /\ len = 0 /\ i = 0
  /\ outside = Item /\ destroyed = {}
  /\ ret = <<"unit">>

is_empty == len = 0
\* Mutant: one slot is kept free.
is_full_early == len = cap - 1
is_full == len = cap

\* The allocator may return null for any layout.
NewPanics ==
  /\ phase = "none"
  /\ phase' = "panicked"
  /\ UNCHANGED <<fields, i, outside, destroyed, ret>>

New(capacity) ==
  /\ phase = "none"
  /\ capacity # 0 /\ capacity <= MaxCap
  /\ phase' = "live"
  /\ buf' = [k \in 0 .. capacity - 1 |-> Uninit]
  /\ cap' = capacity
  /\ UNCHANGED <<head, tail, len, i, outside, destroyed, ret>>

Push(val) ==
  /\ phase = "live" /\ val \in outside
  /\ ~ is_full
  /\ buf' = [buf EXCEPT ![head] = val]
  /\ head' = (head + 1) % cap
  /\ len' = len + 1
  /\ outside' = outside \ {val}
  /\ ret' = <<"ok">>
  /\ UNCHANGED <<phase, cap, tail, i, destroyed>>

PushFull(val) ==
  /\ phase = "live" /\ val \in outside
  /\ is_full
  /\ ret' = <<"err", val>>
  /\ UNCHANGED <<phase, fields, i, outside, destroyed>>

\* Mutants: the read cursor is not advanced; emptiness is not checked.
PopKeepsTail ==
  /\ phase = "live"
  /\ ~ is_empty
  /\ ret' = <<"some", buf[tail]>>
  /\ outside' = outside \cup {buf[tail]}
  /\ len' = len - 1
  /\ UNCHANGED <<phase, buf, cap, head, tail, i, destroyed>>
PopUnchecked ==
  /\ phase = "live"
  /\ ret' = <<"some", buf[tail]>>
  /\ outside' = outside \cup {buf[tail]}
  /\ tail' = (tail + 1) % cap
  /\ len' = len - 1
  /\ UNCHANGED <<phase, buf, cap, head, i, destroyed>>

Pop ==
  /\ phase = "live"
  /\ ~ is_empty
  /\ ret' = <<"some", buf[tail]>>
  /\ outside' = outside \cup {buf[tail]}
  /\ tail' = (tail + 1) % cap
  /\ len' = len - 1
  /\ UNCHANGED <<phase, buf, cap, head, i, destroyed>>

PopEmpty ==
  /\ phase = "live"
  /\ is_empty
  /\ ret' = <<"none">>
  /\ UNCHANGED <<phase, fields, i, outside, destroyed>>

-----------------------------------------------------------------------------
(* drop.  The pointer's type is *mut MaybeUninit<T>, and MaybeUninit<T>    *)
(* never drops its content: drop_in_place destroys nothing.                *)

drop_in_place(slot) == {}

DropBegin ==
  /\ phase = "live"
  /\ phase' = "dropping" /\ i' = 0
  /\ UNCHANGED <<fields, outside, destroyed, ret>>

DropElement ==
  /\ phase = "dropping" /\ i < len
  /\ destroyed' = destroyed \cup drop_in_place((tail + i) % cap)
  /\ i' = i + 1
  /\ UNCHANGED <<phase, fields, outside, ret>>

DropDealloc ==
  /\ phase = "dropping" /\ i = len
  /\ phase' = "gone"
  /\ UNCHANGED <<fields, i, outside, destroyed, ret>>

\* The buffer's lifetime is over.
Over == phase \in {"gone", "panicked"} /\ UNCHANGED vars

Next ==
  \/ NewPanics
  \/ \E capacity \in Capacities : New(capacity)
  \/ \E val \in Item : Push(val) \/ PushFull(val)
  \/ Pop \/ PopEmpty
  \/ DropBegin \/ DropElement \/ DropDealloc
  \/ Over

Spec == Init /\ [][Next]_vars

-----------------------------------------------------------------------------
(* Properties.                                                             *)

\* The slot of the k-th oldest element, k = 0 .. len - 1.
Slot(k) == (tail + k) % cap

(* The cursors agree: both are indices of slots (lib.rs 8-9, "always < cap")*)
(* and head is len slots after tail, so len alone tells a full buffer from *)
(* an empty one when they meet.                                            *)
CursorsOK ==
  phase \notin {"none", "panicked"} =>
    /\ head < cap /\ tail < cap
    /\ head = (tail + len) % cap

(* Every element has one owner: the live slots, those drop has not passed  *)
(* yet, hold different elements, none of them uninitialized, in the        *)
(* caller's hands or destroyed, so pop and drop (lib.rs 51, 71) never      *)
(* produce an element a second time.                                       *)
SingleOwner ==
  /\ outside \cap destroyed = {}
  /\ \A k \in i .. len - 1 :
       /\ buf[Slot(k)] \in Item \ (outside \cup destroyed)
       /\ \A m \in i .. len - 1 : buf[Slot(k)] = buf[Slot(m)] => k = m

(* The two together: the cursors delimit the elements the buffer owns.     *)
OwnershipOK == CursorsOK /\ SingleOwner

(* drop destroys every live element: when the memory is gone no element is *)
(* lost, it is the caller's or its destructor has run.                     *)
NoElementLeaked == phase = "gone" => Item \subseteq outside \cup destroyed

(* The ring buffer implements the bounded queue: oldest first, Err(val)    *)
(* exactly when full, None exactly when empty.                             *)
Queue == INSTANCE BoundedQueue WITH
  phase <- IF phase = "dropping" THEN "live" ELSE phase,
  q <- IF phase \in {"live", "dropping"}
         THEN [k \in 1 .. len |-> buf[Slot(k - 1)]] ELSE <<>>

Fifo == Queue!Spec
=============================================================================
