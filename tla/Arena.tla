------------------------------- MODULE Arena -------------------------------
(***************************************************************************)
(* The bump allocator of 01-arena_allocator/arena.c and a caller that, as  *)
(* main.c does, allocates blocks of several sizes and alignments, keeps    *)
(* them until it resets the arena and starts again.  Addresses and sizes   *)
(* are machine words: arithmetic is modulo Word, the number of values of   *)
(* size_t and uintptr_t.                                                   *)
(***************************************************************************)
EXTENDS Integers, FiniteSets

CONSTANTS
  Word,        \* 2^64
  Bases,       \* the addresses VirtualAlloc may return
  Capacities,  \* what arena_create is called with
  Header,      \* sizeof(Arena)
  Sizes,       \* what arena_alloc is called with: numbers of bytes ...
  Aligns       \* ... and alignments, powers of two

ASSUME WordAssumption == Word \in Nat \ {0} /\ Header \in Nat
ASSUME ArgumentAssumption ==
  /\ Bases \subseteq 1 .. Word - 1 /\ Capacities \subseteq 0 .. Word - 1
  /\ Sizes \subseteq 0 .. Word - 1 /\ Aligns \subseteq 1 .. Word - 1
\* The region, header included, ends below the top of the address space.
ASSUME RegionAssumption ==
  \A b \in Bases, n \in Capacities : b + n < Word /\ b + Header < Word

VARIABLES
  phase,     \* "none", "live", "failed" or "destroyed"
  base, capacity, offset,   \* the fields of the Arena, in the region itself
  allocs     \* the blocks handed out since the arena was created or reset

fields == <<base, capacity, offset>>
arena_vars == <<phase, fields, allocs>>

Block == [ptr : 0 .. Word - 1, size : Sizes, align : Aligns]

ArenaTypeOK ==
  /\ phase \in {"none", "live", "failed", "destroyed"}
  /\ base \in 0 .. Word - 1 /\ capacity \in 0 .. Word - 1
  /\ offset \in 0 .. Word - 1
  /\ offset <= capacity \/ offset = Header
  /\ allocs \subseteq Block

ArenaInit ==
  /\ phase = "none"
  /\ base = 0 /\ capacity = 0 /\ offset = 0
  /\ allocs = {}

arena_create(b, n) ==
  /\ phase = "none"
  /\ n # 0              \* VirtualAlloc fails for no bytes
  /\ phase' = "live"
  /\ base' = b /\ capacity' = n /\ offset' = Header
  /\ UNCHANGED allocs

\* VirtualAlloc returns NULL, and so does arena_create.
arena_create_fails ==
  /\ phase = "none"
  /\ phase' = "failed"
  /\ UNCHANGED <<fields, allocs>>

\* (x + align - 1) & ~(align - 1): clearing the low bits of a power of two.
Aligned(x, align) ==
  LET y == (x + align - 1) % Word IN y - (y % align)

Bump(align) == Aligned((base + offset) % Word, align)

\* Mutant: the padding before the block is not counted.
NewOffsetUnpadded(size, align) == (offset + size) % Word

NewOffset(size, align) == (((Bump(align) - base) % Word) + size) % Word

arena_alloc(size, align) ==
  /\ phase = "live"
  /\ NewOffset(size, align) <= capacity
  /\ offset' = NewOffset(size, align)
  /\ allocs' = allocs \cup {[ptr |-> Bump(align), size |-> size,
                             align |-> align]}
  /\ UNCHANGED <<phase, base, capacity>>

\* arena_alloc returns NULL.
arena_alloc_fails(size, align) ==
  /\ phase = "live"
  /\ NewOffset(size, align) > capacity
  /\ UNCHANGED arena_vars

arena_reset ==
  /\ phase = "live"
  /\ offset' = Header /\ allocs' = {}
  /\ UNCHANGED <<phase, base, capacity>>

\* The region is gone, its header and the blocks with it.
arena_destroy ==
  /\ phase = "live"
  /\ phase' = "destroyed" /\ allocs' = {}
  /\ UNCHANGED fields

Over == phase \in {"failed", "destroyed"} /\ UNCHANGED arena_vars

ArenaNext ==
  \/ \E b \in Bases, n \in Capacities : arena_create(b, n)
  \/ arena_create_fails
  \/ \E size \in Sizes, align \in Aligns :
       arena_alloc(size, align) \/ arena_alloc_fails(size, align)
  \/ arena_reset \/ arena_destroy
  \/ Over

ArenaSpec == ArenaInit /\ [][ArenaNext]_arena_vars

-----------------------------------------------------------------------------
(* Properties.                                                             *)

(* Every block lies in the region, after the header, with all its bytes    *)
(* (arena.c 39-40; arena.h 16, "Returns NULL if the arena is exhausted").  *)
InArena ==
  \A a \in allocs : base + Header <= a.ptr /\ a.ptr + a.size <= base + capacity

(* No two blocks overlap: what main.c's loop counts as overlaps is 0 after *)
(* any sequence of calls.                                                  *)
Disjoint ==
  \A a, b \in allocs :
    \/ a.ptr + a.size <= b.ptr
    \/ b.ptr + b.size <= a.ptr
    \/ a = b

(* Every block has the alignment that was asked for (main.c 21).           *)
AllAligned == \A a \in allocs : a.ptr % a.align = 0

(* What the caller of arena_alloc relies on, after any sequence of calls.  *)
BlocksOK == InArena /\ Disjoint /\ AllAligned
=============================================================================
