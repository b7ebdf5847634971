---------------------------- MODULE BoundedQueue ----------------------------
(***************************************************************************)
(* What RingBuffer<T> promises its owner: a first-in first-out queue of at *)
(* most cap elements that hands a rejected element back and takes every    *)
(* accepted one over until it is popped.                                   *)
(***************************************************************************)
EXTENDS Naturals, Sequences

CONSTANTS Item, Capacities

VARIABLES
  phase,    \* "none", "live", "panicked" or "gone"
  cap,      \* the number of slots
  q,        \* the elements in the queue, oldest first
  outside,  \* the elements the caller owns
  ret       \* the result of the last call

vars == <<phase, cap, q, outside, ret>>

Init ==
  /\ phase = "none" /\ cap = 0 /\ q = <<>>
  /\ outside = Item
  /\ ret = <<"unit">>

Create(c) ==
  /\ phase = "none"
  /\ c > 0
  /\ phase' = "live" /\ cap' = c
  /\ UNCHANGED <<q, outside, ret>>

Refuse ==
  /\ phase = "none"
  /\ phase' = "panicked"
  /\ UNCHANGED <<cap, q, outside, ret>>

Enqueue(x) ==
  /\ phase = "live" /\ x \in outside
  /\ Len(q) < cap
  /\ q' = Append(q, x)
  /\ outside' = outside \ {x}
  /\ ret' = <<"ok">>
  /\ UNCHANGED <<phase, cap>>

Reject(x) ==
  /\ phase = "live" /\ x \in outside
  /\ Len(q) = cap
  /\ ret' = <<"err", x>>
  /\ UNCHANGED <<phase, cap, q, outside>>

Dequeue ==
  /\ phase = "live"
  /\ q # <<>>
  /\ ret' = <<"some", Head(q)>>
  /\ outside' = outside \cup {Head(q)}
  /\ q' = Tail(q)
  /\ UNCHANGED <<phase, cap>>

Nothing ==
  /\ phase = "live"
  /\ q = <<>>
  /\ ret' = <<"none">>
  /\ UNCHANGED <<phase, cap, q, outside>>

Destroy ==
  /\ phase = "live"
  /\ phase' = "gone" /\ q' = <<>>
  /\ UNCHANGED <<cap, outside, ret>>

Next ==
  \/ \E c \in Capacities : Create(c)
  \/ Refuse
  \/ \E x \in Item : Enqueue(x) \/ Reject(x)
  \/ Dequeue \/ Nothing \/ Destroy

Spec == Init /\ [][Next]_vars
=============================================================================
