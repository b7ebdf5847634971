--------------------------- MODULE AbstractStack ---------------------------
(***************************************************************************)
(* What class TreiberStack promises its callers: push and pop take effect  *)
(* at one instant between call and return, pops take the values pushed in  *)
(* last-in first-out order, and a pop that answers std::nullopt did so at  *)
(* an instant of its call at which the stack was empty.  The clients are   *)
(* the producer and consumer functions of the stress test.                 *)
(***************************************************************************)
EXTENDS Naturals, Sequences

CONSTANTS Producers, Consumers, StressN

VARIABLES
  stack,    \* the values on the stack, top first
  pushed,   \* pushed[p]: how many values producer p has pushed
  phase,    \* phase[c]: "idle", "called" (inside pop) or "served"
  res,      \* res[c]: what pop answers to c, {} for std::nullopt, else {v}
  got       \* got[c]: the values consumer c has received

vars == <<stack, pushed, phase, res, got>>

Init ==
  /\ stack = <<>>
  /\ pushed = [p \in Producers |-> 0]
  /\ phase = [c \in Consumers |-> "idle"]
  /\ res = [c \in Consumers |-> {}]
  /\ got = [c \in Consumers |-> {}]

Push(p) ==
  /\ pushed[p] < StressN
  /\ stack' = << <<p, pushed[p]>> >> \o stack
  /\ pushed' = [pushed EXCEPT ![p] = @ + 1]
  /\ UNCHANGED <<phase, res, got>>

Call(c) ==
  /\ phase[c] = "idle"
  /\ phase' = [phase EXCEPT ![c] = "called"]
  /\ UNCHANGED <<stack, pushed, res, got>>

PopTop(c) ==
  /\ phase[c] = "called"
  /\ stack # <<>>
  /\ phase' = [phase EXCEPT ![c] = "served"]
  /\ res' = [res EXCEPT ![c] = {Head(stack)}]
  /\ stack' = Tail(stack)
  /\ UNCHANGED <<pushed, got>>

PopEmpty(c) ==
  /\ phase[c] = "called"
  /\ stack = <<>>
  /\ phase' = [phase EXCEPT ![c] = "served"]
  /\ res' = [res EXCEPT ![c] = {}]
  /\ UNCHANGED <<stack, pushed, got>>

Return(c) ==
  /\ phase[c] = "served"
  /\ phase' = [phase EXCEPT ![c] = "idle"]
  /\ got' = [got EXCEPT ![c] = @ \cup res[c]]
  /\ res' = [res EXCEPT ![c] = {}]
  /\ UNCHANGED <<stack, pushed>>

Next ==
  \/ \E p \in Producers : Push(p)
  \/ \E c \in Consumers : Call(c) \/ PopTop(c) \/ PopEmpty(c) \/ Return(c)

Spec == Init /\ [][Next]_vars
=============================================================================
