----------------------------- MODULE RoundRobin -----------------------------
(***************************************************************************)
(* What scheduler_run promises: the coroutines that still have work wait   *)
(* in a first-in first-out queue, the one at its head runs until it yields *)
(* or returns, one that yields goes to the end of the queue, one that      *)
(* returns never runs again.                                               *)
(***************************************************************************)
EXTENDS Integers, Sequences

CONSTANT Spawns   \* how many coroutines are started, 0 .. Spawns - 1

VARIABLES
  queue,     \* the coroutines waiting for their turn
  active,    \* the coroutine that has the processor, in a set
  finished   \* the coroutines that have returned

vars == <<queue, active, finished>>

Init == queue = <<>> /\ active = {} /\ finished = {}

\* Coroutines are numbered in the order in which they are started.
Start ==
  /\ active = {} /\ finished = {}
  /\ Len(queue) < Spawns
  /\ queue' = Append(queue, Len(queue))
  /\ UNCHANGED <<active, finished>>

Resume ==
  /\ active = {} /\ queue # <<>>
  /\ active' = {Head(queue)} /\ queue' = Tail(queue)
  /\ UNCHANGED finished

Requeue ==
  \E c \in active :
    /\ queue' = Append(queue, c) /\ active' = {}
    /\ UNCHANGED finished

Retire ==
  /\ active # {}
  /\ finished' = finished \cup active /\ active' = {}
  /\ UNCHANGED queue

Next == Start \/ Resume \/ Requeue \/ Retire

Spec == Init /\ [][Next]_vars
=============================================================================
