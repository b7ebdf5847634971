----------------------------- MODULE Coroutines -----------------------------
(***************************************************************************)
(* The stackful coroutines of 09-stackful_croutines_ucontext_t/main.c and  *)
(* the program around them.  There is one thread; a step is the code       *)
(* between two switches of context.                                        *)
(*                                                                         *)
(* What a saved ucontext_t is good for is modelled: it can be resumed once *)
(* per save, because the code that then runs goes on using the stack below *)
(* it.  Resuming one a second time is undefined.  uc_link of every         *)
(* coroutine is done_ctx, whose uc_link is sched_ctx.  A coroutine         *)
(* function is modelled by the number of times it yields; worker yields 3  *)
(* times.  malloc of a stack succeeds (its result is not checked).         *)
(***************************************************************************)
EXTENDS Integers, Sequences, FiniteSets, FiniteSetsExt

CONSTANTS
  MAX_COROUTINES,  \* length of the array coros
  Spawns,          \* calls of coro_spawn by main
  YieldCounts      \* how often the functions given to coro_spawn may yield

ASSUME SpawnsAssumption ==
  /\ MAX_COROUTINES \in Nat
  /\ Spawns \in 1 .. MAX_COROUTINES   \* coro_spawn does not check its bound
ASSUME YieldAssumption == YieldCounts \subseteq Nat

VARIABLES
  pc,          \* where the thread is, see Places
  coro_count, current, completed_coro,
  state,       \* coros[c].state
  ctx,         \* the coroutine whose saved context coros[c].ctx holds, or None
  stack,       \* coros[c].stack: "null", "heap" or "freed"
  left,        \* how often coroutine c still yields
  running,     \* the coroutine on whose stack the thread is, or None
  done_ctx,    \* "unset", "fresh" or "used"
  sched_ctx    \* "unset", "fresh" or "used"

coros == <<state, ctx, stack, left>>
vars == <<pc, coro_count, current, completed_coro, coros, running,
          done_ctx, sched_ctx>>

None == -1
Coro == 0 .. MAX_COROUTINES - 1
States == {"CORO_READY", "CORO_RUNNING", "CORO_DONE"}
Context == {"unset", "fresh", "used"}

\* main before and while it spawns; the test of scheduler_run's loop; the
\* return from its swapcontext; a coroutine function; finish_trampoline;
\* free_coros_stacks; the end of main; anything, after undefined behaviour.
Places == {"start", "spawn", "loop", "back", "coro", "trampoline",
           "free", "exit", "undefined"}

TypeOK ==
  /\ pc \in Places
  /\ coro_count \in 0 .. Spawns
  /\ current \in Coro \cup {None}
  /\ completed_coro \in 0 .. Spawns
  /\ state \in [Coro -> States]
  /\ ctx \in [Coro -> Coro \cup {None}]
  /\ stack \in [Coro -> {"null", "heap", "freed"}]
  /\ left \in [Coro -> Nat]
  /\ running \in Coro \cup {None}
  /\ done_ctx \in Context /\ sched_ctx \in Context

\* The array is static, its bytes are zero: CORO_READY is the first state.
Init ==
  /\ pc = "start"
  /\ coro_count = 0 /\ current = -1 /\ completed_coro = 0
  /\ state = [c \in Coro |-> "CORO_READY"]
  /\ ctx = [c \in Coro |-> None]
  /\ stack = [c \in Coro |-> "null"]
  /\ left = [c \in Coro |-> 0]
  /\ running = None
  /\ done_ctx = "unset" /\ sched_ctx = "unset"

-----------------------------------------------------------------------------
(* main up to the call of scheduler_run.                                   *)

done_spawn == done_ctx' = "fresh"

MainStart ==
  /\ pc = "start"
  /\ done_spawn
  /\ pc' = "spawn"
  /\ UNCHANGED <<coro_count, current, completed_coro, coros, running, sched_ctx>>

\* Mutant: main spawns once too often.
coro_spawn_again(yields) ==
  /\ pc = "spawn" /\ coro_count <= Spawns
  /\ ctx' = [ctx EXCEPT ![coro_count] = coro_count]
  /\ state' = [state EXCEPT ![coro_count] = "CORO_READY"]
  /\ stack' = [stack EXCEPT ![coro_count] = "heap"]
  /\ left' = [left EXCEPT ![coro_count] = yields]
  /\ coro_count' = coro_count + 1
  /\ UNCHANGED <<pc, current, completed_coro, running, done_ctx, sched_ctx>>

coro_spawn(yields) ==
  /\ pc = "spawn" /\ coro_count < Spawns
  /\ ctx' = [ctx EXCEPT ![coro_count] = coro_count]
  /\ state' = [state EXCEPT ![coro_count] = "CORO_READY"]
  /\ stack' = [stack EXCEPT ![coro_count] = "heap"]
  /\ left' = [left EXCEPT ![coro_count] = yields]
  /\ coro_count' = coro_count + 1
  /\ UNCHANGED <<pc, current, completed_coro, running, done_ctx, sched_ctx>>

MainRun ==
  /\ pc = "spawn" /\ coro_count = Spawns
  /\ pc' = "loop" /\ completed_coro' = 0
  /\ UNCHANGED <<coro_count, current, coros, running, done_ctx, sched_ctx>>

-----------------------------------------------------------------------------
(* scheduler_run.  The coroutines are tried from the one after current on, *)
(* around the array, current itself last.                                  *)

Ready == {k \in 1 .. coro_count :
            state[(current + k) % coro_count] = "CORO_READY"}

\* Mutant: the scan always starts at the first coroutine.
LowestReady == IF Ready = {} THEN current
               ELSE Min({(current + k) % coro_count : k \in Ready})

\* The coroutine the scan stops at; current if none is ready.
NextReady == IF Ready = {} THEN current
             ELSE (current + Min(Ready)) % coro_count

Resume ==
  /\ pc = "loop" /\ completed_coro < coro_count
  /\ current' = NextReady
  /\ state' = [state EXCEPT ![NextReady] = "CORO_RUNNING"]
  /\ sched_ctx' = "fresh"
  /\ running' = ctx[NextReady]
  /\ ctx' = [ctx EXCEPT ![NextReady] = None]
  /\ pc' = IF running' # None /\ stack[NextReady] = "heap"
             THEN "coro" ELSE "undefined"
  /\ UNCHANGED <<coro_count, completed_coro, stack, left, done_ctx>>

\* swapcontext returns because the coroutine's function has returned ...
\* Mutant: done_ctx is set up once, in main.
BackDoneOnce ==
  /\ pc = "back" /\ state[current] = "CORO_DONE"
  /\ completed_coro' = completed_coro + 1
  /\ pc' = "loop"
  /\ UNCHANGED <<coro_count, current, coros, running, done_ctx, sched_ctx>>

BackDone ==
  /\ pc = "back" /\ state[current] = "CORO_DONE"
  /\ completed_coro' = completed_coro + 1
  /\ done_spawn
  /\ pc' = "loop"
  /\ UNCHANGED <<coro_count, current, coros, running, sched_ctx>>

\* ... or because it has yielded.
\* Mutants: it is counted as completed; its state stays CORO_RUNNING.
BackYieldedCounted ==
  /\ pc = "back" /\ state[current] # "CORO_DONE"
  /\ state' = [state EXCEPT ![current] = "CORO_READY"]
  /\ completed_coro' = completed_coro + 1
  /\ pc' = "loop"
  /\ UNCHANGED <<coro_count, current, ctx, stack, left, running,
                 done_ctx, sched_ctx>>
BackYieldedRunning ==
  /\ pc = "back" /\ state[current] # "CORO_DONE"
  /\ pc' = "loop"
  /\ UNCHANGED <<coro_count, current, completed_coro, coros, running,
                 done_ctx, sched_ctx>>

BackYielded ==
  /\ pc = "back" /\ state[current] # "CORO_DONE"
  /\ state' = [state EXCEPT ![current] = "CORO_READY"]
  /\ pc' = "loop"
  /\ UNCHANGED <<coro_count, current, completed_coro, ctx, stack, left,
                 running, done_ctx, sched_ctx>>

SchedulerReturns ==
  /\ pc = "loop" /\ completed_coro >= coro_count
  /\ pc' = "free"
  /\ UNCHANGED <<coro_count, current, completed_coro, coros, running,
                 done_ctx, sched_ctx>>

-----------------------------------------------------------------------------
(* The coroutine functions and what they call.                             *)

\* setcontext(&sched_ctx): the scheduler goes on after its swapcontext.
ToScheduler ==
  /\ pc' = IF sched_ctx = "fresh" THEN "back" ELSE "undefined"
  /\ sched_ctx' = "used"
  /\ running' = None

\* Mutant: the loop around the yield does not advance.
coro_yield_forever ==
  /\ pc = "coro" /\ left[running] > 0
  /\ ctx' = [ctx EXCEPT ![current] = running]
  /\ ToScheduler
  /\ UNCHANGED <<coro_count, current, completed_coro, state, stack, left,
                 done_ctx>>

\* A coroutine function yields.
coro_yield ==
  /\ pc = "coro" /\ left[running] > 0
  /\ left' = [left EXCEPT ![running] = @ - 1]
  /\ ctx' = [ctx EXCEPT ![current] = running]
  /\ ToScheduler
  /\ UNCHANGED <<coro_count, current, completed_coro, state, stack, done_ctx>>

\* The function returns: its uc_link is resumed, on done_stack.
Return ==
  /\ pc = "coro" /\ left[running] = 0
  /\ pc' = IF done_ctx = "fresh" THEN "trampoline" ELSE "undefined"
  /\ done_ctx' = "used"
  /\ running' = None
  /\ UNCHANGED <<coro_count, current, completed_coro, coros, sched_ctx>>

finish_trampoline ==
  /\ pc = "trampoline"
  /\ state' = [state EXCEPT ![current] = "CORO_DONE"]
  /\ ToScheduler
  /\ UNCHANGED <<coro_count, current, completed_coro, ctx, stack, left,
                 done_ctx>>

-----------------------------------------------------------------------------
(* The end of main: "all coroutines finished".                             *)

free_coros_stacks ==
  /\ pc = "free"
  /\ stack' = [c \in Coro |-> IF c < coro_count THEN "freed" ELSE stack[c]]
  /\ pc' = "exit"
  /\ UNCHANGED <<coro_count, current, completed_coro, state, ctx, left, running,
                 done_ctx, sched_ctx>>

\* The process is over, or nothing can be said of it any more.
Over == pc \in {"exit", "undefined"} /\ UNCHANGED vars

Step ==
  \/ MainStart
  \/ \E yields \in YieldCounts : coro_spawn(yields)
  \/ MainRun
  \/ Resume \/ BackDone \/ BackYielded \/ SchedulerReturns
  \/ coro_yield \/ Return \/ finish_trampoline
  \/ free_coros_stacks

Next == Step \/ Over

Spec == Init /\ [][Next]_vars

\* The operating system keeps running the one thread.
FairSpec == Spec /\ WF_vars(Step)

-----------------------------------------------------------------------------
(* Properties.                                                             *)

(* No switch of context goes wrong: whenever the scheduler, coro_yield, a  *)
(* returning function or the trampoline resumes a context (main.c 40, 50,  *)
(* 61, 75), it was saved or made since it was last resumed, by the         *)
(* coroutine it belongs to, and its stack has not been freed.              *)
NoBadSwitch == pc # "undefined"

(* The code that runs agrees with the tables: the thread is on the stack   *)
(* of coroutine current, which alone is CORO_RUNNING, so coro_yield and    *)
(* the trampoline (main.c 40, 102) touch the entry of the coroutine that   *)
(* called them; every other unfinished coroutine has a context of its own  *)
(* to continue from.                                                       *)
CurrentRuns ==
  /\ pc = "coro" => running = current
  /\ pc \in {"coro", "trampoline"} =>
       \A c \in 0 .. coro_count - 1 :
         (state[c] = "CORO_RUNNING") <=> (c = current)
  /\ pc = "loop" => \A c \in 0 .. coro_count - 1 :
                      state[c] = "CORO_READY" => ctx[c] = c

(* The count by which scheduler_run stops is right: the coroutines marked  *)
(* CORO_DONE are counted once each (main.c 67, 77), and when the stacks    *)
(* are freed every coroutine has returned.                                 *)
CountedOnce ==
  LET Done == {c \in Coro : state[c] = "CORO_DONE"}
  IN /\ pc \in {"loop", "coro", "trampoline"} =>
          completed_coro = Cardinality(Done)
     /\ pc \in {"free", "exit"} => Done = 0 .. Spawns - 1

(* No stack is leaked: main ends with none of them allocated (criterion 4  *)
(* of the challenge).                                                      *)
NoStackLeaked == pc = "exit" => \A c \in Coro : stack[c] # "heap"

(* The scheduler ends when it should and main cleans up after it.          *)
CompletionOK == CountedOnce /\ NoStackLeaked

\* The n-th smallest number of a set.
Nth(S, n) == CHOOSE k \in S : Cardinality({j \in S : j <= k}) = n

(* The scan over the states is a first-in first-out queue: the coroutines  *)
(* that are ready, in the order in which the scan meets them.              *)
Waiting == [n \in 1 .. Cardinality(Ready) |->
              (current + Nth(Ready, n)) % coro_count]

Turn == IF pc \in {"coro", "trampoline", "back"} THEN {current} ELSE {}

Scheduler == INSTANCE RoundRobin WITH
  queue <- Waiting,
  active <- Turn,
  finished <- {c \in Coro : state[c] = "CORO_DONE"} \ Turn

(* Round robin: scheduler_run implements the queue, so between two turns   *)
(* of a coroutine every other unfinished one has exactly one (criterion 2).*)
FairTurns == Scheduler!Spec

(* The program ends: every coroutine gets to run until it returns and      *)
(* "all coroutines finished" is printed.                                   *)
Termination == <>(pc = "exit")
=============================================================================
