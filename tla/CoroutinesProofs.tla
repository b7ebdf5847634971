-------------------------- MODULE CoroutinesProofs --------------------------
(***************************************************************************)
(* Proofs about Coroutines, for every number of coroutines that fits the   *)
(* array and every number of yields: no context is ever resumed wrongly,   *)
(* the scheduler's tables agree with the code that runs, it stops when and *)
(* only when every coroutine has returned, and it implements RoundRobin.   *)
(***************************************************************************)
EXTENDS Coroutines, FiniteSetTheorems, WellFoundedInduction,
        TLAPS

Spawned == 0 .. coro_count - 1
DoneSet == {c \in Coro : state[c] = "CORO_DONE"}

\* Where the thread can be when the globals have which values.
Control ==
  /\ pc \in {"start", "spawn"} =>
       current = -1 /\ completed_coro = 0 /\ DoneSet = {}
  /\ pc = "start" => coro_count = 0
  /\ pc \notin {"start", "spawn"} => coro_count = Spawns
  /\ current \in -1 .. coro_count - 1
  /\ pc \in {"coro", "trampoline", "back"} => current # -1
  /\ pc = "coro" => running = current

\* The contexts shared by all coroutines are fresh when they are needed.
Links ==
  /\ pc \in {"spawn", "loop", "coro"} => done_ctx = "fresh"
  /\ pc = "back" /\ state[current] # "CORO_DONE" => done_ctx = "fresh"
  /\ pc \in {"coro", "trampoline"} => sched_ctx = "fresh"

\* The entries of the array: at most the current one is running, and those
\* that are not running have, as long as they are not done, their context.
Entries ==
  /\ \A c \in Coro \ Spawned : stack[c] = "null" /\ state[c] = "CORO_READY"
  /\ pc \notin {"free", "exit"} => \A c \in Spawned : stack[c] = "heap"
  /\ pc = "exit" => \A c \in Spawned : stack[c] = "freed"
  /\ \A c \in Coro : state[c] = "CORO_RUNNING" =>
                       c = current /\ pc \in {"coro", "trampoline", "back"}
  /\ pc \in {"coro", "trampoline"} => state[current] = "CORO_RUNNING"
  /\ pc = "back" => state[current] # "CORO_READY"
  /\ \A c \in Spawned : state[c] = "CORO_READY" => ctx[c] = c
  /\ pc = "back" /\ state[current] = "CORO_RUNNING" => ctx[current] = current

\* completed_coro lags behind by one while the scheduler has not looked.
Count ==
  /\ pc = "back" => completed_coro = Cardinality(DoneSet \ {current})
  /\ pc # "back" => completed_coro = Cardinality(DoneSet)
  /\ pc \in {"free", "exit"} => DoneSet = 0 .. Spawns - 1

IInv == TypeOK /\ NoBadSwitch /\ Control /\ Links /\ Entries /\ Count

-----------------------------------------------------------------------------
(* A set of natural numbers that is not empty has a smallest element.      *)
LEMMA MinOfNaturals ==
  ASSUME NEW T \in SUBSET Nat, T # {}
  PROVE  Min(T) \in T /\ \A y \in T : Min(T) <= y
<1> DEFINE Less == OpToRel(<, Nat)
<1>1. \E x \in T : \A y \in T : <<y, x>> \notin Less
  <2>1. IsWellFoundedOn(Less, Nat)
    BY NatLessThanWellFounded
  <2> HIDE DEF Less
  <2> QED BY <2>1, WFMin
<1>2. \A x, y \in Nat : <<y, x>> \notin Less => x <= y
  BY DEF OpToRel
<1>3. \E x \in T : \A y \in T : x <= y
  BY <1>1, <1>2
<1> QED BY <1>3 DEF Min

(* The done coroutines are finitely many, all of them spawned.             *)
LEMMA DoneFinite ==
  ASSUME IInv
  PROVE  /\ DoneSet \subseteq Spawned
         /\ IsFiniteSet(DoneSet) /\ Cardinality(DoneSet) \in 0 .. coro_count
         /\ Cardinality(DoneSet) = coro_count => DoneSet = Spawned
<1>1. coro_count \in 0 .. Spawns /\ Spawns \in Nat /\ coro_count \in Nat
  BY SpawnsAssumption DEF IInv, TypeOK
<1>2. DoneSet \subseteq Spawned
  BY DEF IInv, Entries, DoneSet
<1>3. IsFiniteSet(Spawned) /\ Cardinality(Spawned) = coro_count
  BY <1>1, FS_Interval DEF Spawned
<1>4. /\ IsFiniteSet(DoneSet) /\ Cardinality(DoneSet) <= coro_count
      /\ Cardinality(DoneSet) = coro_count => DoneSet = Spawned
  BY <1>2, <1>3, FS_Subset
<1>5. Cardinality(DoneSet) \in Nat
  BY <1>4, FS_CardinalityType
<1> QED BY <1>1, <1>2, <1>4, <1>5

(* While a coroutine is left to complete, the scan stops at a ready one.   *)
LEMMA NextReadyProperties ==
  ASSUME IInv, pc = "loop", completed_coro < coro_count
  PROVE  NextReady \in Spawned /\ state[NextReady] = "CORO_READY"
<1>1. /\ coro_count = Spawns /\ coro_count \in Nat \ {0}
      /\ current \in -1 .. coro_count - 1
      /\ state \in [Coro -> States] /\ Spawned \subseteq Coro
  BY SpawnsAssumption DEF IInv, TypeOK, Control, Spawned, Coro
<1>2. PICK c \in Spawned : c \notin DoneSet
  <2>1. Cardinality(DoneSet) # coro_count
    BY <1>1 DEF IInv, Count, TypeOK
  <2>2. IsFiniteSet(Spawned) /\ Cardinality(Spawned) = coro_count
    BY <1>1, FS_Interval DEF Spawned
  <2>3. DoneSet # Spawned
    BY <2>1, <2>2
  <2> QED BY <2>3, DoneFinite
<1>3. state[c] = "CORO_READY"
  BY <1>1, <1>2 DEF IInv, Entries, DoneSet, States
<1>4. \A k \in 1 .. coro_count :
        (current + k) % coro_count =
          IF current + k < coro_count THEN current + k
                                      ELSE current + k - coro_count
  <2> TAKE k \in 1 .. coro_count
  <2>1. current + k \in 0 .. 2 * coro_count - 1
    BY <1>1
  <2> QED BY <1>1, <2>1
<1>5. Ready # {}
  <2> DEFINE k == IF c > current THEN c - current ELSE c - current + coro_count
  <2>1. k \in 1 .. coro_count /\ (current + k) % coro_count = c
    BY <1>1, <1>2, <1>4 DEF Spawned
  <2> QED BY <2>1, <1>3 DEF Ready
<1>6. Min(Ready) \in Ready
  <2>1. Ready \in SUBSET Nat
    BY DEF Ready
  <2> QED BY <1>5, <2>1, MinOfNaturals
<1>7. NextReady = (current + Min(Ready)) % coro_count
  BY <1>5 DEF NextReady
<1>8. Min(Ready) \in 1 .. coro_count /\ state[NextReady] = "CORO_READY"
  BY <1>6, <1>7 DEF Ready
<1>9. NextReady \in Spawned
  BY <1>1, <1>4, <1>7, <1>8 DEF Spawned
<1> QED BY <1>8, <1>9

-----------------------------------------------------------------------------
(* Initially and after every step the invariant holds.                     *)
LEMMA Initially == Init => IInv
<1> SUFFICES ASSUME Init PROVE IInv
  OBVIOUS
<1>1. TypeOK
  BY SpawnsAssumption
  DEF Init, TypeOK, Places, Coro, States, Context, None
<1>2. DoneSet = {}
  BY DEF Init, DoneSet
<1>3. Cardinality({}) = 0
  BY FS_EmptySet
<1>4. NoBadSwitch /\ Control /\ Links /\ Count
  BY <1>2, <1>3 DEF Init, NoBadSwitch, Control, Links, Count
<1>5. Entries
  BY DEF Init, Entries, Spawned
<1> QED BY <1>1, <1>4, <1>5 DEF IInv

(* The first done_spawn of main arms done_ctx and changes no entry.        *)
LEMMA MainStartStep == IInv /\ MainStart => IInv'
<1> SUFFICES ASSUME IInv, MainStart PROVE IInv'
  OBVIOUS
<1> USE DEF IInv, MainStart, done_spawn, coros
<1>1. TypeOK' /\ NoBadSwitch'
  BY DEF TypeOK, Places, Context, NoBadSwitch
<1>2. DoneSet' = DoneSet /\ Spawned' = Spawned
  BY DEF DoneSet, Spawned
<1>3. Control' /\ Links' /\ Count'
  BY <1>2 DEF Control, Links, Count
<1>4. Entries'
  BY <1>2 DEF Entries
<1> QED BY <1>1, <1>3, <1>4

(* coro_spawn fills an entry no state test has met yet: it is CORO_READY.  *)
LEMMA SpawnStep ==
  ASSUME IInv, NEW yields \in YieldCounts, coro_spawn(yields)
  PROVE  IInv'
<1> USE DEF IInv, coro_spawn
<1>1. /\ coro_count \in 0 .. Spawns - 1 /\ coro_count \in Coro
      /\ Spawns \in Nat /\ coro_count \in Nat
  BY SpawnsAssumption DEF TypeOK, Coro
<1>2. TypeOK' /\ NoBadSwitch'
  BY <1>1, YieldAssumption DEF TypeOK, NoBadSwitch, States
<1>3. state' = state
  BY <1>1 DEF TypeOK, Entries, Spawned
<1>4. DoneSet' = DoneSet
  BY <1>3 DEF DoneSet
<1>5. Control' /\ Links' /\ Count'
  BY <1>1, <1>4 DEF TypeOK, Control, Links, Count
<1>6. Spawned' = Spawned \cup {coro_count} /\ coro_count \notin Spawned
  BY <1>1 DEF Spawned
<1>7. Entries'
  BY <1>1, <1>3, <1>6 DEF TypeOK, Entries
<1> QED BY <1>2, <1>5, <1>7

(* The call of scheduler_run starts its count at zero.                     *)
LEMMA MainRunStep == IInv /\ MainRun => IInv'
<1> SUFFICES ASSUME IInv, MainRun PROVE IInv'
  OBVIOUS
<1> USE DEF IInv, MainRun, coros
<1>1. TypeOK' /\ NoBadSwitch'
  BY SpawnsAssumption DEF TypeOK, Places, NoBadSwitch
<1>2. DoneSet' = DoneSet /\ Spawned' = Spawned
  BY DEF DoneSet, Spawned
<1>3. Control' /\ Links' /\ Count'
  BY <1>2 DEF Control, Links, Count
<1>4. Entries'
  BY <1>2 DEF Entries
<1> QED BY <1>1, <1>3, <1>4

(* The scan finds a ready coroutine, whose context is its own and saved.   *)
LEMMA ResumeStep == IInv /\ Resume => IInv'
<1> SUFFICES ASSUME IInv, Resume PROVE IInv'
  OBVIOUS
<1> DEFINE next == NextReady
<1> USE DEF IInv, Resume
<1>1. next \in Spawned /\ state[next] = "CORO_READY"
  BY NextReadyProperties
<1> HIDE DEF next
<1>2. /\ current' = next /\ state' = [state EXCEPT ![next] = "CORO_RUNNING"]
      /\ ctx' = [ctx EXCEPT ![next] = None] /\ running' = ctx[next]
      /\ pc' = IF ctx[next] # None /\ stack[next] = "heap"
                 THEN "coro" ELSE "undefined"
  BY DEF next
<1>3. next \in Coro /\ next # None /\ next \in 0 .. coro_count - 1
  BY <1>1, SpawnsAssumption DEF TypeOK, Spawned, Coro, None
<1>4. ctx[next] = next /\ stack[next] = "heap"
  BY <1>1 DEF Entries
<1>5. pc' = "coro" /\ running' = next
  BY <1>2, <1>3, <1>4
<1>6. TypeOK' /\ NoBadSwitch'
  BY <1>2, <1>3, <1>5 DEF TypeOK, NoBadSwitch, Places, States, Context
<1>7. DoneSet' = DoneSet /\ Spawned' = Spawned
  BY <1>1, <1>2, <1>3 DEF TypeOK, DoneSet, Spawned
<1>8. Control' /\ Links' /\ Count'
  BY <1>2, <1>3, <1>5, <1>7 DEF TypeOK, Control, Links, Count, None
<1>9. Entries'
  BY <1>1, <1>2, <1>3, <1>5, <1>7 DEF TypeOK, Entries
<1> QED BY <1>6, <1>8, <1>9

(* The scheduler counts a coroutine that has returned, and arms done_ctx.  *)
LEMMA BackDoneStep == IInv /\ BackDone => IInv'
<1> SUFFICES ASSUME IInv, BackDone PROVE IInv'
  OBVIOUS
<1> USE DEF IInv, BackDone, done_spawn, coros
<1>1. current \in DoneSet
  BY SpawnsAssumption DEF TypeOK, Control, DoneSet, Coro, None
<1>2. DoneSet' = DoneSet /\ Spawned' = Spawned
  BY DEF DoneSet, Spawned
<1>3. completed_coro' = Cardinality(DoneSet)
  <2>1. IsFiniteSet(DoneSet)
    BY DoneFinite
  <2>2. Cardinality(DoneSet \ {current}) = Cardinality(DoneSet) - 1
    BY <1>1, <2>1, FS_RemoveElement
  <2>3. Cardinality(DoneSet) \in Nat
    BY <2>1, FS_CardinalityType
  <2> QED BY <2>2, <2>3 DEF Count
<1>4. TypeOK' /\ NoBadSwitch'
  <2>1. completed_coro' \in 0 .. Spawns
    BY <1>3, DoneFinite, SpawnsAssumption DEF TypeOK
  <2> QED BY <2>1 DEF TypeOK, NoBadSwitch, Places, Context
<1>5. Control' /\ Links' /\ Count'
  BY <1>2, <1>3 DEF Control, Links, Count
<1>6. Entries'
  BY <1>2 DEF Entries
<1> QED BY <1>4, <1>5, <1>6

(* A coroutine that has yielded is ready again, with its context saved.    *)
LEMMA BackYieldedStep == IInv /\ BackYielded => IInv'
<1> SUFFICES ASSUME IInv, BackYielded PROVE IInv'
  OBVIOUS
<1> USE DEF IInv, BackYielded
<1>1. current \in Coro /\ current \notin DoneSet
  BY SpawnsAssumption DEF TypeOK, Control, DoneSet, Coro, None
<1>2. DoneSet' = DoneSet /\ DoneSet \ {current} = DoneSet
      /\ Spawned' = Spawned
  BY <1>1 DEF TypeOK, DoneSet, Spawned
<1>3. TypeOK' /\ NoBadSwitch'
  BY DEF TypeOK, NoBadSwitch, Places, States
<1>4. Control' /\ Links' /\ Count'
  BY <1>1, <1>2 DEF Control, Links, Count
<1>5. state[current] = "CORO_RUNNING" /\ ctx[current] = current
  BY <1>1 DEF TypeOK, Entries, States
<1>6. Entries'
  BY <1>1, <1>2, <1>5 DEF TypeOK, Entries, Control, Spawned
<1> QED BY <1>3, <1>4, <1>6

(* scheduler_run returns only when all spawned coroutines are done.        *)
LEMMA SchedulerReturnsStep == IInv /\ SchedulerReturns => IInv'
<1> SUFFICES ASSUME IInv, SchedulerReturns PROVE IInv'
  OBVIOUS
<1> USE DEF IInv, SchedulerReturns, coros
<1>1. DoneSet' = DoneSet /\ Spawned' = Spawned
  BY DEF DoneSet, Spawned
<1>2. DoneSet = 0 .. Spawns - 1
  <2>1. completed_coro = Cardinality(DoneSet) /\ coro_count = Spawns
    BY DEF Count, Control
  <2>2. Cardinality(DoneSet) = coro_count
    BY <2>1, DoneFinite, SpawnsAssumption
  <2> QED BY <2>1, <2>2, DoneFinite DEF Spawned
<1>3. TypeOK' /\ NoBadSwitch'
  BY DEF TypeOK, NoBadSwitch, Places
<1>4. Control' /\ Links' /\ Count'
  BY <1>1, <1>2 DEF Control, Links, Count
<1>5. Entries'
  BY <1>1 DEF Entries
<1> QED BY <1>3, <1>4, <1>5

(* coro_yield saves the context of the coroutine that calls it.            *)
LEMMA YieldStep == IInv /\ coro_yield => IInv'
<1> SUFFICES ASSUME IInv, coro_yield PROVE IInv'
  OBVIOUS
<1> USE DEF IInv, coro_yield, ToScheduler
<1>1. current \in Coro /\ running = current /\ current \notin DoneSet
  BY SpawnsAssumption DEF TypeOK, Control, Entries, DoneSet, Coro, None
<1>2. pc' = "back"
  BY DEF Links
<1>3. TypeOK' /\ NoBadSwitch'
  BY <1>1, <1>2 DEF TypeOK, NoBadSwitch, Places, Context, None
<1>4. DoneSet' = DoneSet /\ DoneSet \ {current} = DoneSet
      /\ Spawned' = Spawned
  BY <1>1 DEF DoneSet, Spawned
<1>5. Control' /\ Links' /\ Count'
  BY <1>1, <1>2, <1>4 DEF Control, Links, Count
<1>6. Entries'
  BY <1>1, <1>2, <1>4 DEF TypeOK, Entries
<1> QED BY <1>3, <1>5, <1>6

(* A function that returns finds done_ctx armed.                           *)
LEMMA ReturnStep == IInv /\ Return => IInv'
<1> SUFFICES ASSUME IInv, Return PROVE IInv'
  OBVIOUS
<1> USE DEF IInv, Return, coros
<1>1. pc' = "trampoline"
  BY DEF Links
<1>2. DoneSet' = DoneSet /\ Spawned' = Spawned
  BY DEF DoneSet, Spawned
<1>3. TypeOK' /\ NoBadSwitch'
  BY <1>1 DEF TypeOK, NoBadSwitch, Places, Context
<1>4. Control' /\ Links' /\ Count'
  BY <1>1, <1>2 DEF Control, Links, Count
<1>5. Entries'
  BY <1>1, <1>2 DEF Entries
<1> QED BY <1>3, <1>4, <1>5

(* The trampoline marks one more coroutine, the current one, as done.      *)
LEMMA TrampolineStep == IInv /\ finish_trampoline => IInv'
<1> SUFFICES ASSUME IInv, finish_trampoline PROVE IInv'
  OBVIOUS
<1> USE DEF IInv, finish_trampoline, ToScheduler
<1>1. current \in Coro /\ current \in Spawned /\ current \notin DoneSet
  BY SpawnsAssumption
  DEF TypeOK, Control, Entries, DoneSet, Spawned, Coro, None
<1>2. pc' = "back"
  BY DEF Links
<1>3. TypeOK' /\ NoBadSwitch'
  BY <1>2 DEF TypeOK, NoBadSwitch, Places, Context, States
<1>4. Spawned' = Spawned /\ DoneSet' = DoneSet \cup {current}
  BY <1>1 DEF TypeOK, DoneSet, Spawned
<1>5. DoneSet' \ {current'} = DoneSet
  BY <1>1, <1>4
<1>6. Control' /\ Links' /\ Count'
  BY <1>1, <1>2, <1>5 DEF TypeOK, Control, Links, Count
<1>7. Entries'
  BY <1>1, <1>2, <1>4 DEF TypeOK, Entries
<1> QED BY <1>3, <1>6, <1>7

(* free_coros_stacks frees the stacks when no coroutine needs one.         *)
LEMMA FreeStep == IInv /\ free_coros_stacks => IInv'
<1> SUFFICES ASSUME IInv, free_coros_stacks PROVE IInv'
  OBVIOUS
<1> USE DEF IInv, free_coros_stacks
<1>1. DoneSet' = DoneSet /\ Spawned' = Spawned
  BY DEF DoneSet, Spawned
<1>2. TypeOK' /\ NoBadSwitch'
  BY DEF TypeOK, NoBadSwitch, Places
<1>3. Control' /\ Links' /\ Count'
  BY <1>1 DEF Control, Links, Count
<1>4. Entries'
  BY <1>1, SpawnsAssumption DEF TypeOK, Entries, Spawned, Coro
<1> QED BY <1>2, <1>3, <1>4

(* The invariant is about the state alone.                                 *)
LEMMA Stutter == IInv /\ UNCHANGED vars => IInv'
BY DEF IInv, vars, coros, TypeOK, NoBadSwitch, Control, Links, Entries, Count,
       DoneSet, Spawned

(* Every step of the program preserves the invariant.                      *)
LEMMA Inductive == IInv /\ [Next]_vars => IInv'
BY MainStartStep, SpawnStep, MainRunStep, ResumeStep, BackDoneStep,
   BackYieldedStep, SchedulerReturnsStep, YieldStep, ReturnStep,
   TrampolineStep, FreeStep, Stutter
DEF Next, Step, Over

(* The invariant holds in every reachable state.                           *)
LEMMA Always == Spec => []IInv
BY Initially, Inductive, PTL DEF Spec

-----------------------------------------------------------------------------
(* The variables keep their types.                                         *)
THEOREM TypeCorrect == Spec => []TypeOK
<1>1. IInv => TypeOK
  BY DEF IInv
<1> QED BY <1>1, Always, PTL

(* No context is resumed wrongly, whatever the numbers of coroutines and   *)
(* yields.                                                                 *)
THEOREM SwitchesSafe == Spec => []NoBadSwitch
<1>1. IInv => NoBadSwitch
  BY DEF IInv
<1> QED BY <1>1, Always, PTL

(* The code that runs is that of coroutine current, which alone is         *)
(* CORO_RUNNING, and the others have a context of their own.               *)
THEOREM CurrentAgrees == Spec => []CurrentRuns
<1>1. IInv => CurrentRuns
  <2> SUFFICES ASSUME IInv PROVE CurrentRuns
    OBVIOUS
  <2>1. 0 .. coro_count - 1 = Spawned /\ Spawned \subseteq Coro
    BY SpawnsAssumption DEF IInv, TypeOK, Spawned, Coro
  <2>2. /\ pc = "coro" => running = current
        /\ pc \in {"coro", "trampoline"} => state[current] = "CORO_RUNNING"
        /\ \A c \in Spawned : state[c] = "CORO_READY" => ctx[c] = c
        /\ \A c \in Spawned : state[c] = "CORO_RUNNING" => c = current
    BY <2>1 DEF IInv, Control, Entries
  <2> QED BY <2>1, <2>2 DEF CurrentRuns
<1> QED BY <1>1, Always, PTL

(* scheduler_run stops when every coroutine has returned, none counted     *)
(* twice, and then every stack is freed.                                   *)
THEOREM CompletesAll == Spec => []CompletionOK
<1>1. IInv => CountedOnce
  BY DEF IInv, Count, CountedOnce, DoneSet
<1>2. IInv => NoStackLeaked
  BY DEF IInv, Entries, NoStackLeaked
<1>3. IInv => CompletionOK
  BY <1>1, <1>2 DEF CompletionOK
<1> QED BY <1>3, Always, PTL

-----------------------------------------------------------------------------
(* The members of a finite set of numbers in increasing order.             *)

Enumerates(f, S, N) ==
  /\ f \in [1 .. N -> S]
  /\ \A i, j \in 1 .. N : i < j => f[i] < f[j]
  /\ \A k \in S : \E i \in 1 .. N : f[i] = k

(* Nth is such an order ...                                                *)
LEMMA NthEnumerates ==
  ASSUME NEW S \in SUBSET Nat, IsFiniteSet(S)
  PROVE  /\ Cardinality(S) \in Nat
         /\ Enumerates([n \in 1 .. Cardinality(S) |-> Nth(S, n)], S, Cardinality(S))
<1> DEFINE Below(k) == {j \in S : j <= k}
           Rank(k) == Cardinality(Below(k))
           N == Cardinality(S)
<1>1. N \in Nat
  BY FS_CardinalityType
<1>2. \A k \in S : IsFiniteSet(Below(k)) /\ Rank(k) \in 1 .. N
  <2> TAKE k \in S
  <2>1. Below(k) \in SUBSET S /\ k \in Below(k)
    OBVIOUS
  <2>2. IsFiniteSet(Below(k)) /\ Rank(k) <= N
    BY <2>1, FS_Subset
  <2>3. Rank(k) \in Nat /\ Rank(k) # 0
    BY <2>1, <2>2, FS_CardinalityType, FS_EmptySet
  <2> QED BY <1>1, <2>2, <2>3
<1>3. ASSUME NEW k \in S, NEW l \in S, k < l PROVE Rank(k) < Rank(l)
  <2>1. Below(k) \in SUBSET Below(l) /\ l \in Below(l) /\ l \notin Below(k)
    <3>1. \A j \in S : j \in Int
      OBVIOUS
    <3>2. k \in Int /\ l \in Int /\ \A j \in S : j <= k => j <= l
      BY <1>3, <3>1
    <3>3. l <= l /\ ~ (l <= k)
      BY <1>3, <3>2
    <3> QED BY <3>2, <3>3
  <2>2. Below(k) # Below(l)
    BY <2>1
  <2>3. Rank(k) <= Rank(l) /\ Rank(k) # Rank(l)
    BY <1>2, <2>1, <2>2, FS_Subset
  <2>4. Rank(k) \in Nat /\ Rank(l) \in Nat
    BY <1>2, FS_CardinalityType
  <2> HIDE DEF Rank
  <2> QED BY <2>3, <2>4
<1>4. \A k, l \in S : Rank(k) = Rank(l) => k = l
  <2> SUFFICES ASSUME NEW k \in S, NEW l \in S, Rank(k) = Rank(l), k # l
               PROVE  FALSE
    OBVIOUS
  <2>1. k < l \/ l < k
    OBVIOUS
  <2>2. Rank(k) \in 1 .. N /\ Rank(l) \in 1 .. N
    BY <1>2
  <2> HIDE DEF Rank, N
  <2> QED BY <1>1, <1>3, <2>1, <2>2
<1>5. \A n \in 1 .. N : \E k \in S : Rank(k) = n
  <2> DEFINE r == [k \in S |-> Rank(k)]
  <2>1. r \in Injection(S, 1 .. N)
    <3> HIDE DEF Rank, N
    <3> QED BY <1>2, <1>4 DEF Injection, IsInjective
  <2>2. IsFiniteSet(1 .. N) /\ Cardinality(1 .. N) = N
    BY <1>1, FS_Interval
  <2> HIDE DEF r
  <2>3. r \in Surjection(S, 1 .. N)
    BY <2>1, <2>2, FS_Injection
  <2> HIDE DEF Rank, N
  <2>4. \A k \in S : r[k] = Rank(k)
    BY DEF r
  <2> QED BY <2>3, <2>4 DEF Surjection
<1>6. \A n \in 1 .. N : Nth(S, n) \in S /\ Rank(Nth(S, n)) = n
  <2>1. \A n \in 1 .. N : Nth(S, n) = CHOOSE k \in S : Rank(k) = n
    BY DEF Nth
  <2> HIDE DEF Rank, N
  <2> QED BY <1>5, <2>1
<1>7. \A i, j \in 1 .. N : i < j => Nth(S, i) < Nth(S, j)
  <2> SUFFICES ASSUME NEW i \in 1 .. N, NEW j \in 1 .. N, i < j,
                      ~ (Nth(S, i) < Nth(S, j))
               PROVE  FALSE
    OBVIOUS
  <2>1. Nth(S, j) < Nth(S, i) \/ Nth(S, j) = Nth(S, i)
    <3>1. Nth(S, i) \in Nat /\ Nth(S, j) \in Nat
      <4> HIDE DEF Rank, N
      <4> QED BY <1>6
    <3> QED BY <3>1
  <2>2. Rank(Nth(S, i)) = i /\ Rank(Nth(S, j)) = j /\ Nth(S, i) \in S /\ Nth(S, j) \in S
    BY <1>6
  <2> HIDE DEF Rank, N
  <2>3. Nth(S, j) < Nth(S, i) => j < i
    BY <1>3, <2>2
  <2> QED BY <1>1, <2>1, <2>2, <2>3
<1>8. \A k \in S : Nth(S, Rank(k)) = k
  <2> HIDE DEF Rank, N
  <2> QED BY <1>2, <1>4, <1>6
<1> HIDE DEF Rank, N
<1> QED BY <1>1, <1>2, <1>6, <1>7, <1>8 DEF Enumerates, N

(* ... and there is no other.                                              *)
LEMMA EnumerationIsNth ==
  ASSUME NEW S \in SUBSET Nat, NEW N \in Nat, NEW f, Enumerates(f, S, N)
  PROVE  Cardinality(S) = N /\ \A n \in 1 .. N : Nth(S, n) = f[n]
<1>1. /\ f \in [1 .. N -> S]
      /\ \A i, j \in 1 .. N : i < j => f[i] < f[j]
      /\ \A k \in S : \E i \in 1 .. N : f[i] = k
  BY DEF Enumerates
<1>2. ASSUME NEW n \in 0 .. N, NEW B, B = {f[i] : i \in 1 .. n}
      PROVE  Cardinality(B) = n
  <2> DEFINE g == [i \in 1 .. n |-> f[i]]
  <2>1. g \in [1 .. n -> B] /\ \A k \in B : \E i \in 1 .. n : g[i] = k
    BY <1>2
  <2>2. ASSUME NEW i \in 1 .. n, NEW j \in 1 .. n, g[i] = g[j] PROVE i = j
    <3>1. i \in 1 .. N /\ j \in 1 .. N /\ f[i] = f[j] /\ f[i] \in Nat
      <4>1. i \in 1 .. N /\ j \in 1 .. N
        OBVIOUS
      <4>2. f[i] = f[j]
        BY <2>2
      <4> QED BY <1>1, <4>1, <4>2
    <3>2. ~ (i < j) /\ ~ (j < i)
      BY <1>1, <3>1
    <3> QED BY <3>1, <3>2
  <2> HIDE DEF g
  <2>3. g \in Bijection(1 .. n, B)
    BY <2>1, <2>2 DEF Bijection, Injection, Surjection, IsInjective
  <2>4. n \in Nat
    OBVIOUS
  <2> QED BY <2>3, <2>4, FS_CountingElements DEF ExistsBijection
<1>3. Cardinality(S) = N
  <2>1. S = {f[i] : i \in 1 .. N}
    BY <1>1
  <2> QED BY <1>2, <2>1
<1>4. \A n \in 1 .. N : Cardinality({j \in S : j <= f[n]}) = n
  <2> TAKE n \in 1 .. N
  <2>1. ASSUME NEW i \in 1 .. N PROVE f[i] <= f[n] <=> i <= n
    <3>1. f[i] \in Nat /\ f[n] \in Nat
      BY <1>1
    <3>2. CASE i < n
      BY <1>1, <3>1, <3>2
    <3>3. CASE i = n
      BY <3>1, <3>3
    <3>4. CASE n < i
      <4>1. f[n] < f[i]
        BY <1>1, <3>4
      <4> QED BY <3>1, <3>4, <4>1
    <3> QED BY <3>2, <3>3, <3>4
  <2>2. {j \in S : j <= f[n]} = {f[i] : i \in 1 .. n}
    <3>1. ASSUME NEW j \in S, j <= f[n] PROVE \E i \in 1 .. n : f[i] = j
      <4>1. PICK i \in 1 .. N : f[i] = j
        BY <1>1
      <4>2. i \in 1 .. n
        BY <2>1, <3>1, <4>1
      <4> QED BY <4>1, <4>2
    <3>2. ASSUME NEW i \in 1 .. n PROVE f[i] \in S /\ f[i] <= f[n]
      <4>1. i \in 1 .. N /\ i <= n
        OBVIOUS
      <4> QED BY <1>1, <2>1, <4>1
    <3> QED BY <3>1, <3>2
  <2> QED BY <1>2, <2>2
<1>5. ASSUME NEW n \in 1 .. N PROVE Nth(S, n) = f[n]
  <2>1. \A k \in S : Cardinality({j \in S : j <= k}) = n => k = f[n]
    BY <1>1, <1>4
  <2>2. f[n] \in S /\ Cardinality({j \in S : j <= f[n]}) = n
    BY <1>1, <1>4
  <2> QED BY <2>1, <2>2 DEF Nth
<1> QED BY <1>3, <1>5

-----------------------------------------------------------------------------
(* The scan is a queue.                                                    *)

(* The scan meets each coroutine once, current itself last.                *)
LEMMA Distances ==
  ASSUME NEW m \in Nat \ {0}, NEW c \in -1 .. m - 1
  PROVE  /\ \A k \in 1 .. m :
              (c + k) % m = IF c + k < m THEN c + k ELSE c + k - m
         /\ \A k \in 1 .. m : (c + k) % m \in 0 .. m - 1
         /\ \A k, l \in 1 .. m : (c + k) % m = (c + l) % m => k = l
         /\ c # -1 => (c + m) % m = c
<1>1. ASSUME NEW k \in 1 .. m
      PROVE  (c + k) % m = IF c + k < m THEN c + k ELSE c + k - m
  <2>1. c + k \in 0 .. 2 * m - 1
    OBVIOUS
  <2> QED BY <2>1
<1>2. ASSUME NEW k \in 1 .. m PROVE (c + k) % m \in 0 .. m - 1
  BY <1>1
<1>3. ASSUME NEW k \in 1 .. m, NEW l \in 1 .. m, (c + k) % m = (c + l) % m
      PROVE  k = l
  <2>1. /\ (c + k) % m = IF c + k < m THEN c + k ELSE c + k - m
        /\ (c + l) % m = IF c + l < m THEN c + l ELSE c + l - m
    BY <1>1
  <2> QED BY <1>3, <2>1
<1>4. c # -1 => (c + m) % m = c
  <2>1. (c + m) % m = IF c + m < m THEN c + m ELSE c + m - m
    BY <1>1
  <2> QED BY <2>1
<1> QED BY <1>1, <1>2, <1>3, <1>4

(* What the queue holds and how long it is.                                *)
LEMMA ReadyType ==
  ASSUME IInv
  PROVE  /\ coro_count \in Nat /\ current \in -1 .. coro_count - 1
         /\ Ready \in SUBSET Nat /\ IsFiniteSet(Ready)
         /\ Cardinality(Ready) \in Nat
         /\ Len(Waiting) = Cardinality(Ready)
<1>1. coro_count \in Nat /\ current \in -1 .. coro_count - 1
  BY SpawnsAssumption DEF IInv, TypeOK, Control
<1>2. Ready \in SUBSET (1 .. coro_count)
  BY DEF Ready
<1>3. IsFiniteSet(Ready)
  <2>1. IsFiniteSet(1 .. coro_count)
    BY <1>1, FS_Interval
  <2> QED BY <1>2, <2>1, FS_Subset
<1>4. Cardinality(Ready) \in Nat
  BY <1>3, FS_CardinalityType
<1>5. Ready \in SUBSET Nat
  BY <1>2
<1> QED BY <1>1, <1>3, <1>4, <1>5 DEF Waiting

(* While main spawns, every coroutine waits, in the order of its number.   *)
LEMMA SpawnOrder ==
  IInv /\ pc \in {"start", "spawn"} => Waiting = [n \in 1 .. coro_count |-> n - 1]
<1> SUFFICES ASSUME IInv, pc \in {"start", "spawn"}
             PROVE  Waiting = [n \in 1 .. coro_count |-> n - 1]
  OBVIOUS
<1>1. /\ coro_count \in Nat /\ current = -1 /\ DoneSet = {}
      /\ coro_count <= MAX_COROUTINES /\ MAX_COROUTINES \in Nat
  BY SpawnsAssumption DEF IInv, TypeOK, Control
<1>2. CASE coro_count = 0
  <2>1. Ready = {}
    BY <1>2 DEF Ready
  <2>2. Cardinality(Ready) = 0
    BY <2>1, FS_EmptySet
  <2> QED BY <1>2, <2>2 DEF Waiting
<1>3. CASE coro_count # 0
  <2>1. \A k \in 1 .. coro_count : (current + k) % coro_count = k - 1
    <3>1. coro_count \in Nat \ {0} /\ current \in -1 .. coro_count - 1
      BY <1>1, <1>3
    <3>2. \A k \in 1 .. coro_count :
            (current + k) % coro_count = IF current + k < coro_count
                                         THEN current + k ELSE current + k - coro_count
      BY <3>1, Distances, Zenon
    <3> QED BY <1>1, <3>2
  <2>2. \A c \in 0 .. coro_count - 1 : state[c] = "CORO_READY"
    <3>1. \A c \in 0 .. coro_count - 1 : c \in Coro
      BY <1>1 DEF Coro
    <3> QED BY <1>1, <3>1 DEF IInv, TypeOK, Entries, States, DoneSet
  <2>3. Ready = 1 .. coro_count
    BY <1>1, <2>1, <2>2 DEF Ready
  <2> DEFINE f == [n \in 1 .. coro_count |-> n]
  <2>4. Enumerates(f, Ready, coro_count)
    BY <1>1, <2>3 DEF Enumerates
  <2>5. Ready \in SUBSET Nat
    BY <2>3
  <2>6. Cardinality(Ready) = coro_count /\ \A n \in 1 .. coro_count : Nth(Ready, n) = f[n]
    <3> HIDE DEF f
    <3> QED BY <1>1, <2>4, <2>5, EnumerationIsNth
  <2>7. \A n \in 1 .. coro_count : (current + Nth(Ready, n)) % coro_count = n - 1
    BY <2>1, <2>6
  <2> QED BY <2>6, <2>7 DEF Waiting
<1> QED BY <1>2, <1>3

(* A coroutine is spawned behind the others.                               *)
LEMMA SpawnQueues ==
  ASSUME IInv, IInv', NEW yields \in YieldCounts, coro_spawn(yields)
  PROVE  Scheduler!Start
<1>1. /\ pc = "spawn" /\ pc' = "spawn" /\ coro_count < Spawns
      /\ coro_count' = coro_count + 1 /\ coro_count \in Nat
  BY ReadyType DEF coro_spawn
<1>2. /\ Waiting = [n \in 1 .. coro_count |-> n - 1]
      /\ Waiting' = [n \in 1 .. coro_count + 1 |-> n - 1]
  <2>1. (IInv /\ pc \in {"start", "spawn"} => Waiting = [n \in 1 .. coro_count |-> n - 1])'
    BY SpawnOrder, PTL
  <2> QED BY <1>1, <2>1, SpawnOrder
<1>3. Len(Waiting) = coro_count /\ Waiting' = Append(Waiting, Len(Waiting))
  BY <1>1, <1>2
<1>4. DoneSet = {} /\ DoneSet' = {} /\ Turn = {} /\ Turn' = {}
  BY <1>1 DEF IInv, Control, Turn
<1> QED BY <1>1, <1>3, <1>4 DEF Scheduler!Start, DoneSet

(* The scan stops at the head of the queue, and from there on it meets the *)
(* others in the order it would have met them in.                          *)
LEMMA ScanRotates ==
  ASSUME IInv, Resume
  PROVE  /\ Waiting # <<>> /\ NextReady = Head(Waiting)
         /\ Waiting' = Tail(Waiting)
<1> DEFINE N == Cardinality(Ready)
           m == Min(Ready)
           f == [n \in 1 .. N |-> Nth(Ready, n)]
<1>1. /\ pc = "loop" /\ completed_coro < coro_count /\ coro_count' = coro_count
      /\ current' = NextReady /\ state' = [state EXCEPT ![NextReady] = "CORO_RUNNING"]
  BY DEF Resume
<1>2. /\ coro_count \in Nat \ {0} /\ current \in -1 .. coro_count - 1
      /\ Ready \in SUBSET (1 .. coro_count) /\ Ready \in SUBSET Nat /\ N \in Nat
  <2>1. completed_coro \in Nat
    BY DEF IInv, TypeOK
  <2> QED BY <1>1, <2>1, ReadyType DEF Ready
<1>3. NextReady \in 0 .. coro_count - 1 /\ state[NextReady] = "CORO_READY"
  BY <1>1, NextReadyProperties DEF Spawned
<1>4. Ready # {}
  <2> SUFFICES ASSUME Ready = {} PROVE FALSE
    OBVIOUS
  <2>1. NextReady = current
    BY DEF NextReady
  <2>2. (current + coro_count) % coro_count = current /\ coro_count \in 1 .. coro_count
    <3>1. coro_count \in 1 .. coro_count /\ current # -1
      BY <1>2, <1>3, <2>1
    <3> QED BY <1>2, <3>1, Distances, Zenon
  <2> QED BY <1>3, <2>1, <2>2 DEF Ready
<1>5. m \in Ready /\ \A k \in Ready : m <= k
  BY <1>2, <1>4, MinOfNaturals
<1>6. NextReady = (current + m) % coro_count
  BY <1>4 DEF NextReady
<1> DEFINE At(k) == (current + k) % coro_count
           From(k) == IF m + k <= coro_count THEN m + k ELSE m + k - coro_count
<1>7. /\ \A k \in 1 .. coro_count : At(k) \in 0 .. coro_count - 1
      /\ \A k, l \in 1 .. coro_count : At(k) = At(l) => k = l
      /\ \A k \in 1 .. coro_count : At(k) = IF current + k < coro_count THEN current + k
                                          ELSE current + k - coro_count
  BY <1>2, Distances, Zenon
<1> HIDE DEF At, m
<1>8. m \in 1 .. coro_count /\ current' = At(m) /\ current' \in -1 .. coro_count - 1
  BY <1>1, <1>2, <1>3, <1>5, <1>6 DEF At
<1>9. ASSUME NEW k \in 1 .. coro_count
      PROVE  From(k) \in 1 .. coro_count /\ (current' + k) % coro_count = At(From(k))
  <2>1. From(k) \in 1 .. coro_count
    BY <1>2, <1>8
  <2>2. (current' + k) % coro_count = IF current' + k < coro_count THEN current' + k
                                      ELSE current' + k - coro_count
    <3>1. PICK c \in -1 .. coro_count - 1 : c = current'
      BY <1>8
    <3>2. \A l \in 1 .. coro_count :
            (c + l) % coro_count = IF c + l < coro_count THEN c + l ELSE c + l - coro_count
      BY <1>2, Distances, Zenon
    <3> QED BY <3>1, <3>2, Zenon
  <2>3. At(m) = IF current + m < coro_count THEN current + m ELSE current + m - coro_count
    BY <1>7, <1>8
  <2>4. At(From(k)) = IF current + From(k) < coro_count THEN current + From(k)
                      ELSE current + From(k) - coro_count
    <3> HIDE DEF From
    <3> QED BY <1>7, <2>1
  <2>5. coro_count \in Int /\ current \in Int /\ current \in -1 .. coro_count - 1
        /\ m \in 1 .. coro_count /\ current' = At(m)
    BY <1>2, <1>8
  <2> QED BY <2>1, <2>2, <2>3, <2>4, <2>5
<1>10. Ready' = {k - m : k \in Ready \ {m}}
  <2>1. Ready' = {k \in 1 .. coro_count :
                   state'[(current' + k) % coro_count] = "CORO_READY"}
    BY <1>1 DEF Ready
  <2>2. \A k \in 1 .. coro_count :
          state'[At(k)] = "CORO_READY" <=> k \in Ready \ {m}
    <3> TAKE k \in 1 .. coro_count
    <3>1. state \in [Coro -> States] /\ 0 .. coro_count - 1 \subseteq Coro
      BY SpawnsAssumption DEF IInv, TypeOK, Coro
    <3>2. At(k) = NextReady <=> k = m
      BY <1>1, <1>7, <1>8
    <3>3. state'[At(k)] = IF k = m THEN "CORO_RUNNING" ELSE state[At(k)]
      BY <1>1, <1>7, <3>1, <3>2
    <3>4. k \in Ready <=> state[At(k)] = "CORO_READY"
      BY DEF Ready, At
    <3> QED BY <3>3, <3>4
  <2>3. ASSUME NEW k \in 1 .. coro_count, From(k) \in Ready \ {m}
        PROVE  From(k) - m = k
    <3>1. m <= From(k) /\ From(k) # m
      BY <1>5, <2>3
    <3> QED BY <1>2, <1>8, <3>1
  <2>4. ASSUME NEW l \in Ready \ {m}
        PROVE  l - m \in 1 .. coro_count /\ From(l - m) = l
    <3>1. m <= l /\ l # m /\ l \in 1 .. coro_count
      BY <1>2, <1>5
    <3> QED BY <1>2, <1>8, <3>1
  <2>5. \A k \in 1 .. coro_count :
          state'[(current' + k) % coro_count] = "CORO_READY" <=> From(k) \in Ready \ {m}
    <3> HIDE DEF From
    <3> QED BY <1>9, <2>2
  <2>6. Ready' = {k \in 1 .. coro_count : From(k) \in Ready \ {m}}
    <3> HIDE DEF From
    <3> QED BY <2>1, <2>5
  <2> HIDE DEF From
  <2>7. ASSUME NEW k \in Ready' PROVE \E l \in Ready \ {m} : k = l - m
    BY <2>3, <2>6
  <2>8. ASSUME NEW l \in Ready \ {m} PROVE l - m \in Ready'
    BY <2>4, <2>6
  <2> QED BY <2>7, <2>8
<1>11. Enumerates(f, Ready, N)
  <2>1. IsFiniteSet(Ready)
    BY ReadyType
  <2> QED BY <1>2, <2>1, NthEnumerates
<1> HIDE DEF N, f
<1>12. /\ f \in [1 .. N -> Ready] /\ \A i, j \in 1 .. N : i < j => f[i] < f[j]
       /\ \A k \in Ready : \E i \in 1 .. N : f[i] = k
  BY <1>11 DEF Enumerates
<1>13. N >= 1 /\ f[1] = m
  <2>1. PICK i \in 1 .. N : f[i] = m
    BY <1>5, <1>12
  <2>2. 1 \in 1 .. N /\ f[1] \in Ready /\ f[1] \in Nat /\ m \in Nat /\ N >= 1
    <3>1. 1 \in 1 .. N /\ N >= 1 /\ m \in Nat
      BY <1>2, <1>8, <2>1
    <3>2. f[1] \in Ready
      BY <1>12, <3>1
    <3> QED BY <1>2, <3>1, <3>2
  <2>3. m <= f[1]
    BY <1>5, <2>2
  <2>4. ~ (1 < i)
    <3> SUFFICES ASSUME 1 < i PROVE FALSE
      OBVIOUS
    <3>1. f[1] < f[i]
      BY <1>12, <2>2
    <3> QED BY <2>1, <2>2, <2>3, <3>1
  <2> QED BY <2>1, <2>2, <2>4
<1> DEFINE g == [n \in 1 .. N - 1 |-> f[n + 1] - m]
<1>14. Enumerates(g, Ready', N - 1) /\ Ready' \in SUBSET Nat /\ N - 1 \in Nat
  <2>0. \A n \in 1 .. N - 1 : n + 1 \in 1 .. N /\ 1 < n + 1
    BY <1>2
  <2>1. \A n \in 1 .. N - 1 : f[n + 1] \in Ready \ {m}
    <3> TAKE n \in 1 .. N - 1
    <3>1. f[1] < f[n + 1] /\ f[n + 1] \in Ready
      BY <1>2, <1>12, <1>13, <2>0
    <3>2. f[n + 1] \in Int /\ f[1] \in Int
      <4>1. f[n + 1] \in Nat
        BY <1>2, <3>1
      <4>2. f[1] \in Int
        BY <1>8, <1>13
      <4> QED BY <4>1, <4>2
    <3> QED BY <1>13, <3>1, <3>2
  <2>2. g \in [1 .. N - 1 -> Ready']
    BY <1>10, <2>1
  <2>3. ASSUME NEW i \in 1 .. N - 1, NEW j \in 1 .. N - 1, i < j PROVE g[i] < g[j]
    <3>1. i + 1 < j + 1 /\ i + 1 \in 1 .. N /\ j + 1 \in 1 .. N
      BY <1>2, <2>3
    <3>2. f[i + 1] < f[j + 1] /\ f[i + 1] \in Nat /\ f[j + 1] \in Nat
      BY <1>2, <1>12, <3>1
    <3>3. f[i + 1] - m < f[j + 1] - m
      BY <1>8, <3>2
    <3> QED BY <3>3
  <2>4. ASSUME NEW k \in Ready' PROVE \E i \in 1 .. N - 1 : g[i] = k
    <3>1. PICK l \in Ready \ {m} : k = l - m
      BY <1>10
    <3>2. PICK i \in 1 .. N : f[i] = l
      BY <1>12
    <3>3. i # 1
      BY <1>13, <3>2
    <3>4. i - 1 \in 1 .. N - 1 /\ (i - 1) + 1 = i
      BY <1>2, <3>3
    <3>5. g[i - 1] = f[(i - 1) + 1] - m
      BY <3>4
    <3> QED BY <3>1, <3>2, <3>4, <3>5
  <2>5. Ready' \in SUBSET Nat
    <3>1. \A k \in Ready \ {m} : k - m \in Nat
      BY <1>2, <1>5, <1>8
    <3> QED BY <1>10, <3>1
  <2> HIDE DEF g
  <2> QED BY <1>2, <1>13, <2>2, <2>3, <2>4, <2>5 DEF Enumerates
<1>15. Cardinality(Ready') = N - 1 /\ \A n \in 1 .. N - 1 : Nth(Ready', n) = g[n]
  <2> HIDE DEF g
  <2> QED BY <1>14, EnumerationIsNth
<1>16. ASSUME NEW n \in 1 .. N - 1
       PROVE  (current' + Nth(Ready', n)) % coro_count = (current + Nth(Ready, n + 1)) % coro_count
  <2>1. n + 1 \in 1 .. N /\ f[n + 1] \in Ready /\ f[n + 1] # m
    <3>1. n + 1 \in 1 .. N /\ 1 \in 1 .. N /\ 1 < n + 1
      BY <1>2
    <3>2. f[1] < f[n + 1] /\ f[n + 1] \in Nat /\ f[1] \in Nat
      BY <1>2, <1>12, <3>1
    <3> QED BY <1>12, <1>13, <3>1, <3>2
  <2>2. m <= f[n + 1] /\ f[n + 1] \in 1 .. coro_count
    BY <1>2, <1>5, <2>1
  <2>3. f[n + 1] - m \in 1 .. coro_count /\ From(f[n + 1] - m) = f[n + 1]
    BY <1>2, <1>8, <2>1, <2>2
  <2>4. Nth(Ready', n) = f[n + 1] - m
    BY <1>15
  <2>5. f[n + 1] = Nth(Ready, n + 1)
    BY <2>1 DEF f
  <2> HIDE DEF From
  <2> QED BY <1>9, <2>3, <2>4, <2>5 DEF At
<1>17. /\ Waiting = [n \in 1 .. N |-> (current + Nth(Ready, n)) % coro_count]
       /\ Waiting' = [n \in 1 .. N - 1 |-> (current' + Nth(Ready', n)) % coro_count]
  BY <1>1, <1>15 DEF Waiting, N
<1>18. Waiting' = [n \in 1 .. N - 1 |-> Waiting[n + 1]]
  <2>1. \A n \in 1 .. N - 1 : n + 1 \in 1 .. N
    BY <1>2
  <2>2. \A n \in 1 .. N - 1 : Waiting[n + 1] = (current + Nth(Ready, n + 1)) % coro_count
    BY <1>17, <2>1
  <2> QED BY <1>16, <1>17, <2>2
<1>19. Waiting \in Seq(Int) /\ Len(Waiting) = N
  <2>1. \A n \in 1 .. N : (current + Nth(Ready, n)) % coro_count \in Int
    <3> TAKE n \in 1 .. N
    <3>1. Nth(Ready, n) = f[n]
      BY DEF f
    <3>2. Nth(Ready, n) \in 1 .. coro_count
      BY <1>2, <1>12, <3>1
    <3> QED BY <1>7, <3>2 DEF At
  <2> QED BY <1>2, <1>17, <2>1
<1>20. Waiting # <<>> /\ Tail(Waiting) = [n \in 1 .. N - 1 |-> Waiting[n + 1]]
  <2>1. Len(Waiting) \in Nat /\ Len(Waiting) >= 1
    BY <1>2, <1>13, <1>19
  <2>2. Waiting # <<>>
    BY <2>1
  <2> DEFINE t == Tail(Waiting)
  <2>3. /\ t \in Seq(Int) /\ Len(t) = N - 1 /\ DOMAIN t = 1 .. N - 1
        /\ \A n \in 1 .. N - 1 : t[n] = Waiting[n + 1]
    BY <1>2, <1>19, <2>2
  <2>4. t = [n \in 1 .. N - 1 |-> t[n]]
    <3> HIDE DEF t
    <3> QED BY <2>3
  <2> HIDE DEF t
  <2>5. t = [n \in 1 .. N - 1 |-> Waiting[n + 1]]
    BY <2>3, <2>4
  <2> QED BY <2>2, <2>5 DEF t
<1>21. Head(Waiting) = NextReady
  <2>1. Waiting[1] = (current + Nth(Ready, 1)) % coro_count /\ Nth(Ready, 1) = f[1]
    BY <1>2, <1>13, <1>17 DEF f
  <2> QED BY <1>6, <1>13, <1>19, <2>1
<1> QED BY <1>18, <1>20, <1>21

(* A coroutine that has yielded is met last by the next scan.              *)
LEMMA YieldedQueuesLast ==
  ASSUME IInv, BackYielded
  PROVE  Waiting' = Append(Waiting, current)
<1> DEFINE N == Cardinality(Ready)
           f == [n \in 1 .. N |-> Nth(Ready, n)]
           At(k) == (current + k) % coro_count
<1>1. /\ pc = "back" /\ state[current] # "CORO_DONE" /\ coro_count' = coro_count
      /\ current' = current /\ state' = [state EXCEPT ![current] = "CORO_READY"]
  BY DEF BackYielded
<1>2. /\ coro_count \in Nat \ {0} /\ current \in 0 .. coro_count - 1
      /\ Ready \in SUBSET (1 .. coro_count) /\ Ready \in SUBSET Nat /\ N \in Nat
  <2>1. current # -1
    BY <1>1 DEF IInv, Control
  <2> QED BY <2>1, ReadyType DEF Ready
<1>3. /\ \A k \in 1 .. coro_count : At(k) \in 0 .. coro_count - 1
      /\ \A k, l \in 1 .. coro_count : At(k) = At(l) => k = l
      /\ At(coro_count) = current
  <2>1. current \in -1 .. coro_count - 1 /\ current # -1
    BY <1>2
  <2> QED BY <1>2, <2>1, Distances, Zenon
<1> HIDE DEF At
<1>4. Ready' = Ready \cup {coro_count} /\ coro_count \notin Ready
  <2>1. /\ Ready = {k \in 1 .. coro_count : state[At(k)] = "CORO_READY"}
        /\ Ready' = {k \in 1 .. coro_count : state'[At(k)] = "CORO_READY"}
    BY <1>1 DEF Ready, At
  <2>2. state \in [Coro -> States] /\ 0 .. coro_count - 1 \subseteq Coro
    BY SpawnsAssumption DEF IInv, TypeOK, Coro
  <2>3. state[current] # "CORO_READY"
    BY <1>1 DEF IInv, Entries
  <2>4. coro_count \in 1 .. coro_count
    BY <1>2
  <2>5. \A k \in 1 .. coro_count :
          state'[At(k)] = IF k = coro_count THEN "CORO_READY" ELSE state[At(k)]
    BY <1>1, <1>3, <2>2, <2>4
  <2> QED BY <1>3, <2>1, <2>3, <2>4, <2>5
<1>5. Enumerates(f, Ready, N)
  <2>1. IsFiniteSet(Ready)
    BY ReadyType
  <2> QED BY <1>2, <2>1, NthEnumerates
<1> HIDE DEF N, f
<1>6. /\ f \in [1 .. N -> Ready] /\ \A i, j \in 1 .. N : i < j => f[i] < f[j]
      /\ \A k \in Ready : \E i \in 1 .. N : f[i] = k
  BY <1>5 DEF Enumerates
<1> DEFINE g == [n \in 1 .. N + 1 |-> IF n = N + 1 THEN coro_count ELSE f[n]]
<1>7. Enumerates(g, Ready', N + 1) /\ Ready' \in SUBSET Nat /\ N + 1 \in Nat
  <2>1. \A n \in 1 .. N + 1 : n = N + 1 \/ n \in 1 .. N
    BY <1>2
  <2>2. \A n \in 1 .. N : n \in 1 .. N + 1 /\ n # N + 1
    BY <1>2
  <2>3. g \in [1 .. N + 1 -> Ready']
    BY <1>4, <1>6, <2>1
  <2>4. ASSUME NEW i \in 1 .. N + 1, NEW j \in 1 .. N + 1, i < j PROVE g[i] < g[j]
    <3>1. i \in 1 .. N /\ i # N + 1
      BY <1>2, <2>4
    <3>2. CASE j = N + 1
      <4>1. f[i] \in Ready
        BY <1>6, <3>1
      <4> DEFINE x == f[i]
      <4>2. x \in 1 .. coro_count /\ x # coro_count /\ coro_count \in Nat
        BY <1>2, <1>4, <4>1
      <4>3. x < coro_count
        <5> HIDE DEF x
        <5> QED BY <4>2
      <4> QED BY <3>1, <3>2, <4>3
    <3>3. CASE j # N + 1
      <4>1. j \in 1 .. N
        BY <2>1, <3>3
      <4>2. f[i] < f[j]
        BY <1>6, <2>4, <3>1, <4>1
      <4> QED BY <3>1, <3>3, <4>2
    <3> QED BY <3>2, <3>3
  <2>5. ASSUME NEW k \in Ready' PROVE \E i \in 1 .. N + 1 : g[i] = k
    <3>1. CASE k = coro_count
      <4>1. N + 1 \in 1 .. N + 1
        BY <1>2
      <4> QED BY <3>1, <4>1
    <3>2. CASE k \in Ready
      <4>1. PICK i \in 1 .. N : f[i] = k
        BY <1>6, <3>2
      <4> QED BY <2>2, <4>1
    <3> QED BY <1>4, <3>1, <3>2
  <2> HIDE DEF g
  <2>6. Ready' \in SUBSET Nat
    BY <1>2, <1>4
  <2> QED BY <1>2, <2>3, <2>4, <2>5, <2>6 DEF Enumerates
<1>8. Cardinality(Ready') = N + 1 /\ \A n \in 1 .. N + 1 : Nth(Ready', n) = g[n]
  <2> HIDE DEF g
  <2> QED BY <1>7, EnumerationIsNth
<1>9. /\ Waiting = [n \in 1 .. N |-> At(Nth(Ready, n))]
      /\ Waiting' = [n \in 1 .. N + 1 |-> At(Nth(Ready', n))]
  BY <1>1, <1>8 DEF Waiting, N, At
<1>10. ASSUME NEW n \in 1 .. N
       PROVE  /\ Nth(Ready, n) \in 1 .. coro_count /\ Nth(Ready', n) = Nth(Ready, n)
  <2>1. Nth(Ready, n) = f[n] /\ n \in 1 .. N + 1 /\ n # N + 1
    BY <1>2 DEF f
  <2>2. Nth(Ready', n) = f[n]
    BY <1>8, <2>1
  <2>3. f[n] \in Ready
    BY <1>6
  <2> QED BY <1>2, <2>1, <2>2, <2>3
<1>11. Nth(Ready', N + 1) = coro_count /\ N + 1 \in 1 .. N + 1
  BY <1>2, <1>8
<1>12. Waiting \in Seq(Int) /\ Len(Waiting) = N
  <2>1. \A n \in 1 .. N : At(Nth(Ready, n)) \in Int
    BY <1>2, <1>3, <1>10
  <2> QED BY <1>2, <1>9, <2>1
<1>13. \A n \in 1 .. N + 1 :
         At(Nth(Ready', n)) = IF n = N + 1 THEN current ELSE Waiting[n]
  <2> TAKE n \in 1 .. N + 1
  <2>1. CASE n = N + 1
    BY <1>3, <1>11, <2>1
  <2>2. CASE n # N + 1
    <3>1. n \in 1 .. N
      BY <1>2, <2>2
    <3> QED BY <1>9, <1>10, <2>2, <3>1
  <2> QED BY <2>1, <2>2
<1>14. Waiting' = [n \in 1 .. N + 1 |-> IF n = N + 1 THEN current ELSE Waiting[n]]
  BY <1>9, <1>13
<1> DEFINE w == Waiting
           v == Append(w, current)
<1>15. /\ v \in Seq(Int) /\ Len(v) = N + 1 /\ DOMAIN v = 1 .. N + 1
       /\ \A n \in 1 .. N + 1 : v[n] = IF n = N + 1 THEN current ELSE w[n]
  <2>1. w \in Seq(Int) /\ Len(w) = N /\ N \in Nat /\ current \in Int
    BY <1>2, <1>12
  <2> HIDE DEF w
  <2> QED BY <2>1
<1>16. v = [n \in 1 .. N + 1 |-> v[n]]
  <2> HIDE DEF v
  <2> QED BY <1>15
<1>17. v = [n \in 1 .. N + 1 |-> IF n = N + 1 THEN current ELSE w[n]]
  <2> HIDE DEF v, w
  <2> QED BY <1>15, <1>16
<1> QED BY <1>14, <1>17

(* No other change of a state touches the queue.                           *)
LEMMA SameQueue ==
  ASSUME IInv, UNCHANGED <<coro_count, current>>,
         \A c \in 0 .. coro_count - 1 :
           state'[c] = "CORO_READY" <=> state[c] = "CORO_READY"
  PROVE  Waiting' = Waiting
<1>1. CASE coro_count = 0
  <2>1. Ready = {} /\ Ready' = {}
    BY <1>1 DEF Ready
  <2> QED BY <2>1 DEF Waiting
<1>2. CASE coro_count # 0
  <2>1. coro_count \in Nat \ {0} /\ current \in -1 .. coro_count - 1
    BY <1>2, ReadyType
  <2>2. \A k \in 1 .. coro_count : (current + k) % coro_count \in 0 .. coro_count - 1
    BY <2>1, Distances, Zenon
  <2>3. Ready' = Ready
    BY <2>2 DEF Ready
  <2> QED BY <2>3 DEF Waiting
<1> QED BY <1>1, <1>2

(* Every step of the program is one of the scheduler's queue, or none.     *)
LEMMA NextRefines == IInv /\ IInv' /\ [Next]_vars => [Scheduler!Next]_(Scheduler!vars)
<1> SUFFICES ASSUME IInv, IInv', [Next]_vars PROVE [Scheduler!Next]_(Scheduler!vars)
  OBVIOUS
<1>1. ASSUME NEW yields \in YieldCounts, coro_spawn(yields) PROVE Scheduler!Next
  BY <1>1, SpawnQueues DEF Scheduler!Next
<1>2. ASSUME Resume PROVE Scheduler!Next
  <2>1. pc = "loop" /\ current' = NextReady /\ pc' \in {"coro", "undefined"}
    BY <1>2 DEF Resume
  <2>2. pc' = "coro"
    BY <2>1 DEF IInv, NoBadSwitch
  <2>3. Turn = {} /\ Turn' = {Head(Waiting)} /\ Waiting # <<>> /\ Waiting' = Tail(Waiting)
    BY <1>2, <2>1, <2>2, ScanRotates DEF Turn
  <2>4. DoneSet' = DoneSet /\ current' \notin DoneSet
    <3>1. NextReady \in Spawned /\ state[NextReady] = "CORO_READY" /\ Spawned \subseteq Coro
      BY <1>2, NextReadyProperties, SpawnsAssumption DEF Resume, IInv, TypeOK, Spawned, Coro
    <3>2. state \in [Coro -> States] /\ state' = [state EXCEPT ![NextReady] = "CORO_RUNNING"]
      BY <1>2 DEF Resume, IInv, TypeOK
    <3> QED BY <2>1, <3>1, <3>2 DEF DoneSet
  <2>5. DoneSet' \ Turn' = DoneSet \ Turn
    BY <2>1, <2>2, <2>3, <2>4 DEF Turn
  <2>6. Scheduler!Resume
    BY <2>3, <2>5 DEF Scheduler!Resume, DoneSet
  <2> QED BY <2>6 DEF Scheduler!Next
<1>3. ASSUME BackDone PROVE Scheduler!Next
  <2>1. /\ pc = "back" /\ pc' = "loop" /\ state[current] = "CORO_DONE"
        /\ UNCHANGED <<coro_count, current, state>>
    BY <1>3 DEF BackDone, coros
  <2>2. Waiting' = Waiting
    BY <2>1, SameQueue
  <2>3. current \in DoneSet /\ DoneSet' = DoneSet /\ Turn = {current} /\ Turn' = {}
    BY <2>1, SpawnsAssumption DEF IInv, TypeOK, Control, DoneSet, Turn, None
  <2>4. DoneSet' \ Turn' = (DoneSet \ Turn) \cup Turn
    BY <2>3
  <2>5. Scheduler!Retire
    BY <2>2, <2>3, <2>4 DEF Scheduler!Retire, DoneSet
  <2> QED BY <2>5 DEF Scheduler!Next
<1>4. ASSUME BackYielded PROVE Scheduler!Next
  <2>1. /\ pc = "back" /\ pc' = "loop" /\ state[current] # "CORO_DONE"
        /\ state' = [state EXCEPT ![current] = "CORO_READY"]
    BY <1>4 DEF BackYielded
  <2>2. Waiting' = Append(Waiting, current)
    BY <1>4, YieldedQueuesLast
  <2>3. DoneSet' = DoneSet /\ current \notin DoneSet /\ Turn = {current} /\ Turn' = {}
    <3>1. current \in Coro /\ state \in [Coro -> States]
      BY <2>1, SpawnsAssumption DEF IInv, TypeOK, Control, None
    <3> QED BY <2>1, <3>1 DEF DoneSet, Turn
  <2>4. DoneSet' \ Turn' = DoneSet \ Turn
    BY <2>3
  <2>5. Scheduler!Requeue
    BY <2>2, <2>3, <2>4 DEF Scheduler!Requeue, DoneSet
  <2> QED BY <2>5 DEF Scheduler!Next
<1>5. ASSUME finish_trampoline PROVE UNCHANGED Scheduler!vars
  <2>1. /\ pc = "trampoline" /\ UNCHANGED <<coro_count, current>>
        /\ state' = [state EXCEPT ![current] = "CORO_DONE"] /\ pc' \in {"back", "undefined"}
    BY <1>5 DEF finish_trampoline, ToScheduler
  <2>2. pc' = "back"
    BY <2>1 DEF IInv, NoBadSwitch
  <2>3. current \in Coro /\ state \in [Coro -> States] /\ state[current] = "CORO_RUNNING"
    BY <2>1, SpawnsAssumption DEF IInv, TypeOK, Control, Entries, None
  <2>4. \A c \in 0 .. coro_count - 1 : c \in Coro
    BY SpawnsAssumption DEF IInv, TypeOK, Coro
  <2>5. Waiting' = Waiting
    BY <2>1, <2>3, <2>4, SameQueue
  <2>6. Turn = {current} /\ Turn' = {current} /\ DoneSet' = DoneSet \cup {current}
    BY <2>1, <2>2, <2>3 DEF Turn, DoneSet
  <2>7. DoneSet' \ Turn' = DoneSet \ Turn
    BY <2>6
  <2> QED BY <2>5, <2>6, <2>7 DEF Scheduler!vars, DoneSet
<1>6. ASSUME UNCHANGED <<coro_count, current, state>>, Turn' = Turn
      PROVE  UNCHANGED Scheduler!vars
  <2>1. Waiting' = Waiting
    BY <1>6, SameQueue
  <2> QED BY <1>6, <2>1 DEF Scheduler!vars
<1>7. ASSUME MainStart \/ MainRun \/ SchedulerReturns \/ free_coros_stacks \/ UNCHANGED vars
      PROVE  UNCHANGED Scheduler!vars
  BY <1>6, <1>7 DEF MainStart, MainRun, SchedulerReturns, free_coros_stacks, vars, coros, Turn
<1>8. ASSUME coro_yield \/ Return PROVE UNCHANGED Scheduler!vars
  <2>1. pc = "coro" /\ pc' \in {"back", "trampoline", "undefined"}
        /\ UNCHANGED <<coro_count, current, state>>
    BY <1>8 DEF coro_yield, Return, ToScheduler, coros
  <2>2. pc' # "undefined"
    BY DEF IInv, NoBadSwitch
  <2> QED BY <1>6, <2>1, <2>2 DEF Turn
<1> QED BY <1>1, <1>2, <1>3, <1>4, <1>5, <1>7, <1>8 DEF Next, Step, Over

(* Round robin, for every number of coroutines and yields: the scan over   *)
(* the states (main.c 62-72), which starts after current and wraps around, *)
(* serves the coroutines as a first-in first-out queue does.               *)
THEOREM ImplementsRoundRobin == Spec => FairTurns
<1>1. Init => Scheduler!Init
  <2> SUFFICES ASSUME Init PROVE Scheduler!Init
    OBVIOUS
  <2>1. coro_count = 0 /\ pc = "start" /\ DoneSet = {}
    BY DEF Init, DoneSet
  <2>2. Ready = {}
    BY <2>1 DEF Ready
  <2>3. Cardinality(Ready) = 0
    BY <2>2, FS_EmptySet
  <2>4. Waiting = <<>>
    BY <2>3 DEF Waiting
  <2> QED BY <2>1, <2>4 DEF Scheduler!Init, DoneSet, Turn
<1>2. IInv /\ IInv' /\ [Next]_vars => [Scheduler!Next]_(Scheduler!vars)
  BY NextRefines
<1> QED BY <1>1, <1>2, Always, PTL DEF Spec, FairTurns, Scheduler!Spec
=============================================================================
