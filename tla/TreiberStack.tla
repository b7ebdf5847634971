---------------------------- MODULE TreiberStack ----------------------------
(***************************************************************************)
(* The lock-free stack of 02-treiber_lock_free_stack/main.cpp and the      *)
(* stress test around it: producers push, consumers pop and collect, main  *)
(* joins them, verifies what was collected and destroys the stack.         *)
(*                                                                         *)
(* Every access to memory that another thread may touch is a step of its   *)
(* own; accesses to a thread's own variables, or to a node no other thread *)
(* can hold, are merged with the step next to them.  Steps interleave      *)
(* sequentially consistently.                                              *)
(***************************************************************************)
EXTENDS Naturals, Sequences

CONSTANTS
  Producers,   \* the threads running producer()
  Consumers,   \* the threads running consumer()
  StressN,     \* STRESS_TEST_N, the number of pushes of one producer
  Node,        \* the addresses new Node can return
  NULL         \* nullptr

ASSUME ThreadsAssumption == Producers \cap Consumers = {}
ASSUME ConsumersAssumption == Consumers # {}
ASSUME StressNAssumption == StressN \in Nat
ASSUME NullAssumption == NULL \notin Node

VARIABLES
  head, trash, \* the two atomic list heads of the class
  heap,        \* the nodes allocated and not yet deleted
  next, value, \* the fields of the nodes
  pc,          \* pc[t]: where producer or consumer t stands
  newHead, oldHead, oldTrash, val,  \* the locals of push() and pop()
  pushed,      \* pushed[p]: producer()'s loop counter, counted from 0
  res, got,    \* consumer()'s res and cons_set
  done,        \* main()'s flag to the consumers
  mpc,         \* where main() stands
  ok,          \* main()'s verdict
  cur,         \* the cursor of the destructor
  stk, bin     \* history: the nodes not yet deleted of the two lists, first first

Threads == Producers \cup Consumers
Value == Producers \X (0 .. StressN - 1)
NullOpt == {}   \* a std::optional is the set of the value it holds

lists == <<head, trash, next>>
locals == <<newHead, oldHead, oldTrash, val>>
client == <<pushed, res, got>>
main == <<done, mpc, ok, cur>>
hist == <<stk, bin>>
vars == <<lists, heap, value, pc, locals, client, main, hist>>

TypeOK ==
  /\ head \in Node \cup {NULL} /\ trash \in Node \cup {NULL}
  /\ heap \subseteq Node
  /\ next \in [Node -> Node \cup {NULL}]
  /\ value \in [Node -> Value \cup {NULL}]
  /\ pc \in [Threads -> {"loop", "push", "empty", "pop", "next", "cas",
                         "retire", "link", "tcas", "insert", "exit"}]
  /\ newHead \in [Threads -> Node \cup {NULL}]
  /\ oldHead \in [Threads -> Node \cup {NULL}]
  /\ oldTrash \in [Consumers -> Node \cup {NULL}]
  /\ val \in [Consumers -> Value \cup {NULL}]
  /\ pushed \in [Producers -> 0 .. StressN]
  /\ res \in [Consumers -> SUBSET Value]
  /\ got \in [Consumers -> SUBSET Value]
  /\ done \in BOOLEAN
  /\ mpc \in {"join", "collect", "dtor_head", "dtor_trash", "end"}
  /\ ok \in BOOLEAN
  /\ cur \in Node \cup {NULL}
  /\ stk \in Seq(Node) /\ bin \in Seq(Node)

Init ==
  /\ head = NULL /\ trash = NULL
  /\ heap = {}
  /\ next = [n \in Node |-> NULL]
  /\ value = [n \in Node |-> NULL]
  /\ pc = [t \in Threads |-> "loop"]
  /\ newHead = [t \in Threads |-> NULL]
  /\ oldHead = [t \in Threads |-> NULL]
  /\ oldTrash = [c \in Consumers |-> NULL]
  /\ val = [c \in Consumers |-> NULL]
  /\ pushed = [p \in Producers |-> 0]
  /\ res = [c \in Consumers |-> NullOpt]
  /\ got = [c \in Consumers |-> {}]
  /\ done = FALSE /\ mpc = "join" /\ ok = FALSE /\ cur = NULL
  /\ stk = <<>> /\ bin = <<>>

Goto(t, from, to) == pc[t] = from /\ pc' = [pc EXCEPT ![t] = to]

-----------------------------------------------------------------------------
(* push(), called by producer() for each of its values.  The node is not   *)
(* reachable by others before the compare-exchange publishes it, so its    *)
(* allocation goes with the load of head and its linking with the CAS.     *)

PushLoad(p) ==
  /\ Goto(p, "loop", "push")
  /\ pushed[p] < StressN
  /\ \E n \in Node \ heap :
       /\ heap' = heap \cup {n}
       /\ value' = [value EXCEPT ![n] = <<p, pushed[p]>>]
       /\ next' = [next EXCEPT ![n] = NULL]
       /\ newHead' = [newHead EXCEPT ![p] = n]
  /\ oldHead' = [oldHead EXCEPT ![p] = head]
  /\ UNCHANGED <<head, trash, oldTrash, val, client, main, hist>>

\* Mutant: head is stored without comparing it with oldHead.
PushCASOkBlind(p) ==
  /\ Goto(p, "push", "loop")
  /\ next' = [next EXCEPT ![newHead[p]] = oldHead[p]]
  /\ head' = newHead[p]
  /\ pushed' = [pushed EXCEPT ![p] = @ + 1]
  /\ stk' = <<newHead[p]>> \o stk
  /\ UNCHANGED <<trash, heap, value, locals, res, got, main, bin>>

PushCASOk(p) ==
  /\ Goto(p, "push", "loop")
  /\ head = oldHead[p]
  /\ next' = [next EXCEPT ![newHead[p]] = oldHead[p]]
  /\ head' = newHead[p]
  /\ pushed' = [pushed EXCEPT ![p] = @ + 1]
  /\ stk' = <<newHead[p]>> \o stk
  /\ UNCHANGED <<trash, heap, value, locals, res, got, main, bin>>

\* Mutant: a failed compare-exchange is counted as a push.
PushCASFailCounted(p) ==
  /\ Goto(p, "push", "push")
  /\ next' = [next EXCEPT ![newHead[p]] = oldHead[p]]
  /\ oldHead' = [oldHead EXCEPT ![p] = head]
  /\ pushed' = [pushed EXCEPT ![p] = @ + 1]
  /\ UNCHANGED <<head, trash, heap, value, newHead, oldTrash, val, res, got,
                 main, hist>>

\* compare_exchange_weak may also fail while head still equals oldHead.
PushCASFail(p) ==
  /\ Goto(p, "push", "push")
  /\ next' = [next EXCEPT ![newHead[p]] = oldHead[p]]
  /\ oldHead' = [oldHead EXCEPT ![p] = head]
  /\ UNCHANGED <<head, trash, heap, value, newHead, oldTrash, val, client,
                 main, hist>>

ProducerExit(p) ==
  /\ Goto(p, "loop", "exit")
  /\ pushed[p] = StressN
  /\ UNCHANGED <<lists, heap, value, locals, client, main, hist>>

-----------------------------------------------------------------------------
(* consumer(): the two loads of its loop condition.                        *)

\* Mutants: done alone ends the loop; done is ignored.
ConsumerLoopHasty(c) ==
  /\ Goto(c, "loop", IF done THEN "exit" ELSE "pop")
  /\ UNCHANGED <<lists, heap, value, locals, client, main, hist>>
ConsumerLoopForever(c) ==
  /\ Goto(c, "loop", "pop")
  /\ UNCHANGED <<lists, heap, value, locals, client, main, hist>>

ConsumerLoop(c) ==
  /\ Goto(c, "loop", IF done THEN "empty" ELSE "pop")
  /\ UNCHANGED <<lists, heap, value, locals, client, main, hist>>

ConsumerEmpty(c) ==
  /\ Goto(c, "empty", IF head = NULL THEN "exit" ELSE "pop")
  /\ UNCHANGED <<lists, heap, value, locals, client, main, hist>>

(* pop(): Look is the test for nullptr at the top of its retry loop, made  *)
(* on the value of head just loaded into oldHead.                          *)

Look(c, from) ==
  /\ Goto(c, from, IF head = NULL THEN "insert" ELSE "next")
  /\ oldHead' = [oldHead EXCEPT ![c] = head]
  /\ res' = [res EXCEPT ![c] = IF head = NULL THEN NullOpt ELSE @]
  /\ UNCHANGED <<lists, heap, value, newHead, oldTrash, val, pushed, got,
                 main, hist>>

PopLoad(c) == Look(c, "pop")

\* The plain read of oldHead->next; another thread may have retired the node.
PopNext(c) ==
  /\ Goto(c, "next", "cas")
  /\ newHead' = [newHead EXCEPT ![c] = next[oldHead[c]]]
  /\ UNCHANGED <<lists, heap, value, oldHead, oldTrash, val, client, main,
                 hist>>

\* Mutant: head is stored without comparing it with oldHead.
PopCASOkBlind(c) ==
  /\ Goto(c, "cas", "retire")
  /\ head' = newHead[c]
  /\ stk' = IF stk = <<>> THEN stk ELSE Tail(stk)
  /\ UNCHANGED <<trash, next, heap, value, locals, client, main, bin>>

PopCASOk(c) ==
  /\ Goto(c, "cas", "retire")
  /\ head = oldHead[c]
  /\ head' = newHead[c]
  /\ stk' = Tail(stk)
  /\ UNCHANGED <<trash, next, heap, value, locals, client, main, bin>>

\* Mutant: a failed compare-exchange answers nullopt instead of retrying.
PopCASFailGivesUp(c) ==
  /\ Goto(c, "cas", "insert")
  /\ oldHead' = [oldHead EXCEPT ![c] = head]
  /\ res' = [res EXCEPT ![c] = NullOpt]
  /\ UNCHANGED <<lists, heap, value, newHead, oldTrash, val, pushed, got,
                 main, hist>>

PopCASFail(c) == Look(c, "cas")

\* Mutant: the node is deleted at once instead of being retired.
RetireLoadDelete(c) ==
  /\ Goto(c, "retire", "insert")
  /\ res' = [res EXCEPT ![c] = {value[oldHead[c]]}]
  /\ heap' = heap \ {oldHead[c]}
  /\ UNCHANGED <<lists, value, locals, pushed, got, main, hist>>

RetireLoad(c) ==
  /\ Goto(c, "retire", "link")
  /\ val' = [val EXCEPT ![c] = value[oldHead[c]]]
  /\ oldTrash' = [oldTrash EXCEPT ![c] = trash]
  /\ UNCHANGED <<lists, heap, value, newHead, oldHead, client, main, hist>>

\* The plain write of oldHead->next; another thread may be about to read it.
RetireLink(c) ==
  /\ Goto(c, "link", "tcas")
  /\ next' = [next EXCEPT ![oldHead[c]] = oldTrash[c]]
  /\ UNCHANGED <<head, trash, heap, value, locals, client, main, hist>>

RetireCASOk(c) ==
  /\ Goto(c, "tcas", "insert")
  /\ trash = oldTrash[c]
  /\ trash' = oldHead[c]
  /\ res' = [res EXCEPT ![c] = {val[c]}]
  /\ bin' = <<oldHead[c]>> \o bin
  /\ UNCHANGED <<head, next, heap, value, locals, pushed, got, main, stk>>

RetireCASFail(c) ==
  /\ Goto(c, "tcas", "link")
  /\ oldTrash' = [oldTrash EXCEPT ![c] = trash]
  /\ UNCHANGED <<lists, heap, value, newHead, oldHead, val, client, main, hist>>

ConsumerInsert(c) ==
  /\ Goto(c, "insert", "loop")
  /\ got' = [got EXCEPT ![c] = @ \cup res[c]]
  /\ UNCHANGED <<lists, heap, value, locals, pushed, res, main, hist>>

-----------------------------------------------------------------------------
(* main(): joins the producers, raises done, waits for the consumers'      *)
(* futures, verifies the union of their sets, destroys the stack.          *)

MainJoin ==
  /\ mpc = "join"
  /\ \A p \in Producers : pc[p] = "exit"
  /\ done' = TRUE
  /\ mpc' = "collect"
  /\ UNCHANGED <<lists, heap, value, pc, locals, client, ok, cur, hist>>

MainVerify ==
  /\ mpc = "collect"
  /\ \A c \in Consumers : pc[c] = "exit"
  /\ ok' = (UNION {got[c] : c \in Consumers} = Value)
  /\ cur' = head
  /\ mpc' = "dtor_head"
  /\ UNCHANGED <<lists, heap, value, pc, locals, client, done, hist>>

DtorDelete ==
  /\ mpc \in {"dtor_head", "dtor_trash"}
  /\ cur # NULL
  /\ cur' = next[cur]
  /\ heap' = heap \ {cur}
  /\ stk' = IF mpc = "dtor_head" THEN Tail(stk) ELSE stk
  /\ bin' = IF mpc = "dtor_trash" THEN Tail(bin) ELSE bin
  /\ UNCHANGED <<lists, value, pc, locals, client, done, mpc, ok>>

DtorTrash ==
  /\ mpc = "dtor_head"
  /\ cur = NULL
  /\ cur' = trash
  /\ mpc' = "dtor_trash"
  /\ UNCHANGED <<lists, heap, value, pc, locals, client, done, ok, hist>>

DtorEnd ==
  /\ mpc = "dtor_trash"
  /\ cur = NULL
  /\ mpc' = "end"
  /\ UNCHANGED <<lists, heap, value, pc, locals, client, done, ok, cur, hist>>

\* The process has ended; nothing runs any more.
Terminated == mpc = "end" /\ UNCHANGED vars

-----------------------------------------------------------------------------
ProducerStep(p) ==
  PushLoad(p) \/ PushCASOk(p) \/ PushCASFail(p) \/ ProducerExit(p)

ConsumerStep(c) ==
  \/ ConsumerLoop(c) \/ ConsumerEmpty(c)
  \/ PopLoad(c) \/ PopNext(c) \/ PopCASOk(c) \/ PopCASFail(c)
  \/ RetireLoad(c) \/ RetireLink(c) \/ RetireCASOk(c) \/ RetireCASFail(c)
  \/ ConsumerInsert(c)

MainStep == MainJoin \/ MainVerify \/ DtorDelete \/ DtorTrash \/ DtorEnd

Next ==
  \/ \E p \in Producers : ProducerStep(p)
  \/ \E c \in Consumers : ConsumerStep(c)
  \/ MainStep
  \/ Terminated

Spec == Init /\ [][Next]_vars

(* The scheduler runs every thread that can run, and a compare-exchange    *)
(* retried for ever against an unchanged word does not fail for ever.      *)
Fairness ==
  /\ \A p \in Producers : WF_vars(ProducerStep(p)) /\ SF_vars(PushCASOk(p))
  /\ \A c \in Consumers : /\ WF_vars(ConsumerStep(c))
                          /\ SF_vars(PopCASOk(c)) /\ SF_vars(RetireCASOk(c))
  /\ WF_vars(MainStep)

FairSpec == Spec /\ Fairness

-----------------------------------------------------------------------------
(* Properties.                                                             *)

\* first and the next fields nxt spell the sequence s of distinct nodes.
Chain(nxt, first, s) ==
  /\ first = IF s = <<>> THEN NULL ELSE s[1]
  /\ \A i \in 1 .. Len(s) : nxt[s[i]] = IF i = Len(s) THEN NULL ELSE s[i + 1]
  /\ \A i, j \in 1 .. Len(s) : s[i] = s[j] => i = j

Nodes(s) == {s[i] : i \in 1 .. Len(s)}

\* A consumer owns the node its CAS took off the stack until trash has it.
Owns(c) == pc[c] \in {"retire", "link", "tcas"}

\* A consumer inside pop()'s retry loop dereferences, or has dereferenced,
\* a node it does not own.
Peeks(c) == pc[c] \in {"next", "cas"}

(* The two lists always spell the nodes that the linearised pushes, pops  *)
(* and retirements put there: no compare-exchange on head or trash         *)
(* (main.cpp 35, 47, 57) loses, duplicates or cuts off a node, and the     *)
(* destructor walks exactly what is left.                                  *)
ChainOK ==
  /\ mpc \in {"join", "collect"} => Chain(next, head, stk)
  /\ mpc = "dtor_head" => Chain(next, cur, stk)
  /\ mpc \in {"join", "collect", "dtor_head"} => Chain(next, trash, bin)
  /\ mpc = "dtor_trash" => Chain(next, cur, bin)

(* No ABA: when pop()'s compare-exchange (main.cpp 47) finds the head it   *)
(* loaded, the next pointer it read earlier is still that node's next      *)
(* pointer.  The code departs from its own documents here.  The ABA        *)
(* ANALYSIS at the end of main.cpp (134-163) has pop() free the node, so   *)
(* that push() may be given its address again, calls this compare-exchange *)
(* the victim and the chance of the stress test to hit it "very low but    *)
(* not zero"; CHALLENGE.md 14 and 64 ask for it.  That is true of a pop()  *)
(* that frees, but this one retires the node (52-60), nothing is freed     *)
(* before the destructor runs, and no address is ever used again.          *)
NoABA ==
  \A c \in Consumers :
    pc[c] = "cas" /\ oldHead[c] = head => newHead[c] = next[oldHead[c]]

(* No node is touched after it is deleted: every pointer a thread is about *)
(* to dereference in push(), pop() or the destructor is allocated          *)
(* (main.cpp 33, 46, 51, 56, 71, 73; the comment at 52-54 is the reason    *)
(* nodes are retired).                                                     *)
NoUseAfterFree ==
  /\ \A p \in Producers : pc[p] = "push" => newHead[p] \in heap
  /\ \A c \in Consumers : Owns(c) \/ Peeks(c) => oldHead[c] \in heap
  /\ mpc \in {"dtor_head", "dtor_trash"} => cur \in heap \cup {NULL}

\* What pop() has decided to answer to consumer c and c has not yet stored.
Holding(c) ==
  CASE pc[c] = "retire" -> {value[oldHead[c]]}
    [] pc[c] \in {"link", "tcas"} -> {val[c]}
    [] pc[c] = "insert" -> res[c]
    [] OTHER -> {}

\* The values consumer c has been given, and those on the stack.
Had(c) == Holding(c) \cup got[c]
Stacked == {value[n] : n \in Nodes(stk)}

(* Exactly once: every value pushed so far is in exactly one place, on the *)
(* stack, held by one consumer inside pop(), or in one consumer's set.     *)
(* main()'s check of the union of the sets (main.cpp 116-126) cannot see a *)
(* value received twice; this can.                                         *)
ExactlyOnce ==
  /\ Stacked \cup UNION {Had(c) : c \in Consumers}
       = {v \in Value : v[2] < pushed[v[1]]}
  /\ \A n, m \in Nodes(stk) : value[n] = value[m] => n = m
  /\ \A c \in Consumers : /\ Had(c) \cap Stacked = {}
                           /\ Holding(c) \cap got[c] = {}
  /\ \A c, d \in Consumers : c # d => Had(c) \cap Had(d) = {}

(* The destructor does not leak (main.cpp 68): when the process ends every *)
(* node ever allocated has been deleted.                                   *)
NoLeak == mpc = "end" => heap = {}

(* Both: nodes live as long as they are needed and no longer.              *)
MemorySafety == NoUseAfterFree /\ NoLeak

(* A consumer that leaves its loop has drained the stack: when main() has  *)
(* all the sets, nothing is left behind and its verification prints PASS.  *)
Drained == mpc \in {"dtor_head", "dtor_trash", "end"} => stk = <<>> /\ ok

(* No thread may write a node's plain next field (main.cpp 56) while       *)
(* another one is reading it (main.cpp 46).                                *)
NoDataRace ==
  ~ \E c, d \in Consumers :
      pc[c] = "next" /\ pc[d] = "link" /\ oldHead[c] = oldHead[d]

(* The stress test terminates: no thread spins for ever.                   *)
Termination == <>(mpc = "end")

(* Linearizability: the stack implements the abstract stack, a push or a   *)
(* successful pop taking effect at its compare-exchange on head, an empty  *)
(* pop at the load that found nullptr.                                     *)
Abstract == INSTANCE AbstractStack WITH
  stack <- [i \in 1 .. Len(stk) |-> value[stk[i]]],
  phase <- [c \in Consumers |->
              CASE pc[c] \in {"loop", "empty", "exit"} -> "idle"
                [] pc[c] \in {"pop", "next", "cas"} -> "called"
                [] OTHER -> "served"],
  res <- [c \in Consumers |-> Holding(c)]

Linearizable == Abstract!Spec

=============================================================================
