---------------------------- MODULE TreiberWeak -----------------------------
(***************************************************************************)
(* The stack of 02-treiber_lock_free_stack/main.cpp and its stress test    *)
(* under the memory orders the code asks for.  The values head ever had    *)
(* are kept in mo, its modification order.  A load, and a compare-exchange *)
(* that fails, may return any of them that is not older than what the      *)
(* thread has read before; only a compare-exchange that succeeds reads the *)
(* last one.  An acquire makes the nodes visible whose push released them; *)
(* every change of head is a read-modify-write, so each entry of mo        *)
(* continues the release sequences of all pushes before it.                *)
(*                                                                         *)
(* TreiberStack shows that no address is used twice while threads run, so  *)
(* a node is named by its value here, and that the steps on trash disturb  *)
(* nobody, so retiring a node is one step.                                 *)
(***************************************************************************)
EXTENDS Naturals, Sequences

CONSTANTS
  Producers, Consumers, StressN,
  NULL,
  DependencyOrder   \* TRUE: the machine orders a dereference after the load
                    \* of its pointer, which C++ does not promise

ASSUME ThreadsAssumption == Producers \cap Consumers = {}
ASSUME DependencyAssumption == DependencyOrder \in BOOLEAN

VARIABLES
  mo,               \* all values of head, oldest first
  seen,             \* seen[t]: the entry of mo that thread t has read last
  view,             \* view[t]: the nodes whose construction t is sure to see
  next,             \* next[n]: the link that push has written
  retired,          \* the nodes whose next is overwritten for trash
  pc, oldHead, newHead, pushed, got,
  done, sawDone,    \* main's flag, the consumers that have read it set
  ok,               \* main's verdict, NULL before there is one
  list              \* history: the nodes on the stack, the first pushed first

locals == <<oldHead, newHead, pushed, got>>
main == <<done, ok>>
vars == <<mo, seen, view, next, retired, pc, locals, main, sawDone, list>>

Threads == Producers \cup Consumers
Node == Producers \X (0 .. StressN - 1)

ASSUME StressNAssumption == StressN \in Nat
ASSUME NullAssumption == NULL \notin Node

TypeOK ==
  /\ mo \in Seq(Node \cup {NULL}) /\ mo # <<>>
  /\ seen \in [Threads -> DOMAIN mo]
  /\ view \in [Threads -> SUBSET Node]
  /\ next \in [Node -> Node \cup {NULL}] /\ retired \subseteq Node
  /\ pc \in [Threads -> {"loop", "push", "empty", "pop", "next", "cas", "retire",
                         "exit"}]
  /\ oldHead \in [Threads -> Node \cup {NULL}]
  /\ newHead \in [Consumers -> Node \cup {NULL}]
  /\ pushed \in [Producers -> 0 .. StressN]
  /\ got \in [Consumers -> SUBSET Node]
  /\ done \in BOOLEAN /\ sawDone \subseteq Consumers /\ ok \in BOOLEAN \cup {NULL}
  /\ list \in Seq(Node)

Init ==
  /\ mo = <<NULL>>
  /\ seen = [t \in Threads |-> 1] /\ view = [t \in Threads |-> {}]
  /\ next = [n \in Node |-> NULL] /\ retired = {}
  /\ pc = [t \in Threads |-> "loop"]
  /\ oldHead = [t \in Threads |-> NULL] /\ newHead = [c \in Consumers |-> NULL]
  /\ pushed = [p \in Producers |-> 0] /\ got = [c \in Consumers |-> {}]
  /\ done = FALSE /\ sawDone = {} /\ ok = NULL /\ list = <<>>

Goto(t, from, to) == pc[t] = from /\ pc' = [pc EXCEPT ![t] = to]
Latest == Len(mo)
Readable(t) == seen[t] .. Latest
Published(i) == {mo[j] : j \in 1 .. i} \ {NULL}

\* Thread t reads entry i of mo, and what was released there if it acquires.
Reads(t, i) == seen' = [seen EXCEPT ![t] = i]
Acquires(t, i) == view' = [view EXCEPT ![t] = @ \cup Published(i)]

-----------------------------------------------------------------------------
(* push().                                                                 *)

PushLoad(p) ==
  /\ Goto(p, "loop", "push")
  /\ pushed[p] < StressN
  /\ \E i \in Readable(p) :
       Reads(p, i) /\ oldHead' = [oldHead EXCEPT ![p] = mo[i]]
  /\ UNCHANGED <<mo, view, next, retired, newHead, pushed, got, main, sawDone, list>>

PushCASOk(p) ==
  LET n == <<p, pushed[p]>>
  IN /\ Goto(p, "push", "loop")
     /\ mo[Latest] = oldHead[p]
     /\ next' = [next EXCEPT ![n] = oldHead[p]]
     /\ mo' = Append(mo, n) /\ list' = Append(list, n)
     /\ Reads(p, Latest + 1)
     /\ view' = [view EXCEPT ![p] = @ \cup {n}]
     /\ pushed' = [pushed EXCEPT ![p] = @ + 1]
     /\ UNCHANGED <<retired, oldHead, newHead, got, main, sawDone>>

PushCASFail(p) ==
  /\ Goto(p, "push", "push")
  /\ \E i \in Readable(p) :
       Reads(p, i) /\ oldHead' = [oldHead EXCEPT ![p] = mo[i]]
  /\ UNCHANGED <<mo, view, next, retired, newHead, pushed, got, main, sawDone, list>>

ProducerExit(p) ==
  /\ Goto(p, "loop", "exit")
  /\ pushed[p] = StressN
  /\ UNCHANGED <<mo, seen, view, next, retired, locals, main, sawDone, list>>

-----------------------------------------------------------------------------
(* consumer() and pop().                                                   *)

\* Mutant: done alone ends the loop.
ConsumerLoopHasty(c) ==
  /\ Goto(c, "loop", IF done THEN "exit" ELSE "pop")
  /\ UNCHANGED <<mo, seen, view, next, retired, locals, main, sawDone, list>>

\* done is loaded relaxed: TRUE may arrive late, and once it has it stays.
ConsumerLoop(c) ==
  \E d \in {(c \in sawDone), done} :
    /\ Goto(c, "loop", IF d THEN "empty" ELSE "pop")
    /\ sawDone' = IF d THEN sawDone \cup {c} ELSE sawDone
    /\ UNCHANGED <<mo, seen, view, next, retired, locals, main, list>>

ConsumerEmpty(c) ==
  /\ \E i \in Readable(c) :
       /\ Reads(c, i)
       /\ Goto(c, "empty", IF mo[i] = NULL THEN "exit" ELSE "pop")
  /\ UNCHANGED <<mo, view, next, retired, locals, main, sawDone, list>>

\* The test for nullptr, on entry i of mo.
Look(c, from, i) ==
  /\ Goto(c, from, IF mo[i] = NULL THEN "loop" ELSE "next")
  /\ Reads(c, i)
  /\ oldHead' = [oldHead EXCEPT ![c] = mo[i]]
  /\ UNCHANGED <<mo, next, retired, newHead, pushed, got, main, sawDone, list>>

PopLoad(c) == \E i \in Readable(c) : Look(c, "pop", i) /\ Acquires(c, i)

\* The plain read of oldHead->next.  What a read returns that no acquire
\* orders after the push, or that races with the retirement, is open.
PopNext(c) ==
  LET n == oldHead[c]
      ordered == (DependencyOrder \/ n \in view[c]) /\ n \notin retired
  IN /\ Goto(c, "next", "cas")
     /\ \E v \in IF ordered THEN {next[n]} ELSE Node \cup {NULL} :
          newHead' = [newHead EXCEPT ![c] = v]
     /\ UNCHANGED <<mo, seen, view, next, retired, oldHead, pushed, got, main,
                    sawDone, list>>

\* Mutants: a success that does not acquire; one that does not compare.
PopCASOkRelaxed(c) ==
  /\ Goto(c, "cas", "retire")
  /\ mo[Latest] = oldHead[c]
  /\ mo' = Append(mo, newHead[c]) /\ list' = SubSeq(list, 1, Len(list) - 1)
  /\ Reads(c, Latest + 1)
  /\ UNCHANGED <<view, next, retired, locals, main, sawDone>>
PopCASOkBlind(c) ==
  /\ Goto(c, "cas", "retire")
  /\ mo' = Append(mo, newHead[c]) /\ list' = SubSeq(list, 1, Len(list) - 1)
  /\ Reads(c, Latest + 1) /\ Acquires(c, Latest)
  /\ UNCHANGED <<next, retired, locals, main, sawDone>>

PopCASOk(c) ==
  /\ Goto(c, "cas", "retire")
  /\ mo[Latest] = oldHead[c]
  /\ mo' = Append(mo, newHead[c]) /\ list' = SubSeq(list, 1, Len(list) - 1)
  /\ Reads(c, Latest + 1) /\ Acquires(c, Latest)
  /\ UNCHANGED <<next, retired, locals, main, sawDone>>

PopCASFail(c) ==
  /\ \E i \in Readable(c) : Look(c, "cas", i)
  /\ UNCHANGED view

\* The value is read, the node goes to trash, the value to cons_set.
Retire(c) ==
  /\ Goto(c, "retire", "loop")
  /\ retired' = retired \cup {oldHead[c]}
  /\ got' = [got EXCEPT ![c] = @ \cup {oldHead[c]}]
  /\ UNCHANGED <<mo, seen, view, next, oldHead, newHead, pushed, main, sawDone, list>>

-----------------------------------------------------------------------------
(* main().                                                                 *)

MainJoin ==
  /\ ~ done /\ \A p \in Producers : pc[p] = "exit"
  /\ done' = TRUE
  /\ UNCHANGED <<mo, seen, view, next, retired, pc, locals, ok, sawDone, list>>

MainVerify ==
  /\ done /\ ok = NULL /\ \A c \in Consumers : pc[c] = "exit"
  /\ ok' = (UNION {got[c] : c \in Consumers} = Node)
  /\ UNCHANGED <<mo, seen, view, next, retired, pc, locals, done, sawDone, list>>

Terminated == ok # NULL /\ UNCHANGED vars

Next ==
  \/ \E p \in Producers :
       PushLoad(p) \/ PushCASOk(p) \/ PushCASFail(p) \/ ProducerExit(p)
  \/ \E c \in Consumers :
       \/ ConsumerLoop(c) \/ ConsumerEmpty(c) \/ PopLoad(c) \/ PopNext(c)
       \/ PopCASOk(c) \/ PopCASFail(c) \/ Retire(c)
  \/ MainJoin \/ MainVerify \/ Terminated

Spec == Init /\ [][Next]_vars

-----------------------------------------------------------------------------
(* Properties.                                                             *)

(* The value a pop hands out is read after its construction: the acquire   *)
(* of the compare-exchange that took the node (main.cpp 48) makes it       *)
(* visible also when the load that found the node was relaxed (49).        *)
Visible == \A c \in Consumers : pc[c] = "retire" => oldHead[c] \in view[c]

Holding(c) == got[c] \cup (IF pc[c] = "retire" THEN {oldHead[c]} ELSE {})

\* The next fields lead from the last value of head through the nodes of
\* list, each once, to nullptr.
Linked ==
  /\ mo[Latest] = IF list = <<>> THEN NULL ELSE list[Len(list)]
  /\ \A i \in DOMAIN list : next[list[i]] = IF i = 1 THEN NULL ELSE list[i - 1]
  /\ \A i, j \in DOMAIN list : list[i] = list[j] => i = j

Listed == {list[i] : i \in DOMAIN list}

(* Stale reads of head lose nothing and hand nothing out twice: every node *)
(* pushed is on the list or with one consumer (main.cpp 35, 47), provided  *)
(* the machine orders dependent loads.                                     *)
TakenOnce ==
  /\ Linked
  /\ Listed \cup UNION {Holding(c) : c \in Consumers}
       = {n \in Node : n[2] < pushed[n[1]]}
  /\ \A c \in Consumers : Listed \cap Holding(c) = {}
  /\ \A c, d \in Consumers : c # d => Holding(c) \cap Holding(d) = {}

LastPush == CHOOSE i \in DOMAIN mo :
              /\ i = 1 \/ mo[i] \notin Published(i - 1) \cup {NULL}
              /\ Published(i) = Published(Latest)

(* main prints PASS if one consumer has seen the last push when it leaves  *)
(* (main.cpp 85, 123).  done is loaded relaxed, so nothing makes a         *)
(* consumer see it.                                                        *)
DrainedIfSeen ==
  ok # NULL /\ (\E c \in Consumers : seen[c] >= LastPush) => ok

(* "drain the rest and exit" (main.cpp 113): main always prints PASS.      *)
AllReceived == ok # NULL => ok
=============================================================================
