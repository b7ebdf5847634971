------------------------- MODULE TreiberWeakProofs --------------------------
(***************************************************************************)
(* Proofs about TreiberWeak, for any numbers of threads and pushes and any *)
(* stale values the loads of head return: a value handed out is visible;   *)
(* if the machine orders dependent loads, nothing is lost or handed out    *)
(* twice, and main's verification succeeds if one consumer has seen the    *)
(* last push.                                                              *)
(***************************************************************************)
EXTENDS TreiberWeak, SequenceTheorems, TLAPS

\* Where the threads stand, and what main's progress says about them.
Control ==
  /\ \A p \in Producers : /\ pc[p] \in {"loop", "push", "exit"}
                          /\ pc[p] = "push" => pushed[p] < StressN
                          /\ pc[p] = "exit" => pushed[p] = StressN
  /\ \A c \in Consumers : /\ pc[c] # "push"
                          /\ pc[c] \in {"next", "cas", "retire"} => oldHead[c] # NULL
  /\ done => \A p \in Producers : pc[p] = "exit"
  /\ ok # NULL => /\ done /\ \A c \in Consumers : pc[c] = "exit"
                  /\ ok = (UNION {got[c] : c \in Consumers} = Node)

Base == TypeOK /\ Control /\ Visible

Pushed == {n \in Node : n[2] < pushed[n[1]]}

\* A value of head that a thread has read is that of a push before; a copy of
\* the next field of a node that is still on the list is current.
Copies ==
  /\ Published(Latest) = Pushed
  /\ \A t \in Threads : oldHead[t] \in Pushed \cup {NULL}
  /\ \A c \in Consumers : pc[c] = "cas" /\ oldHead[c] \in Listed =>
                            newHead[c] = next[oldHead[c]]
  /\ \A n \in retired : \E c \in Consumers : n \in got[c]

\* Only a push changes head from nullptr, and a consumer leaves having read
\* nullptr.
Ends ==
  /\ \A i \in 1 .. Len(mo) - 1 : mo[i] = NULL => mo[i + 1] \in Node \ Published(i)
  /\ \E i \in DOMAIN mo : /\ i = 1 \/ mo[i] \notin Published(i - 1) \cup {NULL}
                          /\ Published(i) = Published(Latest)
  /\ \A c \in Consumers : pc[c] = "exit" => mo[seen[c]] = NULL

Ordered == Base /\ Copies /\ Ends /\ TakenOnce

-----------------------------------------------------------------------------
(* A thread that has not left runs before main verifies, and a producer    *)
(* before main sets done.                                                  *)
LEMMA Running ==
  ASSUME Base
  PROVE  /\ \A p \in Producers : p \in Threads /\ p \notin Consumers
         /\ \A c \in Consumers : c \in Threads /\ c \notin Producers
         /\ \A p \in Producers : pc[p] # "exit" => ~ done /\ ok = NULL
         /\ \A c \in Consumers : pc[c] # "exit" => ok = NULL
BY ThreadsAssumption DEF Base, Control, Threads

(* The modification order after a compare-exchange that has succeeded.     *)
LEMMA Appended ==
  ASSUME TypeOK, NEW x \in Node \cup {NULL}, mo' = Append(mo, x)
  PROVE  /\ mo' \in Seq(Node \cup {NULL}) /\ mo' # <<>>
         /\ Len(mo) \in Nat \ {0} /\ Len(mo') = Len(mo) + 1
         /\ DOMAIN mo = 1 .. Len(mo) /\ DOMAIN mo' = 1 .. Len(mo) + 1
         /\ mo'[Len(mo) + 1] = x
         /\ \A i \in 1 .. Len(mo) : mo'[i] = mo[i]
         /\ \A i \in 1 .. Len(mo) : Published(i)' = Published(i)
         /\ Published(Latest)' = (Published(Latest) \cup {x}) \ {NULL}
<1>1. Len(mo) \in Nat \ {0}
  BY DEF TypeOK
<1>2. /\ mo' \in Seq(Node \cup {NULL}) /\ Len(mo') = Len(mo) + 1
      /\ mo'[Len(mo) + 1] = x /\ \A i \in 1 .. Len(mo) : mo'[i] = mo[i]
  BY DEF TypeOK
<1>3. DOMAIN mo = 1 .. Len(mo) /\ DOMAIN mo' = 1 .. Len(mo) + 1 /\ mo' # <<>>
  <2>1. Len(mo') # 0
    BY <1>1, <1>2
  <2>2. mo' # <<>>
    BY <2>1, EmptySeq
  <2> QED BY <1>2, <2>2, LenProperties DEF TypeOK
<1>4. ASSUME NEW i \in 1 .. Len(mo) PROVE Published(i)' = Published(i)
  <2>1. \A j \in 1 .. i : mo'[j] = mo[j]
    BY <1>1, <1>2
  <2> QED BY <2>1 DEF Published
<1>5. Published(Latest)' = (Published(Latest) \cup {x}) \ {NULL}
  <2>1. \A j \in 1 .. Len(mo) + 1 : j \in 1 .. Len(mo) \/ j = Len(mo) + 1
    BY <1>1
  <2>2. {mo'[j] : j \in 1 .. Len(mo) + 1} = {mo[j] : j \in 1 .. Len(mo)} \cup {x}
    <3>1. ASSUME NEW j \in 1 .. Len(mo) + 1 PROVE mo'[j] \in {mo[i] : i \in 1 .. Len(mo)} \cup {x}
      BY <1>2, <2>1
    <3>2. ASSUME NEW j \in 1 .. Len(mo)
          PROVE  j \in 1 .. Len(mo) + 1 /\ mo[j] = mo'[j]
      BY <1>1, <1>2
    <3>3. Len(mo) + 1 \in 1 .. Len(mo) + 1 /\ x = mo'[Len(mo) + 1]
      BY <1>1, <1>2
    <3> QED BY <3>1, <3>2, <3>3
  <2> QED BY <1>2, <2>2 DEF Published, Latest
<1> QED BY <1>1, <1>2, <1>3, <1>4, <1>5

(* What a load may return is an entry of the modification order.           *)
LEMMA Entries ==
  ASSUME TypeOK
  PROVE  /\ \A t \in Threads : Readable(t) \subseteq DOMAIN mo
         /\ \A i \in DOMAIN mo : mo[i] \in Node \cup {NULL}
         /\ \A i \in DOMAIN mo : Published(i) \subseteq Node
         /\ Latest \in DOMAIN mo /\ DOMAIN mo = 1 .. Latest /\ Latest \in Nat
<1>1. DOMAIN mo = 1 .. Len(mo) /\ Len(mo) \in Nat \ {0}
  BY DEF TypeOK
<1>2. \A i \in DOMAIN mo : mo[i] \in Node \cup {NULL}
  BY DEF TypeOK
<1>3. \A t \in Threads : seen[t] \in 1 .. Len(mo)
  BY <1>1 DEF TypeOK
<1>4. \A t \in Threads : Readable(t) \subseteq DOMAIN mo
  BY <1>1, <1>3 DEF Readable, Latest
<1>5. ASSUME NEW i \in DOMAIN mo PROVE Published(i) \subseteq Node
  <2>1. \A j \in 1 .. i : mo[j] \in Node \cup {NULL}
    BY <1>1, <1>2
  <2> QED BY <2>1 DEF Published
<1> QED BY <1>1, <1>2, <1>4, <1>5 DEF Latest

-----------------------------------------------------------------------------
(* Types, control and visibility, whatever the machine does.               *)

(* The threads have not started.                                           *)
LEMMA BaseInit == Init => Base
<1> SUFFICES ASSUME Init PROVE Base
  OBVIOUS
<1>1. mo \in Seq(Node \cup {NULL}) /\ mo # <<>> /\ DOMAIN mo = 1 .. 1
  BY DEF Init
<1>2. TypeOK
  <2>1. seen \in [Threads -> DOMAIN mo]
    BY <1>1 DEF Init
  <2>2. pushed \in [Producers -> 0 .. StressN] /\ list \in Seq(Node)
    BY StressNAssumption, EmptySeq DEF Init
  <2>3. /\ view \in [Threads -> SUBSET Node] /\ next \in [Node -> Node \cup {NULL}]
        /\ retired \subseteq Node
        /\ pc \in [Threads -> {"loop", "push", "empty", "pop", "next", "cas", "retire",
                               "exit"}]
        /\ oldHead \in [Threads -> Node \cup {NULL}]
        /\ newHead \in [Consumers -> Node \cup {NULL}]
        /\ got \in [Consumers -> SUBSET Node]
    BY DEF Init
  <2>4. done \in BOOLEAN /\ sawDone \subseteq Consumers /\ ok \in BOOLEAN \cup {NULL}
    BY DEF Init
  <2> QED BY <1>1, <2>1, <2>2, <2>3, <2>4 DEF TypeOK
<1>3. Control /\ Visible
  BY DEF Init, Control, Visible, Threads
<1> QED BY <1>2, <1>3 DEF Base

(* push() before its compare-exchange succeeds.                            *)
LEMMA BaseProducer ==
  ASSUME Base, NEW p \in Producers, PushLoad(p) \/ PushCASFail(p) \/ ProducerExit(p)
  PROVE  Base'
<1> USE DEF Base
<1>1. /\ p \in Threads /\ p \notin Consumers /\ pc[p] # "exit" /\ ~ done /\ ok = NULL
      /\ UNCHANGED <<mo, view, next, retired, newHead, pushed, got, main, sawDone, list>>
  BY Running DEF PushLoad, PushCASFail, ProducerExit, Goto, locals
<1>2. /\ pc'[p] \in {"push", "exit"}
      /\ pc'[p] = "push" => pushed[p] < StressN
      /\ pc'[p] = "exit" => pushed[p] = StressN
      /\ pc' \in [Threads -> {"loop", "push", "empty", "pop", "next", "cas", "retire",
                              "exit"}]
      /\ \A t \in Threads : t # p => pc'[t] = pc[t]
  BY <1>1 DEF PushLoad, PushCASFail, ProducerExit, Goto, TypeOK, Control
<1>3. /\ seen' \in [Threads -> DOMAIN mo]
      /\ oldHead' \in [Threads -> Node \cup {NULL}]
      /\ \A t \in Threads : t # p => oldHead'[t] = oldHead[t]
  BY <1>1, Entries DEF PushLoad, PushCASFail, ProducerExit, Reads, TypeOK, locals
<1>4. TypeOK'
  BY <1>1, <1>2, <1>3 DEF TypeOK, main
<1>5. Control' /\ Visible'
  BY <1>1, <1>2, <1>3 DEF Control, Visible, Threads, main
<1> QED BY <1>4, <1>5

(* push()'s compare-exchange succeeds.                                     *)
LEMMA BasePush == ASSUME Base, NEW p \in Producers, PushCASOk(p) PROVE Base'
<1> USE DEF Base
<1> DEFINE n == <<p, pushed[p]>>
<1>1. /\ p \in Threads /\ p \notin Consumers /\ pc[p] = "push" /\ ~ done /\ ok = NULL
      /\ pc' = [pc EXCEPT ![p] = "loop"] /\ next' = [next EXCEPT ![n] = oldHead[p]]
      /\ mo' = Append(mo, n) /\ list' = Append(list, n)
      /\ seen' = [seen EXCEPT ![p] = Len(mo) + 1]
      /\ view' = [view EXCEPT ![p] = @ \cup {n}]
      /\ pushed' = [pushed EXCEPT ![p] = @ + 1]
      /\ UNCHANGED <<retired, oldHead, newHead, got, main, sawDone>>
  BY Running DEF PushCASOk, Goto, Reads, Latest
<1>2. n \in Node /\ pushed[p] < StressN
  BY <1>1, StressNAssumption DEF Control, TypeOK, Node
<1> HIDE DEF n
<1>3. /\ mo' \in Seq(Node \cup {NULL}) /\ mo' # <<>> /\ list' \in Seq(Node)
      /\ seen' \in [Threads -> DOMAIN mo']
  <2>1. /\ DOMAIN mo' = 1 .. Len(mo) + 1 /\ DOMAIN mo = 1 .. Len(mo) /\ Len(mo) \in Nat
        /\ mo' \in Seq(Node \cup {NULL}) /\ mo' # <<>>
    BY <1>1, <1>2, Appended
  <2>2. list' \in Seq(Node)
    BY <1>1, <1>2 DEF TypeOK
  <2> QED BY <1>1, <2>1, <2>2 DEF TypeOK
<1>4. /\ pushed' \in [Producers -> 0 .. StressN]
      /\ \A q \in Producers : q # p => pushed'[q] = pushed[q]
      /\ \A t \in Threads : pc'[t] = IF t = p THEN "loop" ELSE pc[t]
      /\ \A c \in Consumers : view'[c] = view[c]
  BY <1>1, <1>2, StressNAssumption DEF TypeOK, Threads
<1>5. TypeOK'
  BY <1>1, <1>2, <1>3, <1>4 DEF TypeOK, main
<1>6. Control' /\ Visible'
  BY <1>1, <1>4 DEF Control, Visible, Threads, main
<1> QED BY <1>5, <1>6

(* consumer() and pop(), without the compare-exchange that succeeds.       *)
ConsumerReads(c) ==
  ConsumerLoop(c) \/ ConsumerEmpty(c) \/ PopLoad(c) \/ PopCASFail(c)

LEMMA ReadsEffect ==
  ASSUME Base, NEW c \in Consumers, ConsumerReads(c)
  PROVE  /\ c \in Threads /\ c \notin Producers
         /\ pc[c] \in {"loop", "empty", "pop", "cas"} /\ ok = NULL
         /\ pc'[c] \in {"loop", "empty", "pop", "next", "exit"}
         /\ pc' \in [Threads -> {"loop", "push", "empty", "pop", "next", "cas", "retire",
                                 "exit"}]
         /\ \A t \in Threads : t # c => pc'[t] = pc[t] /\ oldHead'[t] = oldHead[t]
                                        /\ seen'[t] = seen[t]
         /\ seen' \in [Threads -> DOMAIN mo]
         /\ oldHead' \in [Threads -> Node \cup {NULL}]
         /\ oldHead'[c] \in {oldHead[c]} \cup {mo[i] : i \in DOMAIN mo}
         /\ pc'[c] = "next" => oldHead'[c] # NULL
         /\ pc'[c] = "exit" => mo[seen'[c]] = NULL
         /\ view' \in [Threads -> SUBSET Node]
         /\ \A t \in Threads : view[t] \subseteq view'[t]
         /\ sawDone' \subseteq Consumers
         /\ UNCHANGED <<mo, next, retired, newHead, pushed, got, main, list>>
<1> USE DEF Base
<1>1. /\ c \in Threads /\ c \notin Producers /\ pc[c] \in {"loop", "empty", "pop", "cas"}
      /\ ok = NULL
  BY Running DEF ConsumerReads, ConsumerLoop, ConsumerEmpty, PopLoad, PopCASFail, Look, Goto
<1>2. CASE ConsumerLoop(c)
  BY <1>1, <1>2 DEF ConsumerLoop, Goto, TypeOK, locals
<1>3. CASE ConsumerEmpty(c)
  <2>1. PICK i \in Readable(c) : /\ Reads(c, i)
                                 /\ Goto(c, "empty", IF mo[i] = NULL THEN "exit" ELSE "pop")
    BY <1>3 DEF ConsumerEmpty
  <2>2. i \in DOMAIN mo /\ seen'[c] = i
    BY <1>1, <2>1, Entries DEF Reads, TypeOK
  <2> QED BY <1>1, <1>3, <2>1, <2>2 DEF ConsumerEmpty, Reads, Goto, TypeOK, locals
<1>4. CASE PopLoad(c) \/ PopCASFail(c)
  <2>1. PICK i \in Readable(c), from \in {"pop", "cas"} :
          Look(c, from, i) /\ (Acquires(c, i) \/ view' = view)
    BY <1>4 DEF PopLoad, PopCASFail
  <2>2. i \in DOMAIN mo /\ mo[i] \in Node \cup {NULL} /\ Published(i) \subseteq Node
    BY <1>1, <2>1, Entries
  <2>3. view' \in [Threads -> SUBSET Node] /\ \A t \in Threads : view[t] \subseteq view'[t]
    <3>1. c \in Threads /\ view \in [Threads -> SUBSET Node]
      BY <1>1 DEF TypeOK
    <3>2. CASE view' = view
      BY <3>1, <3>2
    <3>3. CASE view' = [view EXCEPT ![c] = @ \cup Published(i)]
      BY <2>2, <3>1, <3>3
    <3> QED BY <2>1, <3>2, <3>3 DEF Acquires
  <2>4. /\ pc' = [pc EXCEPT ![c] = IF mo[i] = NULL THEN "loop" ELSE "next"]
        /\ seen' = [seen EXCEPT ![c] = i] /\ oldHead' = [oldHead EXCEPT ![c] = mo[i]]
        /\ UNCHANGED <<mo, next, retired, newHead, pushed, got, main, sawDone, list>>
    BY <2>1 DEF Look, Reads, Goto
  <2> QED BY <1>1, <2>2, <2>3, <2>4 DEF TypeOK
<1> QED BY <1>2, <1>3, <1>4 DEF ConsumerReads

LEMMA BaseReads == ASSUME Base, NEW c \in Consumers, ConsumerReads(c) PROVE Base'
<1> USE DEF Base
<1>1. TypeOK'
  BY ReadsEffect DEF TypeOK, main
<1>2. Control'
  <2>1. \A p \in Producers : p \in Threads /\ p # c /\ pc'[p] = pc[p]
    BY ReadsEffect DEF Threads
  <2>2. \A d \in Consumers : d # c => pc'[d] = pc[d] /\ oldHead'[d] = oldHead[d]
    BY ReadsEffect DEF Threads
  <2>3. /\ pc'[c] \in {"loop", "empty", "pop", "next", "exit"} /\ ok' = NULL /\ done' = done
        /\ pc'[c] = "next" => oldHead'[c] # NULL
        /\ pushed' = pushed
    BY ReadsEffect DEF main
  <2> QED BY <2>1, <2>2, <2>3 DEF Control
<1>3. Visible'
  BY ReadsEffect DEF Visible, Threads
<1> QED BY <1>1, <1>2, <1>3

(* The read of the next field, the retirement and main's steps.            *)
LEMMA BaseOthers ==
  ASSUME Base,
         \/ \E c \in Consumers : PopNext(c) \/ Retire(c)
         \/ MainJoin \/ MainVerify \/ UNCHANGED vars
  PROVE  Base'
<1> USE DEF Base
<1>1. ASSUME NEW c \in Consumers, PopNext(c) PROVE Base'
  <2>1. PICK v \in Node \cup {NULL} : newHead' = [newHead EXCEPT ![c] = v]
    <3>1. oldHead[c] \in Node
      BY <1>1, Running DEF PopNext, Goto, TypeOK, Control
    <3> QED BY <1>1, <3>1 DEF PopNext, TypeOK
  <2>2. /\ pc[c] = "next" /\ pc' = [pc EXCEPT ![c] = "cas"] /\ c \in Threads
        /\ ok = NULL /\ c \notin Producers
        /\ UNCHANGED <<mo, seen, view, next, retired, oldHead, pushed, got, main, sawDone,
                       list>>
    BY <1>1, Running DEF PopNext, Goto
  <2>3. TypeOK'
    BY <2>1, <2>2 DEF TypeOK, main
  <2>4. Control' /\ Visible'
    BY <2>2 DEF Control, Visible, TypeOK, Threads, main
  <2> QED BY <2>3, <2>4
<1>2. ASSUME NEW c \in Consumers, Retire(c) PROVE Base'
  <2>1. /\ pc[c] = "retire" /\ pc' = [pc EXCEPT ![c] = "loop"] /\ c \in Threads
        /\ ok = NULL /\ c \notin Producers
        /\ retired' = retired \cup {oldHead[c]}
        /\ got' = [got EXCEPT ![c] = @ \cup {oldHead[c]}]
        /\ UNCHANGED <<mo, seen, view, next, oldHead, newHead, pushed, main, sawDone, list>>
    BY <1>2, Running DEF Retire, Goto
  <2>2. oldHead[c] \in Node
    BY <2>1 DEF Control, TypeOK
  <2>3. TypeOK'
    BY <2>1, <2>2 DEF TypeOK, main
  <2>4. Control' /\ Visible'
    BY <2>1 DEF Control, Visible, TypeOK, Threads, main
  <2> QED BY <2>3, <2>4
<1>3. CASE MainJoin
  BY <1>3 DEF MainJoin, TypeOK, Control, Visible, locals
<1>4. CASE MainVerify
  <2>1. /\ UNCHANGED <<mo, seen, view, next, retired, pc, locals, done, sawDone, list>>
        /\ ok' = (UNION {got[c] : c \in Consumers} = Node) /\ done
        /\ \A c \in Consumers : pc[c] = "exit"
    BY <1>4 DEF MainVerify
  <2>2. ok' \in BOOLEAN
    BY <2>1
  <2>3. TypeOK'
    BY <2>1, <2>2 DEF TypeOK, locals
  <2>4. UNION {got[c] : c \in Consumers}' = UNION {got[c] : c \in Consumers}
    BY <2>1 DEF locals
  <2>5. Control' /\ Visible'
    BY <2>1, <2>4 DEF Control, Visible, locals
  <2> QED BY <2>3, <2>5
<1>5. CASE UNCHANGED vars
  BY <1>5 DEF vars, locals, main, TypeOK, Control, Visible
<1> QED BY <1>1, <1>2, <1>3, <1>4, <1>5

(* pop()'s compare-exchange succeeds and acquires what was released.       *)
LEMMA PopEffect ==
  ASSUME Base, NEW c \in Consumers, PopCASOk(c)
  PROVE  /\ c \in Threads /\ c \notin Producers /\ ok = NULL
         /\ pc[c] = "cas" /\ pc' = [pc EXCEPT ![c] = "retire"]
         /\ mo[Len(mo)] = oldHead[c] /\ oldHead[c] \in Node
         /\ newHead[c] \in Node \cup {NULL}
         /\ mo' = Append(mo, newHead[c]) /\ list' = SubSeq(list, 1, Len(list) - 1)
         /\ seen' = [seen EXCEPT ![c] = Len(mo) + 1]
         /\ view' = [view EXCEPT ![c] = @ \cup Published(Len(mo))]
         /\ UNCHANGED <<next, retired, locals, main, sawDone>>
<1>1. pc[c] = "cas"
  BY DEF PopCASOk, Goto
<1> QED BY <1>1, Running DEF PopCASOk, Goto, Reads, Acquires, Latest, Base, TypeOK, Control

LEMMA BasePop == ASSUME Base, NEW c \in Consumers, PopCASOk(c) PROVE Base'
<1> USE DEF Base
<1>1. /\ DOMAIN mo' = 1 .. Len(mo) + 1 /\ DOMAIN mo = 1 .. Len(mo) /\ Len(mo) \in Nat \ {0}
      /\ mo' \in Seq(Node \cup {NULL}) /\ mo' # <<>>
  BY PopEffect, Appended
<1>2. list' \in Seq(Node)
  <2>1. Len(list) - 1 \in Int /\ \A i \in 1 .. Len(list) - 1 : list[i] \in Node
    BY DEF TypeOK
  <2>2. SubSeq(list, 1, Len(list) - 1) \in Seq(Node)
    BY <2>1, SubSeqProperties, 1 \in Int
  <2> QED BY <2>2, PopEffect
<1>3. Published(Len(mo)) \subseteq Node
  BY Entries DEF Latest
<1>4. TypeOK'
  <2>1. seen' \in [Threads -> DOMAIN mo']
    BY <1>1, PopEffect DEF TypeOK
  <2>2. view' \in [Threads -> SUBSET Node]
    <3>1. view' = [view EXCEPT ![c] = @ \cup Published(Len(mo))] /\ c \in Threads
      BY PopEffect
    <3>2. view \in [Threads -> SUBSET Node]
      BY DEF TypeOK
    <3>3. view[c] \cup Published(Len(mo)) \in SUBSET Node
      BY <1>3, <3>1, <3>2
    <3> QED BY <3>1, <3>2, <3>3
  <2>3. pc' \in [Threads -> {"loop", "push", "empty", "pop", "next", "cas", "retire",
                             "exit"}]
    BY PopEffect DEF TypeOK
  <2> QED BY <1>1, <1>2, <2>1, <2>2, <2>3, PopEffect DEF TypeOK, locals, main
<1>5. Control'
  BY PopEffect DEF Control, TypeOK, Threads, locals, main
<1>6. oldHead[c] \in Published(Len(mo))
  <2>1. oldHead[c] # NULL
    BY PopEffect, NullAssumption
  <2> QED BY <1>1, <2>1, PopEffect DEF Published
<1>7. Visible'
  <2>1. \A d \in Consumers : /\ d \in Threads /\ oldHead'[d] = oldHead[d]
                             /\ d # c => pc'[d] = pc[d] /\ view'[d] = view[d]
    BY PopEffect DEF TypeOK, Threads, locals
  <2>2. oldHead[c] \in view'[c]
    BY <1>6, PopEffect DEF TypeOK
  <2> QED BY <2>1, <2>2 DEF Visible
<1> QED BY <1>4, <1>5, <1>7

(* Every step.                                                             *)
LEMMA BaseNext == Base /\ [Next]_vars => Base'
BY BaseProducer, BasePush, BaseReads, BaseOthers, BasePop DEF Next, ConsumerReads, Terminated

(* The acquire of the compare-exchange that took a node makes the node     *)
(* visible to the consumer that reads its value, also on machines that do  *)
(* not order dependent loads (main.cpp 48).                                *)
THEOREM ValueVisible == Spec => []Visible
<1>1. Base => Visible
  BY DEF Base
<1> QED BY <1>1, BaseInit, BaseNext, PTL DEF Spec

-----------------------------------------------------------------------------
(* The list, if the machine orders dependent loads.                        *)

(* The set of pushed nodes: what is listed or held is among them.          *)
LEMMA ListedPushed ==
  ASSUME Ordered
  PROVE  /\ Listed \subseteq Pushed /\ Pushed \subseteq Node /\ Listed \cap retired = {}
         /\ \A c \in Consumers : Holding(c) \subseteq Pushed
         /\ Listed \cup UNION {Holding(c) : c \in Consumers} = Pushed
         /\ \A i \in DOMAIN mo : mo[i] \in Pushed \cup {NULL}
         /\ DOMAIN list = 1 .. Len(list) /\ Len(list) \in Nat
         /\ \A i \in DOMAIN list : list[i] \in Listed
<1>1. Listed \cup UNION {Holding(c) : c \in Consumers} = Pushed
  BY DEF Ordered, TakenOnce, Pushed
<1>2. Listed \cap retired = {}
  BY DEF Ordered, Copies, TakenOnce, Holding
<1>3. \A i \in DOMAIN mo : mo[i] \in Pushed \cup {NULL}
  <2>1. DOMAIN mo = 1 .. Latest
    BY Entries DEF Ordered, Base
  <2> QED BY <2>1 DEF Ordered, Copies, Published
<1>4. DOMAIN list = 1 .. Len(list) /\ Len(list) \in Nat
  BY DEF Ordered, Base, TypeOK
<1> QED BY <1>1, <1>2, <1>3, <1>4 DEF Pushed, Listed

(* The threads have not started.                                           *)
LEMMA OrderedInit == Init => Ordered
<1> SUFFICES ASSUME Init PROVE Ordered
  OBVIOUS
<1>1. Base
  BY BaseInit
<1>2. Latest = 1 /\ DOMAIN mo = 1 .. 1 /\ mo[1] = NULL
  BY DEF Init, Latest
<1>3. Pushed = {}
  BY DEF Init, Pushed, Node
<1>4. Published(1) = {}
  BY <1>2 DEF Published
<1>5. Listed = {} /\ DOMAIN list = {} /\ list = <<>>
  BY DEF Init, Listed
<1>6. \A c \in Consumers : Holding(c) = {}
  BY DEF Init, Holding, Threads
<1>7. Copies
  BY <1>2, <1>3, <1>4, <1>5 DEF Init, Copies
<1>8. Ends
  BY <1>2 DEF Init, Ends, Latest, Threads
<1>9. TakenOnce
  BY <1>2, <1>3, <1>5, <1>6 DEF TakenOnce, Linked, Pushed
<1> QED BY <1>1, <1>7, <1>8, <1>9 DEF Ordered

(* A step that changes no list and takes or gives up no node.              *)
LEMMA OrderedFrame ==
  ASSUME Ordered, UNCHANGED <<mo, next, list, retired, pushed, got, newHead>>,
         \A c \in Consumers : /\ pc'[c] \in {"cas", "retire"} =>
                                   pc'[c] = pc[c] /\ oldHead'[c] = oldHead[c]
                              /\ pc[c] = "retire" => pc'[c] = "retire"
                              /\ pc'[c] = "exit" => mo[seen'[c]] = NULL,
         \A t \in Threads : oldHead'[t] \in {oldHead[t]} \cup {mo[i] : i \in DOMAIN mo}
  PROVE  Copies' /\ Ends' /\ TakenOnce'
<1> USE DEF Ordered
<1>1. Pushed' = Pushed /\ Listed' = Listed /\ Latest' = Latest
  BY DEF Pushed, Listed, Latest
<1>2. \A i \in DOMAIN mo : Published(i)' = Published(i)
  BY DEF Published
<1>3. Published(Latest)' = Published(Latest)
  BY <1>1 DEF Published
<1>4. \A t \in Threads : oldHead'[t] \in Pushed \cup {NULL}
  BY ListedPushed DEF Copies
<1>5. Copies'
  BY <1>1, <1>3, <1>4 DEF Copies
<1>6. Ends'
  <2>1. \A i \in 1 .. Len(mo) - 1 : i \in DOMAIN mo
    BY Entries DEF Base, Latest
  <2>2. \A i \in 1 .. Len(mo') - 1 : mo'[i] = NULL => mo'[i + 1] \in Node \ Published(i)'
    BY <1>2, <2>1 DEF Ends
  <2>3. PICK i \in DOMAIN mo : /\ i = 1 \/ mo[i] \notin Published(i - 1) \cup {NULL}
                               /\ Published(i) = Published(Latest)
    BY DEF Ends
  <2>4. i # 1 => Published(i - 1)' = Published(i - 1)
    BY DEF Published
  <2> QED BY <1>2, <1>3, <2>2, <2>3, <2>4 DEF Ends
<1>7. \A c \in Consumers : Holding(c)' = Holding(c)
  BY DEF Holding
<1>8. UNION {Holding(c)' : c \in Consumers} = UNION {Holding(c) : c \in Consumers}
  BY <1>7
<1>9. Linked'
  BY <1>1 DEF TakenOnce, Linked, Latest
<1>10. TakenOnce'
  BY <1>1, <1>7, <1>8, <1>9 DEF TakenOnce, Pushed
<1> QED BY <1>5, <1>6, <1>10

(* The steps that are such: loads, failed compare-exchanges, main.         *)
LEMMA OrderedQuiet ==
  ASSUME Ordered,
         \/ \E p \in Producers : PushLoad(p) \/ PushCASFail(p) \/ ProducerExit(p)
         \/ \E c \in Consumers : ConsumerReads(c)
         \/ MainJoin \/ MainVerify \/ UNCHANGED vars
  PROVE  Ordered'
<1> USE DEF Ordered
<1>1. ASSUME NEW p \in Producers, PushLoad(p) \/ PushCASFail(p) \/ ProducerExit(p)
      PROVE  Ordered'
  <2>1. UNCHANGED <<mo, next, list, retired, pushed, got, newHead>>
    BY <1>1 DEF PushLoad, PushCASFail, ProducerExit, locals
  <2>2. p \in Threads /\ p \notin Consumers
    BY Running
  <2>3. \A t \in Threads : t # p => pc'[t] = pc[t] /\ oldHead'[t] = oldHead[t]
                                    /\ seen'[t] = seen[t]
    BY <1>1, <2>2 DEF PushLoad, PushCASFail, ProducerExit, Reads, Goto, Base, TypeOK, locals
  <2>4. oldHead'[p] \in {oldHead[p]} \cup {mo[i] : i \in DOMAIN mo}
    BY <1>1, <2>2, Entries DEF PushLoad, PushCASFail, ProducerExit, Base, TypeOK, locals
  <2>5. Copies' /\ Ends' /\ TakenOnce'
    <3>1. \A c \in Consumers : c \in Threads /\ c # p
      BY <2>2 DEF Threads
    <3>2. \A t \in Threads : oldHead'[t] \in {oldHead[t]} \cup {mo[i] : i \in DOMAIN mo}
      BY <2>3, <2>4
    <3>3. \A c \in Consumers : pc'[c] = "exit" => mo[seen'[c]] = NULL
      BY <2>3, <3>1 DEF Ends
    <3> QED BY <2>1, <2>3, <3>1, <3>2, <3>3, OrderedFrame
  <2> QED BY <1>1, <2>5, BaseProducer
<1>2. ASSUME NEW c \in Consumers, ConsumerReads(c) PROVE Ordered'
  <2>1. \A t \in Threads : oldHead'[t] \in {oldHead[t]} \cup {mo[i] : i \in DOMAIN mo}
    BY <1>2, ReadsEffect
  <2>2. \A d \in Consumers : /\ pc'[d] \in {"cas", "retire"} =>
                                   pc'[d] = pc[d] /\ oldHead'[d] = oldHead[d]
                             /\ pc[d] = "retire" => pc'[d] = "retire"
    BY <1>2, ReadsEffect DEF Threads
  <2>3. \A d \in Consumers : pc'[d] = "exit" => mo[seen'[d]] = NULL
    BY <1>2, ReadsEffect DEF Ends, Threads
  <2> QED BY <1>2, <2>1, <2>2, <2>3, ReadsEffect, OrderedFrame, BaseReads
<1>3. CASE MainJoin \/ MainVerify \/ UNCHANGED vars
  <2>1. UNCHANGED <<mo, seen, next, list, retired, pc, locals>>
    BY <1>3 DEF MainJoin, MainVerify, vars
  <2>2. Copies' /\ Ends' /\ TakenOnce'
    BY <2>1, OrderedFrame DEF Ends, locals
  <2> QED BY <1>3, <2>2, BaseOthers
<1> QED BY <1>1, <1>2, <1>3

(* An index that is not the last has a successor.                          *)
LEMMA BeforeLast ==
  ASSUME NEW m \in Nat, NEW i \in 1 .. m, i # m
  PROVE  i \in 1 .. m - 1 /\ i + 1 \in 1 .. m
OBVIOUS

(* The last entry is the one that Latest names.                            *)
LEMMA PublishedLast ==
  ASSUME NEW k, k = Latest' PROVE Published(k)' = Published(Latest)'
BY DEF Published

(* push() puts a new node on the list.                                     *)
LEMMA OrderedPush == ASSUME Ordered, NEW p \in Producers, PushCASOk(p) PROVE Ordered'
<1> USE DEF Ordered
<1> DEFINE n == <<p, pushed[p]>>
<1>1. /\ p \in Threads /\ p \notin Consumers /\ pc[p] = "push"
      /\ pc' = [pc EXCEPT ![p] = "loop"] /\ next' = [next EXCEPT ![n] = oldHead[p]]
      /\ mo' = Append(mo, n) /\ list' = Append(list, n) /\ mo[Len(mo)] = oldHead[p]
      /\ seen' = [seen EXCEPT ![p] = Len(mo) + 1]
      /\ pushed' = [pushed EXCEPT ![p] = @ + 1]
      /\ UNCHANGED <<retired, oldHead, newHead, got>>
  BY Running DEF PushCASOk, Goto, Reads, Latest
<1>2. n \in Node /\ n \notin Pushed /\ pushed[p] \in Nat
  BY <1>1, StressNAssumption DEF Base, Control, TypeOK, Node, Pushed
<1>3. Pushed' = Pushed \cup {n}
  <2>1. ASSUME NEW m \in Node PROVE m[2] < pushed'[m[1]] <=> m[2] < pushed[m[1]] \/ m = n
    <3>1. PICK q \in Producers, i \in 0 .. StressN - 1 : m = <<q, i>>
      BY DEF Node
    <3>2. pushed'[q] = IF q = p THEN pushed[p] + 1 ELSE pushed[q]
      BY <1>1 DEF Base, TypeOK
    <3>3. pushed[q] \in Nat /\ pushed[p] \in Nat /\ i \in Nat
      BY StressNAssumption DEF Base, TypeOK
    <3>4. i < pushed'[q] <=> i < pushed[q] \/ (q = p /\ i = pushed[p])
      BY <3>2, <3>3
    <3> QED BY <3>1, <3>4
  <2> QED BY <1>2, <2>1 DEF Pushed
<1> HIDE DEF n
<1>4. /\ Len(mo) \in Nat \ {0} /\ Len(mo') = Len(mo) + 1 /\ mo'[Len(mo) + 1] = n
      /\ DOMAIN mo = 1 .. Len(mo) /\ DOMAIN mo' = 1 .. Len(mo) + 1
      /\ \A i \in 1 .. Len(mo) : mo'[i] = mo[i]
      /\ \A i \in 1 .. Len(mo) : Published(i)' = Published(i)
      /\ Published(Latest)' = Published(Latest) \cup {n}
  BY <1>1, <1>2, Appended, NullAssumption DEF Base, Published
<1>5. /\ list' \in Seq(Node) /\ list' # <<>> /\ Len(list') = Len(list) + 1
      /\ Len(list) \in Nat /\ DOMAIN list = 1 .. Len(list)
      /\ DOMAIN list' = 1 .. Len(list) + 1
      /\ list'[Len(list) + 1] = n /\ \A i \in 1 .. Len(list) : list'[i] = list[i]
  <2>1. list \in Seq(Node)
    BY DEF Base, TypeOK
  <2>2. list' \in Seq(Node) /\ list' # <<>>
    BY <1>1, <1>2, <2>1, AppendProperties
  <2>3. Len(list') = Len(list) + 1
        /\ list'[Len(list) + 1] = n /\ \A i \in 1 .. Len(list) : list'[i] = list[i]
    BY <1>1, <1>2, <2>1, AppendProperties
  <2> QED BY <2>1, <2>2, <2>3, LenProperties
<1>6. Listed' = Listed \cup {n}
  <2>1. \A i \in 1 .. Len(list) + 1 : i \in 1 .. Len(list) \/ i = Len(list) + 1
    BY <1>5
  <2>2. \A i \in 1 .. Len(list) : i \in 1 .. Len(list) + 1
    BY <1>5
  <2>3. Len(list) + 1 \in 1 .. Len(list) + 1
    BY <1>5
  <2>4. Listed' \subseteq Listed \cup {n}
    BY <1>5, <2>1 DEF Listed
  <2>5. Listed \subseteq Listed' /\ n \in Listed'
    BY <1>5, <2>2, <2>3 DEF Listed
  <2> QED BY <2>4, <2>5
<1>7. Linked'
  <2>1. \A i \in 1 .. Len(list) : list[i] \in Node /\ list[i] # n
    BY <1>2, <1>5, ListedPushed
  <2>2. mo'[Latest'] = list'[Len(list')]
    BY <1>4, <1>5 DEF Latest
  <2>3. ASSUME NEW i \in 1 .. Len(list)
        PROVE  next'[list'[i]] = IF i = 1 THEN NULL ELSE list'[i - 1]
    <3>1. next'[list[i]] = next[list[i]]
      BY <1>1, <2>1 DEF Base, TypeOK
    <3>2. i # 1 => i - 1 \in 1 .. Len(list)
      BY <1>5
    <3> QED BY <1>5, <3>1, <3>2 DEF TakenOnce, Linked
  <2>4. next'[n] = IF Len(list) + 1 = 1 THEN NULL ELSE list'[Len(list)]
    <3>1. next'[n] = mo[Len(mo)]
      BY <1>1, <1>2 DEF Base, TypeOK
    <3>2. list = <<>> <=> Len(list) = 0
      BY EmptySeq DEF Base, TypeOK
    <3>3. Len(list) # 0 => Len(list) \in 1 .. Len(list)
      BY <1>5
    <3> QED BY <1>5, <3>1, <3>2, <3>3 DEF TakenOnce, Linked, Latest
  <2>5. \A i, j \in 1 .. Len(list) : list[i] = list[j] => i = j
    BY <1>5 DEF TakenOnce, Linked
  <2>6. \A i \in 1 .. Len(list) + 1 : i \in 1 .. Len(list) \/ i = Len(list) + 1
    BY <1>5
  <2>7. \A i \in DOMAIN list' : next'[list'[i]] = IF i = 1 THEN NULL ELSE list'[i - 1]
    <3>1. (Len(list) + 1) - 1 = Len(list)
      BY <1>5
    <3> QED BY <1>5, <2>3, <2>4, <2>6, <3>1
  <2>8. \A i, j \in DOMAIN list' : list'[i] = list'[j] => i = j
    BY <1>5, <2>1, <2>5, <2>6
  <2> QED BY <1>5, <2>2, <2>7, <2>8 DEF Linked
<1>8. \A c \in Consumers : c \in Threads /\ pc'[c] = pc[c] /\ seen'[c] = seen[c]
                           /\ Holding(c)' = Holding(c)
  BY <1>1 DEF Base, TypeOK, Threads, Holding
<1>9. TakenOnce'
  <2>1. UNION {Holding(c)' : c \in Consumers} = UNION {Holding(c) : c \in Consumers}
    BY <1>8
  <2>2. Listed' \cup UNION {Holding(c)' : c \in Consumers} = Pushed'
    BY <1>3, <1>6, <2>1, ListedPushed
  <2>3. \A c \in Consumers : n \notin Holding(c)
    BY <1>2, ListedPushed
  <2> QED BY <1>6, <1>7, <1>8, <2>2, <2>3 DEF TakenOnce, Pushed
<1>10. Copies'
  <2>1. \A c \in Consumers : oldHead[c] # n
    BY <1>2, <1>8, NullAssumption DEF Copies
  <2>2. \A c \in Consumers : oldHead[c] \in Listed' => next'[oldHead[c]] = next[oldHead[c]]
    BY <1>1, <1>6, <2>1, ListedPushed DEF Base, TypeOK
  <2>3. Published(Latest)' = Pushed'
    BY <1>3, <1>4 DEF Copies
  <2> QED BY <1>1, <1>3, <1>6, <1>8, <2>1, <2>2, <2>3 DEF Copies
<1>11. Ends'
  <2>1. \A i \in 1 .. Len(mo') - 1 : mo'[i] = NULL => mo'[i + 1] \in Node \ Published(i)'
    <3> SUFFICES ASSUME NEW i \in 1 .. Len(mo), mo[i] = NULL
                 PROVE  mo'[i + 1] \in Node \ Published(i)
      BY <1>4
    <3>1. CASE i = Len(mo)
      BY <1>2, <1>4, <3>1 DEF Copies, Latest
    <3>2. CASE i # Len(mo)
      <4>0. Len(mo) \in Nat
        BY <1>4
      <4>1. i \in 1 .. Len(mo) - 1 /\ i + 1 \in 1 .. Len(mo)
        BY <3>2, <4>0, BeforeLast
      <4>2. mo[i + 1] \in Node \ Published(i)
        BY <4>1 DEF Ends
      <4>3. mo'[i + 1] = mo[i + 1]
        BY <1>4, <4>1
      <4> QED BY <4>2, <4>3
    <3> QED BY <3>1, <3>2
  <2>2. /\ Len(mo) + 1 \in DOMAIN mo' /\ Latest' = Len(mo) + 1
        /\ (Len(mo) + 1) - 1 = Len(mo) /\ Len(mo) \in 1 .. Len(mo)
    BY <1>4 DEF Latest
  <2>3. n \notin Published(Len(mo)) \cup {NULL}
    BY <1>2, NullAssumption DEF Copies, Latest
  <2>4. \E i \in DOMAIN mo' : /\ i = 1 \/ mo'[i] \notin Published(i - 1)' \cup {NULL}
                              /\ Published(i)' = Published(Latest)'
    <3>1. PICK k \in DOMAIN mo' : k = Len(mo) + 1
      BY <2>2
    <3>2. k = Latest'
      BY <2>2, <3>1
    <3>2a. Published(k)' = Published(Latest)'
      BY <3>2, PublishedLast, SMTT(30)
    <3>3. PICK m \in 1 .. Len(mo) : m = k - 1
      BY <2>2, <3>1
    <3>4. Published(m)' = Published(m) /\ m = Len(mo)
      BY <1>4, <2>2, <3>1, <3>3
    <3>5. mo'[k] \notin Published(k - 1)' \cup {NULL}
      BY <1>4, <2>3, <3>1, <3>3, <3>4
    <3> QED BY <3>2, <3>5
  <2>5. \A c \in Consumers : pc'[c] = "exit" => mo'[seen'[c]] = NULL
    BY <1>4, <1>8 DEF Ends, Base, TypeOK
  <2> QED BY <2>1, <2>4, <2>5 DEF Ends
<1> QED BY <1>9, <1>10, <1>11, BasePush

(* pop() reads the next field: of a node that is still on the list it gets *)
(* what push() has written.                                                *)
LEMMA OrderedNext ==
  ASSUME DependencyOrder, Ordered, NEW c \in Consumers, PopNext(c) PROVE Ordered'
<1> USE DEF Ordered
<1>1. /\ pc[c] = "next" /\ pc' = [pc EXCEPT ![c] = "cas"] /\ c \in Threads
      /\ UNCHANGED <<mo, seen, next, retired, oldHead, pushed, got, list>>
  BY Running DEF PopNext, Goto
<1>2. oldHead[c] \in Listed => newHead'[c] = next[oldHead[c]]
  <2>1. oldHead[c] \in Listed => oldHead[c] \notin retired
    BY ListedPushed
  <2> QED BY <2>1 DEF PopNext, Base, TypeOK
<1>3. \A d \in Consumers : d # c => pc'[d] = pc[d] /\ newHead'[d] = newHead[d]
  BY <1>1 DEF PopNext, Base, TypeOK, Threads
<1>4. Pushed' = Pushed /\ Listed' = Listed /\ Latest' = Latest /\ pc'[c] = "cas"
  BY <1>1 DEF Pushed, Listed, Latest, Base, TypeOK
<1>5. Copies'
  <2>1. Published(Latest)' = Published(Latest)
    BY <1>1, <1>4 DEF Published
  <2> QED BY <1>1, <1>2, <1>3, <1>4, <2>1 DEF Copies
<1>6. Ends'
  <2>1. \A i : Published(i)' = Published(i)
    BY <1>1 DEF Published
  <2>2. Published(Latest)' = Published(Latest)
    BY <1>1, <1>4 DEF Published
  <2>3. \A d \in Consumers : pc'[d] = "exit" => pc[d] = "exit"
    BY <1>3, <1>4
  <2> QED BY <1>1, <2>1, <2>2, <2>3 DEF Ends
<1>7. TakenOnce'
  <2>1. \A d \in Consumers : Holding(d)' = Holding(d)
    BY <1>1, <1>3, <1>4 DEF Holding
  <2>2. UNION {Holding(d)' : d \in Consumers} = UNION {Holding(d) : d \in Consumers}
    BY <2>1
  <2>3. Linked'
    BY <1>1, <1>4 DEF TakenOnce, Linked, Latest
  <2> QED BY <1>4, <2>1, <2>2, <2>3 DEF TakenOnce, Pushed
<1> QED BY <1>5, <1>6, <1>7, BaseOthers

(* The value goes to the consumer's set, the node to the trash.            *)
LEMMA OrderedRetire == ASSUME Ordered, NEW c \in Consumers, Retire(c) PROVE Ordered'
<1> USE DEF Ordered
<1>1. /\ pc[c] = "retire" /\ pc' = [pc EXCEPT ![c] = "loop"] /\ c \in Threads
      /\ retired' = retired \cup {oldHead[c]}
      /\ got' = [got EXCEPT ![c] = @ \cup {oldHead[c]}]
      /\ UNCHANGED <<mo, seen, next, oldHead, newHead, pushed, list>>
  BY Running DEF Retire, Goto
<1>2. /\ \A d \in Consumers : d # c => pc'[d] = pc[d] /\ got'[d] = got[d]
      /\ pc'[c] = "loop" /\ got'[c] = got[c] \cup {oldHead[c]}
  BY <1>1 DEF Base, TypeOK, Threads
<1>3. Pushed' = Pushed /\ Listed' = Listed /\ Latest' = Latest
  BY <1>1 DEF Pushed, Listed, Latest
<1>4. Copies'
  <2>1. Published(Latest)' = Published(Latest)
    BY <1>1, <1>3 DEF Published
  <2>2. \A m \in retired' : \E d \in Consumers : m \in got'[d]
    BY <1>1, <1>2 DEF Copies
  <2> QED BY <1>1, <1>2, <1>3, <2>1, <2>2 DEF Copies
<1>5. Ends'
  <2>1. \A i : Published(i)' = Published(i)
    BY <1>1 DEF Published
  <2>2. Published(Latest)' = Published(Latest)
    BY <1>1, <1>3 DEF Published
  <2>3. \A d \in Consumers : pc'[d] = "exit" => pc[d] = "exit"
    BY <1>2
  <2> QED BY <1>1, <2>1, <2>2, <2>3 DEF Ends
<1>6. TakenOnce'
  <2>1. \A d \in Consumers : Holding(d)' = Holding(d)
    BY <1>1, <1>2 DEF Holding
  <2>2. UNION {Holding(d)' : d \in Consumers} = UNION {Holding(d) : d \in Consumers}
    BY <2>1
  <2>3. Linked'
    BY <1>1, <1>3 DEF TakenOnce, Linked, Latest
  <2> QED BY <1>3, <2>1, <2>2, <2>3 DEF TakenOnce, Pushed
<1> QED BY <1>4, <1>5, <1>6, BaseOthers

(* pop() takes the node at the end of the list.                            *)
LEMMA OrderedPop == ASSUME Ordered, NEW c \in Consumers, PopCASOk(c) PROVE Ordered'
<1> USE DEF Ordered
<1> DEFINE n == oldHead[c]
           len == Len(list)
<1>1. /\ c \in Threads /\ pc[c] = "cas" /\ pc' = [pc EXCEPT ![c] = "retire"]
      /\ mo[Len(mo)] = n /\ n \in Node /\ n # NULL
      /\ newHead[c] \in Node \cup {NULL} /\ mo' = Append(mo, newHead[c])
      /\ list' = SubSeq(list, 1, len - 1)
      /\ seen' = [seen EXCEPT ![c] = Len(mo) + 1]
      /\ UNCHANGED <<next, retired, oldHead, newHead, pushed, got>>
  BY PopEffect, NullAssumption DEF locals
<1>2. /\ list # <<>> /\ n = list[len] /\ len \in Nat \ {0} /\ DOMAIN list = 1 .. len
      /\ n \in Listed
  <2>1. list # <<>> /\ n = list[len]
    BY <1>1 DEF TakenOnce, Linked, Latest
  <2>2. len \in Nat \ {0} /\ DOMAIN list = 1 .. len
    BY <2>1, EmptySeq, LenProperties DEF Base, TypeOK
  <2> QED BY <2>1, <2>2 DEF Listed
<1>3. newHead[c] = IF len = 1 THEN NULL ELSE list[len - 1]
  <2>1. newHead[c] = next[n]
    BY <1>1, <1>2 DEF Copies
  <2>2. next[list[len]] = IF len = 1 THEN NULL ELSE list[len - 1]
    BY <1>2 DEF TakenOnce, Linked
  <2> QED BY <1>2, <2>1, <2>2
<1>4. /\ list' \in Seq(Node) /\ Len(list') = len - 1 /\ DOMAIN list' = 1 .. len - 1
      /\ \A i \in 1 .. len - 1 : list'[i] = list[i]
  <2>1. \A i \in 1 .. len - 1 : list[i] \in Node
    BY <1>2 DEF Base, TypeOK
  <2>2. len - 1 \in Int /\ 1 \in Int /\ (len - 1) - 1 + 1 = len - 1
        /\ \A i \in 1 .. len - 1 : 1 + i - 1 = i
    BY <1>2
  <2>3. /\ SubSeq(list, 1, len - 1) \in Seq(Node)
        /\ Len(SubSeq(list, 1, len - 1)) = IF 1 <= len - 1 THEN (len - 1) - 1 + 1 ELSE 0
        /\ \A i \in 1 .. (len - 1) - 1 + 1 : SubSeq(list, 1, len - 1)[i] = list[1 + i - 1]
    <3> HIDE DEF len
    <3> QED BY <2>1, <2>2, SubSeqProperties
  <2>4. list' \in Seq(Node) /\ Len(list') = len - 1
    BY <1>1, <1>2, <2>2, <2>3
  <2>5. \A i \in 1 .. len - 1 : list'[i] = list[i]
    BY <1>1, <2>2, <2>3
  <2> QED BY <2>4, <2>5, LenProperties
<1> HIDE DEF n, len
<1>5. Listed' = Listed \ {n}
  <2>1. \A i \in 1 .. len : i \in 1 .. len - 1 \/ i = len
    BY <1>2
  <2>2. \A i \in 1 .. len - 1 : i \in 1 .. len /\ i # len
    BY <1>2
  <2>3. \A i, j \in 1 .. len : list[i] = list[j] => i = j
    BY <1>2 DEF TakenOnce, Linked
  <2>4. \A i \in 1 .. len - 1 : list[i] # n
    BY <1>2, <2>2, <2>3
  <2>5. Listed = {list[i] : i \in 1 .. len} /\ Listed' = {list'[i] : i \in 1 .. len - 1}
    BY <1>2, <1>4 DEF Listed
  <2>6. Listed' \subseteq Listed \ {n}
    BY <1>4, <2>2, <2>4, <2>5
  <2>7. Listed \ {n} \subseteq Listed'
    BY <1>2, <1>4, <2>1, <2>5
  <2> QED BY <2>6, <2>7
<1>6. newHead[c] \in Pushed \cup {NULL} /\ Pushed' = Pushed
  <2>1. newHead[c] \in Listed \cup {NULL}
    <3>1. len # 1 => len - 1 \in 1 .. len
      BY <1>2
    <3> QED BY <1>2, <1>3, <3>1, ListedPushed
  <2> QED BY <1>1, <2>1, ListedPushed DEF Pushed
<1>7. /\ Len(mo) \in Nat \ {0} /\ Len(mo') = Len(mo) + 1 /\ mo'[Len(mo) + 1] = newHead[c]
      /\ DOMAIN mo = 1 .. Len(mo) /\ DOMAIN mo' = 1 .. Len(mo) + 1
      /\ \A i \in 1 .. Len(mo) : mo'[i] = mo[i]
      /\ \A i \in 1 .. Len(mo) : Published(i)' = Published(i)
      /\ Published(Latest)' = (Published(Latest) \cup {newHead[c]}) \ {NULL}
  BY <1>1, Appended DEF Base
<1>8. Published(Latest)' = Published(Latest)
  <2>1. NULL \notin Published(Latest)
    BY DEF Published
  <2>2. Published(Latest) = Pushed
    BY DEF Copies
  <2>3. Published(Latest)' = (Published(Latest) \cup {newHead[c]}) \ {NULL}
    BY <1>7
  <2> QED BY <1>6, <2>1, <2>2, <2>3
<1>9. Linked'
  <2>1. list' = <<>> <=> len = 1
    <3>1. list' = <<>> => len - 1 = 0
      BY <1>4, EmptySeq
    <3>2. list' # <<>> => len - 1 # 0
      BY <1>4, EmptySeq
    <3> QED BY <1>2, <3>1, <3>2
  <2>2. len # 1 => len - 1 \in 1 .. len - 1
    BY <1>2
  <2>3. mo'[Latest'] = IF list' = <<>> THEN NULL ELSE list'[Len(list')]
    BY <1>3, <1>4, <1>7, <2>1, <2>2 DEF Latest
  <2>4. ASSUME NEW i \in 1 .. len - 1
        PROVE  next'[list'[i]] = IF i = 1 THEN NULL ELSE list'[i - 1]
    <3>1. i \in 1 .. len /\ (i # 1 => i - 1 \in 1 .. len - 1)
      BY <1>2
    <3>2. next[list[i]] = IF i = 1 THEN NULL ELSE list[i - 1]
      BY <1>2, <3>1 DEF TakenOnce, Linked
    <3> QED BY <1>1, <1>4, <3>1, <3>2
  <2>5. ASSUME NEW i \in 1 .. len - 1, NEW j \in 1 .. len - 1, list'[i] = list'[j]
        PROVE  i = j
    <3>1. i \in DOMAIN list /\ j \in DOMAIN list /\ list[i] = list[j]
      BY <1>2, <1>4, <2>5
    <3> QED BY <3>1 DEF TakenOnce, Linked
  <2> QED BY <1>4, <2>3, <2>4, <2>5 DEF Linked
<1>10. /\ \A d \in Consumers : d # c => pc'[d] = pc[d] /\ seen'[d] = seen[d]
                                        /\ Holding(d)' = Holding(d)
       /\ pc'[c] = "retire" /\ Holding(c) = got[c] /\ Holding(c)' = Holding(c) \cup {n}
  BY <1>1 DEF Base, TypeOK, Threads, Holding, n
<1>11. TakenOnce'
  <2>1. \A d \in Consumers : n \notin Holding(d)
    BY <1>2 DEF TakenOnce
  <2>2. UNION {Holding(d)' : d \in Consumers} = (UNION {Holding(d) : d \in Consumers}) \cup {n}
    <3>1. \A d \in Consumers : Holding(d)' \subseteq Holding(d) \cup {n}
      BY <1>10
    <3>2. \A d \in Consumers : Holding(d) \subseteq Holding(d)'
      BY <1>10
    <3>3. n \in Holding(c)'
      BY <1>10
    <3>4. ASSUME NEW x \in UNION {Holding(d)' : d \in Consumers}
          PROVE  x \in (UNION {Holding(d) : d \in Consumers}) \cup {n}
      BY <3>1, <3>4
    <3>5. ASSUME NEW x \in UNION {Holding(d) : d \in Consumers}
          PROVE  x \in UNION {Holding(d)' : d \in Consumers}
      BY <3>2, <3>5
    <3>6. n \in UNION {Holding(d)' : d \in Consumers}
      BY <3>3
    <3> QED BY <3>4, <3>5, <3>6
  <2>3. Listed' \cup UNION {Holding(d)' : d \in Consumers} = Pushed'
    BY <1>2, <1>5, <1>6, <2>2, ListedPushed
  <2>4. \A d \in Consumers : Listed' \cap Holding(d)' = {}
    BY <1>5, <1>10 DEF TakenOnce
  <2>5. \A d, e \in Consumers : d # e => Holding(d)' \cap Holding(e)' = {}
    BY <1>10, <2>1 DEF TakenOnce
  <2> QED BY <1>9, <2>3, <2>4, <2>5 DEF TakenOnce, Pushed
<1>12. Copies'
  <2>1. Published(Latest)' = Pushed'
    BY <1>6, <1>8 DEF Copies
  <2> QED BY <1>1, <1>5, <1>6, <1>10, <2>1 DEF Copies
<1>13. Ends'
  <2>1. \A i \in 1 .. Len(mo') - 1 : mo'[i] = NULL => mo'[i + 1] \in Node \ Published(i)'
    <3> SUFFICES ASSUME NEW i \in 1 .. Len(mo), mo[i] = NULL
                 PROVE  mo'[i + 1] \in Node \ Published(i)
      BY <1>7
    <3>1. i \in 1 .. Len(mo) - 1 /\ i + 1 \in 1 .. Len(mo)
      BY <1>1, <1>7 DEF n
    <3>2. mo[i + 1] \in Node \ Published(i)
      BY <3>1 DEF Ends
    <3>3. mo'[i + 1] = mo[i + 1]
      BY <1>7, <3>1
    <3> QED BY <3>2, <3>3
  <2>2. \E i \in DOMAIN mo' : /\ i = 1 \/ mo'[i] \notin Published(i - 1)' \cup {NULL}
                              /\ Published(i)' = Published(Latest)'
    <3>1. PICK i \in DOMAIN mo : /\ i = 1 \/ mo[i] \notin Published(i - 1) \cup {NULL}
                                 /\ Published(i) = Published(Latest)
      BY DEF Ends
    <3>2. i \in DOMAIN mo' /\ mo'[i] = mo[i] /\ Published(i)' = Published(i)
      BY <1>7
    <3>3. i # 1 => i - 1 \in 1 .. Len(mo)
      BY <1>7
    <3>4. i # 1 => Published(i - 1)' = Published(i - 1)
      BY <1>7, <3>3
    <3> QED BY <1>8, <3>1, <3>2, <3>4
  <2>3. \A d \in Consumers : pc'[d] = "exit" => mo'[seen'[d]] = NULL
    <3> SUFFICES ASSUME NEW d \in Consumers, pc'[d] = "exit" PROVE mo'[seen'[d]] = NULL
      OBVIOUS
    <3>1. d # c /\ pc[d] = "exit" /\ seen'[d] = seen[d]
      BY <1>10
    <3>2. seen[d] \in 1 .. Len(mo)
      BY <1>7 DEF Base, TypeOK, Threads
    <3> QED BY <1>7, <3>1, <3>2 DEF Ends
  <2> QED BY <2>1, <2>2, <2>3 DEF Ends
<1> QED BY <1>11, <1>12, <1>13, BasePop

(* Every step, if dependent loads are ordered.                             *)
LEMMA OrderedNextStep == DependencyOrder /\ Ordered /\ [Next]_vars => Ordered'
BY OrderedQuiet, OrderedPush, OrderedNext, OrderedRetire, OrderedPop
   DEF Next, ConsumerReads, Terminated

(* If the machine orders dependent loads, whatever stale values of head    *)
(* the relaxed loads return, the list is intact and every node pushed is   *)
(* on it or with one consumer (main.cpp 35, 47).                           *)
THEOREM NothingLost == DependencyOrder /\ Spec => []TakenOnce
<1> SUFFICES ASSUME DependencyOrder PROVE Spec => []TakenOnce
  OBVIOUS
<1>1. Ordered => TakenOnce
  BY DEF Ordered
<1>2. Ordered /\ [Next]_vars => Ordered'
  BY OrderedNextStep
<1> QED BY <1>1, <1>2, OrderedInit, PTL DEF Spec

(* main's verification succeeds if a consumer that has left had seen the   *)
(* last push: the nullptr it read was then the last value of head, and the *)
(* list is empty (main.cpp 85, 123).                                       *)
THEOREM SeenMeansDrained == DependencyOrder /\ Spec => []DrainedIfSeen
<1> SUFFICES ASSUME DependencyOrder PROVE Spec => []DrainedIfSeen
  OBVIOUS
<1>1. Ordered => DrainedIfSeen
  <2> SUFFICES ASSUME Ordered, ok # NULL, NEW c \in Consumers, seen[c] >= LastPush
               PROVE  ok
    BY DEF DrainedIfSeen
  <2> USE DEF Ordered
  <2>1. /\ done /\ \A d \in Consumers : pc[d] = "exit"
        /\ ok = (UNION {got[d] : d \in Consumers} = Node)
    BY DEF Base, Control
  <2>2. LastPush \in DOMAIN mo /\ Published(LastPush) = Published(Latest)
    BY DEF Ends, LastPush
  <2>3. /\ mo[seen[c]] = NULL /\ seen[c] \in 1 .. Len(mo) /\ DOMAIN mo = 1 .. Len(mo)
        /\ Len(mo) \in Nat
    BY <2>1, Entries DEF Ends, Base, TypeOK, Threads, Latest
  <2>4. seen[c] = Len(mo)
    <3> SUFFICES ASSUME seen[c] # Len(mo) PROVE FALSE
      OBVIOUS
    <3>1. PICK i \in 1 .. Len(mo) - 1 : i = seen[c]
      BY <2>3
    <3>2. mo[i + 1] \in Node \ Published(i) /\ i + 1 \in 1 .. Len(mo)
      BY <2>3, <3>1 DEF Ends
    <3>3. mo[i + 1] \in Published(Latest)
      BY <3>2, NullAssumption DEF Published, Latest
    <3>4. Published(LastPush) \subseteq Published(i)
      <4>1. \A j \in 1 .. LastPush : j \in 1 .. i
        BY <2>2, <2>3, <3>1
      <4> QED BY <4>1 DEF Published
    <3> QED BY <2>2, <3>2, <3>3, <3>4
  <2>5. list = <<>>
    <3>1. list # <<>> => list[Len(list)] \in Node
      BY EmptySeq DEF Base, TypeOK
    <3> QED BY <2>3, <2>4, <3>1, NullAssumption DEF TakenOnce, Linked, Latest
  <2>6. Listed = {}
    BY <2>5 DEF Listed
  <2>7. \A d \in Consumers : Holding(d) = got[d]
    BY <2>1 DEF Holding
  <2>8. UNION {got[d] : d \in Consumers} = UNION {Holding(d) : d \in Consumers}
    BY <2>7
  <2>9. Pushed = Node
    <3>1. \A p \in Producers : pushed[p] = StressN
      BY <2>1 DEF Base, Control
    <3>2. \A m \in Node : m[2] < pushed[m[1]]
      BY <3>1, StressNAssumption DEF Node
    <3> QED BY <3>2 DEF Pushed
  <2>10. UNION {got[d] : d \in Consumers} = Node
    BY <2>6, <2>8, <2>9, ListedPushed
  <2> QED BY <2>1, <2>10
<1>2. Ordered /\ [Next]_vars => Ordered'
  BY OrderedNextStep
<1> QED BY <1>1, <1>2, OrderedInit, PTL DEF Spec
=============================================================================
