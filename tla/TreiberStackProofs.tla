------------------------ MODULE TreiberStackProofs -------------------------
(***************************************************************************)
(* Proofs about TreiberStack, for any sets of producers, consumers and     *)
(* nodes and any number of pushes: type correctness, the memory safety of  *)
(* the stack (its lists are never corrupted, there is no ABA, no use after *)
(* free, no leak), that every value arrives exactly once, and that the     *)
(* stack implements the abstract one.                                      *)
(***************************************************************************)
EXTENDS TreiberStack, SequenceTheorems, TLAPS

-----------------------------------------------------------------------------
(* Lists.                                                                  *)

(* What <<x>> \o s, the history of a compare-exchange that publishes a     *)
(* node, looks like.                                                       *)
LEMMA PrependProperties ==
  ASSUME NEW S, NEW s \in Seq(S), NEW x \in S
  PROVE  /\ <<x>> \o s \in Seq(S)
         /\ <<x>> \o s # <<>>
         /\ Len(<<x>> \o s) = Len(s) + 1
         /\ (<<x>> \o s)[1] = x
         /\ \A i \in 1 .. Len(s) : (<<x>> \o s)[i + 1] = s[i]
OBVIOUS

(* What Tail(s), the history of a compare-exchange that takes a node off,  *)
(* looks like.                                                             *)
LEMMA TailProperties ==
  ASSUME NEW S, NEW s \in Seq(S), s # <<>>
  PROVE  /\ Tail(s) \in Seq(S)
         /\ Len(s) \in Nat \ {0}
         /\ Len(Tail(s)) = Len(s) - 1
         /\ s[1] \in S
         /\ \A i \in 1 .. Len(s) - 1 : Tail(s)[i] = s[i + 1]
<1>1. Len(s) \in Nat \ {0}
  BY EmptySeq
<1> QED
  BY <1>1, HeadTailProperties, ElementOfSeq

(* A node pushed in front of a list of which it is not an element extends  *)
(* the chain: push() links it to the old head, RetireLink to the old trash.*)
LEMMA ChainPush ==
  ASSUME NEW s \in Seq(Node), NEW nxt, NEW first, NEW n \in Node,
         Chain(nxt, first, s), n \notin Nodes(s), nxt[n] = first
  PROVE  /\ Chain(nxt, n, <<n>> \o s)
         /\ <<n>> \o s \in Seq(Node)
         /\ Nodes(<<n>> \o s) = Nodes(s) \cup {n}
<1> DEFINE t == <<n>> \o s
<1>1. /\ t \in Seq(Node) /\ t # <<>> /\ t[1] = n
      /\ Len(t) = Len(s) + 1 /\ Len(s) \in Nat
      /\ \A i \in 1 .. Len(s) : t[i + 1] = s[i]
  BY PrependProperties, LenProperties
<1>2. \A i \in 1 .. Len(t) : i = 1 \/ (i - 1 \in 1 .. Len(s) /\ t[i] = s[i - 1])
  BY <1>1
<1> HIDE DEF t
<1>3. Nodes(t) = Nodes(s) \cup {n}
  <2>1. ASSUME NEW x \in Nodes(t) PROVE x \in Nodes(s) \cup {n}
    BY <1>1, <1>2 DEF Nodes
  <2>2. ASSUME NEW x \in Nodes(s) PROVE x \in Nodes(t)
    <3>1. PICK i \in 1 .. Len(s) : x = s[i]
      BY DEF Nodes
    <3>2. i + 1 \in 1 .. Len(t) /\ t[i + 1] = x
      BY <1>1, <3>1
    <3> QED BY <3>2 DEF Nodes
  <2>3. n \in Nodes(t)
    BY <1>1 DEF Nodes
  <2> QED BY <2>1, <2>2, <2>3
<1>4. ASSUME NEW i \in 1 .. Len(t)
      PROVE nxt[t[i]] = IF i = Len(t) THEN NULL ELSE t[i + 1]
  <2>1. CASE i = 1
    <3>1. CASE s = <<>>
      BY <1>1, <2>1, <3>1 DEF Chain
    <3>2. CASE s # <<>>
      BY <1>1, <2>1, <3>2, EmptySeq DEF Chain
    <3> QED BY <3>1, <3>2
  <2>2. CASE i # 1
    BY <1>1, <1>2, <2>2 DEF Chain
  <2> QED BY <2>1, <2>2
<1>5. ASSUME NEW i \in 1 .. Len(t), NEW j \in 1 .. Len(t), t[i] = t[j]
      PROVE i = j
  <2>1. \A k \in 1 .. Len(s) : s[k] # n
    BY DEF Nodes
  <2>2. i = 1 <=> j = 1
    BY <1>1, <1>2, <1>5, <2>1
  <2>3. CASE i # 1 /\ j # 1
    <3>1. s[i - 1] = s[j - 1] /\ i - 1 \in 1 .. Len(s) /\ j - 1 \in 1 .. Len(s)
      BY <1>2, <1>5, <2>3
    <3>2. i - 1 = j - 1
      BY <3>1 DEF Chain
    <3> QED BY <1>1, <3>2
  <2> QED BY <2>2, <2>3
<1>6. Chain(nxt, n, t)
  BY <1>1, <1>4, <1>5 DEF Chain
<1> QED BY <1>1, <1>3, <1>6 DEF t

(* The first node of a non-empty chain is its list's first element, and    *)
(* what follows it is the chain of the tail: pop() and the destructor      *)
(* continue with the next field.                                           *)
LEMMA ChainPop ==
  ASSUME NEW s \in Seq(Node), NEW nxt, NEW first,
         Chain(nxt, first, s), first # NULL
  PROVE  /\ s # <<>> /\ first = s[1] /\ first \in Node
         /\ Chain(nxt, nxt[first], Tail(s))
         /\ Tail(s) \in Seq(Node)
         /\ Nodes(Tail(s)) = Nodes(s) \ {first}
         /\ first \in Nodes(s)
<1>1. s # <<>> /\ first = s[1]
  BY DEF Chain
<1> DEFINE t == Tail(s)
<1>2. /\ t \in Seq(Node) /\ Len(s) \in Nat \ {0} /\ Len(t) = Len(s) - 1
      /\ \A i \in 1 .. Len(s) - 1 : t[i] = s[i + 1]
      /\ s[1] \in Node
  BY <1>1, TailProperties
<1> HIDE DEF t
<1>3. t = <<>> <=> Len(s) = 1
  <2>1. t = <<>> => Len(t) = 0
    BY EmptySeq
  <2>2. t # <<>> => Len(t) \in Nat \ {0}
    BY <1>2, EmptySeq
  <2> QED BY <1>2, <2>1, <2>2
<1>4. nxt[first] = IF t = <<>> THEN NULL ELSE t[1]
  <2>1. t # <<>> => t[1] = s[2]
    BY <1>2, <1>3
  <2>2. nxt[s[1]] = IF 1 = Len(s) THEN NULL ELSE s[2]
    BY <1>2 DEF Chain
  <2> QED BY <1>1, <1>3, <2>1, <2>2
<1>5. \A i \in 1 .. Len(t) : nxt[t[i]] = IF i = Len(t) THEN NULL ELSE t[i + 1]
  BY <1>2 DEF Chain
<1>6. \A i, j \in 1 .. Len(t) : t[i] = t[j] => i = j
  BY <1>2 DEF Chain
<1>7. Chain(nxt, nxt[first], t)
  BY <1>4, <1>5, <1>6 DEF Chain
<1>8. Nodes(t) = Nodes(s) \ {first}
  <2>1. ASSUME NEW x \in Nodes(t) PROVE x \in Nodes(s) \ {first}
    <3>1. PICK i \in 1 .. Len(t) : x = t[i]
      BY DEF Nodes
    <3>2. i + 1 \in 1 .. Len(s) /\ x = s[i + 1]
      BY <1>2, <3>1
    <3>3. s[i + 1] # s[1]
      BY <1>2, <3>2 DEF Chain
    <3> QED BY <1>1, <3>2, <3>3 DEF Nodes
  <2>2. ASSUME NEW x \in Nodes(s) \ {first} PROVE x \in Nodes(t)
    <3>1. PICK i \in 1 .. Len(s) : x = s[i]
      BY DEF Nodes
    <3>2. i - 1 \in 1 .. Len(t) /\ x = t[i - 1]
      BY <1>1, <1>2, <3>1
    <3> QED BY <3>2 DEF Nodes
  <2> QED BY <2>1, <2>2
<1>9. first \in Nodes(s)
  BY <1>1, <1>2 DEF Nodes
<1> QED BY <1>1, <1>2, <1>7, <1>8, <1>9 DEF t

(* Writing the next field of a node that is not on a list leaves the list's*)
(* chain as it was.                                                        *)
LEMMA ChainFrame ==
  ASSUME NEW s \in Seq(Node), NEW nxt \in [Node -> Node \cup {NULL}],
         NEW first, NEW n, NEW m, Chain(nxt, first, s), n \notin Nodes(s)
  PROVE  Chain([nxt EXCEPT ![n] = m], first, s)
<1>1. \A i \in 1 .. Len(s) : s[i] \in Node /\ s[i] # n
  BY ElementOfSeq DEF Nodes
<1> QED BY <1>1 DEF Chain

(* A chain without first node is that of the empty list.                   *)
LEMMA ChainEmpty ==
  ASSUME NEW s \in Seq(Node), NEW nxt, Chain(nxt, NULL, s)
  PROVE  s = <<>> /\ Nodes(s) = {}
<1>1. s # <<>> => s[1] \in Node
  BY TailProperties
<1>2. s = <<>>
  BY <1>1, NullAssumption DEF Chain
<1> QED BY <1>2 DEF Nodes

(* The nodes of a list are nodes.                                          *)
LEMMA NodesType == ASSUME NEW s \in Seq(Node) PROVE Nodes(s) \subseteq Node
BY ElementOfSeq DEF Nodes

-----------------------------------------------------------------------------
(* The inductive invariant.                                                *)

Pushing(p) == pc[p] = "push"

\* Where the threads can stand, and what main()'s progress says about them.
Control ==
  /\ \A p \in Producers : /\ pc[p] \in {"loop", "push", "exit"}
                          /\ Pushing(p) => pushed[p] < StressN
  /\ \A c \in Consumers : pc[c] # "push"
  /\ mpc # "join" => \A p \in Producers : pc[p] = "exit"
  /\ mpc \notin {"join", "collect"} => \A c \in Consumers : pc[c] = "exit"
  /\ mpc \in {"dtor_trash", "end"} => stk = <<>>
  /\ mpc = "end" => bin = <<>>

\* Every allocated node is on exactly one list or owned by exactly one
\* thread; a node some consumer still looks at is allocated and has been
\* published, so no producer is about to push it.
Ownership ==
  /\ Nodes(stk) \cup Nodes(bin) \subseteq heap
  /\ Nodes(stk) \cap Nodes(bin) = {}
  /\ \A n \in heap : \/ n \in Nodes(stk) \cup Nodes(bin)
                     \/ \E p \in Producers : Pushing(p) /\ newHead[p] = n
                     \/ \E c \in Consumers : Owns(c) /\ oldHead[c] = n
  /\ \A p \in Producers : Pushing(p) =>
       newHead[p] \in heap \ (Nodes(stk) \cup Nodes(bin))
  /\ \A p, q \in Producers :
       Pushing(p) /\ Pushing(q) /\ p # q => newHead[p] # newHead[q]
  /\ \A c \in Consumers : Owns(c) =>
       oldHead[c] \in heap \ (Nodes(stk) \cup Nodes(bin))
  /\ \A c, d \in Consumers :
       Owns(c) /\ Owns(d) /\ c # d => oldHead[c] # oldHead[d]
  /\ \A c \in Consumers : Peeks(c) => oldHead[c] \in heap
  /\ \A p \in Producers, c \in Consumers :
       Pushing(p) /\ (Owns(c) \/ Peeks(c)) => newHead[p] # oldHead[c]

\* What the threads remember of the nodes' fields: a consumer's copy of the
\* next field of a node that is still on the stack is current.
Fields ==
  /\ \A n \in heap : value[n] \in Value
  /\ \A c \in Consumers : pc[c] \in {"link", "tcas"} => val[c] \in Value
  /\ \A c \in Consumers : pc[c] = "tcas" => next[oldHead[c]] = oldTrash[c]
  /\ \A c \in Consumers : pc[c] = "cas" /\ oldHead[c] \in Nodes(stk)
                            => newHead[c] = next[oldHead[c]]

IInv == TypeOK /\ Control /\ Ownership /\ Fields /\ ChainOK

(* The initial state satisfies the inductive invariant.                    *)
LEMMA InitIInv == Init => IInv
<1> SUFFICES ASSUME Init PROVE IInv
  OBVIOUS
<1>1. stk \in Seq(Node) /\ bin \in Seq(Node) /\ Len(stk) = 0 /\ Len(bin) = 0
  BY EmptySeq DEF Init
<1>2. Nodes(stk) = {} /\ Nodes(bin) = {}
  BY <1>1 DEF Nodes
<1>3. TypeOK
  <2>1. 0 \in 0 .. StressN
    BY StressNAssumption
  <2>2. /\ pushed \in [Producers -> 0 .. StressN]
        /\ res \in [Consumers -> SUBSET Value]
        /\ got \in [Consumers -> SUBSET Value]
    BY <2>1 DEF Init, NullOpt
  <2>3. /\ next \in [Node -> Node \cup {NULL}]
        /\ value \in [Node -> Value \cup {NULL}]
        /\ newHead \in [Threads -> Node \cup {NULL}]
        /\ oldHead \in [Threads -> Node \cup {NULL}]
        /\ oldTrash \in [Consumers -> Node \cup {NULL}]
        /\ val \in [Consumers -> Value \cup {NULL}]
    BY DEF Init
  <2> QED BY <1>1, <2>2, <2>3 DEF Init, TypeOK
<1>4. ChainOK
  BY <1>1 DEF Init, ChainOK, Chain
<1>5. Control /\ Ownership /\ Fields
  BY <1>2, ThreadsAssumption DEF Init, Control, Ownership, Fields, Threads,
     Pushing, Owns, Peeks
<1> QED BY <1>3, <1>4, <1>5 DEF IInv

-----------------------------------------------------------------------------
(* Each action preserves it.                                               *)

(* push() allocates its node and loads head.                               *)
LEMMA PushLoadStep ==
  ASSUME IInv, NEW p \in Producers, PushLoad(p) PROVE IInv'
<1> USE DEF IInv
<1>1. PICK n \in Node \ heap :
        /\ heap' = heap \cup {n}
        /\ value' = [value EXCEPT ![n] = <<p, pushed[p]>>]
        /\ next' = [next EXCEPT ![n] = NULL]
        /\ newHead' = [newHead EXCEPT ![p] = n]
  BY DEF PushLoad
<1>2. /\ pc[p] = "loop" /\ pushed[p] < StressN
      /\ pc' = [pc EXCEPT ![p] = "push"]
      /\ oldHead' = [oldHead EXCEPT ![p] = head]
      /\ UNCHANGED <<head, trash, oldTrash, val, client, main, hist>>
  BY DEF PushLoad, Goto
<1>3. p \in Threads /\ p \notin Consumers
  BY ThreadsAssumption DEF Threads
<1>4. <<p, pushed[p]>> \in Value
  BY <1>2, StressNAssumption DEF TypeOK, Value
<1>5. TypeOK'
  BY <1>1, <1>2, <1>3, <1>4 DEF TypeOK, client, main, hist
<1>6. Control'
  BY <1>2, <1>3 DEF Control, TypeOK, Threads, Pushing, client, main, hist
<1>7. Ownership'
  <2>1. \A q \in Producers : /\ Pushing(q)' <=> Pushing(q) \/ q = p
                             /\ newHead'[q] = IF q = p THEN n ELSE newHead[q]
    BY <1>1, <1>2, <1>3 DEF TypeOK, Threads, Pushing
  <2>2. \A c \in Consumers : /\ Owns(c)' <=> Owns(c)
                             /\ Peeks(c)' <=> Peeks(c)
                             /\ oldHead'[c] = oldHead[c]
    BY <1>2, <1>3 DEF TypeOK, Threads, Owns, Peeks
  <2>3. stk' = stk /\ bin' = bin /\ heap' = heap \cup {n} /\ n \notin heap
        /\ ~ Pushing(p)
    BY <1>1, <1>2 DEF hist, Pushing
  <2> QED BY <2>1, <2>2, <2>3 DEF Ownership
<1>8. Fields'
  BY <1>1, <1>2, <1>3, <1>4 DEF Fields, Ownership, TypeOK, Threads, Owns, Peeks, hist
<1>9. ChainOK'
  <2>1. n \notin Nodes(stk) /\ n \notin Nodes(bin)
    BY <1>1 DEF Ownership
  <2> QED BY <1>1, <1>2, <2>1, ChainFrame DEF ChainOK, TypeOK, main, hist
<1> QED BY <1>5, <1>6, <1>7, <1>8, <1>9

(* push()'s compare-exchange publishes the node.                           *)
LEMMA PushCASOkStep ==
  ASSUME IInv, NEW p \in Producers, PushCASOk(p) PROVE IInv'
<1> USE DEF IInv
<1> DEFINE n == newHead[p]
<1>1. /\ pc[p] = "push" /\ head = oldHead[p]
      /\ pc' = [pc EXCEPT ![p] = "loop"]
      /\ next' = [next EXCEPT ![n] = oldHead[p]]
      /\ head' = n
      /\ pushed' = [pushed EXCEPT ![p] = @ + 1]
      /\ stk' = <<n>> \o stk
      /\ UNCHANGED <<trash, heap, value, locals, res, got, main, bin>>
  BY DEF PushCASOk, Goto
<1>2. p \in Threads /\ p \notin Consumers
  BY ThreadsAssumption DEF Threads
<1>3. /\ n \in heap /\ n \in Node /\ n \notin Nodes(stk) /\ n \notin Nodes(bin)
      /\ pushed[p] < StressN /\ mpc = "join"
  BY <1>1 DEF Ownership, Control, TypeOK, Pushing
<1>4. /\ stk' \in Seq(Node) /\ Nodes(stk') = Nodes(stk) \cup {n}
      /\ Chain(next', head', stk') /\ Chain(next', trash', bin')
  <2>1. Chain(next', head, stk) /\ Chain(next', trash, bin)
    BY <1>1, <1>3, ChainFrame DEF ChainOK, TypeOK
  <2>2. next'[n] = head
    BY <1>1, <1>3 DEF TypeOK
  <2> QED BY <1>1, <1>3, <2>1, <2>2, ChainPush, ZenonT(30) DEF TypeOK
<1> HIDE DEF n
<1>5. TypeOK'
  <2>1. pushed' \in [Producers -> 0 .. StressN]
    BY <1>1, <1>3, StressNAssumption DEF TypeOK
  <2>2. next' \in [Node -> Node \cup {NULL}]
    BY <1>1, <1>3 DEF TypeOK
  <2> QED BY <1>1, <1>2, <1>3, <1>4, <2>1, <2>2 DEF TypeOK, locals, main
<1>6. Control'
  BY <1>1, <1>2, <1>3 DEF Control, TypeOK, Threads, Pushing, main
<1>7. Ownership'
  <2>1. /\ \A q \in Producers : /\ Pushing(q)' <=> Pushing(q) /\ q # p
                                /\ newHead'[q] = newHead[q]
        /\ Pushing(p) /\ newHead[p] = n
    BY <1>1, <1>2 DEF TypeOK, Threads, Pushing, locals, n
  <2>2. \A c \in Consumers : /\ Owns(c)' <=> Owns(c)
                             /\ Peeks(c)' <=> Peeks(c)
                             /\ oldHead'[c] = oldHead[c]
    BY <1>1, <1>2 DEF TypeOK, Threads, Owns, Peeks, locals
  <2> QED BY <1>1, <1>3, <1>4, <2>1, <2>2 DEF Ownership
<1>8. Fields'
  <2>1. \A c \in Consumers : /\ pc'[c] = pc[c] /\ oldHead'[c] = oldHead[c]
                             /\ oldTrash'[c] = oldTrash[c] /\ val'[c] = val[c]
                             /\ newHead'[c] = newHead[c]
    BY <1>1, <1>2 DEF TypeOK, Threads, locals
  <2>2. \A c \in Consumers : Owns(c) \/ Peeks(c) =>
          oldHead[c] # n /\ oldHead[c] \in Node
    BY <1>1 DEF Ownership, TypeOK, Pushing, n
  <2>3. \A c \in Consumers : Owns(c) \/ Peeks(c) =>
          next'[oldHead[c]] = next[oldHead[c]]
    BY <1>1, <1>3, <2>2 DEF TypeOK
  <2>4. \A c \in Consumers : Peeks(c) /\ oldHead'[c] \in Nodes(stk') =>
          oldHead[c] \in Nodes(stk)
    BY <1>4, <2>1, <2>2
  <2>5. heap' = heap /\ value' = value
    BY <1>1
  <2> QED BY <2>1, <2>3, <2>4, <2>5 DEF Fields, Owns, Peeks
<1>9. ChainOK'
  BY <1>1, <1>3, <1>4 DEF ChainOK, main
<1> QED BY <1>5, <1>6, <1>7, <1>8, <1>9

(* push()'s failed compare-exchange reloads head and links the node again. *)
LEMMA PushCASFailStep ==
  ASSUME IInv, NEW p \in Producers, PushCASFail(p) PROVE IInv'
<1> USE DEF IInv
<1> DEFINE n == newHead[p]
<1>1. /\ pc[p] = "push" /\ pc' = [pc EXCEPT ![p] = "push"]
      /\ next' = [next EXCEPT ![n] = oldHead[p]]
      /\ oldHead' = [oldHead EXCEPT ![p] = head]
      /\ UNCHANGED <<head, trash, heap, value, newHead, oldTrash, val, client,
                     main, hist>>
  BY DEF PushCASFail, Goto
<1>2. p \in Threads /\ p \notin Consumers /\ oldHead[p] \in Node \cup {NULL}
  BY ThreadsAssumption DEF Threads, TypeOK
<1>3. pc' = pc
  BY <1>1, <1>2 DEF TypeOK
<1>4. n \in Node /\ n \notin Nodes(stk) /\ n \notin Nodes(bin) /\ mpc = "join"
  BY <1>1 DEF Ownership, Control, TypeOK, Pushing
<1>5. TypeOK'
  BY <1>1, <1>2, <1>3 DEF TypeOK, client, main, hist
<1>6. Control'
  BY <1>1, <1>3 DEF Control, Pushing, client, main, hist
<1>7. \A c \in Consumers : oldHead'[c] = oldHead[c]
  BY <1>1, <1>2 DEF TypeOK
<1>8. Ownership'
  BY <1>1, <1>3, <1>7 DEF Ownership, Pushing, Owns, Peeks, hist
<1>9. Fields'
  <2>1. \A c \in Consumers : Owns(c) \/ Peeks(c) =>
          oldHead[c] # n /\ oldHead[c] \in Node
    BY <1>1 DEF Ownership, TypeOK, Pushing
  <2>2. \A c \in Consumers : Owns(c) \/ Peeks(c) =>
          next'[oldHead[c]] = next[oldHead[c]]
    BY <1>1, <2>1 DEF TypeOK
  <2> QED BY <1>1, <1>3, <1>7, <2>2 DEF Fields, Owns, Peeks, hist
<1>10. ChainOK'
  BY <1>1, <1>4, ChainFrame DEF ChainOK, TypeOK, main, hist
<1> QED BY <1>5, <1>6, <1>8, <1>9, <1>10

(* producer() leaves its loop.                                             *)
LEMMA ProducerExitStep ==
  ASSUME IInv, NEW p \in Producers, ProducerExit(p) PROVE IInv'
<1> USE DEF IInv
<1>1. /\ pc[p] = "loop" /\ pc' = [pc EXCEPT ![p] = "exit"]
      /\ UNCHANGED <<lists, heap, value, locals, client, main, hist>>
  BY DEF ProducerExit, Goto
<1>2. p \in Threads /\ p \notin Consumers
  BY ThreadsAssumption DEF Threads
<1>3. TypeOK'
  BY <1>1, <1>2 DEF TypeOK, lists, locals, client, main, hist
<1>4. \A q \in Producers : Pushing(q)' <=> Pushing(q)
  BY <1>1, <1>2 DEF TypeOK, Threads, Pushing
<1>5. \A c \in Consumers : pc'[c] = pc[c]
  BY <1>1, <1>2 DEF TypeOK, Threads
<1>6. Control'
  BY <1>1, <1>2, <1>4, <1>5 DEF Control, TypeOK, Threads, client, main, hist
<1>7. Ownership'
  BY <1>1, <1>4, <1>5 DEF Ownership, Owns, Peeks, locals, hist
<1>8. Fields' /\ ChainOK'
  BY <1>1, <1>5 DEF Fields, ChainOK, lists, locals, main, hist
<1> QED BY <1>3, <1>6, <1>7, <1>8

(* A step of a consumer that neither takes nor gives up a node, and writes *)
(* nothing but its own pc, res and got, preserves the invariant.           *)
LEMMA ConsumerLocalStep ==
  ASSUME IInv, NEW c \in Consumers, NEW from, NEW to,
         pc[c] = from, pc' = [pc EXCEPT ![c] = to],
         from \in {"loop", "empty", "insert"},
         to \in {"loop", "empty", "pop", "exit"},
         got' \in [Consumers -> SUBSET Value],
         UNCHANGED <<lists, heap, value, locals, pushed, res, main, hist>>
  PROVE  IInv'
<1> USE DEF IInv
<1>2. c \in Threads /\ c \notin Producers
  BY ThreadsAssumption DEF Threads
<1>3. TypeOK'
  BY <1>2 DEF TypeOK, lists, locals, main, hist
<1>4. \A p \in Producers : pc'[p] = pc[p]
  BY <1>2 DEF TypeOK, Threads
<1>5. \A d \in Consumers : /\ Owns(d)' <=> Owns(d)
                           /\ Peeks(d)' <=> Peeks(d)
                           /\ Owns(d) \/ Peeks(d) => pc'[d] = pc[d]
  BY <1>2 DEF TypeOK, Threads, Owns, Peeks
<1>6. Control'
  <2>1. \A d \in Consumers : d # c => pc'[d] = pc[d]
    BY <1>2 DEF TypeOK, Threads
  <2>2. pc'[c] = to /\ mpc \in {"join", "collect"}
    BY <1>2 DEF TypeOK, Control
  <2> QED BY <1>4, <2>1, <2>2 DEF Control, Pushing, main, hist
<1>7. Ownership'
  <2>1. \A p \in Producers : Pushing(p)' <=> Pushing(p)
    BY <1>4 DEF Pushing
  <2> QED BY <1>5, <2>1 DEF Ownership, locals, hist
<1>8. Fields'
  <2>1. \A d \in Consumers : pc'[d] \in {"link", "tcas", "cas"} => pc'[d] = pc[d]
    BY <1>2 DEF TypeOK, Threads
  <2> QED BY <2>1 DEF Fields, lists, locals, hist
<1>9. ChainOK'
  BY DEF ChainOK, lists, main, hist
<1> QED BY <1>3, <1>6, <1>7, <1>8, <1>9

(* consumer()'s loop condition and its insertion are such steps.           *)
LEMMA ConsumerStepsLocal ==
  ASSUME IInv, NEW c \in Consumers,
         ConsumerLoop(c) \/ ConsumerEmpty(c) \/ ConsumerInsert(c)
  PROVE  IInv'
<1>1. CASE ConsumerLoop(c)
  BY <1>1, ConsumerLocalStep DEF ConsumerLoop, Goto, client, IInv, TypeOK
<1>2. CASE ConsumerEmpty(c)
  BY <1>2, ConsumerLocalStep DEF ConsumerEmpty, Goto, client, IInv, TypeOK
<1>3. CASE ConsumerInsert(c)
  <2>1. got' \in [Consumers -> SUBSET Value]
    BY <1>3 DEF ConsumerInsert, IInv, TypeOK
  <2> QED BY <1>3, <2>1, ConsumerLocalStep DEF ConsumerInsert, Goto
<1> QED BY <1>1, <1>2, <1>3

(* A consumer inside pop() runs before main() has all the sets, and the    *)
(* nodes of the stack and of the trash are then chained from their heads.  *)
LEMMA ConsumerRuns ==
  ASSUME IInv, NEW c \in Consumers, pc[c] # "exit"
  PROVE  /\ c \in Threads /\ c \notin Producers
         /\ mpc \in {"join", "collect"}
         /\ Chain(next, head, stk) /\ Chain(next, trash, bin)
<1>1. c \in Threads /\ c \notin Producers
  BY ThreadsAssumption DEF Threads
<1>2. mpc \in {"join", "collect"}
  BY DEF IInv, Control
<1> QED BY <1>1, <1>2 DEF IInv, ChainOK

(* pop() loads head, first or after a failed compare-exchange.             *)
LEMMA LookStep ==
  ASSUME IInv, NEW c \in Consumers, NEW from \in {"pop", "cas"}, Look(c, from)
  PROVE  IInv'
<1> USE DEF IInv
<1> DEFINE to == IF head = NULL THEN "insert" ELSE "next"
<1>1. /\ pc[c] = from /\ pc' = [pc EXCEPT ![c] = to]
      /\ oldHead' = [oldHead EXCEPT ![c] = head]
      /\ res' = [res EXCEPT ![c] = IF head = NULL THEN NullOpt ELSE @]
      /\ UNCHANGED <<lists, heap, value, newHead, oldTrash, val, pushed, got,
                     main, hist>>
  BY DEF Look, Goto
<1>2. /\ c \in Threads /\ c \notin Producers /\ mpc \in {"join", "collect"}
      /\ Chain(next, head, stk)
  BY <1>1, ConsumerRuns
<1>3. /\ \A p \in Producers : pc'[p] = pc[p]
      /\ \A d \in Consumers : d # c => pc'[d] = pc[d] /\ oldHead'[d] = oldHead[d]
      /\ pc'[c] = to /\ oldHead'[c] = head
  BY <1>1, <1>2 DEF TypeOK, Threads
<1>4. head # NULL => head \in Nodes(stk) /\ head \in heap
  BY <1>2, ChainPop DEF TypeOK, Ownership
<1>5. TypeOK'
  BY <1>1, <1>2 DEF TypeOK, NullOpt, lists, main, hist
<1>6. Control'
  BY <1>1, <1>2, <1>3 DEF Control, Pushing, main, hist
<1>7. Ownership'
  <2>1. \A p \in Producers : Pushing(p)' <=> Pushing(p)
    BY <1>3 DEF Pushing
  <2>2. /\ \A d \in Consumers : Owns(d)' <=> Owns(d)
        /\ \A d \in Consumers : d # c => (Peeks(d)' <=> Peeks(d))
        /\ ~ Owns(c) /\ (Peeks(c)' <=> head # NULL)
    BY <1>1, <1>3 DEF Owns, Peeks
  <2> QED BY <1>1, <1>3, <1>4, <2>1, <2>2 DEF Ownership, hist
<1>8. Fields'
  <2>1. \A d \in Consumers : pc'[d] \in {"link", "tcas", "cas"} => d # c
    BY <1>3
  <2> QED BY <1>1, <1>3, <2>1 DEF Fields, lists, hist
<1>9. ChainOK'
  BY <1>1 DEF ChainOK, lists, main, hist
<1> QED BY <1>5, <1>6, <1>7, <1>8, <1>9

(* pop() reads the next field of the node it looks at.                     *)
LEMMA PopNextStep ==
  ASSUME IInv, NEW c \in Consumers, PopNext(c) PROVE IInv'
<1> USE DEF IInv
<1>1. /\ pc[c] = "next" /\ pc' = [pc EXCEPT ![c] = "cas"]
      /\ newHead' = [newHead EXCEPT ![c] = next[oldHead[c]]]
      /\ UNCHANGED <<lists, heap, value, oldHead, oldTrash, val, client, main,
                     hist>>
  BY DEF PopNext, Goto
<1>2. /\ c \in Threads /\ c \notin Producers /\ mpc \in {"join", "collect"}
  BY <1>1, ConsumerRuns
<1>3. /\ \A p \in Producers : pc'[p] = pc[p] /\ newHead'[p] = newHead[p]
      /\ \A d \in Consumers : d # c => pc'[d] = pc[d] /\ newHead'[d] = newHead[d]
      /\ pc'[c] = "cas" /\ newHead'[c] = next[oldHead[c]]
  BY <1>1, <1>2 DEF TypeOK, Threads
<1>4. oldHead[c] \in Node
  BY <1>1 DEF Ownership, Peeks, TypeOK
<1>5. TypeOK'
  BY <1>1, <1>2, <1>4 DEF TypeOK, lists, client, main, hist
<1>6. Control'
  BY <1>1, <1>2, <1>3 DEF Control, Pushing, client, main, hist
<1>7. Ownership'
  <2>1. \A p \in Producers : Pushing(p)' <=> Pushing(p)
    BY <1>3 DEF Pushing
  <2>2. \A d \in Consumers : (Owns(d)' <=> Owns(d)) /\ (Peeks(d)' <=> Peeks(d))
    BY <1>1, <1>3 DEF Owns, Peeks
  <2> QED BY <1>1, <1>3, <2>1, <2>2 DEF Ownership, hist
<1>8. Fields'
  BY <1>1, <1>3 DEF Fields, lists, hist
<1>9. ChainOK'
  BY <1>1 DEF ChainOK, lists, main, hist
<1> QED BY <1>5, <1>6, <1>7, <1>8, <1>9

(* pop()'s compare-exchange takes the first node off the stack.            *)
LEMMA PopCASOkStep ==
  ASSUME IInv, NEW c \in Consumers, PopCASOk(c) PROVE IInv'
<1> USE DEF IInv
<1> DEFINE n == oldHead[c]
<1>1. /\ pc[c] = "cas" /\ pc' = [pc EXCEPT ![c] = "retire"]
      /\ head = n /\ head' = newHead[c] /\ stk' = Tail(stk)
      /\ UNCHANGED <<trash, next, heap, value, locals, client, main, bin>>
  BY DEF PopCASOk, Goto
<1>2. /\ c \in Threads /\ c \notin Producers /\ mpc \in {"join", "collect"}
      /\ Chain(next, head, stk) /\ Chain(next, trash, bin)
  BY <1>1, ConsumerRuns
<1>3. n \in heap /\ n \in Node /\ n # NULL
  BY <1>1, NullAssumption DEF Ownership, Peeks, TypeOK
<1>4. /\ n \in Nodes(stk) /\ stk' \in Seq(Node)
      /\ Nodes(stk') = Nodes(stk) \ {n} /\ Chain(next, next[n], stk')
  BY <1>1, <1>2, <1>3, ChainPop DEF TypeOK
<1>5. newHead[c] = next[n]
  BY <1>1, <1>4 DEF Fields
<1>6. /\ \A p \in Producers : pc'[p] = pc[p]
      /\ \A d \in Consumers : d # c => pc'[d] = pc[d]
      /\ pc'[c] = "retire"
  BY <1>1, <1>2 DEF TypeOK, Threads
<1>7. TypeOK'
  BY <1>1, <1>2, <1>4 DEF TypeOK, locals, client, main
<1>8. Control'
  BY <1>1, <1>2, <1>6 DEF Control, Pushing, client, main
<1>9. Ownership'
  <2>1. \A p \in Producers : Pushing(p)' <=> Pushing(p)
    BY <1>6 DEF Pushing
  <2>2. /\ \A d \in Consumers : d # c => /\ Owns(d)' <=> Owns(d)
                                         /\ Peeks(d)' <=> Peeks(d)
        /\ Owns(c)' /\ ~ Owns(c) /\ Peeks(c) /\ ~ Peeks(c)'
    BY <1>1, <1>6 DEF Owns, Peeks
  <2>3. n \notin Nodes(bin) /\ oldHead' = oldHead /\ newHead' = newHead
        /\ bin' = bin /\ heap' = heap
    BY <1>1, <1>4 DEF Ownership, locals
  <2> QED BY <1>3, <1>4, <2>1, <2>2, <2>3 DEF Ownership
<1>10. Fields'
  <2>1. \A d \in Consumers : pc'[d] \in {"link", "tcas", "cas"} => d # c
    BY <1>6
  <2>2. Nodes(stk') \subseteq Nodes(stk)
    BY <1>4
  <2> QED BY <1>1, <1>6, <2>1, <2>2 DEF Fields, locals
<1>11. ChainOK'
  BY <1>1, <1>2, <1>4, <1>5 DEF ChainOK, main
<1> QED BY <1>7, <1>8, <1>9, <1>10, <1>11

(* pop() reads the value of the node it took, and loads trash, first or    *)
(* after a failed compare-exchange.                                        *)
LEMMA RetireLoadStep ==
  ASSUME IInv, NEW c \in Consumers, RetireLoad(c) \/ RetireCASFail(c)
  PROVE  IInv'
<1> USE DEF IInv
<1>1. /\ pc[c] \in {"retire", "tcas"} /\ pc' = [pc EXCEPT ![c] = "link"]
      /\ oldTrash' = [oldTrash EXCEPT ![c] = trash]
      /\ \/ pc[c] = "retire" /\ val' = [val EXCEPT ![c] = value[oldHead[c]]]
         \/ pc[c] = "tcas" /\ val' = val
      /\ UNCHANGED <<lists, heap, value, newHead, oldHead, client, main, hist>>
  BY DEF RetireLoad, RetireCASFail, Goto
<1>2. /\ c \in Threads /\ c \notin Producers /\ mpc \in {"join", "collect"}
  BY <1>1, ConsumerRuns
<1>3. /\ \A p \in Producers : pc'[p] = pc[p]
      /\ \A d \in Consumers : d # c => /\ pc'[d] = pc[d] /\ val'[d] = val[d]
                                       /\ oldTrash'[d] = oldTrash[d]
      /\ pc'[c] = "link"
  BY <1>1, <1>2 DEF TypeOK, Threads
<1>4. val'[c] \in Value /\ val' \in [Consumers -> Value \cup {NULL}]
  <2>1. value[oldHead[c]] \in Value
    BY <1>1 DEF Ownership, Fields, Owns
  <2> QED BY <1>1, <2>1 DEF Fields, TypeOK
<1>5. TypeOK'
  BY <1>1, <1>2, <1>4 DEF TypeOK, lists, client, main, hist
<1>6. Control'
  BY <1>1, <1>2, <1>3 DEF Control, Pushing, client, main, hist
<1>7. Ownership'
  <2>1. \A p \in Producers : Pushing(p)' <=> Pushing(p)
    BY <1>3 DEF Pushing
  <2>2. \A d \in Consumers : (Owns(d)' <=> Owns(d)) /\ (Peeks(d)' <=> Peeks(d))
    BY <1>1, <1>3 DEF Owns, Peeks
  <2> QED BY <1>1, <2>1, <2>2 DEF Ownership, hist
<1>8. Fields'
  BY <1>1, <1>3, <1>4 DEF Fields, lists, hist
<1>9. ChainOK'
  BY <1>1 DEF ChainOK, lists, main, hist
<1> QED BY <1>5, <1>6, <1>7, <1>8, <1>9

(* pop() links the node it owns to the trash: no list contains the node.   *)
LEMMA RetireLinkStep ==
  ASSUME IInv, NEW c \in Consumers, RetireLink(c) PROVE IInv'
<1> USE DEF IInv
<1> DEFINE n == oldHead[c]
<1>1. /\ pc[c] = "link" /\ pc' = [pc EXCEPT ![c] = "tcas"]
      /\ next' = [next EXCEPT ![n] = oldTrash[c]]
      /\ UNCHANGED <<head, trash, heap, value, locals, client, main, hist>>
  BY DEF RetireLink, Goto
<1>2. /\ c \in Threads /\ c \notin Producers /\ mpc \in {"join", "collect"}
  BY <1>1, ConsumerRuns
<1>3. /\ \A p \in Producers : pc'[p] = pc[p]
      /\ \A d \in Consumers : d # c => pc'[d] = pc[d]
      /\ pc'[c] = "tcas"
  BY <1>1, <1>2 DEF TypeOK, Threads
<1>4. n \in Node /\ n \notin Nodes(stk) /\ n \notin Nodes(bin) /\ Owns(c)
  BY <1>1 DEF Ownership, Owns, TypeOK
<1>5. TypeOK'
  BY <1>1, <1>2 DEF TypeOK, locals, client, main, hist
<1>6. Control'
  BY <1>1, <1>2, <1>3 DEF Control, Pushing, client, main, hist
<1>7. Ownership'
  <2>1. \A p \in Producers : Pushing(p)' <=> Pushing(p)
    BY <1>3 DEF Pushing
  <2>2. \A d \in Consumers : (Owns(d)' <=> Owns(d)) /\ (Peeks(d)' <=> Peeks(d))
    BY <1>1, <1>3 DEF Owns, Peeks
  <2> QED BY <1>1, <2>1, <2>2 DEF Ownership, locals, hist
<1>8. Fields'
  <2>1. /\ next'[n] = oldTrash[c]
        /\ \A m \in Node : m # n => next'[m] = next[m]
    BY <1>1, <1>4 DEF TypeOK
  <2>2. \A d \in Consumers : d # c /\ Owns(d) => oldHead[d] \in Node \ {n}
    BY <1>4 DEF Ownership, TypeOK
  <2>3. \A d \in Consumers : oldHead[d] \in Nodes(stk) => oldHead[d] \in Node \ {n}
    BY <1>4, NodesType DEF TypeOK
  <2> QED BY <1>1, <1>3, <2>1, <2>2, <2>3 DEF Fields, Owns, locals, hist
<1>9. ChainOK'
  BY <1>1, <1>4, ChainFrame DEF ChainOK, TypeOK, main, hist
<1> QED BY <1>5, <1>6, <1>7, <1>8, <1>9

(* pop()'s compare-exchange on trash hands the node over.                  *)
LEMMA RetireCASOkStep ==
  ASSUME IInv, NEW c \in Consumers, RetireCASOk(c) PROVE IInv'
<1> USE DEF IInv
<1> DEFINE n == oldHead[c]
<1>1. /\ pc[c] = "tcas" /\ pc' = [pc EXCEPT ![c] = "insert"]
      /\ trash = oldTrash[c] /\ trash' = n
      /\ res' = [res EXCEPT ![c] = {val[c]}]
      /\ bin' = <<n>> \o bin
      /\ UNCHANGED <<head, next, heap, value, locals, pushed, got, main, stk>>
  BY DEF RetireCASOk, Goto
<1>2. /\ c \in Threads /\ c \notin Producers /\ mpc \in {"join", "collect"}
      /\ Chain(next, head, stk) /\ Chain(next, trash, bin)
  BY <1>1, ConsumerRuns
<1>3. n \in heap /\ n \in Node /\ n \notin Nodes(stk) /\ n \notin Nodes(bin)
  BY <1>1 DEF Ownership, Owns, TypeOK
<1>4. /\ bin' \in Seq(Node) /\ Nodes(bin') = Nodes(bin) \cup {n}
      /\ Chain(next', trash', bin')
  <2>1. next[n] = trash
    BY <1>1 DEF Fields
  <2> QED BY <1>1, <1>2, <1>3, <2>1, ChainPush DEF TypeOK
<1>5. /\ \A p \in Producers : pc'[p] = pc[p]
      /\ \A d \in Consumers : d # c => pc'[d] = pc[d]
      /\ pc'[c] = "insert"
  BY <1>1, <1>2 DEF TypeOK, Threads
<1>6. TypeOK'
  <2>1. val[c] \in Value
    BY <1>1 DEF Fields
  <2>2. res' \in [Consumers -> SUBSET Value]
    BY <1>1, <2>1 DEF TypeOK
  <2> QED BY <1>1, <1>2, <1>3, <1>4, <2>2 DEF TypeOK, locals, main
<1>7. Control'
  BY <1>1, <1>2, <1>5 DEF Control, Pushing, main
<1>8. Ownership'
  <2>1. \A p \in Producers : Pushing(p)' <=> Pushing(p)
    BY <1>5 DEF Pushing
  <2>2. /\ \A d \in Consumers : Owns(d)' <=> Owns(d) /\ d # c
        /\ \A d \in Consumers : Peeks(d)' <=> Peeks(d)
        /\ Owns(c)
    BY <1>1, <1>5 DEF Owns, Peeks
  <2>3. oldHead' = oldHead /\ newHead' = newHead /\ stk' = stk /\ heap' = heap
    BY <1>1 DEF locals
  <2> QED BY <1>3, <1>4, <2>1, <2>2, <2>3 DEF Ownership
<1>9. Fields'
  BY <1>1, <1>5 DEF Fields, locals
<1>10. ChainOK'
  BY <1>1, <1>2, <1>4 DEF ChainOK, main
<1> QED BY <1>6, <1>7, <1>8, <1>9, <1>10

(* main() and the destructor.                                              *)
LEMMA MainStepIInv == ASSUME IInv, MainStep PROVE IInv'
<1> USE DEF IInv
<1>1. CASE MainJoin
  BY <1>1 DEF MainJoin, TypeOK, Control, Ownership, Fields, ChainOK, lists,
     locals, client, hist, Pushing, Owns, Peeks
<1>2. CASE MainVerify
  <2>1. TypeOK' /\ Control' /\ ChainOK'
    BY <1>2 DEF MainVerify, TypeOK, Control, ChainOK, lists, locals, client,
       hist, Pushing
  <2>2. Ownership' /\ Fields'
    BY <1>2 DEF MainVerify, Ownership, Fields, lists, locals, hist, Pushing,
       Owns, Peeks
  <2> QED BY <2>1, <2>2
<1>3. CASE DtorDelete
  <2>1. /\ mpc \in {"dtor_head", "dtor_trash"} /\ cur # NULL
        /\ cur' = next[cur] /\ heap' = heap \ {cur}
        /\ stk' = IF mpc = "dtor_head" THEN Tail(stk) ELSE stk
        /\ bin' = IF mpc = "dtor_trash" THEN Tail(bin) ELSE bin
        /\ UNCHANGED <<lists, value, pc, locals, client, done, mpc, ok>>
    BY <1>3 DEF DtorDelete
  <2>2. cur \in Node /\ next[cur] \in Node \cup {NULL}
    BY <2>1 DEF TypeOK
  <2>3. /\ stk' \in Seq(Node) /\ bin' \in Seq(Node)
        /\ Nodes(stk') \cup Nodes(bin') = (Nodes(stk) \cup Nodes(bin)) \ {cur}
        /\ Nodes(stk') \cap Nodes(bin') = {}
        /\ ChainOK'
    <3>1. CASE mpc = "dtor_head"
      <4>1. /\ Chain(next, cur', stk') /\ stk' \in Seq(Node)
            /\ Nodes(stk') = Nodes(stk) \ {cur} /\ cur \in Nodes(stk)
        BY <2>1, <3>1, ChainPop DEF ChainOK, TypeOK
      <4> QED BY <2>1, <3>1, <4>1 DEF ChainOK, TypeOK, Ownership, lists
    <3>2. CASE mpc = "dtor_trash"
      <4>1. /\ Chain(next, cur', bin') /\ bin' \in Seq(Node)
            /\ Nodes(bin') = Nodes(bin) \ {cur} /\ cur \in Nodes(bin)
        BY <2>1, <3>2, ChainPop DEF ChainOK, TypeOK
      <4> QED BY <2>1, <3>2, <4>1 DEF ChainOK, TypeOK, Ownership, lists
    <3> QED BY <2>1, <3>1, <3>2
  <2>4. TypeOK'
    BY <2>1, <2>2, <2>3 DEF TypeOK, lists, locals, client
  <2>5. Control'
    BY <2>1 DEF Control, Pushing, client
  <2>6. /\ \A p \in Producers : ~ Pushing(p) /\ ~ Pushing(p)'
        /\ \A c \in Consumers : /\ ~ Owns(c) /\ ~ Owns(c)'
                                /\ ~ Peeks(c) /\ ~ Peeks(c)'
                                /\ pc'[c] = "exit"
    BY <2>1 DEF Control, Pushing, Owns, Peeks
  <2>7. Ownership' /\ Fields'
    BY <2>1, <2>3, <2>6 DEF Ownership, Fields
  <2> QED BY <2>3, <2>4, <2>5, <2>7
<1>4. CASE DtorTrash
  <2>1. stk = <<>>
    BY <1>4, ChainEmpty DEF DtorTrash, ChainOK, TypeOK
  <2>2. TypeOK' /\ Control' /\ ChainOK'
    BY <1>4, <2>1 DEF DtorTrash, TypeOK, Control, ChainOK, lists, locals,
       client, hist, Pushing
  <2>3. Ownership' /\ Fields'
    BY <1>4 DEF DtorTrash, Ownership, Fields, lists, locals, hist, Pushing,
       Owns, Peeks
  <2> QED BY <2>2, <2>3
<1>5. CASE DtorEnd
  <2>1. stk = <<>> /\ bin = <<>>
    BY <1>5, ChainEmpty DEF DtorEnd, ChainOK, Control, TypeOK
  <2>2. TypeOK' /\ Control' /\ ChainOK'
    BY <1>5, <2>1 DEF DtorEnd, TypeOK, Control, ChainOK, lists, locals,
       client, hist, Pushing
  <2>3. Ownership' /\ Fields'
    BY <1>5 DEF DtorEnd, Ownership, Fields, lists, locals, hist, Pushing,
       Owns, Peeks
  <2> QED BY <2>2, <2>3
<1> QED BY <1>1, <1>2, <1>3, <1>4, <1>5 DEF MainStep

(* Every step of the program preserves the inductive invariant.            *)
LEMMA NextIInv == IInv /\ [Next]_vars => IInv'
<1> SUFFICES ASSUME IInv, [Next]_vars PROVE IInv'
  OBVIOUS
<1>1. ASSUME NEW p \in Producers, ProducerStep(p) PROVE IInv'
  BY <1>1, PushLoadStep, PushCASOkStep, PushCASFailStep, ProducerExitStep
     DEF ProducerStep
<1>2. ASSUME NEW c \in Consumers, ConsumerStep(c) PROVE IInv'
  <2>1. CASE ConsumerLoop(c) \/ ConsumerEmpty(c) \/ ConsumerInsert(c)
    BY <2>1, ConsumerStepsLocal
  <2>2. CASE PopLoad(c) \/ PopCASFail(c)
    BY <2>2, LookStep DEF PopLoad, PopCASFail
  <2>3. CASE PopNext(c) \/ PopCASOk(c)
    BY <2>3, PopNextStep, PopCASOkStep
  <2>4. CASE RetireLoad(c) \/ RetireCASFail(c)
    BY <2>4, RetireLoadStep
  <2>5. CASE RetireLink(c) \/ RetireCASOk(c)
    BY <2>5, RetireLinkStep, RetireCASOkStep
  <2> QED BY <1>2, <2>1, <2>2, <2>3, <2>4, <2>5 DEF ConsumerStep
<1>3. CASE UNCHANGED vars
  BY <1>3 DEF IInv, TypeOK, Control, Ownership, Fields, ChainOK, vars, lists,
     locals, client, main, hist, Pushing, Owns, Peeks
<1> QED BY <1>1, <1>2, <1>3, MainStepIInv DEF Next, Terminated

-----------------------------------------------------------------------------
(* Type correctness: in every reachable state every variable of main.cpp   *)
(* has its type, whatever the threads' interleaving.                       *)
THEOREM TypeCorrect == Spec => []TypeOK
<1>1. IInv => TypeOK
  BY DEF IInv
<1> QED BY <1>1, InitIInv, NextIInv, PTL DEF Spec

(* The lists of the stack and of the trash are never corrupted, whatever   *)
(* the interleaving of the compare-exchanges on their heads.               *)
THEOREM NeverCorrupted == Spec => []ChainOK
<1>1. IInv => ChainOK
  BY DEF IInv
<1> QED BY <1>1, InitIInv, NextIInv, PTL DEF Spec

(* pop()'s compare-exchange never suffers from ABA, because a node a       *)
(* thread may still look at is never pushed again: the interleaving of the *)
(* ABA ANALYSIS (main.cpp 134-163) is not one of this code, which retires  *)
(* nodes instead of freeing them (52-60).                                  *)
THEOREM AbaFree == Spec => []NoABA
<1>1. IInv => NoABA
  <2> SUFFICES ASSUME IInv, NEW c \in Consumers, pc[c] = "cas",
                      oldHead[c] = head
               PROVE  newHead[c] = next[oldHead[c]]
    BY DEF NoABA
  <2>1. Chain(next, head, stk)
    BY ConsumerRuns
  <2>2. head # NULL
    BY NullAssumption DEF IInv, Ownership, Peeks, TypeOK
  <2>3. head \in Nodes(stk)
    BY <2>1, <2>2, ChainPop DEF IInv, TypeOK
  <2> QED BY <2>3 DEF IInv, Fields
<1> QED BY <1>1, InitIInv, NextIInv, PTL DEF Spec

(* Memory safety: no thread, and not the destructor, dereferences a node   *)
(* that has been deleted, and when the process ends no node is left        *)
(* allocated.                                                              *)
THEOREM MemorySafe == Spec => []MemorySafety
<1>1. IInv => MemorySafety
  <2> SUFFICES ASSUME IInv PROVE NoUseAfterFree /\ NoLeak
    BY DEF MemorySafety
  <2> USE DEF IInv
  <2>1. /\ \A p \in Producers : pc[p] = "push" => newHead[p] \in heap
        /\ \A c \in Consumers : Owns(c) \/ Peeks(c) => oldHead[c] \in heap
    BY DEF Ownership, Pushing
  <2>2. ASSUME mpc \in {"dtor_head", "dtor_trash"}, cur # NULL
        PROVE  cur \in heap
    BY <2>2, ChainPop DEF ChainOK, Ownership, TypeOK
  <2>3. ASSUME mpc = "end" PROVE heap = {}
    <3>1. stk = <<>> /\ bin = <<>>
      BY <2>3 DEF Control
    <3>2. Nodes(stk) = {} /\ Nodes(bin) = {}
      BY <3>1 DEF Nodes
    <3>3. /\ \A p \in Producers : ~ Pushing(p)
          /\ \A c \in Consumers : ~ Owns(c)
      BY <2>3 DEF Control, Pushing, Owns
    <3> QED BY <3>2, <3>3 DEF Ownership
  <2> QED BY <2>1, <2>2, <2>3 DEF NoUseAfterFree, NoLeak
<1> QED BY <1>1, InitIInv, NextIInv, PTL DEF Spec
-----------------------------------------------------------------------------
(* The values.  The invariant above says where the nodes are; the one that *)
(* follows says which values they carry, and that no consumer gives up     *)
(* before the stack is empty for good.                                     *)

\* A node that is being pushed carries its producer's next value, and a
\* consumer's copy of a value is that of the node it owns.
Values ==
  /\ \A p \in Producers : /\ Pushing(p) => value[newHead[p]] = <<p, pushed[p]>>
                          /\ pc[p] = "exit" => pushed[p] = StressN
  /\ \A c \in Consumers : pc[c] \in {"link", "tcas"} => val[c] = value[oldHead[c]]

\* Consumers look for the end of the stack after all the pushes only.
Emptied ==
  /\ done <=> mpc # "join"
  /\ \A c \in Consumers : /\ pc[c] = "empty" => done
                          /\ pc[c] = "exit" => done /\ stk = <<>>

JInv == IInv /\ Values /\ Emptied /\ ExactlyOnce /\ Drained

(* What a consumer holds depends on its own variables, and on the value of *)
(* the node it owns.                                                       *)
LEMMA HoldingFrame ==
  ASSUME NEW c \in Consumers, pc'[c] = pc[c], val'[c] = val[c], res'[c] = res[c],
         Owns(c) => value'[oldHead'[c]] = value[oldHead[c]]
  PROVE  Holding(c)' = Holding(c)
BY DEF Holding, Owns

(* A step that moves no value preserves ExactlyOnce.                       *)
LEMMA OnceFrame ==
  ASSUME ExactlyOnce, stk' = stk, got' = got, pushed' = pushed,
         \A n \in Nodes(stk) : value'[n] = value[n],
         \A c \in Consumers : Holding(c)' = Holding(c)
  PROVE  ExactlyOnce'
<1>1. Nodes(stk)' = Nodes(stk)
  BY DEF Nodes
<1>2. Stacked' = Stacked
  BY <1>1 DEF Stacked
<1>3. \A c \in Consumers : Had(c)' = Had(c)
  BY DEF Had
<1>4. UNION {Had(c)' : c \in Consumers} = UNION {Had(c) : c \in Consumers}
  BY <1>3
<1>5. {v \in Value : v[2] < pushed[v[1]]}' = {v \in Value : v[2] < pushed[v[1]]}
  OBVIOUS
<1> QED BY <1>1, <1>2, <1>3, <1>4, <1>5 DEF ExactlyOnce

(* The threads have not started.                                           *)
LEMMA InitJInv == Init => JInv
<1> SUFFICES ASSUME Init PROVE JInv
  OBVIOUS
<1>1. IInv
  BY InitIInv
<1>2. \A t \in Threads : pc[t] = "loop"
  BY DEF Init
<1>3. Values /\ Emptied /\ Drained
  BY <1>2 DEF Init, Values, Emptied, Drained, Pushing, Threads
<1>4. \A c \in Consumers : Holding(c) = {} /\ Had(c) = {}
  BY <1>2 DEF Init, Holding, Had, Threads
<1>5. Nodes(stk) = {} /\ Stacked = {}
  BY DEF Init, Nodes, Stacked
<1>6. {v \in Value : v[2] < pushed[v[1]]} = {}
  BY DEF Init, Value
<1>7. ExactlyOnce
  BY <1>4, <1>5, <1>6 DEF ExactlyOnce
<1> QED BY <1>1, <1>3, <1>7 DEF JInv

(* The steps of push() before its compare-exchange has succeeded.          *)
LEMMA ProducerQuiet ==
  ASSUME JInv, NEW p \in Producers, PushLoad(p) \/ PushCASFail(p) \/ ProducerExit(p)
  PROVE  JInv'
<1> USE DEF JInv
<1>1. IInv'
  BY PushLoadStep, PushCASFailStep, ProducerExitStep
<1>2. /\ p \in Threads /\ p \notin Consumers /\ mpc = "join"
      /\ stk' = stk /\ got' = got /\ pushed' = pushed /\ res' = res /\ val' = val
      /\ done' = done /\ mpc' = mpc /\ ok' = ok
      /\ \A t \in Threads : t # p => /\ pc'[t] = pc[t] /\ newHead'[t] = newHead[t]
                                     /\ oldHead'[t] = oldHead[t]
  <2>1. p \in Threads /\ p \notin Consumers
    BY ThreadsAssumption DEF Threads
  <2>2. mpc = "join"
    BY DEF PushLoad, PushCASFail, ProducerExit, Goto, IInv, Control
  <2> QED BY <2>1, <2>2 DEF PushLoad, PushCASFail, ProducerExit, Goto, IInv, TypeOK,
             client, main, hist, locals
<1>3. \A n \in heap : value'[n] = value[n]
  BY DEF PushLoad, PushCASFail, ProducerExit, IInv, TypeOK
<1>4. \A c \in Consumers : Holding(c)' = Holding(c)
  <2> SUFFICES ASSUME NEW c \in Consumers PROVE Holding(c)' = Holding(c)
    OBVIOUS
  <2>1. c \in Threads /\ c # p
    BY <1>2 DEF Threads
  <2>2. Owns(c) => oldHead[c] \in heap
    BY DEF IInv, Ownership
  <2> QED BY <1>2, <1>3, <2>1, <2>2, HoldingFrame
<1>5. ExactlyOnce'
  <2>1. \A n \in Nodes(stk) : value'[n] = value[n]
    BY <1>3 DEF IInv, Ownership
  <2> QED BY <1>2, <1>4, <2>1, OnceFrame
<1>6. \A q \in Producers : /\ Pushing(q)' => value'[newHead'[q]] = <<q, pushed[q]>>
                           /\ pc'[q] = "exit" => pushed[q] = StressN
  <2>1. ASSUME NEW q \in Producers, q # p
        PROVE  /\ Pushing(q)' => value'[newHead'[q]] = <<q, pushed[q]>>
               /\ pc'[q] = "exit" => pushed[q] = StressN
    <3>1. pc'[q] = pc[q] /\ newHead'[q] = newHead[q]
      BY <1>2, <2>1 DEF Threads
    <3>2. Pushing(q) => newHead[q] \in heap
      BY DEF IInv, Ownership
    <3> QED BY <1>3, <3>1, <3>2 DEF Values, Pushing
  <2>2. /\ Pushing(p)' => value'[newHead'[p]] = <<p, pushed[p]>>
        /\ pc'[p] = "exit" => pushed[p] = StressN
    <3>1. CASE PushLoad(p)
      <4>1. PICK n \in Node : /\ value' = [value EXCEPT ![n] = <<p, pushed[p]>>]
                              /\ newHead' = [newHead EXCEPT ![p] = n]
                              /\ pc' = [pc EXCEPT ![p] = "push"]
        BY <3>1 DEF PushLoad, Goto
      <4>2. newHead'[p] = n /\ value'[n] = <<p, pushed[p]>> /\ pc'[p] = "push"
        BY <1>2, <4>1 DEF IInv, TypeOK
      <4> QED BY <4>2
    <3>2. CASE PushCASFail(p)
      <4>1. pc[p] = "push" /\ pc'[p] = "push" /\ newHead' = newHead /\ value' = value
        BY <1>2, <3>2 DEF PushCASFail, Goto, IInv, TypeOK
      <4> QED BY <4>1 DEF Values, Pushing
    <3>3. CASE ProducerExit(p)
      <4>1. pc'[p] = "exit" /\ pushed[p] = StressN
        BY <1>2, <3>3 DEF ProducerExit, Goto, IInv, TypeOK
      <4> QED BY <4>1 DEF Pushing
    <3> QED BY <3>1, <3>2, <3>3
  <2> QED BY <2>1, <2>2
<1>7. Values'
  <2>1. \A c \in Consumers : pc'[c] = pc[c] /\ oldHead'[c] = oldHead[c] /\ c # p
    BY <1>2 DEF Threads
  <2>2. \A c \in Consumers : pc[c] \in {"link", "tcas"} => oldHead[c] \in heap
    BY DEF IInv, Ownership, Owns
  <2> QED BY <1>2, <1>3, <1>6, <2>1, <2>2 DEF Values
<1>8. Emptied' /\ Drained'
  BY <1>2 DEF Emptied, Drained, Threads
<1> QED BY <1>1, <1>5, <1>7, <1>8

(* The compare-exchange of push() puts a new value on the stack.           *)
LEMMA PushCounted == ASSUME JInv, NEW p \in Producers, PushCASOk(p) PROVE JInv'
<1> USE DEF JInv
<1> DEFINE n == newHead[p]
           x == <<p, pushed[p]>>
<1>1. IInv'
  BY PushCASOkStep
<1>2. /\ pc[p] = "push" /\ pc' = [pc EXCEPT ![p] = "loop"]
      /\ pushed' = [pushed EXCEPT ![p] = @ + 1] /\ stk' = <<n>> \o stk
      /\ UNCHANGED <<value, locals, res, got, main>>
      /\ p \in Threads /\ p \notin Consumers /\ mpc = "join"
  BY ThreadsAssumption DEF PushCASOk, Goto, Threads, IInv, Control
<1>3. /\ n \in Node /\ n \notin Nodes(stk) /\ value[n] = x /\ x \in Value
      /\ pushed[p] \in 0 .. StressN - 1
  <2>1. n \in Node /\ n \notin Nodes(stk) /\ value[n] = x
    BY <1>2 DEF IInv, TypeOK, Ownership, Values, Pushing
  <2>2. pushed[p] \in 0 .. StressN - 1
    BY <1>2, StressNAssumption DEF IInv, TypeOK, Control, Pushing
  <2> QED BY <2>1, <2>2 DEF Value
<1>4. Nodes(stk') = Nodes(stk) \cup {n}
  <2>1. Chain(next, head, stk) /\ stk \in Seq(Node)
    BY <1>2 DEF IInv, ChainOK, TypeOK
  <2>2. /\ Len(stk') = Len(stk) + 1 /\ Len(stk) \in Nat /\ stk'[1] = n
        /\ \A i \in 1 .. Len(stk) : stk'[i + 1] = stk[i]
    BY <1>2, <1>3, <2>1, PrependProperties, LenProperties
  <2>3. \A i \in 1 .. Len(stk') : i = 1 \/ (i - 1 \in 1 .. Len(stk) /\ stk'[i] = stk[i - 1])
    BY <2>2
  <2>4. \A i \in 1 .. Len(stk) : i + 1 \in 1 .. Len(stk') /\ 1 \in 1 .. Len(stk')
    BY <2>2
  <2>5. Nodes(stk') \subseteq Nodes(stk) \cup {n}
    BY <2>2, <2>3 DEF Nodes
  <2>6. Nodes(stk) \subseteq Nodes(stk')
    BY <2>2, <2>4 DEF Nodes
  <2>7. n \in Nodes(stk')
    BY <2>2 DEF Nodes
  <2> QED BY <2>5, <2>6, <2>7
<1> HIDE DEF n, x
<1>5. \A c \in Consumers : Holding(c)' = Holding(c) /\ Had(c)' = Had(c)
  <2>1. \A c \in Consumers : pc'[c] = pc[c]
    BY <1>2 DEF IInv, TypeOK, Threads
  <2> QED BY <1>2, <2>1, HoldingFrame DEF Had, locals
<1>6. Stacked' = Stacked \cup {x}
  BY <1>2, <1>3, <1>4 DEF Stacked
<1>7. {v \in Value : v[2] < pushed[v[1]]}' = {v \in Value : v[2] < pushed[v[1]]} \cup {x}
  <2>1. ASSUME NEW v \in Value
        PROVE  v[2] < pushed'[v[1]] <=> v[2] < pushed[v[1]] \/ v = x
    <3>1. PICK q \in Producers, i \in 0 .. StressN - 1 : v = <<q, i>>
      BY DEF Value
    <3>2. pushed'[q] = IF q = p THEN pushed[p] + 1 ELSE pushed[q]
      BY <1>2 DEF IInv, TypeOK
    <3>3. pushed[q] \in Nat /\ pushed[p] \in Nat /\ i \in Nat
      BY StressNAssumption DEF IInv, TypeOK
    <3>4. i < pushed'[q] <=> i < pushed[q] \/ (q = p /\ i = pushed[p])
      BY <3>2, <3>3
    <3> QED BY <3>1, <3>4 DEF x
  <2> QED BY <1>3, <2>1
<1>8. x \notin {v \in Value : v[2] < pushed[v[1]]}
  BY <1>3 DEF x
<1>9. ExactlyOnce'
  <2>1. x \notin Stacked /\ \A c \in Consumers : x \notin Had(c)
    BY <1>8 DEF ExactlyOnce
  <2>2. Stacked' \cup UNION {Had(c)' : c \in Consumers}
          = {v \in Value : v[2] < pushed[v[1]]}'
    <3>1. UNION {Had(c)' : c \in Consumers} = UNION {Had(c) : c \in Consumers}
      BY <1>5
    <3> QED BY <1>6, <1>7, <3>1 DEF ExactlyOnce
  <2>3. \A a, b \in Nodes(stk') : value'[a] = value'[b] => a = b
    <3>1. \A a \in Nodes(stk) : value[a] # x
      BY <2>1 DEF Stacked
    <3> QED BY <1>2, <1>3, <1>4, <3>1 DEF ExactlyOnce
  <2>4. \A c \in Consumers : Had(c)' \cap Stacked' = {} /\ Holding(c)' \cap got'[c] = {}
    BY <1>2, <1>5, <1>6, <2>1 DEF ExactlyOnce
  <2>5. \A c, d \in Consumers : c # d => Had(c)' \cap Had(d)' = {}
    BY <1>5 DEF ExactlyOnce
  <2> QED BY <2>2, <2>3, <2>4, <2>5 DEF ExactlyOnce
<1>10. Values' /\ Emptied' /\ Drained'
  <2>1. /\ \A t \in Threads : t # p => pc'[t] = pc[t]
        /\ pc'[p] = "loop"
        /\ \A q \in Producers : q # p => pushed'[q] = pushed[q]
    BY <1>2 DEF IInv, TypeOK
  <2>2. ~ done /\ \A c \in Consumers : pc[c] # "exit" /\ c # p
    BY <1>2 DEF Emptied
  <2> QED BY <1>2, <2>1, <2>2 DEF Values, Emptied, Drained, Pushing, Threads, locals, main
<1> QED BY <1>1, <1>9, <1>10

(* The steps of consumer() and pop() that move no value.                   *)
ConsumerQuiet(c) ==
  \/ ConsumerLoop(c) \/ ConsumerEmpty(c) \/ PopLoad(c) \/ PopCASFail(c) \/ PopNext(c)
  \/ RetireLoad(c) \/ RetireLink(c) \/ RetireCASOk(c) \/ RetireCASFail(c)

(* What they do to the consumer's own state: it holds what it held, and    *)
(* leaves only when done is set and the stack is empty.                    *)
LEMMA ConsumerOwnState ==
  ASSUME JInv, NEW c \in Consumers, ConsumerQuiet(c)
  PROVE  /\ Holding(c)' = Holding(c)
         /\ pc'[c] \in {"link", "tcas"} => val'[c] = value[oldHead'[c]]
         /\ pc'[c] = "empty" => done
         /\ pc'[c] = "exit" => done /\ stk = <<>>
<1> USE DEF JInv
<1>1. /\ c \in Threads /\ pc[c] # "exit"
      /\ Chain(next, head, stk)
  <2>1. pc[c] # "exit"
    BY DEF ConsumerQuiet, ConsumerLoop, ConsumerEmpty, PopLoad, PopCASFail, Look, PopNext,
           RetireLoad, RetireLink, RetireCASOk, RetireCASFail, Goto
  <2> QED BY <2>1, ConsumerRuns
<1>2. CASE ConsumerLoop(c)
  BY <1>1, <1>2 DEF ConsumerLoop, Goto, Holding, IInv, TypeOK
<1>3. CASE ConsumerEmpty(c)
  <2>1. head = NULL => stk = <<>>
    BY <1>1, ChainEmpty DEF IInv, TypeOK
  <2>2. done
    BY <1>3 DEF ConsumerEmpty, Goto, Emptied
  <2> QED BY <1>1, <1>3, <2>1, <2>2 DEF ConsumerEmpty, Goto, Holding, IInv, TypeOK
<1>4. CASE PopLoad(c) \/ PopCASFail(c)
  <2>1. /\ pc[c] \in {"pop", "cas"} /\ pc'[c] = IF head = NULL THEN "insert" ELSE "next"
        /\ head = NULL => res'[c] = {}
    BY <1>1, <1>4 DEF PopLoad, PopCASFail, Look, Goto, NullOpt, IInv, TypeOK
  <2> QED BY <2>1 DEF Holding
<1>5. CASE PopNext(c)
  <2>1. pc[c] = "next" /\ pc'[c] = "cas"
    BY <1>1, <1>5 DEF PopNext, Goto, IInv, TypeOK
  <2> QED BY <2>1 DEF Holding
<1>6. CASE RetireLoad(c)
  <2>1. /\ pc[c] = "retire" /\ pc'[c] = "link" /\ val'[c] = value[oldHead[c]]
        /\ oldHead' = oldHead
    BY <1>1, <1>6 DEF RetireLoad, Goto, IInv, TypeOK
  <2> QED BY <2>1 DEF Holding
<1>7. CASE RetireLink(c) \/ RetireCASFail(c)
  <2>1. /\ pc[c] \in {"link", "tcas"} /\ pc'[c] \in {"link", "tcas"}
        /\ val' = val /\ oldHead' = oldHead
    BY <1>1, <1>7 DEF RetireLink, RetireCASFail, Goto, locals, IInv, TypeOK
  <2> QED BY <2>1 DEF Holding, Values
<1>8. CASE RetireCASOk(c)
  <2>1. pc[c] = "tcas" /\ pc'[c] = "insert" /\ res'[c] = {val[c]}
    BY <1>1, <1>8 DEF RetireCASOk, Goto, IInv, TypeOK
  <2> QED BY <2>1 DEF Holding
<1> QED BY <1>2, <1>3, <1>4, <1>5, <1>6, <1>7, <1>8 DEF ConsumerQuiet

(* They preserve the invariant.                                            *)
LEMMA ConsumerQuietKeeps ==
  ASSUME JInv, NEW c \in Consumers, ConsumerQuiet(c) PROVE JInv'
<1> USE DEF JInv
<1>1. IInv'
  BY ConsumerStepsLocal, LookStep, PopNextStep, RetireLoadStep, RetireLinkStep,
     RetireCASOkStep DEF ConsumerQuiet, PopLoad, PopCASFail
<1>2. /\ c \in Threads /\ c \notin Producers
      /\ stk' = stk /\ value' = value /\ pushed' = pushed /\ got' = got
      /\ done' = done /\ mpc' = mpc /\ ok' = ok
  BY ThreadsAssumption
     DEF Threads, ConsumerQuiet, ConsumerLoop, ConsumerEmpty, PopLoad, PopCASFail, Look,
         PopNext, RetireLoad, RetireLink, RetireCASOk, RetireCASFail, client, main, hist
<1>3. /\ \A t \in Threads : t # c => /\ pc'[t] = pc[t] /\ newHead'[t] = newHead[t]
                                     /\ oldHead'[t] = oldHead[t]
      /\ \A d \in Consumers : d # c => val'[d] = val[d] /\ res'[d] = res[d]
  BY DEF ConsumerQuiet, ConsumerLoop, ConsumerEmpty, PopLoad, PopCASFail, Look, Goto,
         PopNext, RetireLoad, RetireLink, RetireCASOk, RetireCASFail, locals, client,
         IInv, TypeOK
<1>4. \A d \in Consumers : Holding(d)' = Holding(d)
  <2>1. \A d \in Consumers : d # c => Holding(d)' = Holding(d)
    BY <1>2, <1>3, HoldingFrame DEF Threads
  <2> QED BY <2>1, ConsumerOwnState
<1>5. ExactlyOnce'
  BY <1>2, <1>4, OnceFrame
<1>6. Values'
  <2>1. \A p \in Producers : pc'[p] = pc[p] /\ newHead'[p] = newHead[p]
    BY <1>2, <1>3 DEF Threads
  <2>2. \A d \in Consumers : pc'[d] \in {"link", "tcas"} => val'[d] = value[oldHead'[d]]
    <3>1. ASSUME NEW d \in Consumers, d # c, pc'[d] \in {"link", "tcas"}
          PROVE  val'[d] = value[oldHead'[d]]
      BY <1>3, <3>1 DEF Values, Threads
    <3> QED BY <3>1, ConsumerOwnState
  <2> QED BY <1>2, <2>1, <2>2 DEF Values, Pushing
<1>7. Emptied' /\ Drained'
  <2>1. \A d \in Consumers : /\ pc'[d] = "empty" => done
                             /\ pc'[d] = "exit" => done /\ stk = <<>>
    <3>1. ASSUME NEW d \in Consumers, d # c PROVE pc'[d] = pc[d]
      BY <1>3, <3>1 DEF Threads
    <3> QED BY <3>1, ConsumerOwnState DEF Emptied
  <2> QED BY <1>2, <2>1 DEF Emptied, Drained
<1> QED BY <1>1, <1>5, <1>6, <1>7

(* The compare-exchange of pop() moves the value on top to its consumer.   *)
LEMMA PopMoves == ASSUME JInv, NEW c \in Consumers, PopCASOk(c) PROVE JInv'
<1> USE DEF JInv
<1> DEFINE n == oldHead[c]
<1>1. IInv'
  BY PopCASOkStep
<1>2. /\ pc[c] = "cas" /\ pc' = [pc EXCEPT ![c] = "retire"] /\ head = n
      /\ stk' = Tail(stk)
      /\ UNCHANGED <<value, locals, client, main>>
  BY DEF PopCASOk, Goto
<1>3. /\ c \in Threads /\ c \notin Producers /\ mpc \in {"join", "collect"}
      /\ Chain(next, head, stk)
  BY <1>2, ConsumerRuns
<1>4. /\ n \in Nodes(stk) /\ Nodes(stk') = Nodes(stk) \ {n} /\ stk # <<>>
  <2>1. n # NULL
    BY <1>2, NullAssumption DEF IInv, Ownership, Peeks, TypeOK
  <2> QED BY <1>2, <1>3, <2>1, ChainPop DEF IInv, TypeOK
<1>5. /\ \A t \in Threads : t # c => pc'[t] = pc[t]
      /\ pc'[c] = "retire"
  BY <1>2, <1>3 DEF IInv, TypeOK
<1>6. /\ \A d \in Consumers : d # c => Holding(d)' = Holding(d) /\ Had(d)' = Had(d)
      /\ Holding(c) = {} /\ Holding(c)' = {value[n]}
      /\ Had(c) = got[c] /\ Had(c)' = got[c] \cup {value[n]}
  <2>1. ASSUME NEW d \in Consumers, d # c PROVE Holding(d)' = Holding(d)
    <3>1. pc'[d] = pc[d]
      BY <1>5, <2>1 DEF Threads
    <3> QED BY <1>2, <3>1, HoldingFrame DEF locals, client
  <2>2. Holding(c) = {} /\ Holding(c)' = {value[n]}
    BY <1>2, <1>5 DEF Holding, locals
  <2> QED BY <1>2, <2>1, <2>2 DEF Had, client
<1> HIDE DEF n
<1>7. Stacked' = Stacked \ {value[n]} /\ value[n] \in Stacked
  <2>1. \A m \in Nodes(stk) : value[m] = value[n] => m = n
    BY <1>4 DEF ExactlyOnce
  <2> QED BY <1>2, <1>4, <2>1 DEF Stacked
<1>8. ExactlyOnce'
  <2>1. \A d \in Consumers : value[n] \notin Had(d)
    BY <1>7 DEF ExactlyOnce
  <2>2. Stacked' \cup UNION {Had(d)' : d \in Consumers}
          = Stacked \cup UNION {Had(d) : d \in Consumers}
    BY <1>6, <1>7
  <2>3. {v \in Value : v[2] < pushed[v[1]]}' = {v \in Value : v[2] < pushed[v[1]]}
    BY <1>2 DEF client
  <2>4. \A a, b \in Nodes(stk') : value'[a] = value'[b] => a = b
    BY <1>2, <1>4 DEF ExactlyOnce
  <2>5. \A d \in Consumers : Had(d)' \cap Stacked' = {} /\ Holding(d)' \cap got'[d] = {}
    BY <1>2, <1>6, <1>7, <2>1 DEF ExactlyOnce, client
  <2>6. \A d, e \in Consumers : d # e => Had(d)' \cap Had(e)' = {}
    BY <1>6, <2>1 DEF ExactlyOnce
  <2> QED BY <2>2, <2>3, <2>4, <2>5, <2>6 DEF ExactlyOnce
<1>9. Values' /\ Drained'
  BY <1>2, <1>3, <1>5 DEF Values, Drained, Pushing, Threads, locals, client, main
<1>10. Emptied'
  <2>1. \A d \in Consumers : pc[d] # "exit"
    BY <1>4 DEF Emptied
  <2> QED BY <1>2, <1>5, <2>1 DEF Emptied, Threads, main
<1> QED BY <1>1, <1>8, <1>9, <1>10

(* consumer() stores what pop() returned.                                  *)
LEMMA InsertMoves == ASSUME JInv, NEW c \in Consumers, ConsumerInsert(c) PROVE JInv'
<1> USE DEF JInv
<1>1. IInv'
  BY ConsumerStepsLocal
<1>2. /\ pc[c] = "insert" /\ pc' = [pc EXCEPT ![c] = "loop"]
      /\ got' = [got EXCEPT ![c] = @ \cup res[c]]
      /\ UNCHANGED <<value, locals, pushed, res, main, hist>>
      /\ c \in Threads /\ c \notin Producers
  BY ThreadsAssumption DEF ConsumerInsert, Goto, Threads
<1>3. /\ \A t \in Threads : t # c => pc'[t] = pc[t]
      /\ pc'[c] = "loop"
      /\ \A d \in Consumers : got'[d] = IF d = c THEN got[c] \cup res[c] ELSE got[d]
  BY <1>2 DEF IInv, TypeOK
<1>4. /\ \A d \in Consumers : d # c => Holding(d)' = Holding(d)
      /\ Holding(c) = res[c] /\ Holding(c)' = {}
  <2>1. ASSUME NEW d \in Consumers, d # c PROVE Holding(d)' = Holding(d)
    <3>1. pc'[d] = pc[d]
      BY <1>3, <2>1 DEF Threads
    <3> QED BY <1>2, <3>1, HoldingFrame DEF locals
  <2>2. Holding(c) = res[c] /\ Holding(c)' = {}
    BY <1>2, <1>3 DEF Holding
  <2> QED BY <2>1, <2>2
<1>5. \A d \in Consumers : Had(d)' = Had(d)
  BY <1>3, <1>4 DEF Had
<1>6. ExactlyOnce'
  <2>1. Stacked' = Stacked
    BY <1>2 DEF Stacked, Nodes, hist
  <2>2. UNION {Had(d)' : d \in Consumers} = UNION {Had(d) : d \in Consumers}
    BY <1>5
  <2>3. {v \in Value : v[2] < pushed[v[1]]}' = {v \in Value : v[2] < pushed[v[1]]}
    BY <1>2
  <2>4. \A d \in Consumers : Holding(d)' \cap got'[d] = {}
    BY <1>3, <1>4 DEF ExactlyOnce
  <2>5. \A a, b \in Nodes(stk') : value'[a] = value'[b] => a = b
    BY <1>2 DEF ExactlyOnce, hist
  <2> QED BY <1>5, <2>1, <2>2, <2>3, <2>4, <2>5 DEF ExactlyOnce
<1>7. Values' /\ Emptied' /\ Drained'
  BY <1>2, <1>3 DEF Values, Emptied, Drained, Pushing, Threads, locals, main, hist
<1> QED BY <1>1, <1>6, <1>7

(* main() finds everything collected, and the destructor an empty stack.   *)
LEMMA MainMoves == ASSUME JInv, MainStep PROVE JInv'
<1> USE DEF JInv
<1>1. IInv'
  BY MainStepIInv
<1>2. /\ mpc # "end" /\ UNCHANGED <<value, pc, locals, client>>
  BY DEF MainStep, MainJoin, MainVerify, DtorDelete, DtorTrash, DtorEnd
<1>3. stk' = stk
  <2>1. CASE DtorDelete
    <3>1. mpc # "dtor_head"
      <4> SUFFICES ASSUME mpc = "dtor_head" PROVE FALSE
        OBVIOUS
      <4>1. Chain(next, cur, stk) /\ stk = <<>> /\ cur # NULL
        BY <2>1 DEF DtorDelete, IInv, ChainOK, Drained
      <4> QED BY <4>1 DEF Chain
    <3> QED BY <2>1, <3>1 DEF DtorDelete
  <2>2. CASE ~ DtorDelete
    BY <2>2 DEF MainStep, MainJoin, MainVerify, DtorTrash, DtorEnd, hist
  <2> QED BY <2>1, <2>2
<1>4. ExactlyOnce'
  <2>1. \A c \in Consumers : Holding(c)' = Holding(c)
    BY <1>2, HoldingFrame DEF locals, client
  <2> QED BY <1>2, <1>3, <2>1, OnceFrame DEF client
<1>5. Values'
  BY <1>2 DEF Values, Pushing, locals, client
<1>6. Emptied'
  <2>1. CASE MainJoin
    BY <1>2, <1>3, <2>1 DEF MainJoin, Emptied
  <2>2. CASE MainVerify \/ DtorDelete \/ DtorTrash \/ DtorEnd
    BY <1>2, <1>3, <2>2 DEF MainVerify, DtorDelete, DtorTrash, DtorEnd, Emptied
  <2> QED BY <2>1, <2>2 DEF MainStep
<1>7. Drained'
  <2>1. CASE MainJoin
    BY <2>1 DEF MainJoin, Drained
  <2>2. CASE MainVerify
    <3>1. /\ \A c \in Consumers : pc[c] = "exit"
          /\ \A p \in Producers : pc[p] = "exit"
          /\ ok' = (UNION {got[c] : c \in Consumers} = Value)
      BY <2>2 DEF MainVerify, IInv, Control
    <3>2. stk = <<>>
      BY <3>1, ConsumersAssumption DEF Emptied
    <3>3. Stacked = {}
      BY <3>2 DEF Stacked, Nodes
    <3>4. \A c \in Consumers : Had(c) = got[c]
      BY <3>1 DEF Had, Holding
    <3>5. UNION {Had(c) : c \in Consumers} = UNION {got[c] : c \in Consumers}
      BY <3>4
    <3>6. {v \in Value : v[2] < pushed[v[1]]} = Value
      <4>1. \A p \in Producers : pushed[p] = StressN
        BY <3>1 DEF Values
      <4>2. \A v \in Value : v[2] < pushed[v[1]]
        BY <4>1, StressNAssumption DEF Value
      <4> QED BY <4>2
    <3>7. UNION {got[c] : c \in Consumers} = Value
      BY <3>3, <3>5, <3>6 DEF ExactlyOnce
    <3> QED BY <1>3, <3>1, <3>2, <3>7 DEF Drained
  <2>3. CASE DtorDelete \/ DtorTrash \/ DtorEnd
    BY <1>3, <2>3 DEF DtorDelete, DtorTrash, DtorEnd, Drained
  <2> QED BY <2>1, <2>2, <2>3 DEF MainStep
<1> QED BY <1>1, <1>4, <1>5, <1>6, <1>7

(* Every step preserves the invariant with the values.                     *)
LEMMA NextJInv == JInv /\ [Next]_vars => JInv'
<1> SUFFICES ASSUME JInv, [Next]_vars PROVE JInv'
  OBVIOUS
<1>1. ASSUME NEW p \in Producers, ProducerStep(p) PROVE JInv'
  BY <1>1, ProducerQuiet, PushCounted DEF ProducerStep
<1>2. ASSUME NEW c \in Consumers, ConsumerStep(c) PROVE JInv'
  BY <1>2, ConsumerQuietKeeps, PopMoves, InsertMoves DEF ConsumerStep, ConsumerQuiet
<1>3. CASE UNCHANGED vars
  <2>1. IInv'
    BY <1>3, NextIInv DEF JInv
  <2>2. UNCHANGED <<value, pc, locals, client, main, hist>>
    BY <1>3 DEF vars
  <2>3. ExactlyOnce'
    <3>1. \A c \in Consumers : Holding(c)' = Holding(c)
      BY <2>2, HoldingFrame DEF locals, client
    <3> QED BY <2>2, <3>1, OnceFrame DEF JInv, client, hist
  <2>4. Values' /\ Emptied' /\ Drained'
    BY <2>2 DEF JInv, Values, Emptied, Drained, Pushing, locals, client, main, hist
  <2> QED BY <2>1, <2>3, <2>4 DEF JInv
<1> QED BY <1>1, <1>2, <1>3, MainMoves DEF Next, Terminated

(* Every value pushed is on the stack, held by one consumer or in one set, *)
(* exactly once, for any number of threads and pushes.                     *)
THEOREM OncePerValue == Spec => []ExactlyOnce
<1>1. JInv => ExactlyOnce
  BY DEF JInv
<1> QED BY <1>1, InitJInv, NextJInv, PTL DEF Spec

(* The consumers leave only when the stack is empty for good, and main()   *)
(* prints PASS: no flag, count or interleaving makes them give up early.   *)
THEOREM AllCollected == Spec => []Drained
<1>1. JInv => Drained
  BY DEF JInv
<1> QED BY <1>1, InitJInv, NextJInv, PTL DEF Spec

-----------------------------------------------------------------------------
(* The refinement: every step is one of the abstract stack, or changes     *)
(* nothing of it.                                                          *)

\* What the refinement mapping shows of the stack and of the calls.
Stack == [i \in 1 .. Len(stk) |-> value[stk[i]]]
Phase(c) == CASE pc[c] \in {"loop", "empty", "exit"} -> "idle"
              [] pc[c] \in {"pop", "next", "cas"} -> "called"
              [] OTHER -> "served"
Phases == [c \in Consumers |-> Phase(c)]
Answers == [c \in Consumers |-> Holding(c)]

(* The values of a list, one node longer or one shorter.                   *)
LEMMA StackValues ==
  ASSUME NEW s \in Seq(Node), NEW f, NEW n \in Node
  PROVE  /\ [i \in 1 .. Len(<<n>> \o s) |-> f[(<<n>> \o s)[i]]]
              = <<f[n]>> \o [i \in 1 .. Len(s) |-> f[s[i]]]
         /\ s # <<>> => /\ [i \in 1 .. Len(s) |-> f[s[i]]] # <<>>
                        /\ Head([i \in 1 .. Len(s) |-> f[s[i]]]) = f[s[1]]
                        /\ Tail([i \in 1 .. Len(s) |-> f[s[i]]])
                             = [i \in 1 .. Len(Tail(s)) |-> f[Tail(s)[i]]]
<1> DEFINE F == {f[m] : m \in Node}
           v == [i \in 1 .. Len(s) |-> f[s[i]]]
<1>1. Len(s) \in Nat /\ \A i \in 1 .. Len(s) : s[i] \in Node
  BY ElementOfSeq, LenProperties
<1>2. v \in Seq(F) /\ Len(v) = Len(s)
  BY <1>1
<1>3. [i \in 1 .. Len(<<n>> \o s) |-> f[(<<n>> \o s)[i]]] = <<f[n]>> \o v
  <2> DEFINE w == [i \in 1 .. Len(<<n>> \o s) |-> f[(<<n>> \o s)[i]]]
             u == <<f[n]>> \o v
  <2>1. /\ Len(<<n>> \o s) = Len(s) + 1 /\ (<<n>> \o s)[1] = n
        /\ \A i \in 1 .. Len(s) : (<<n>> \o s)[i + 1] = s[i]
    BY PrependProperties
  <2>2. /\ u \in Seq(F) /\ Len(u) = Len(s) + 1 /\ u[1] = f[n]
        /\ \A i \in 1 .. Len(s) : u[i + 1] = v[i]
    <3>1. f[n] \in F
      OBVIOUS
    <3> HIDE DEF F, v
    <3> QED BY <1>2, <3>1, PrependProperties
  <2>3. u = [i \in 1 .. Len(s) + 1 |-> u[i]]
    <3> HIDE DEF u, F, v
    <3> QED BY <2>2
  <2>4. ASSUME NEW i \in 1 .. Len(s) + 1 PROVE u[i] = f[(<<n>> \o s)[i]]
    <3>1. CASE i = 1
      BY <2>1, <2>2, <3>1
    <3>2. CASE i # 1
      <4>1. i - 1 \in 1 .. Len(s) /\ (i - 1) + 1 = i
        BY <1>1, <3>2
      <4>2. u[i] = v[i - 1] /\ (<<n>> \o s)[i] = s[i - 1]
        <5> HIDE DEF u, v, F
        <5> QED BY <2>1, <2>2, <4>1
      <4>3. v[i - 1] = f[s[i - 1]]
        BY <4>1
      <4> QED BY <4>2, <4>3
    <3> QED BY <3>1, <3>2
  <2>5. w = [i \in 1 .. Len(s) + 1 |-> u[i]]
    <3> HIDE DEF u
    <3> QED BY <2>1, <2>4
  <2> QED BY <2>3, <2>5
<1>4. ASSUME s # <<>>
      PROVE  /\ v # <<>> /\ Head(v) = f[s[1]]
             /\ Tail(v) = [i \in 1 .. Len(Tail(s)) |-> f[Tail(s)[i]]]
  <2>1. /\ Len(s) \in Nat \ {0} /\ Len(Tail(s)) = Len(s) - 1
        /\ \A i \in 1 .. Len(s) - 1 : Tail(s)[i] = s[i + 1]
    BY <1>4, TailProperties
  <2>2. v # <<>> /\ v[1] = f[s[1]]
    <3>1. Len(v) # 0 /\ 1 \in 1 .. Len(s)
      BY <1>2, <2>1
    <3> QED BY <1>2, <3>1, EmptySeq
  <2>3. /\ Tail(v) \in Seq(F) /\ Len(Tail(v)) = Len(s) - 1 /\ Head(v) = v[1]
        /\ \A i \in 1 .. Len(s) - 1 : Tail(v)[i] = v[i + 1]
    <3> HIDE DEF v, F
    <3> QED BY <1>2, <2>2, TailProperties
  <2>4. \A i \in 1 .. Len(s) - 1 : v[i + 1] = f[Tail(s)[i]]
    BY <2>1
  <2>5. Tail(v) = [i \in 1 .. Len(s) - 1 |-> Tail(v)[i]]
    <3> HIDE DEF v, F
    <3>1. ASSUME NEW t \in Seq(F) PROVE t = [i \in 1 .. Len(t) |-> t[i]]
      BY LenProperties
    <3>2. Tail(v) = [i \in 1 .. Len(Tail(v)) |-> Tail(v)[i]]
      BY <2>3, <3>1, Zenon
    <3> QED BY <2>3, <3>2
  <2>6. Tail(v) = [i \in 1 .. Len(s) - 1 |-> f[Tail(s)[i]]]
    <3> HIDE DEF v, F
    <3> QED BY <2>3, <2>4, <2>5
  <2> QED BY <2>1, <2>2, <2>3, <2>6
<1> QED BY <1>3, <1>4

(* The initial states are those of the abstract stack.                     *)
LEMMA InitRefines == Init => Abstract!Init
<1> SUFFICES ASSUME Init PROVE Abstract!Init
  OBVIOUS
<1>1. \A c \in Consumers : pc[c] = "loop"
  BY DEF Init, Threads
<1>2. \A c \in Consumers : Phase(c) = "idle" /\ Holding(c) = {}
  BY <1>1 DEF Phase, Holding
<1>3. Stack = <<>>
  BY DEF Init, Stack
<1>4. Phases = [c \in Consumers |-> "idle"] /\ Answers = [c \in Consumers |-> {}]
  BY <1>2 DEF Phases, Answers
<1> QED BY <1>3, <1>4 DEF Init, Abstract!Init, Stack, Phases, Phase, Answers

(* A step that changes nothing of the mapping.                             *)
LEMMA Invisible ==
  ASSUME Stack' = Stack, pushed' = pushed, got' = got,
         \A c \in Consumers : Phase(c)' = Phase(c) /\ Holding(c)' = Holding(c)
  PROVE  UNCHANGED Abstract!vars
<1>1. Phases' = Phases /\ Answers' = Answers
  BY DEF Phases, Answers
<1> QED BY <1>1 DEF Abstract!vars, Stack, Phases, Phase, Answers

(* A step of one consumer that moves no node changes the phase and the     *)
(* answer of that consumer, and nothing else of the mapping.               *)
LEMMA OneConsumer ==
  ASSUME JInv, NEW c \in Consumers, ConsumerQuiet(c) \/ ConsumerInsert(c)
  PROVE  /\ Stack' = Stack /\ pushed' = pushed
         /\ \A d \in Consumers : d # c => Phase(d)' = Phase(d) /\ Holding(d)' = Holding(d)
         /\ Phases' = [Phases EXCEPT ![c] = Phase(c)']
         /\ Answers' = [Answers EXCEPT ![c] = Holding(c)']
<1> USE DEF JInv
<1>1. stk' = stk /\ value' = value /\ pushed' = pushed
  BY DEF ConsumerQuiet, ConsumerLoop, ConsumerEmpty, PopLoad, PopCASFail, Look, PopNext,
         RetireLoad, RetireLink, RetireCASOk, RetireCASFail, ConsumerInsert, client, hist
<1>2. \A d \in Consumers : d # c => /\ pc'[d] = pc[d] /\ oldHead'[d] = oldHead[d]
                                    /\ val'[d] = val[d] /\ res'[d] = res[d]
  BY DEF ConsumerQuiet, ConsumerLoop, ConsumerEmpty, PopLoad, PopCASFail, Look, PopNext,
         RetireLoad, RetireLink, RetireCASOk, RetireCASFail, ConsumerInsert, Goto, locals,
         client, IInv, TypeOK, Threads
<1>3. \A d \in Consumers : d # c => Phase(d)' = Phase(d) /\ Holding(d)' = Holding(d)
  BY <1>1, <1>2, HoldingFrame DEF Phase
<1>4. Stack' = Stack
  BY <1>1 DEF Stack
<1>5. Phases' = [Phases EXCEPT ![c] = Phase(c)'] /\ Answers' = [Answers EXCEPT ![c] = Holding(c)']
  BY <1>3 DEF Phases, Answers
<1> QED BY <1>1, <1>3, <1>4, <1>5

(* consumer() calls pop(), tests again, or leaves: Call or nothing.        *)
LEMMA LoopRefines ==
  ASSUME JInv, NEW c \in Consumers, ConsumerLoop(c) \/ ConsumerEmpty(c)
  PROVE  Abstract!Call(c) \/ UNCHANGED Abstract!vars
<1>1. /\ Stack' = Stack /\ pushed' = pushed
      /\ \A d \in Consumers : d # c => Phase(d)' = Phase(d) /\ Holding(d)' = Holding(d)
      /\ Phases' = [Phases EXCEPT ![c] = Phase(c)']
  BY OneConsumer DEF ConsumerQuiet
<1>2. Holding(c)' = Holding(c) /\ got' = got
  BY ConsumerOwnState DEF ConsumerQuiet, ConsumerLoop, ConsumerEmpty, client
<1>3. pc[c] \in {"loop", "empty"} /\ pc'[c] \in {"empty", "exit", "pop"}
  BY DEF JInv, IInv, TypeOK, Threads, ConsumerLoop, ConsumerEmpty, Goto
<1>4. Phase(c) = "idle" /\ Phase(c)' \in {"idle", "called"}
  BY <1>3 DEF Phase
<1>5. CASE Phase(c)' = "idle"
  BY <1>1, <1>2, <1>4, <1>5, Invisible
<1>6. CASE Phase(c)' = "called"
  <2>1. Answers' = Answers
    BY <1>1, <1>2 DEF Answers
  <2>2. Phases[c] = "idle" /\ Phases' = [Phases EXCEPT ![c] = "called"]
    BY <1>1, <1>4, <1>6 DEF Phases
  <2> QED BY <1>1, <1>2, <2>1, <2>2 DEF Abstract!Call, Stack, Phases, Phase, Answers
<1> QED BY <1>4, <1>5, <1>6

(* pop() loads head: the empty answer is decided here, if it is decided.   *)
LEMMA LookRefines ==
  ASSUME JInv, NEW c \in Consumers, PopLoad(c) \/ PopCASFail(c)
  PROVE  Abstract!PopEmpty(c) \/ UNCHANGED Abstract!vars
<1>1. /\ Stack' = Stack /\ pushed' = pushed
      /\ \A d \in Consumers : d # c => Phase(d)' = Phase(d) /\ Holding(d)' = Holding(d)
      /\ Phases' = [Phases EXCEPT ![c] = Phase(c)']
  BY OneConsumer DEF ConsumerQuiet
<1>2. Holding(c)' = Holding(c) /\ got' = got
  BY ConsumerOwnState DEF ConsumerQuiet, PopLoad, PopCASFail, Look, client
<1>3. /\ pc[c] \in {"pop", "cas"}
      /\ pc'[c] = IF head = NULL THEN "insert" ELSE "next"
  BY DEF JInv, IInv, TypeOK, Threads, PopLoad, PopCASFail, Look, Goto
<1>4. Phase(c) = "called" /\ Holding(c) = {}
  BY <1>3 DEF Phase, Holding
<1>5. CASE head # NULL
  <2>1. Phase(c)' = "called"
    BY <1>3, <1>5 DEF Phase
  <2> QED BY <1>1, <1>2, <1>4, <2>1, Invisible
<1>6. CASE head = NULL
  <2>1. stk = <<>>
    BY <1>3, <1>6, ConsumerRuns, ChainEmpty DEF JInv, IInv, TypeOK
  <2>2. Stack = <<>>
    BY <2>1 DEF Stack
  <2>3. Phase(c)' = "served"
    BY <1>3, <1>6 DEF Phase
  <2>4. Answers' = Answers /\ Answers[c] = {}
    BY <1>1, <1>2, <1>4 DEF Answers
  <2>5. Answers' = [Answers EXCEPT ![c] = {}]
    BY <2>4 DEF Answers
  <2>6. Phases[c] = "called" /\ Phases' = [Phases EXCEPT ![c] = "served"]
    BY <1>1, <1>4, <2>3 DEF Phases
  <2> QED BY <1>1, <1>2, <2>2, <2>5, <2>6
          DEF Abstract!PopEmpty, Stack, Phases, Phase, Answers
<1> QED BY <1>5, <1>6

(* The steps between, which the caller cannot see.                         *)
LEMMA InnerRefines ==
  ASSUME JInv, NEW c \in Consumers,
         \/ PopNext(c) \/ RetireLoad(c) \/ RetireLink(c)
         \/ RetireCASOk(c) \/ RetireCASFail(c)
  PROVE  UNCHANGED Abstract!vars
<1>1. /\ Stack' = Stack /\ pushed' = pushed
      /\ \A d \in Consumers : d # c => Phase(d)' = Phase(d) /\ Holding(d)' = Holding(d)
  BY OneConsumer DEF ConsumerQuiet
<1>2. Holding(c)' = Holding(c) /\ got' = got
  BY ConsumerOwnState
     DEF ConsumerQuiet, PopNext, RetireLoad, RetireLink, RetireCASOk, RetireCASFail, client
<1>3. \/ pc[c] = "next" /\ pc'[c] = "cas"
      \/ pc[c] \in {"retire", "link", "tcas"} /\ pc'[c] \in {"link", "tcas", "insert"}
  BY DEF JInv, IInv, TypeOK, Threads, PopNext, RetireLoad, RetireLink, RetireCASOk,
         RetireCASFail, Goto
<1>4. Phase(c)' = Phase(c)
  BY <1>3 DEF Phase
<1> QED BY <1>1, <1>2, <1>4, Invisible

(* consumer() stores the answer: pop() has returned.                       *)
LEMMA InsertRefines ==
  ASSUME JInv, NEW c \in Consumers, ConsumerInsert(c) PROVE Abstract!Return(c)
<1>1. /\ Stack' = Stack /\ pushed' = pushed
      /\ Phases' = [Phases EXCEPT ![c] = Phase(c)']
      /\ Answers' = [Answers EXCEPT ![c] = Holding(c)']
  BY OneConsumer
<1>2. /\ pc[c] = "insert" /\ pc'[c] = "loop"
      /\ got' = [got EXCEPT ![c] = @ \cup res[c]]
  BY DEF JInv, IInv, TypeOK, Threads, ConsumerInsert, Goto
<1>3. /\ Phase(c) = "served" /\ Phase(c)' = "idle"
      /\ Holding(c) = res[c] /\ Holding(c)' = {}
  BY <1>2 DEF Phase, Holding
<1>4. Phases[c] = "served" /\ Answers[c] = res[c]
  BY <1>3 DEF Phases, Answers
<1> QED BY <1>1, <1>2, <1>3, <1>4 DEF Abstract!Return, Stack, Phases, Phase, Answers

(* A compare-exchange of pop() that succeeds takes the top of the stack.   *)
LEMMA PopRefines ==
  ASSUME JInv, NEW c \in Consumers, PopCASOk(c) PROVE Abstract!PopTop(c)
<1> USE DEF JInv
<1>1. /\ pc[c] = "cas" /\ pc' = [pc EXCEPT ![c] = "retire"] /\ head = oldHead[c]
      /\ stk' = Tail(stk)
      /\ UNCHANGED <<value, locals, client, main>>
  BY DEF PopCASOk, Goto
<1>2. c \in Threads /\ Chain(next, head, stk) /\ stk \in Seq(Node)
  BY <1>1, ConsumerRuns DEF IInv, TypeOK
<1>3. stk # <<>> /\ oldHead[c] = stk[1] /\ stk[1] \in Node
  <2>1. head # NULL
    BY <1>1, NullAssumption DEF IInv, Ownership, Peeks, TypeOK
  <2> QED BY <1>1, <1>2, <2>1, ChainPop
<1>4. Stack # <<>> /\ Head(Stack) = value[stk[1]] /\ Stack' = Tail(Stack)
  BY <1>1, <1>2, <1>3, StackValues DEF Stack
<1>5. \A d \in Consumers : pc'[d] = IF d = c THEN "retire" ELSE pc[d]
  BY <1>1, <1>2 DEF IInv, TypeOK, Threads
<1>6. /\ Phase(c) = "called" /\ Phase(c)' = "served" /\ Holding(c)' = {value[stk[1]]}
      /\ \A d \in Consumers : d # c => Phase(d)' = Phase(d) /\ Holding(d)' = Holding(d)
  <2>1. Phase(c) = "called" /\ Phase(c)' = "served"
    BY <1>1, <1>5 DEF Phase
  <2>2. Holding(c)' = {value[stk[1]]}
    BY <1>1, <1>3, <1>5 DEF Holding, locals
  <2>3. \A d \in Consumers : d # c => Phase(d)' = Phase(d) /\ Holding(d)' = Holding(d)
    BY <1>1, <1>5, HoldingFrame DEF Phase, locals, client
  <2> QED BY <2>1, <2>2, <2>3
<1>7. /\ Phases[c] = "called" /\ Phases' = [Phases EXCEPT ![c] = "served"]
      /\ Answers' = [Answers EXCEPT ![c] = {Head(Stack)}]
  BY <1>4, <1>6 DEF Phases, Answers
<1> QED BY <1>1, <1>4, <1>7 DEF Abstract!PopTop, Stack, Phases, Phase, Answers, client

(* A compare-exchange of push() that succeeds puts the value on top.       *)
LEMMA PushRefines ==
  ASSUME JInv, NEW p \in Producers, PushCASOk(p) PROVE Abstract!Push(p)
<1> USE DEF JInv
<1>1. /\ pc[p] = "push" /\ pc' = [pc EXCEPT ![p] = "loop"]
      /\ pushed' = [pushed EXCEPT ![p] = @ + 1] /\ stk' = <<newHead[p]>> \o stk
      /\ UNCHANGED <<value, locals, res, got>>
      /\ p \in Threads /\ p \notin Consumers
  BY ThreadsAssumption DEF PushCASOk, Goto, Threads
<1>2. /\ newHead[p] \in Node /\ value[newHead[p]] = <<p, pushed[p]>>
      /\ pushed[p] < StressN /\ stk \in Seq(Node)
  BY <1>1 DEF IInv, TypeOK, Ownership, Control, Values, Pushing
<1>3. Stack' = << <<p, pushed[p]>> >> \o Stack
  <2> DEFINE n == newHead[p]
  <2>1. [i \in 1 .. Len(<<n>> \o stk) |-> value[(<<n>> \o stk)[i]]] = <<value[n]>> \o Stack
    <3> HIDE DEF n
    <3> QED BY <1>2, StackValues, ZenonT(30) DEF Stack, n
  <2>2. Stack' = [i \in 1 .. Len(<<n>> \o stk) |-> value[(<<n>> \o stk)[i]]]
    BY <1>1 DEF Stack
  <2> QED BY <1>2, <2>1, <2>2
<1>4. \A c \in Consumers : pc'[c] = pc[c]
  BY <1>1 DEF IInv, TypeOK, Threads
<1>5. Phases' = Phases /\ Answers' = Answers
  <2>1. \A c \in Consumers : Phase(c)' = Phase(c) /\ Holding(c)' = Holding(c)
    BY <1>1, <1>4, HoldingFrame DEF Phase, locals
  <2> QED BY <2>1 DEF Phases, Answers
<1> QED BY <1>1, <1>2, <1>3, <1>5 DEF Abstract!Push, Stack, Phases, Phase, Answers

(* The other steps of push(), and those of main(), are not seen.           *)
LEMMA OthersRefine ==
  ASSUME JInv,
         \/ MainStep
         \/ \E p \in Producers : PushLoad(p) \/ PushCASFail(p) \/ ProducerExit(p)
         \/ UNCHANGED vars
  PROVE  UNCHANGED Abstract!vars
<1> USE DEF JInv
<1>1. CASE MainStep
  <2>1. UNCHANGED <<value, pc, locals, client>>
    BY <1>1 DEF MainStep, MainJoin, MainVerify, DtorDelete, DtorTrash, DtorEnd
  <2>2. stk' = stk
    <3>1. CASE DtorDelete
      <4>1. mpc = "dtor_head" => Chain(next, cur, stk) /\ stk = <<>>
        BY DEF IInv, ChainOK, Drained
      <4>2. mpc # "dtor_head"
        BY <3>1, <4>1 DEF DtorDelete, Chain
      <4> QED BY <3>1, <4>2 DEF DtorDelete
    <3>2. CASE ~ DtorDelete
      BY <1>1, <3>2 DEF MainStep, MainJoin, MainVerify, DtorTrash, DtorEnd, hist
    <3> QED BY <3>1, <3>2
  <2>3. \A c \in Consumers : Phase(c)' = Phase(c) /\ Holding(c)' = Holding(c)
    BY <2>1, HoldingFrame DEF Phase, locals, client
  <2> QED BY <2>1, <2>2, <2>3, Invisible DEF Stack, client
<1>2. ASSUME NEW p \in Producers, PushLoad(p) \/ PushCASFail(p) \/ ProducerExit(p)
      PROVE  UNCHANGED Abstract!vars
  <2>1. /\ p \in Threads /\ p \notin Consumers
        /\ stk' = stk /\ UNCHANGED client /\ val' = val
    BY <1>2, ThreadsAssumption
       DEF Threads, PushLoad, PushCASFail, ProducerExit, locals, hist
  <2>2. \A n \in heap : value'[n] = value[n]
    BY <1>2 DEF PushLoad, PushCASFail, ProducerExit, IInv, TypeOK
  <2>3. \A c \in Consumers : pc'[c] = pc[c] /\ oldHead'[c] = oldHead[c]
    BY <1>2, <2>1 DEF PushLoad, PushCASFail, ProducerExit, Goto, locals, IInv, TypeOK, Threads
  <2>4. \A c \in Consumers : Owns(c) => oldHead[c] \in heap
    BY DEF IInv, Ownership
  <2>5. \A c \in Consumers : Phase(c)' = Phase(c) /\ Holding(c)' = Holding(c)
    BY <2>1, <2>2, <2>3, <2>4, HoldingFrame DEF Phase, client
  <2>6. \A i \in 1 .. Len(stk) : stk[i] \in heap
    BY DEF IInv, Ownership, Nodes
  <2>7. Stack' = Stack
    BY <2>1, <2>2, <2>6 DEF Stack
  <2> QED BY <2>1, <2>5, <2>7, Invisible DEF client
<1>3. CASE UNCHANGED vars
  <2>1. \A c \in Consumers : Phase(c)' = Phase(c) /\ Holding(c)' = Holding(c)
    BY <1>3, HoldingFrame DEF Phase, vars, locals, client
  <2> QED BY <1>3, <2>1, Invisible DEF Stack, vars, client, hist
<1> QED BY <1>1, <1>2, <1>3

(* The stack implements the abstract stack: push() and pop() take effect   *)
(* at one instant each, in last-in first-out order, and nullopt is         *)
(* answered only if the stack was empty during the call, for any number of *)
(* threads, nodes and pushes.                                              *)
THEOREM ImplementsStack == Spec => Linearizable
<1>1. JInv /\ [Next]_vars => [Abstract!Next]_(Abstract!vars)
  <2> SUFFICES ASSUME JInv, [Next]_vars PROVE Abstract!Next \/ UNCHANGED Abstract!vars
    OBVIOUS
  <2>1. ASSUME NEW p \in Producers, ProducerStep(p)
        PROVE  Abstract!Next \/ UNCHANGED Abstract!vars
    BY <2>1, PushRefines, OthersRefine DEF ProducerStep, Abstract!Next
  <2>2. ASSUME NEW c \in Consumers, ConsumerStep(c)
        PROVE  Abstract!Next \/ UNCHANGED Abstract!vars
    <3>1. CASE ConsumerLoop(c) \/ ConsumerEmpty(c)
      BY <3>1, LoopRefines DEF Abstract!Next
    <3>2. CASE PopLoad(c) \/ PopCASFail(c)
      BY <3>2, LookRefines DEF Abstract!Next
    <3>3. CASE PopCASOk(c)
      BY <3>3, PopRefines DEF Abstract!Next
    <3>4. CASE ConsumerInsert(c)
      BY <3>4, InsertRefines DEF Abstract!Next
    <3> QED BY <2>2, <3>1, <3>2, <3>3, <3>4, InnerRefines DEF ConsumerStep
  <2> QED BY <2>1, <2>2, OthersRefine DEF Next, Terminated
<1> QED BY <1>1, InitRefines, InitJInv, NextJInv, PTL DEF Spec, Linearizable, Abstract!Spec
=============================================================================
