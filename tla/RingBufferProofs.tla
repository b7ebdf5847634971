-------------------------- MODULE RingBufferProofs --------------------------
(***************************************************************************)
(* Proofs about RingBuffer, for every capacity and every set of elements:  *)
(* its cursors agree, every element has one owner, and the buffer is a     *)
(* bounded first-in first-out queue.                                       *)
(***************************************************************************)
EXTENDS RingBuffer, SequenceTheorems, TLAPS

\* A buffer exists exactly while its capacity is positive.
Alive ==
  /\ phase \in {"none", "panicked"} =>
       cap = 0 /\ head = 0 /\ tail = 0 /\ len = 0
  /\ phase \notin {"none", "panicked"} => cap > 0
  /\ phase \in {"none", "live", "panicked"} => i = 0

IInv == TypeOK /\ Alive /\ CursorsOK /\ SingleOwner

(* Different elements have different slots, all of them in the array.      *)
LEMMA SlotProperties ==
  ASSUME IInv, phase \notin {"none", "panicked"}
  PROVE  /\ \A k \in 0 .. cap - 1 :
              Slot(k) = IF tail + k < cap THEN tail + k ELSE tail + k - cap
         /\ \A k \in 0 .. cap - 1 : Slot(k) \in 0 .. cap - 1
         /\ \A k, m \in 0 .. cap - 1 : Slot(k) = Slot(m) => k = m
         /\ len < cap => head = Slot(len)
<1>1. cap \in Nat \ {0} /\ tail \in 0 .. cap - 1 /\ len \in 0 .. cap
  BY DEF IInv, TypeOK, Alive, CursorsOK
<1>2. \A k \in 0 .. cap - 1 : tail + k \in 0 .. 2 * cap - 1
  BY <1>1
<1>3. \A k \in 0 .. cap - 1 :
        Slot(k) = IF tail + k < cap THEN tail + k ELSE tail + k - cap
  BY <1>1, <1>2 DEF Slot
<1>4. \A k \in 0 .. cap - 1 : Slot(k) \in 0 .. cap - 1
  BY <1>1, <1>3
<1>5. \A k, m \in 0 .. cap - 1 : Slot(k) = Slot(m) => k = m
  BY <1>1, <1>3
<1>6. len < cap => head = Slot(len)
  BY DEF IInv, CursorsOK, Slot
<1> QED BY <1>3, <1>4, <1>5, <1>6

(* push writes the slot after the newest element and moves head on.        *)
LEMMA PushEffect ==
  ASSUME IInv, NEW val \in Item, Push(val)
  PROVE  /\ len < cap /\ len' = len + 1 /\ cap' = cap /\ tail' = tail
         /\ head \in 0 .. cap - 1
         /\ head' < cap /\ head' \in Nat /\ head' = (tail + len') % cap
         /\ \A k \in 0 .. len - 1 : buf'[Slot(k)] = buf[Slot(k)]
         /\ buf'[Slot(len)] = val
<1>1. /\ phase = "live" /\ len # cap
      /\ buf' = [buf EXCEPT ![head] = val] /\ head' = (head + 1) % cap
      /\ len' = len + 1 /\ cap' = cap /\ tail' = tail
  BY DEF Push, is_full
<1>2. /\ cap \in Nat \ {0} /\ len \in 0 .. cap - 1 /\ tail \in 0 .. cap - 1
      /\ head \in 0 .. cap - 1 /\ buf \in [0 .. cap - 1 -> Item \cup {Uninit}]
  BY <1>1 DEF IInv, TypeOK, Alive, CursorsOK
<1>3. head = IF tail + len < cap THEN tail + len ELSE tail + len - cap
  BY <1>1, <1>2, SlotProperties
<1>4. head' = IF head + 1 < cap THEN head + 1 ELSE head + 1 - cap
  BY <1>1, <1>2
<1>5. (tail + len') % cap =
        IF tail + len + 1 < cap THEN tail + len + 1 ELSE tail + len + 1 - cap
  <2>1. tail + (len + 1) \in 0 .. 2 * cap - 1
    BY <1>2
  <2> QED BY <1>1, <1>2, <2>1
<1>6. head' < cap /\ head' \in Nat /\ head' = (tail + len') % cap
  BY <1>2, <1>3, <1>4, <1>5
<1>7. \A k \in 0 .. len - 1 : Slot(k) \in 0 .. cap - 1 /\ Slot(k) # head
  <2>1. \A k \in 0 .. len - 1 : k \in 0 .. cap - 1 /\ len \in 0 .. cap - 1 /\ k # len
    BY <1>2
  <2> QED BY <1>1, <1>2, <2>1, SlotProperties
<1>8. Slot(len) = head
  BY <1>1, <1>2, SlotProperties
<1> QED BY <1>1, <1>2, <1>6, <1>7, <1>8

(* pop takes the oldest element and moves tail on: the other elements keep *)
(* their slots and are one place closer to the front.                      *)
LEMMA PopEffect ==
  ASSUME IInv, Pop
  PROVE  /\ len > 0 /\ len' = len - 1 /\ cap' = cap /\ head' = head /\ buf' = buf
         /\ tail' < cap /\ tail' \in Nat /\ head' = (tail' + len') % cap
         /\ Slot(0) = tail
         /\ \A k \in 0 .. len - 2 : (tail' + k) % cap = Slot(k + 1)
<1>1. /\ phase = "live" /\ len # 0 /\ tail' = (tail + 1) % cap
      /\ len' = len - 1 /\ cap' = cap /\ head' = head /\ buf' = buf
  BY DEF Pop, is_empty
<1>2. /\ cap \in Nat \ {0} /\ len \in 1 .. cap /\ tail \in 0 .. cap - 1
      /\ head = (tail + len) % cap
  BY <1>1 DEF IInv, TypeOK, Alive, CursorsOK
<1>3. Slot(0) = tail
  BY <1>2 DEF Slot
<1>4. len > 0
  BY <1>2
<1>5. CASE tail + 1 < cap
  <2>1. tail' = tail + 1
    BY <1>1, <1>2, <1>5
  <2>2. tail' + len' = tail + len
    BY <1>1, <1>2, <2>1
  <2>3. \A k \in 0 .. len - 2 : tail' + k = tail + (k + 1)
    BY <1>2, <2>1
  <2>4. tail' < cap /\ tail' \in Nat
    BY <1>2, <1>5, <2>1
  <2> QED BY <1>1, <1>2, <2>2, <2>3, <2>4, <1>3, <1>4, Zenon DEF Slot
<1>6. CASE tail + 1 = cap
  <2>1. tail' = 0
    BY <1>1, <1>2, <1>6
  <2>2. head = len - 1
    BY <1>2, <1>6
  <2>3. (tail' + len') % cap = len - 1
    BY <1>1, <1>2, <2>1
  <2>4. ASSUME NEW k \in 0 .. len - 2 PROVE (tail' + k) % cap = Slot(k + 1)
    <3>1. (tail' + k) % cap = k
      BY <1>2, <2>1
    <3>2. (tail + (k + 1)) % cap = k
      BY <1>2, <1>6
    <3> QED BY <3>1, <3>2 DEF Slot
  <2> QED BY <1>1, <1>2, <1>3, <1>4, <2>1, <2>2, <2>3, <2>4
<1> QED BY <1>2, <1>5, <1>6

-----------------------------------------------------------------------------
(* The initial state satisfies the inductive invariant.                    *)
LEMMA InitIInv == Init => IInv
<1> SUFFICES ASSUME Init PROVE IInv
  OBVIOUS
<1>1. TypeOK
  BY DEF Init, TypeOK, NoSlots
<1>2. Alive /\ CursorsOK /\ SingleOwner
  BY DEF Init, Alive, CursorsOK, SingleOwner
<1> QED BY <1>1, <1>2 DEF IInv

(* Accepting an element preserves the inductive invariant.                 *)
LEMMA PushStep == ASSUME IInv, NEW val \in Item, Push(val) PROVE IInv'
<1> USE DEF IInv
<1>1. /\ phase = "live" /\ val \in outside /\ phase' = phase
      /\ buf' = [buf EXCEPT ![head] = val] /\ len' = len + 1 /\ cap' = cap
      /\ outside' = outside \ {val} /\ ret' = <<"ok">>
      /\ tail' = tail /\ i' = i /\ destroyed' = destroyed
  BY DEF Push
<1>2. /\ len < cap /\ head \in 0 .. cap - 1
      /\ head' < cap /\ head' \in Nat /\ head' = (tail + len') % cap
      /\ \A k \in 0 .. len - 1 : buf'[Slot(k)] = buf[Slot(k)]
      /\ buf'[Slot(len)] = val
  BY PushEffect
<1>3. TypeOK'
  BY <1>1, <1>2 DEF TypeOK
<1>4. Alive'
  BY <1>1 DEF Alive
<1>5. CursorsOK'
  BY <1>1, <1>2 DEF CursorsOK
<1>6. SingleOwner'
  <2>1. i = 0 /\ len \in Nat /\ val \notin destroyed
    BY <1>1 DEF Alive, TypeOK, SingleOwner
  <2>2. \A k \in 0 .. len - 1 : /\ buf[Slot(k)] \in Item \ (outside \cup destroyed)
                                /\ \A m \in 0 .. len - 1 :
                                     buf[Slot(k)] = buf[Slot(m)] => k = m
    BY <2>1 DEF SingleOwner
  <2>3. \A k \in 0 .. len : Slot(k)' = Slot(k)
    BY <1>1 DEF Slot
  <2>4. \A k \in 0 .. len : k \in 0 .. len - 1 \/ k = len
    BY <2>1
  <2>5. outside' \cap destroyed' = {}
    BY <1>1 DEF SingleOwner
  <2>6. ASSUME NEW k \in 0 .. len
        PROVE  /\ buf'[Slot(k)] \in Item \ (outside' \cup destroyed')
               /\ \A m \in 0 .. len : buf'[Slot(k)] = buf'[Slot(m)] => k = m
    BY <1>1, <1>2, <2>1, <2>2, <2>4
  <2>7. i' = 0 /\ len' - 1 = len
    BY <1>1, <2>1
  <2> QED BY <2>3, <2>5, <2>6, <2>7 DEF SingleOwner
<1> QED BY <1>3, <1>4, <1>5, <1>6

(* Removing the oldest element preserves the inductive invariant.          *)
LEMMA PopStep == ASSUME IInv, Pop PROVE IInv'
<1> USE DEF IInv
<1>1. /\ phase = "live" /\ phase' = phase /\ ret' = <<"some", buf[tail]>>
      /\ outside' = outside \cup {buf[tail]}
      /\ i' = i /\ destroyed' = destroyed
  BY DEF Pop
<1>2. /\ len > 0 /\ len' = len - 1 /\ cap' = cap /\ head' = head /\ buf' = buf
      /\ tail' < cap /\ tail' \in Nat /\ head' = (tail' + len') % cap
      /\ Slot(0) = tail
      /\ \A k \in 0 .. len - 2 : (tail' + k) % cap = Slot(k + 1)
  BY PopEffect
<1>3. i = 0 /\ len \in Nat /\ i' = 0 /\ len' - 1 = len - 2
  BY <1>1, <1>2 DEF Alive, TypeOK
<1>4. \A k \in 0 .. len - 1 : /\ buf[Slot(k)] \in Item \ (outside \cup destroyed)
                              /\ \A m \in 0 .. len - 1 :
                                   buf[Slot(k)] = buf[Slot(m)] => k = m
  BY <1>3 DEF SingleOwner
<1>5. 0 \in 0 .. len - 1 /\ \A k \in 0 .. len - 2 : k + 1 \in 0 .. len - 1 /\ k + 1 # 0
  BY <1>2, <1>3
<1>6. buf[tail] \in Item \ destroyed
  BY <1>2, <1>4, <1>5
<1>7. TypeOK'
  <2>1. ret' \in {"err", "some"} \X Item
    BY <1>1, <1>6
  <2>2. outside' \subseteq Item /\ len' \in 0 .. cap' /\ i' \in 0 .. len'
    BY <1>1, <1>2, <1>3, <1>6 DEF TypeOK
  <2> QED BY <1>1, <1>2, <2>1, <2>2 DEF TypeOK
<1>8. Alive' /\ CursorsOK'
  BY <1>1, <1>2 DEF Alive, CursorsOK
<1>9. SingleOwner'
  <2>1. outside' \cap destroyed' = {}
    BY <1>1, <1>6 DEF SingleOwner
  <2>2. \A k \in 0 .. len - 2 : Slot(k)' = Slot(k + 1)
    BY <1>2 DEF Slot
  <2>3. ASSUME NEW k \in 0 .. len - 2
        PROVE  /\ buf[Slot(k + 1)] \in Item \ (outside' \cup destroyed')
               /\ \A m \in 0 .. len - 2 :
                    buf[Slot(k + 1)] = buf[Slot(m + 1)] => k = m
    BY <1>1, <1>2, <1>3, <1>4, <1>5
  <2> QED BY <1>2, <1>3, <2>1, <2>2, <2>3 DEF SingleOwner
<1> QED BY <1>7, <1>8, <1>9

(* Every step preserves the inductive invariant.                           *)
LEMMA NextIInv == IInv /\ [Next]_vars => IInv'
<1> SUFFICES ASSUME IInv, [Next]_vars PROVE IInv'
  OBVIOUS
<1> USE DEF IInv
<1>1. CASE NewPanics
  BY <1>1 DEF NewPanics, TypeOK, Alive, CursorsOK, SingleOwner, Slot, fields
<1>2. ASSUME NEW capacity \in Capacities, New(capacity) PROVE IInv'
  <2>1. /\ phase = "none" /\ phase' = "live" /\ capacity # 0 /\ capacity \in Nat
        /\ buf' = [k \in 0 .. capacity - 1 |-> Uninit] /\ cap' = capacity
        /\ UNCHANGED <<head, tail, len, i, outside, destroyed, ret>>
    BY <1>2, CapacityAssumption DEF New
  <2>2. head = 0 /\ tail = 0 /\ len = 0 /\ i = 0
    BY <2>1 DEF Alive
  <2>3. 0 % capacity = 0
    BY <2>1
  <2>4. TypeOK' /\ Alive' /\ CursorsOK'
    BY <2>1, <2>2, <2>3 DEF TypeOK, Alive, CursorsOK
  <2>5. SingleOwner'
    BY <2>1, <2>2 DEF SingleOwner
  <2> QED BY <2>4, <2>5
<1>3. ASSUME NEW val \in Item, PushFull(val) PROVE IInv'
  BY <1>3 DEF PushFull, TypeOK, Alive, CursorsOK, SingleOwner, Slot, fields
<1>4. CASE PopEmpty
  BY <1>4 DEF PopEmpty, TypeOK, Alive, CursorsOK, SingleOwner, Slot, fields
<1>5. CASE DropBegin \/ DropDealloc
  BY <1>5 DEF DropBegin, DropDealloc, TypeOK, Alive, CursorsOK, SingleOwner,
     Slot, fields
<1>6. CASE DropElement
  <2>1. /\ phase = "dropping" /\ i < len /\ i' = i + 1 /\ destroyed' = destroyed
        /\ UNCHANGED <<phase, fields, outside, ret>>
    BY <1>6 DEF DropElement, drop_in_place
  <2>2. TypeOK' /\ Alive' /\ CursorsOK'
    BY <2>1 DEF TypeOK, Alive, CursorsOK, fields
  <2>3. \A k \in i + 1 .. len - 1 : k \in i .. len - 1
    BY <2>1 DEF TypeOK
  <2>4. SingleOwner'
    BY <2>1, <2>3 DEF SingleOwner, Slot, fields
  <2> QED BY <2>2, <2>4
<1>7. CASE UNCHANGED vars
  BY <1>7 DEF vars, fields, TypeOK, Alive, CursorsOK, SingleOwner, Slot
<1> QED BY <1>1, <1>2, <1>3, <1>4, <1>5, <1>6, <1>7, PushStep, PopStep DEF Next, Over

(* Type correctness of the buffer for every capacity.                      *)
THEOREM TypeCorrect == Spec => []TypeOK
<1>1. IInv => TypeOK
  BY DEF IInv
<1> QED BY <1>1, InitIInv, NextIInv, PTL DEF Spec

(* The cursors agree and every element has exactly one owner, whatever the *)
(* capacity and the order of the calls.                                    *)
THEOREM OwnershipSafe == Spec => []OwnershipOK
<1>1. IInv => OwnershipOK
  BY DEF IInv, OwnershipOK
<1> QED BY <1>1, InitIInv, NextIInv, PTL DEF Spec

-----------------------------------------------------------------------------
(* Refinement.                                                             *)

\* The elements of the buffer, oldest first: the abstract queue.
Elements == [k \in 1 .. len |-> buf[Slot(k - 1)]]

(* The elements are a sequence of len items.                               *)
LEMMA ElementsSeq ==
  ASSUME IInv, phase = "live"
  PROVE  /\ Elements \in Seq(Item) /\ Len(Elements) = len /\ len \in Nat
         /\ len \in 0 .. cap
         /\ \A k \in 1 .. len : Elements[k] = buf[Slot(k - 1)]
<1>1. len \in Nat /\ i = 0 /\ len \in 0 .. cap
  BY DEF IInv, TypeOK, Alive
<1>2. \A k \in 1 .. len : k - 1 \in 0 .. len - 1
  BY <1>1
<1>3. \A k \in 1 .. len : buf[Slot(k - 1)] \in Item
  BY <1>1, <1>2 DEF IInv, SingleOwner
<1>4. Elements \in Seq(Item)
  BY <1>1, <1>3, IsASeq DEF Elements
<1>5. Len(Elements) = len
  BY <1>1, <1>4, LenProperties DEF Elements
<1> QED BY <1>1, <1>4, <1>5 DEF Elements

(* push appends to the elements.                                           *)
LEMMA PushElements ==
  ASSUME IInv, NEW val \in Item, Push(val)
  PROVE  Elements' = Append(Elements, val)
<1>1. /\ phase = "live" /\ phase' = "live" /\ tail' = tail /\ cap' = cap
  BY DEF Push
<1>2. /\ len' = len + 1
      /\ \A k \in 0 .. len - 1 : buf'[Slot(k)] = buf[Slot(k)]
      /\ buf'[Slot(len)] = val
  BY PushEffect
<1>3. /\ Elements \in Seq(Item) /\ Len(Elements) = len /\ len \in Nat
      /\ \A k \in 1 .. len : Elements[k] = buf[Slot(k - 1)]
  BY <1>1, ElementsSeq
<1>4. \A k \in 1 .. len + 1 : k = len + 1 \/ (k \in 1 .. len /\ k - 1 \in 0 .. len - 1)
  BY <1>3
<1> DEFINE grown == [k \in 1 .. len + 1 |-> IF k = len + 1 THEN val ELSE Elements[k]]
<1>5. Elements' = grown
  <2>1. Elements' = [k \in 1 .. len + 1 |-> buf'[Slot(k - 1)]]
    BY <1>1, <1>2 DEF Elements, Slot
  <2>2. \A k \in 1 .. len + 1 : buf'[Slot(k - 1)] = IF k = len + 1 THEN val ELSE Elements[k]
    <3>1. len + 1 - 1 = len
      BY <1>3
    <3> QED BY <1>2, <1>3, <1>4, <3>1
  <2> QED BY <2>1, <2>2
<1>6. grown \in Seq(Item) /\ Len(grown) = len + 1
  <2>1. \A k \in 1 .. len : Elements[k] \in Item
    BY <1>3, ElementOfSeq
  <2>2. \A k \in 1 .. len + 1 : (IF k = len + 1 THEN val ELSE Elements[k]) \in Item
    BY <1>4, <2>1
  <2> HIDE DEF grown
  <2>3. grown \in [1 .. len + 1 -> Item]
    BY <2>2 DEF grown
  <2> QED BY <1>3, <2>3
<1>7. /\ Append(Elements, val) \in Seq(Item) /\ Len(Append(Elements, val)) = len + 1
      /\ \A k \in 1 .. len : Append(Elements, val)[k] = Elements[k]
      /\ Append(Elements, val)[len + 1] = val
  BY <1>3, AppendProperties
<1>8. \A k \in 1 .. len + 1 : grown[k] = Append(Elements, val)[k]
  BY <1>4, <1>7
<1> HIDE DEF grown
<1>9. grown = Append(Elements, val)
  BY <1>6, <1>7, <1>8, SeqEqual
<1> QED BY <1>5, <1>9

(* pop leaves the tail of the elements and returns their head.             *)
LEMMA PopElements ==
  ASSUME IInv, Pop
  PROVE  Elements # <<>> /\ Elements' = Tail(Elements) /\ buf[tail] = Head(Elements)
<1>1. phase = "live"
  BY DEF Pop
<1>2. /\ len > 0 /\ len' = len - 1 /\ cap' = cap /\ buf' = buf
      /\ Slot(0) = tail
      /\ \A k \in 0 .. len - 2 : (tail' + k) % cap = Slot(k + 1)
  BY PopEffect
<1>3. /\ Elements \in Seq(Item) /\ Len(Elements) = len /\ len \in Nat
      /\ \A k \in 1 .. len : Elements[k] = buf[Slot(k - 1)]
  BY <1>1, ElementsSeq
<1>4. Elements # <<>> /\ Elements[1] = buf[tail]
  BY <1>2, <1>3
<1> DEFINE rest == [k \in 1 .. len - 1 |-> Elements[k + 1]]
<1>5. Elements' = rest
  <2>1. Elements' = [k \in 1 .. len - 1 |-> buf[(tail' + (k - 1)) % cap]]
    BY <1>2 DEF Elements, Slot
  <2>2. ASSUME NEW k \in 1 .. len - 1
        PROVE  buf[(tail' + (k - 1)) % cap] = Elements[k + 1]
    <3>1. k - 1 \in 0 .. len - 2 /\ k - 1 + 1 = k /\ k + 1 \in 1 .. len /\ k + 1 - 1 = k
      BY <1>3
    <3> QED BY <1>2, <1>3, <3>1
  <2> QED BY <2>1, <2>2
<1>6. rest \in Seq(Item) /\ Len(rest) = len - 1
  <2>1. \A k \in 1 .. len - 1 : Elements[k + 1] \in Item
    BY <1>3, ElementOfSeq
  <2> HIDE DEF rest
  <2>2. rest \in [1 .. len - 1 -> Item] /\ len - 1 \in Nat
    BY <1>2, <1>3, <2>1 DEF rest
  <2> QED BY <2>2
<1>7. /\ Tail(Elements) \in Seq(Item) /\ Len(Tail(Elements)) = len - 1
      /\ \A k \in 1 .. len - 1 : Tail(Elements)[k] = Elements[k + 1]
  BY <1>3, <1>4, HeadTailProperties
<1>8. \A k \in 1 .. len - 1 : rest[k] = Tail(Elements)[k]
  BY <1>7
<1> HIDE DEF rest
<1>9. rest = Tail(Elements)
  BY <1>6, <1>7, <1>8, SeqEqual
<1> QED BY <1>3, <1>4, <1>5, <1>9

(* Every step of the buffer is a step of the bounded queue, or leaves it   *)
(* unchanged.                                                              *)
LEMMA NextRefines == IInv /\ [Next]_vars => [Queue!Next]_(Queue!vars)
<1> SUFFICES ASSUME IInv, [Next]_vars PROVE [Queue!Next]_(Queue!vars)
  OBVIOUS
<1>1. CASE NewPanics
  <2>1. Queue!Refuse
    BY <1>1 DEF NewPanics, Queue!Refuse, fields
  <2> QED BY <2>1 DEF Queue!Next
<1>2. ASSUME NEW capacity \in Capacities, New(capacity)
      PROVE  Queue!Next
  <2>1. len' = 0 /\ capacity > 0
    BY <1>2, CapacityAssumption DEF New, IInv, Alive
  <2>2. Elements' = <<>>
    BY <2>1 DEF Elements
  <2>3. Queue!Create(capacity)
    BY <1>2, <2>1, <2>2 DEF New, Queue!Create, Elements, Slot
  <2> QED BY <2>3 DEF Queue!Next
<1>3. ASSUME NEW val \in Item, Push(val) PROVE Queue!Next
  <2>1. Elements' = Append(Elements, val)
    BY <1>3, PushElements
  <2>2. Len(Elements) < cap
    BY <1>3, PushEffect, ElementsSeq DEF Push
  <2>3. Queue!Enqueue(val)
    BY <1>3, <2>1, <2>2 DEF Push, Queue!Enqueue, Elements
  <2> QED BY <2>3 DEF Queue!Next
<1>4. ASSUME NEW val \in Item, PushFull(val) PROVE Queue!Next
  <2>1. Len(Elements) = cap
    BY <1>4, ElementsSeq DEF PushFull, is_full
  <2>2. Elements' = Elements
    BY <1>4 DEF PushFull, Elements, Slot, fields
  <2>3. Queue!Reject(val)
    BY <1>4, <2>1, <2>2 DEF PushFull, Queue!Reject, Elements, fields
  <2> QED BY <2>3 DEF Queue!Next
<1>5. CASE Pop
  <2>1. /\ Elements # <<>> /\ Elements' = Tail(Elements)
        /\ buf[tail] = Head(Elements)
    BY <1>5, PopElements
  <2>2. Queue!Dequeue
    BY <1>5, <2>1 DEF Pop, Queue!Dequeue, Elements
  <2> QED BY <2>2 DEF Queue!Next
<1>6. CASE PopEmpty
  <2>1. Elements = <<>> /\ Elements' = Elements
    BY <1>6 DEF PopEmpty, is_empty, Elements, Slot, fields
  <2>2. Queue!Nothing
    BY <1>6, <2>1 DEF PopEmpty, Queue!Nothing, Elements, fields
  <2> QED BY <2>2 DEF Queue!Next
<1>7. CASE DropBegin \/ DropElement
  <2>1. Elements' = Elements
    BY <1>7 DEF DropBegin, DropElement, Elements, Slot, fields
  <2>2. UNCHANGED Queue!vars
    BY <1>7, <2>1 DEF DropBegin, DropElement, Queue!vars, Elements, fields
  <2> QED BY <2>2
<1>8. CASE DropDealloc
  <2>1. Queue!Destroy
    BY <1>8 DEF DropDealloc, Queue!Destroy, fields
  <2> QED BY <2>1 DEF Queue!Next
<1>9. CASE UNCHANGED vars
  <2>1. Elements' = Elements
    BY <1>9 DEF vars, fields, Elements, Slot
  <2> QED BY <1>9, <2>1 DEF vars, fields, Queue!vars, Elements
<1> QED BY <1>1, <1>2, <1>3, <1>4, <1>5, <1>6, <1>7, <1>8, <1>9 DEF Next, Over

(* The ring buffer implements the bounded first-in first-out queue for     *)
(* every capacity: oldest element first, Err(val) exactly when full, None  *)
(* exactly when empty, nothing lost or duplicated in between.              *)
THEOREM ImplementsQueue == Spec => Fifo
<1>1. Init => Queue!Init
  BY DEF Init, Queue!Init
<1>2. IInv /\ [Next]_vars => [Queue!Next]_(Queue!vars)
  BY NextRefines
<1> QED BY <1>1, <1>2, InitIInv, NextIInv, PTL DEF Spec, Fifo, Queue!Spec
=============================================================================
