--------------------------- MODULE LibraryProofs ----------------------------
(***************************************************************************)
(* Proofs about the three libraries that do without threads: the arena     *)
(* allocator, the Bloom filter and the wrapper for AES-GCM.  As long as no *)
(* computation of arena_alloc wraps around, blocks lie in the region, do   *)
(* not overlap and have their alignment; the filter has no false           *)
(* negatives; the verdict of a round trip, what it leaves in the output    *)
(* buffer and which contexts it loses are right for any bytes and any      *)
(* failing calls.                                                          *)
(***************************************************************************)
EXTENDS Arena, AesGcm, SequenceTheorems, TLAPS

\* The filter, on words of the same size.
CONSTANTS Key, hash1, hash2
VARIABLES m_, k_, bits_, n_inserted_, inserted, answer
Bloom == INSTANCE BloomFilter WITH a <- hash1, b <- hash2

-----------------------------------------------------------------------------
(* Arena.                                                                  *)

\* No request is so large that the address computed from it wraps around.
NoWrap ==
  \A b \in Bases, cap \in Capacities, bytes \in Sizes, align \in Aligns :
    b + Header + cap + align + bytes < Word

\* What arena_create stored, and that every block ends before the next one
\* can begin.
Region ==
  /\ phase = "live" =>
       base \in Bases /\ capacity \in Capacities /\ Header <= offset
  /\ phase # "live" => allocs = {}
Below ==
  \A a \in allocs : a.ptr + a.size <= base + offset

ArenaIInv == ArenaTypeOK /\ Region /\ Below /\ InArena /\ Disjoint /\ AllAligned

(* Division with remainder.                                                *)
LEMMA Remainder ==
  ASSUME NEW y \in Nat, NEW m \in Nat \ {0}
  PROVE  /\ y % m \in 0 .. m - 1 /\ y - (y % m) \in 0 .. y
         /\ (y - (y % m)) % m = 0
         /\ y < m => y % m = y
<1>1. y % m \in 0 .. m - 1 /\ y = m * (y \div m) + (y % m)
  OBVIOUS
<1>2. y \div m \in Nat /\ y % m \in Nat
  OBVIOUS
<1>3. y - (y % m) = m * (y \div m)
  BY <1>1, <1>2
<1>4. \A q \in Nat : (m * q) % m = 0
  OBVIOUS
<1>5. (y - (y % m)) % m = 0
  BY <1>2, <1>3, <1>4
<1>6. y < m => y % m = y
  OBVIOUS
<1>7. y - (y % m) \in 0 .. y
  BY <1>1, <1>2, <1>3
<1> QED BY <1>1, <1>5, <1>6, <1>7

(* The block arena_alloc computes begins at or after the bump pointer, is  *)
(* aligned, and new_offset is the distance of its end from base.           *)
LEMMA BumpProperties ==
  ASSUME NoWrap, ArenaIInv, phase = "live", NEW bytes \in Sizes, NEW align \in Aligns
  PROVE  /\ Bump(align) \in base + offset .. Word - 1
         /\ Bump(align) % align = 0
         /\ NewOffset(bytes, align) = Bump(align) - base + bytes
         /\ NewOffset(bytes, align) \in 0 .. Word - 1
<1>1. /\ base \in Nat /\ capacity \in Nat /\ offset \in Nat
      /\ Word \in Nat /\ Header \in Nat /\ bytes \in Nat /\ align \in Nat \ {0}
      /\ offset <= capacity \/ offset = Header
  BY WordAssumption, ArgumentAssumption DEF ArenaIInv, ArenaTypeOK
<1>2. base + Header + capacity + align + bytes < Word
  BY DEF NoWrap, ArenaIInv, Region
<1>3. base + offset + align + bytes < Word
  BY <1>1, <1>2
<1> DEFINE y == base + offset + align - 1
<1>4. y \in Nat /\ y < Word /\ base + offset \in Nat /\ base + offset < Word
  BY <1>1, <1>3
<1>5. (base + offset) % Word = base + offset
  BY <1>1, <1>4
<1>6. Bump(align) = y - (y % align)
  <2>1. y % Word = y
    BY <1>1, <1>4
  <2> QED BY <1>5, <2>1 DEF Bump, Aligned
<1> HIDE DEF y
<1>7. y % align \in 0 .. align - 1 /\ (y - (y % align)) % align = 0
  BY <1>1, <1>4, Remainder
<1>8. Bump(align) \in base + offset .. y
  BY <1>1, <1>4, <1>6, <1>7 DEF y
<1>9. Bump(align) - base \in Nat /\ Bump(align) - base < Word
      /\ Bump(align) - base + bytes \in Nat
      /\ Bump(align) - base + bytes < Word
  BY <1>1, <1>3, <1>8 DEF y
<1>10. \A x \in Nat : x < Word => x % Word = x
  BY <1>1
<1>11. NewOffset(bytes, align) = Bump(align) - base + bytes
  BY <1>9, <1>10 DEF NewOffset
<1> QED BY <1>1, <1>4, <1>6, <1>7, <1>8, <1>9, <1>11

-----------------------------------------------------------------------------
(* ArenaInitially there are no blocks.                                          *)
LEMMA ArenaInitially == ArenaInit => ArenaIInv
BY WordAssumption
DEF ArenaInit, ArenaIInv, ArenaTypeOK, Region, Below, InArena, Disjoint, AllAligned

(* A new arena has none either; its bump pointer is behind the header.     *)
LEMMA CreateStep ==
  ASSUME ArenaIInv, NEW b \in Bases, NEW cap \in Capacities, arena_create(b, cap)
  PROVE  ArenaIInv'
<1>1. b \in 0 .. Word - 1 /\ cap \in 0 .. Word - 1 /\ Header \in 0 .. Word - 1
  BY WordAssumption, ArgumentAssumption, RegionAssumption
<1> QED BY <1>1
  DEF arena_create, ArenaIInv, ArenaTypeOK, Region, Below, InArena, Disjoint, AllAligned

(* The block handed out lies between the old and the new bump pointer, and *)
(* all others before the old one.                                          *)
LEMMA AllocStep ==
  ASSUME NoWrap, ArenaIInv, NEW bytes \in Sizes, NEW align \in Aligns,
         arena_alloc(bytes, align)
  PROVE  ArenaIInv'
<1> DEFINE new == [ptr |-> Bump(align), size |-> bytes, align |-> align]
<1>1. /\ phase = "live" /\ NewOffset(bytes, align) <= capacity
      /\ offset' = NewOffset(bytes, align) /\ allocs' = allocs \cup {new}
      /\ phase' = phase /\ base' = base /\ capacity' = capacity
  BY DEF arena_alloc
<1>2. /\ new.ptr \in base + offset .. Word - 1 /\ new.ptr % new.align = 0
      /\ offset' = new.ptr - base + new.size /\ offset' \in 0 .. Word - 1
  BY <1>1, BumpProperties
<1>3. /\ base \in Nat /\ capacity \in Nat /\ offset \in Nat /\ Header \in Nat
      /\ new.ptr \in Nat /\ new.size \in Nat /\ Word \in Nat /\ new \in Block
      /\ \A a \in allocs : a \in Block /\ a.ptr \in Nat /\ a.size \in Nat
  <2>1. base \in Nat /\ capacity \in Nat /\ offset \in Nat
    BY WordAssumption DEF ArenaIInv, ArenaTypeOK
  <2>2. Bump(align) \in 0 .. Word - 1
    BY <1>2, <2>1
  <2>3. new \in Block
    BY <2>2 DEF Block
  <2>4. ASSUME NEW a \in Block PROVE a.ptr \in Nat /\ a.size \in Nat
    <3>1. a.ptr \in 0 .. Word - 1 /\ a.size \in Sizes
      BY DEF Block
    <3>2. \A x \in Sizes : x \in Nat
      BY ArgumentAssumption, WordAssumption
    <3>3. \A x \in 0 .. Word - 1 : x \in Nat
      BY WordAssumption
    <3> QED BY <3>1, <3>2, <3>3, Zenon
  <2> QED BY <2>1, <2>3, <2>4, WordAssumption DEF ArenaIInv, ArenaTypeOK
<1> HIDE DEF new
<1>4. base + offset <= new.ptr /\ new.ptr + new.size = base + offset'
  BY <1>2, <1>3
<1>5. \A a \in allocs : a.ptr + a.size <= new.ptr
  BY <1>3, <1>4 DEF ArenaIInv, Below
<1>6. ArenaTypeOK' /\ Region'
  BY <1>1, <1>2, <1>3, <1>4 DEF ArenaIInv, ArenaTypeOK, Region
<1>7. Below'
  BY <1>1, <1>3, <1>4, <1>5, <1>2 DEF Below
<1>8. InArena'
  <2>1. base + Header <= new.ptr /\ new.ptr + new.size <= base + capacity
    <3>1. Header <= offset /\ offset' <= capacity
      BY <1>1 DEF ArenaIInv, Region
    <3>2. base + Header <= base + offset /\ offset' \in Int
      BY <1>2, <1>3, <3>1
    <3> QED BY <1>3, <1>4, <3>1, <3>2
  <2> QED BY <1>1, <2>1 DEF ArenaIInv, InArena
<1>9. Disjoint'
  BY <1>1, <1>5 DEF ArenaIInv, Disjoint
<1>10. AllAligned'
  BY <1>1, <1>2 DEF ArenaIInv, AllAligned
<1> QED BY <1>6, <1>7, <1>8, <1>9, <1>10 DEF ArenaIInv

(* A reset gives the region back as it was created.                        *)
LEMMA ResetStep == ArenaIInv /\ arena_reset => ArenaIInv'
<1> SUFFICES ASSUME ArenaIInv, arena_reset PROVE ArenaIInv'
  OBVIOUS
<1>1. Header \in 0 .. Word - 1
  <2>1. Header \in Nat /\ Header <= offset /\ offset \in 0 .. Word - 1
    BY WordAssumption DEF ArenaIInv, ArenaTypeOK, Region, arena_reset
  <2> QED BY <2>1, WordAssumption
<1> QED BY <1>1
  DEF arena_reset, ArenaIInv, ArenaTypeOK, Region, Below, InArena, Disjoint, AllAligned

(* Every call preserves the invariant.                                     *)
LEMMA ArenaInductive ==
  ASSUME NoWrap, ArenaIInv, [ArenaNext]_arena_vars
  PROVE  ArenaIInv'
<1>1. CASE \E b \in Bases, cap \in Capacities : arena_create(b, cap)
  BY <1>1, CreateStep
<1>2. CASE arena_create_fails
  BY <1>2 DEF arena_create_fails, fields, ArenaIInv, ArenaTypeOK, Region, Below, InArena,
              Disjoint, AllAligned
<1>3. CASE \E bytes \in Sizes, align \in Aligns : arena_alloc(bytes, align)
  BY <1>3, AllocStep
<1>4. CASE UNCHANGED arena_vars
  BY <1>4 DEF arena_vars, fields, ArenaIInv, ArenaTypeOK, Region, Below, InArena, Disjoint,
              AllAligned
<1>5. CASE arena_reset
  BY <1>5, ResetStep
<1>6. CASE arena_destroy
  BY <1>6 DEF arena_destroy, fields, ArenaIInv, ArenaTypeOK, Region, Below, InArena,
              Disjoint, AllAligned
<1> QED BY <1>1, <1>2, <1>3, <1>4, <1>5, <1>6 DEF ArenaNext, arena_alloc_fails, Over

(* If no computation wraps around, every block lies in the region behind   *)
(* the header, apart from all others and aligned, whatever the sequence of *)
(* allocations and resets.                                                 *)
THEOREM BlocksSafe ==
  ASSUME NoWrap
  PROVE  ArenaSpec => [](ArenaTypeOK /\ BlocksOK)
<1>1. ArenaInit => ArenaIInv
  BY ArenaInitially
<1>2. ArenaIInv /\ [ArenaNext]_arena_vars => ArenaIInv'
  BY ArenaInductive
<1>3. ArenaIInv => ArenaTypeOK /\ BlocksOK
  BY DEF ArenaIInv, BlocksOK
<1> QED BY <1>1, <1>2, <1>3, PTL DEF ArenaSpec

-----------------------------------------------------------------------------
(* BloomFilter.                                                            *)

BloomTypeOK ==
  /\ m_ \in Nat /\ k_ \in Nat \ {0}
  /\ bits_ \in [0 .. m_ - 1 -> BOOLEAN]
  /\ inserted \subseteq Key

\* A filter without bits has never been inserted into.
BloomIInv == BloomTypeOK /\ (m_ = 0 => inserted = {}) /\ Bloom!NoFalseNegatives

(* A position is an index of the vector.                                   *)
LEMMA HashInRange ==
  ASSUME Bloom!Hashes, m_ \in Nat, m_ > 0, k_ \in Nat,
         NEW key \in Key, NEW i \in 0 .. k_ - 1
  PROVE  Bloom!hash_i(key, i) \in 0 .. m_ - 1
<1> DEFINE sum == hash1[key] + i * hash2[key]
<1>1. hash1[key] \in Nat /\ hash2[key] \in Nat /\ i \in Nat
  BY DEF Bloom!Hashes
<1>2. i * hash2[key] \in Nat
  BY <1>1
<1>3. sum \in Nat
  BY <1>1, <1>2
<1> HIDE DEF sum
<1>4. sum % Word \in Nat
  BY <1>3 DEF Bloom!Hashes
<1>5. (sum % Word) % m_ \in 0 .. m_ - 1
  BY <1>4
<1> QED BY <1>5 DEF Bloom!hash_i, sum

(* No call clears a bit that is set.                                       *)
LEMMA BitsStay ==
  ASSUME Bloom!Hashes, BloomTypeOK, [Bloom!Next]_(Bloom!vars), m_ > 0,
         NEW g \in 0 .. m_ - 1, bits_[g]
  PROVE  bits_'[g] /\ m_' = m_ /\ k_' = k_
<1>1. ASSUME NEW key \in Key, Bloom!insert(key)
      PROVE  bits_'[g] /\ m_' = m_ /\ k_' = k_
  BY <1>1 DEF Bloom!insert
<1>2. CASE UNCHANGED Bloom!vars
  BY <1>2 DEF Bloom!vars
<1> QED BY <1>1, <1>2 DEF Bloom!Next, Bloom!Ask, Bloom!NoBits

(* A key that is found once is found for ever.                             *)
LEMMA FoundStays ==
  ASSUME Bloom!Hashes, BloomTypeOK, [Bloom!Next]_(Bloom!vars), m_ > 0,
         NEW key \in Key, Bloom!contains(key)
  PROVE  Bloom!contains(key)'
<1>1. m_' = m_ /\ k_' = k_
  BY DEF Bloom!Next, Bloom!insert, Bloom!Ask, Bloom!NoBits, Bloom!vars
<1>2. \A i \in 0 .. k_ - 1 : /\ Bloom!hash_i(key, i) \in 0 .. m_ - 1
                             /\ bits_[Bloom!hash_i(key, i)]
  BY HashInRange DEF BloomTypeOK, Bloom!contains
<1>3. \A i \in 0 .. k_ - 1 : bits_'[Bloom!hash_i(key, i)]
  BY <1>2, BitsStay
<1>4. \A i \in 0 .. k_' - 1 : Bloom!hash_i(key, i)' = Bloom!hash_i(key, i)
  BY <1>1 DEF Bloom!hash_i
<1> QED BY <1>1, <1>3, <1>4 DEF Bloom!contains

(* The key that a call inserts is found after it.                          *)
LEMMA InsertedFound ==
  ASSUME Bloom!Hashes, BloomTypeOK, NEW key \in Key, Bloom!insert(key)
  PROVE  Bloom!contains(key)'
<1>1. m_' = m_ /\ k_' = k_ /\ m_ > 0
  BY DEF Bloom!insert
<1>2. \A i \in 0 .. k_ - 1 : /\ Bloom!hash_i(key, i) \in 0 .. m_ - 1
                             /\ Bloom!hash_i(key, i) \in Bloom!Positions(key)
  BY <1>1, HashInRange DEF BloomTypeOK, Bloom!Positions
<1>3. \A i \in 0 .. k_ - 1 : bits_'[Bloom!hash_i(key, i)]
  BY <1>2 DEF Bloom!insert
<1>4. \A i \in 0 .. k_' - 1 : Bloom!hash_i(key, i)' = Bloom!hash_i(key, i)
  BY <1>1 DEF Bloom!hash_i
<1> QED BY <1>1, <1>3, <1>4 DEF Bloom!contains

(* The invariant holds after the constructor and is kept by every call.    *)
LEMMA BloomInvariant ==
  ASSUME Bloom!Hashes
  PROVE  Bloom!Spec => []BloomIInv
<1>1. Bloom!Init => BloomIInv
  BY DEF Bloom!Init, BloomIInv, BloomTypeOK, Bloom!NoFalseNegatives
<1>2. BloomIInv /\ [Bloom!Next]_(Bloom!vars) => BloomIInv'
  <2> SUFFICES ASSUME BloomIInv, [Bloom!Next]_(Bloom!vars) PROVE BloomIInv'
    OBVIOUS
  <2>1. BloomTypeOK' /\ (m_ = 0 => inserted = {})'
    <3>1. ASSUME NEW key \in Key, Bloom!insert(key)
          PROVE  BloomTypeOK' /\ (m_ = 0 => inserted = {})'
      <4>1. \A g \in 0 .. m_ - 1 : (bits_[g] \/ g \in Bloom!Positions(key)) \in BOOLEAN
        OBVIOUS
      <4>2. bits_' \in [0 .. m_' - 1 -> BOOLEAN]
        BY <3>1, <4>1 DEF Bloom!insert
      <4> QED BY <3>1, <4>2 DEF Bloom!insert, BloomIInv, BloomTypeOK
    <3>2. CASE UNCHANGED <<m_, k_, bits_, n_inserted_, inserted>>
      BY <3>2 DEF BloomIInv, BloomTypeOK
    <3> QED BY <3>1, <3>2 DEF Bloom!Next, Bloom!Ask, Bloom!NoBits, Bloom!vars
  <2>2. Bloom!NoFalseNegatives'
    <3> SUFFICES ASSUME NEW key \in inserted' PROVE Bloom!contains(key)'
      BY DEF Bloom!NoFalseNegatives
    <3>1. CASE key \in inserted
      <4>1. m_ > 0 /\ key \in Key /\ Bloom!contains(key)
        BY <3>1 DEF BloomIInv, BloomTypeOK, Bloom!NoFalseNegatives
      <4> QED BY <4>1, FoundStays DEF BloomIInv
    <3>2. CASE key \notin inserted
      <4>1. PICK new \in Key : Bloom!insert(new)
        BY <3>2 DEF Bloom!Next, Bloom!Ask, Bloom!NoBits, Bloom!vars
      <4>2. key = new
        BY <3>2, <4>1 DEF Bloom!insert
      <4> QED BY <4>1, <4>2, InsertedFound DEF BloomIInv
    <3> QED BY <3>1, <3>2
  <2> QED BY <2>1, <2>2 DEF BloomIInv
<1> QED BY <1>1, <1>2, PTL DEF Bloom!Spec

(* A key that was inserted is always found, as main.cpp asserts, for all   *)
(* hashes, sizes of the vector and numbers of hash functions.              *)
THEOREM NeverMissed ==
  ASSUME Bloom!Hashes
  PROVE  Bloom!Spec => [](Bloom!NoFalseNegatives /\ Bloom!InVector)
<1>1. BloomIInv => Bloom!NoFalseNegatives /\ Bloom!InVector
  BY HashInRange DEF BloomIInv, BloomTypeOK, Bloom!InVector
<1> QED BY <1>1, BloomInvariant, PTL

(* An answer "present" is never withdrawn: bits are only ever set.         *)
THEOREM AnswersStay ==
  ASSUME Bloom!Hashes
  PROVE  Bloom!Spec => Bloom!PositivesStay
<1>1. BloomIInv /\ [Bloom!Next]_(Bloom!vars) =>
        [\A key \in Key : m_ > 0 /\ Bloom!contains(key) => Bloom!contains(key)']_(Bloom!vars)
  BY FoundStays DEF BloomIInv
<1> QED BY <1>1, BloomInvariant, PTL DEF Bloom!Spec, Bloom!PositivesStay

-----------------------------------------------------------------------------
(* AesGcm.                                                                 *)

\* The additional data that was sealed for this message.
SealedAad == IF issue = "NORMAL_TRIP_WITH_AAD" THEN "aad" ELSE "none"

\* A context is allocated from the first call to the last, besides the lost.
Contexts ==
  /\ InCall /\ k > 1 => ctxs \in 1 .. failures + 1
  /\ ~ (InCall /\ k > 1) => ctxs \in 0 .. failures

\* No call has failed while a function runs or after it has succeeded, and
\* what was sealed goes with the message.
Sealed ==
  /\ InCall \/ (fn \in {"encrypted", "decrypted"} /\ ret = "length") =>
       failed = "none"
  /\ (fn = "encrypted" /\ ret = "length") \/ fn \in {"decrypt", "decrypted"} =>
       sealed[1] = SealedAad

\* The buffer is written by the fifth call of aes_gcm_decrypt.
Output ==
  /\ fn \in {"encrypt", "encrypted"} => out = "zero"
  /\ fn = "decrypt" /\ k <= 5 => out = "zero"
  /\ fn = "decrypt" /\ k > 5 =>
       out = IF size = 0 THEN "zero"
             ELSE IF ct = sealed[2] THEN "plaintext" ELSE "garbled"

\* A function begins with its first call.
Begins == ~ InCall => k = 1

IInv == TypeOK /\ Begins /\ Contexts /\ Sealed /\ Output /\ Verdict /\ NoEscape

-----------------------------------------------------------------------------
(* There are nine messages.                                                *)
LEMMA Messages == DOMAIN Message = 1 .. Len(Message) /\ Len(Message) = 9
<1> DEFINE R == [size : {0, 16, 47}, issue : {"NORMAL_TRIP", "CHANGE_CIPHER", "CHANGE_TAG",
                   "CHANGE_AAD", "NORMAL_TRIP_WITH_AAD", "none"}]
           second == << [size |-> 16, issue |-> "none"], [size |-> 16, issue |-> "none"] >>
<1>1. Trip \in Seq(R) /\ Len(Trip) = 7
  BY DEF Trip
<1>2. second \in Seq(R) /\ Len(second) = 2
  OBVIOUS
<1>3. Message = Trip \o second
  BY DEF Message
<1> HIDE DEF R, second
<1>4. ASSUME NEW S, NEW s \in Seq(S), NEW t \in Seq(S), Len(s) = 7, Len(t) = 2
      PROVE  DOMAIN (s \o t) = 1 .. Len(s \o t) /\ Len(s \o t) = 9
  <2>1. s \o t \in Seq(S) /\ Len(s \o t) = Len(s) + Len(t)
    BY ConcatProperties, Zenon
  <2>2. Len(s \o t) = 9
    BY <1>4, <2>1
  <2> QED BY <2>1, <2>2, LenProperties
<1>5. DOMAIN (Trip \o second) = 1 .. Len(Trip \o second) /\ Len(Trip \o second) = 9
  BY <1>1, <1>2, <1>4, Zenon
<1> QED BY <1>3, <1>5

(* Which call is made when.                                                *)
LEMMA Calls ==
  ASSUME TypeOK
  PROVE  /\ fn = "encrypt" => (Last <=> k = 7)
         /\ fn = "decrypt" => (Last <=> k = 7)
         /\ InCall => (Call = "new" <=> k = 1)
         /\ InCall => (Call = "update" <=> k = 5)
         /\ fn = "decrypt" => (Call = "set_tag" <=> k = 6)
         /\ InCall => Call # "none"
         /\ InCall => Call \in {EncryptCalls[j] : j \in 1 .. 7}
                               \cup {DecryptCalls[j] : j \in 1 .. 7}
<1>1. Len(EncryptCalls) = 7 /\ Len(DecryptCalls) = 7
  BY DEF EncryptCalls, DecryptCalls
<1>2. k \in 1 .. 7
  BY DEF TypeOK
<1>3. k = 1 \/ k = 2 \/ k = 3 \/ k = 4 \/ k = 5 \/ k = 6 \/ k = 7
  BY <1>2
<1>4. InCall => (Call = "new" <=> k = 1) /\ (Call = "update" <=> k = 5) /\ Call # "none"
  BY <1>3 DEF InCall, Call, EncryptCalls, DecryptCalls
<1>5. fn = "decrypt" => (Call = "set_tag" <=> k = 6)
  BY <1>3 DEF Call, DecryptCalls
<1>6. InCall => Call \in {EncryptCalls[j] : j \in 1 .. 7}
                        \cup {DecryptCalls[j] : j \in 1 .. 7}
  BY <1>2 DEF InCall, Call
<1> QED BY <1>1, <1>2, <1>4, <1>5, <1>6 DEF Last

(* What the library compares while a message is decrypted is what Verdict  *)
(* speaks of.                                                              *)
LEMMA MatchPresented ==
  ASSUME IInv, fn = "decrypt"
  PROVE  Match <=> << IF issue = "CHANGE_AAD" THEN "wrong" ELSE sealed[1], ct, tag >> = sealed
<1>1. sealed[1] = SealedAad
  BY DEF IInv, Sealed
<1>2. aad = IF issue = "CHANGE_AAD" THEN "wrong" ELSE sealed[1]
  BY <1>1 DEF aad, SealedAad
<1> QED BY <1>2 DEF Match

-----------------------------------------------------------------------------
(* The first call of main has not been made.                               *)
LEMMA Initially == Init => IInv
<1> SUFFICES ASSUME Init PROVE IInv
  OBVIOUS
<1>1. TypeOK
  BY Messages, ByteAssumption DEF Init, TypeOK
<1>2. Contexts /\ Sealed /\ Output
  BY DEF Init, Contexts, Sealed, Output, InCall
<1> QED BY <1>1, <1>2 DEF Init, IInv, Verdict, NoEscape, Begins, InCall

(* A call in the middle of a function succeeds.                            *)
LEMMA ProceedKeeps == IInv /\ Proceed => IInv'
<1> SUFFICES ASSUME IInv, Proceed PROVE IInv'
  OBVIOUS
<1>1. k \in 1 .. 6 /\ k' = k + 1 /\ fn' = fn /\ InCall /\ InCall'
  BY Calls DEF IInv, TypeOK, Proceed, InCall
<1>2. TypeOK'
  BY <1>1 DEF IInv, TypeOK, Proceed
<1>3. Contexts'
  BY <1>1, Calls DEF IInv, TypeOK, Contexts, Proceed
<1>4. Sealed'
  BY <1>1 DEF IInv, Sealed, Proceed, SealedAad, issue, InCall
<1>5. Output'
  <2>1. size' = size
    BY DEF Proceed, size
  <2>2. CASE fn = "encrypt"
    BY <1>1, <2>2 DEF IInv, Output, Proceed
  <2>3. CASE fn = "decrypt"
    <3>1. ct' = ct /\ sealed' = sealed
      BY <2>3 DEF Proceed
    <3>2. out' = IF Call # "update" \/ size = 0 THEN out
                 ELSE IF ct = sealed[2] THEN "plaintext" ELSE "garbled"
      BY <2>3 DEF Proceed
    <3> QED BY <1>1, <2>1, <2>3, <3>1, <3>2, Calls DEF IInv, TypeOK, Output
  <2> QED BY <1>1, <2>2, <2>3 DEF InCall
<1>6. Verdict' /\ NoEscape'
  BY <1>1 DEF Verdict, NoEscape, InCall
<1> QED BY <1>1, <1>2, <1>3, <1>4, <1>5, <1>6 DEF IInv, Begins

(* The message is sealed.                                                  *)
LEMMA GetTagKeeps == IInv /\ GetTag => IInv'
<1> SUFFICES ASSUME IInv, GetTag PROVE IInv'
  OBVIOUS
<1>1. fn = "encrypt" /\ k = 7 /\ fn' = "encrypted" /\ ret' = "length" /\ k' = 1
  BY Calls DEF IInv, GetTag, Return
<1>2. aad = SealedAad
  BY <1>1 DEF aad, SealedAad
<1>3. TypeOK'
  BY <1>1, <1>2 DEF IInv, TypeOK, Contexts, GetTag, InCall, SealedAad
<1>4. Contexts'
  BY <1>1 DEF IInv, TypeOK, Contexts, GetTag, InCall
<1>5. Sealed'
  BY <1>1, <1>2 DEF IInv, Sealed, GetTag, InCall, SealedAad, issue
<1>6. Output' /\ Verdict' /\ NoEscape'
  BY <1>1 DEF IInv, Output, GetTag, Verdict, NoEscape
<1> QED BY <1>1, <1>3, <1>4, <1>5, <1>6 DEF IInv, Begins

(* A call fails and the function returns at once.                          *)
LEMMA EarlyReturnKeeps == IInv /\ EarlyReturn => IInv'
<1> SUFFICES ASSUME IInv, EarlyReturn PROVE IInv'
  OBVIOUS
<1>1. /\ fn \in {"encrypt", "decrypt"} /\ ret' = "-1" /\ k' = 1 /\ ~ InCall'
      /\ fn' = IF fn = "encrypt" THEN "encrypted" ELSE "decrypted"
      /\ failed' = Call /\ failures' = failures + 1
  BY DEF EarlyReturn, Return, Fails, InCall
<1>2. TypeOK'
  BY <1>1, Calls DEF IInv, TypeOK, EarlyReturn, InCall
<1>3. Contexts'
  BY <1>1 DEF IInv, TypeOK, Contexts, EarlyReturn
<1>4. Sealed'
  BY <1>1 DEF IInv, Sealed, EarlyReturn, SealedAad, issue
<1>5. Output'
  BY <1>1 DEF IInv, Output, EarlyReturn
<1>6. Verdict'
  BY <1>1, Calls DEF IInv, Verdict, RoundTripOK, InCall
<1>7. NoEscape'
  <2>1. CASE fn = "decrypt"
    <3>1. k \in 1 .. 6
      BY <2>1, Calls DEF IInv, TypeOK, EarlyReturn
    <3>2. k < 5 => out' = "zero"
      BY <2>1, <3>1, Calls DEF IInv, Output, EarlyReturn, InCall
    <3>3. k = 5 => Call = "update"
      BY <2>1, Calls DEF IInv, InCall
    <3>4. k = 6 => Call = "set_tag"
      BY <2>1, Calls DEF IInv
    <3> QED BY <1>1, <3>1, <3>2, <3>3, <3>4 DEF NoEscape
  <2> QED BY <1>1, <2>1 DEF NoEscape
<1> QED BY <1>1, <1>2, <1>3, <1>4, <1>5, <1>6, <1>7 DEF IInv, Begins

(* The message is accepted or refused.                                     *)
LEMMA DecryptFinalKeeps == IInv /\ DecryptFinal => IInv'
<1> SUFFICES ASSUME IInv, DecryptFinal PROVE IInv'
  OBVIOUS
<1>1. /\ fn = "decrypt" /\ k = 7 /\ fn' = "decrypted" /\ k' = 1 /\ ~ InCall'
      /\ ret' \in {"length", "-1"} /\ ctxs' = ctxs - 1
      /\ failures' \in {failures, failures + 1}
      /\ UNCHANGED <<n, ct, tag, sealed>>
  BY Calls DEF IInv, DecryptFinal, Return, InCall, Fails
<1>2. Call # "none" /\ Call \in {EncryptCalls[j] : j \in 1 .. 7}
                                 \cup {DecryptCalls[j] : j \in 1 .. 7}
  BY <1>1, Calls DEF IInv, InCall
<1>3. TypeOK'
  BY <1>1, <1>2 DEF IInv, TypeOK, Contexts, InCall, DecryptFinal, Fails
<1>4. Contexts'
  <2>1. ctxs \in 1 .. failures + 1 /\ failures \in Nat
    BY <1>1 DEF IInv, TypeOK, Contexts, InCall
  <2> QED BY <1>1, <2>1 DEF Contexts
<1>5. Sealed'
  <2>1. failed = "none" /\ sealed[1] = SealedAad
    BY <1>1 DEF IInv, Sealed, InCall
  <2>2. SealedAad' = SealedAad
    BY <1>1 DEF SealedAad, issue
  <2>3. ret' = "length" => failed' = failed
    BY DEF DecryptFinal, Return
  <2> QED BY <1>1, <2>1, <2>2, <2>3 DEF Sealed
<1>6. Verdict' /\ NoEscape'
  <2> DEFINE same == << IF issue = "CHANGE_AAD" THEN "wrong" ELSE sealed[1], ct, tag >> = sealed
  <2>1. Match <=> same
    BY <1>1, MatchPresented
  <2>2. same' <=> same
    BY <1>1 DEF issue
  <2>3. size' = size
    BY <1>1 DEF size
  <2>4. CASE Match /\ ret' = "length" /\ UNCHANGED <<out, failed, failures>>
    <3>1. sealed = <<aad, ct, tag>>
      BY <2>4 DEF Match
    <3>2. ct = sealed[2] /\ failed = "none"
      BY <1>1, <3>1 DEF IInv, Sealed, InCall
    <3>3. size = 0 \/ out = "plaintext"
      BY <1>1, <3>2 DEF IInv, Output
    <3>4. RoundTripOK' /\ failed' = "none"
      BY <2>3, <2>4, <3>2, <3>3 DEF RoundTripOK
    <3> QED BY <1>1, <2>1, <2>2, <2>4, <3>4 DEF Verdict, NoEscape
  <2>5. CASE ~ Match /\ ret' = "-1" /\ out' = "zero"
    BY <1>1, <2>1, <2>2, <2>5 DEF Verdict, NoEscape, RoundTripOK
  <2>6. CASE failed' = Call /\ ret' = "-1" /\ out' = "zero"
    BY <1>1, <1>2, <2>6 DEF Verdict, NoEscape, RoundTripOK
  <2> QED BY <2>4, <2>5, <2>6 DEF DecryptFinal, Return, Fails
<1>7. Output'
  BY <1>1 DEF Output
<1> QED BY <1>1, <1>3, <1>4, <1>5, <1>6, <1>7 DEF IInv, Begins

(* round_trip changes the message.                                         *)
LEMMA ChangeKeeps == IInv /\ Change => IInv'
<1> SUFFICES ASSUME IInv, Change PROVE IInv'
  OBVIOUS
<1>1. /\ fn = "encrypted" /\ ret = "length" /\ fn' = "decrypt" /\ InCall' /\ ~ InCall
      /\ UNCHANGED <<n, k, ret, out, sealed, ctxs, failed, failures>>
  BY DEF IInv, TypeOK, Change, InCall
<1>2. TypeOK'
  BY <1>1, ByteAssumption DEF IInv, TypeOK, Change
<1>3. k = 1
  BY <1>1 DEF IInv, Begins
<1>4. Contexts' /\ Output'
  BY <1>1, <1>3 DEF IInv, Contexts, Output
<1>5. Sealed'
  BY <1>1 DEF IInv, Sealed, SealedAad, issue
<1>6. Verdict' /\ NoEscape' /\ Begins'
  BY <1>1 DEF Verdict, NoEscape, Begins
<1> QED BY <1>2, <1>4, <1>5, <1>6 DEF IInv

(* main goes on to the next message, or ends.                              *)
LEMMA AfterKeeps == IInv /\ (AfterEncrypt \/ AfterDecrypt) => IInv'
<1> SUFFICES ASSUME IInv, AfterEncrypt \/ AfterDecrypt PROVE IInv'
  OBVIOUS
<1>1. /\ ~ InCall /\ k = 1
      /\ fn' \in {"encrypt", "done"} /\ failed' = "none" /\ out' = "zero"
      /\ UNCHANGED <<k, ret, ct, tag, sealed, ctxs, failures>>
  BY DEF IInv, Begins, AfterEncrypt, AfterDecrypt, NextMessage, InCall
<1>2. n' \in DOMAIN Message
  <2>1. n \in 1 .. 9 /\ (n' = n \/ (n < 9 /\ n' = n + 1))
    BY Messages DEF IInv, TypeOK, AfterEncrypt, AfterDecrypt, NextMessage
  <2> QED BY <2>1, Messages
<1>3. TypeOK'
  BY <1>1, <1>2 DEF IInv, TypeOK
<1>4. Contexts' /\ Begins'
  BY <1>1 DEF IInv, Contexts, Begins
<1>5. Sealed' /\ Output' /\ Verdict' /\ NoEscape'
  BY <1>1 DEF Sealed, Output, Verdict, NoEscape
<1> QED BY <1>3, <1>4, <1>5 DEF IInv

(* A step that changes no variable.                                        *)
LEMMA StutterKeeps == IInv /\ UNCHANGED vars => IInv'
  BY DEF IInv, vars, buffers, TypeOK, Begins, Contexts, Sealed, Output, Verdict, NoEscape,
         InCall, SealedAad, issue, size, RoundTripOK

-----------------------------------------------------------------------------
(* Every state of main satisfies the inductive invariant.                  *)
THEOREM Inductive == Spec => []IInv
<1>1. IInv /\ [Next]_vars => IInv'
  BY ProceedKeeps, GetTagKeeps, EarlyReturnKeeps, DecryptFinalKeeps, ChangeKeeps,
     AfterKeeps, StutterKeeps DEF Next, Done
<1> QED BY Initially, <1>1, PTL DEF Spec

(* The variables have their types: in particular no context is freed that  *)
(* was not allocated (aes_gcm.cpp).                                        *)
THEOREM TypeCorrect == Spec => []TypeOK
<1>1. IInv => TypeOK
  BY DEF IInv
<1> QED BY Inductive, <1>1, PTL

(* A round trip succeeds exactly if the message came as it was sealed and  *)
(* no library call failed, whatever first bytes the cipher produces, those *)
(* that the change leaves as they are included (main.cpp 18-63).           *)
THEOREM VerdictRight == Spec => []Verdict
<1>1. IInv => Verdict
  BY DEF IInv
<1> QED BY Inductive, <1>1, PTL

(* A decryption that returns -1 leaves text in the output buffer only if   *)
(* the call that failed is the update or the setting of the tag            *)
(* (aes_gcm.cpp 86, 91, 106).                                              *)
THEOREM RefusedWiped == Spec => []NoEscape
<1>1. IInv => NoEscape
  BY DEF IInv
<1> QED BY Inductive, <1>1, PTL

(* At most one cipher context is lost for each failed library call, for    *)
(* any number of failures (aes_gcm.cpp 49, 98).                            *)
THEOREM ContextsAccounted == Spec => []ContextsFreed
<1>1. IInv => ContextsFreed
  BY DEF IInv, Contexts, ContextsFreed
<1> QED BY Inductive, <1>1, PTL
=============================================================================
