---------------------------- MODULE BloomFilter -----------------------------
(***************************************************************************)
(* The filter of 11-bloom_filter/bloom.h and a caller that inserts keys    *)
(* and asks for keys in any order.  A call is one step.  The two base      *)
(* hashes, with the finalizer applied, are any functions from keys to      *)
(* words; their sum and product wrap around at Word.                       *)
(***************************************************************************)
EXTENDS Integers

CONSTANTS
  Key,         \* the strings
  Word,        \* 2^64
  a, b         \* the hashes of hash_i, functions from Key to words

Hashes ==
  /\ Word \in Nat \ {0}
  /\ a \in [Key -> 0 .. Word - 1] /\ b \in [Key -> 0 .. Word - 1]

VARIABLES
  m_, k_, bits_,   \* the members of the class
  n_inserted_,
  inserted,        \* history: the keys inserted so far
  answer           \* what the last call returned: "void", "true", "false", or
                   \* "undefined" after a remainder by zero

vars == <<m_, k_, bits_, n_inserted_, inserted, answer>>

\* The constructor: expected_n = 0, or a rate of 1, makes m_ = 0.
Init ==
  /\ m_ \in Nat /\ k_ \in Nat \ {0}
  /\ bits_ = [g \in 0 .. m_ - 1 |-> FALSE]
  /\ n_inserted_ = 0
  /\ inserted = {} /\ answer = "void"

hash_i(key, i) == ((a[key] + i * b[key]) % Word) % m_

Positions(key) == {hash_i(key, i) : i \in 0 .. k_ - 1}

insert(key) ==
  /\ m_ > 0
  /\ bits_' = [g \in 0 .. m_ - 1 |-> bits_[g] \/ g \in Positions(key)]
  /\ n_inserted_' = (n_inserted_ + 1) % Word
  /\ inserted' = inserted \cup {key} /\ answer' = "void"
  /\ UNCHANGED <<m_, k_>>

contains(key) == \A i \in 0 .. k_ - 1 : bits_[hash_i(key, i)]

Ask(key) ==
  /\ m_ > 0
  /\ answer' = IF contains(key) THEN "true" ELSE "false"
  /\ UNCHANGED <<m_, k_, bits_, n_inserted_, inserted>>

\* Either call on a filter without bits.
NoBits ==
  /\ m_ = 0
  /\ answer' = "undefined"
  /\ UNCHANGED <<m_, k_, bits_, n_inserted_, inserted>>

Next == (\E key \in Key : insert(key) \/ Ask(key)) \/ NoBits

Spec == Init /\ [][Next]_vars

-----------------------------------------------------------------------------
(* Properties.                                                             *)

(* Every position computed is one of the vector (bloom.h 43, 52), also     *)
(* when the sum of the hashes has wrapped around.                          *)
InVector ==
  m_ > 0 => \A key \in Key, i \in 0 .. k_ - 1 : hash_i(key, i) \in DOMAIN bits_

(* "false negative - must never happen" (main.cpp 28): a key inserted is   *)
(* found, whatever was inserted before and after it.                       *)
NoFalseNegatives == \A key \in inserted : contains(key)

(* What the filter has answered positively it never takes back.            *)
PositivesStay == [][\A key \in Key : m_ > 0 /\ contains(key) => contains(key)']_vars
=============================================================================
