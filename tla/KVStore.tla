------------------------------ MODULE KVStore ------------------------------
(***************************************************************************)
(* What the LSM tree promises: a map from keys to values in which a put or *)
(* a del that succeeds is visible at once and changes nothing else.  Some  *)
(* of them also make the whole map durable; a crash brings the durable map *)
(* back.  A crash while a map is being made durable leaves the new values  *)
(* of the smallest keys and the old values of the others, and may damage   *)
(* the value of one key between.  A call whose I/O fails may do as much    *)
(* harm as a crash, and no more.                                           *)
(***************************************************************************)
EXTENDS Integers

CONSTANTS Key, Value, NotFound, Torn

VARIABLES
  store, durable,
  call    \* the last call: its key, its effect, whether its I/O worked

vars == <<store, durable, call>>

Init ==
  /\ store = [k \in Key |-> NotFound]
  /\ durable = store
  /\ ~ call.io

Set(k, v) ==
  /\ call' = [key |-> k, effect |-> v, io |-> TRUE]
  /\ store' = [store EXCEPT ![k] = v]
  /\ durable' \in {durable, store'}

Lose == ~ call'.io /\ store' = durable /\ UNCHANGED durable

LoseSaving(k, v) ==
  /\ ~ call'.io /\ store' = durable'
  /\ \E cut \in Key :
       /\ durable'[cut] \in {durable[cut], Torn}
       /\ \A x \in Key : x < cut => durable'[x] = IF x = k THEN v ELSE store[x]
       /\ \A x \in Key : x > cut => durable'[x] = durable[x]
  /\ DOMAIN durable' = Key

Next ==
  \/ \E k \in Key, v \in Value \cup {NotFound} : Set(k, v)
  \/ Lose
  \/ \E k \in Key, v \in Value \cup {NotFound} : LoseSaving(k, v)

Spec == Init /\ [][Next]_vars
=============================================================================
