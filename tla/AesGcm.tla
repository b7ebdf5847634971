------------------------------- MODULE AesGcm -------------------------------
(***************************************************************************)
(* The authenticated encryption of 03-aes_gcm_AEAD_nonce_reuse: the two    *)
(* functions of aes_gcm.cpp and main.cpp, which makes round trips with     *)
(* them, changing the message on its way, and two more encryptions.        *)
(*                                                                         *)
(* A step is one call of the OpenSSL library, which may fail; what the     *)
(* library computes is ideal: a message is accepted if and only if         *)
(* ciphertext, tag and additional data are those that were sealed.  Of a   *)
(* ciphertext or tag the first byte is kept, the one round_trip sets; the  *)
(* rest goes with the plaintext.                                           *)
(***************************************************************************)
EXTENDS Integers, Sequences

CONSTANT FirstByte   \* the values of a first byte, 0 and 1 among them
ASSUME ByteAssumption == {0, 1} \subseteq FirstByte

VARIABLES
  n,         \* which message of main
  fn,        \* "encrypt" or "decrypt" while the function runs, "encrypted" or
             \* "decrypted" after it has returned, "done" at the end of main
  k,         \* the next library call of the function
  ret,       \* what the function has returned: "length" or "-1"
  ct, tag,   \* the first bytes of the buffers of round_trip
  out,       \* the output buffer: "zero", "plaintext" or "garbled"
  sealed,    \* additional data, ciphertext and tag of the last encryption
  ctxs,      \* how many cipher contexts are allocated
  failed,    \* the library call that has failed for this message, or "none"
  failures   \* how many calls have failed

buffers == <<ct, tag, out, sealed>>
vars == <<n, fn, k, ret, buffers, ctxs, failed, failures>>

EncryptCalls == <<"new", "init", "key", "aad", "update", "final", "get_tag">>
DecryptCalls == <<"new", "init", "key", "aad", "update", "set_tag", "final">>
Call == IF fn = "encrypt" THEN EncryptCalls[k] ELSE DecryptCalls[k]
InCall == fn \in {"encrypt", "decrypt"}
Last == IF fn = "encrypt" THEN k = Len(EncryptCalls) ELSE k = Len(DecryptCalls)

\* main: three lengths, three changes, additional data; the second part.
Trip == << [size |-> 0, issue |-> "NORMAL_TRIP"],
           [size |-> 16, issue |-> "NORMAL_TRIP"],
           [size |-> 47, issue |-> "NORMAL_TRIP"],
           [size |-> 47, issue |-> "CHANGE_CIPHER"],
           [size |-> 47, issue |-> "CHANGE_TAG"],
           [size |-> 47, issue |-> "CHANGE_AAD"],
           [size |-> 47, issue |-> "NORMAL_TRIP_WITH_AAD"] >>
Message == Trip \o << [size |-> 16, issue |-> "none"], [size |-> 16, issue |-> "none"] >>
size == Message[n].size
issue == Message[n].issue

TypeOK ==
  /\ n \in DOMAIN Message /\ k \in 1 .. 7
  /\ fn \in {"encrypt", "decrypt", "encrypted", "decrypted", "done"}
  /\ ret \in {"length", "-1"}
  /\ ct \in FirstByte /\ tag \in FirstByte
  /\ out \in {"zero", "plaintext", "garbled"}
  /\ sealed \in {"none", "aad"} \X FirstByte \X FirstByte
  /\ ctxs \in Nat /\ failures \in Nat
  /\ failed \in {"none"} \cup {EncryptCalls[j] : j \in 1 .. 7}
                         \cup {DecryptCalls[j] : j \in 1 .. 7}

Init ==
  /\ n = 1 /\ fn = "encrypt" /\ k = 1 /\ ret = "length"
  /\ ct = 0 /\ tag = 0 /\ out = "zero" /\ sealed = <<"none", 0, 0>>
  /\ ctxs = 0 /\ failed = "none" /\ failures = 0

-----------------------------------------------------------------------------
(* aes_gcm.cpp.                                                            *)

\* The additional data round_trip gives to the function that runs.
aad == CASE issue = "NORMAL_TRIP_WITH_AAD" -> "aad"
         [] fn = "decrypt" /\ issue = "CHANGE_AAD" -> "wrong"
         [] OTHER -> "none"
Match == <<aad, ct, tag>> = sealed

Return(r) ==
  /\ ret' = r /\ k' = 1
  /\ fn' = IF fn = "encrypt" THEN "encrypted" ELSE "decrypted"

Fails == failed' = Call /\ failures' = failures + 1

\* A call before the last one succeeds; the second update handles the text.
Proceed ==
  /\ InCall /\ ~ Last
  /\ k' = k + 1
  /\ ctxs' = IF Call = "new" THEN ctxs + 1 ELSE ctxs
  /\ ct' \in IF fn = "encrypt" /\ Call = "update" THEN FirstByte ELSE {ct}
  /\ out' = IF fn = "encrypt" \/ Call # "update" \/ size = 0 THEN out
            ELSE IF ct = sealed[2] THEN "plaintext" ELSE "garbled"
  /\ UNCHANGED <<n, fn, ret, tag, sealed, failed, failures>>

\* Mutant: the last call of aes_gcm_encrypt without the clean-up.
GetTagKept ==
  /\ fn = "encrypt" /\ Last
  /\ tag' \in FirstByte /\ sealed' = <<aad, ct, tag'>>
  /\ Return("length")
  /\ UNCHANGED <<n, ct, out, ctxs, failed, failures>>

\* The last call of aes_gcm_encrypt succeeds.
GetTag ==
  /\ fn = "encrypt" /\ Last
  /\ tag' \in FirstByte /\ sealed' = <<aad, ct, tag'>>
  /\ ctxs' = ctxs - 1
  /\ Return("length")
  /\ UNCHANGED <<n, ct, out, failed, failures>>

\* A call fails and the function returns where it is.  An update that fails
\* may have written already.
EarlyReturn ==
  /\ InCall /\ ~ (fn = "decrypt" /\ Last)
  /\ Fails /\ Return("-1")
  /\ out' \in IF fn = "decrypt" /\ Call = "update" /\ size > 0
                THEN {"zero", "plaintext", "garbled"} ELSE {out}
  /\ UNCHANGED <<n, ct, tag, sealed, ctxs>>

\* Mutant: the output is left as it is when the tag does not match.
DecryptFinalUnwiped ==
  /\ fn = "decrypt" /\ Last
  /\ ctxs' = ctxs - 1
  /\ Return(IF Match THEN "length" ELSE "-1")
  /\ UNCHANGED <<n, buffers, failed, failures>>

\* Mutant: the length is returned without a look at what the call says.
DecryptFinalUnchecked ==
  /\ fn = "decrypt" /\ Last
  /\ ctxs' = ctxs - 1
  /\ Return("length")
  /\ UNCHANGED <<n, buffers, failed, failures>>

\* The last call of aes_gcm_decrypt finds a match, or not, or fails.
DecryptFinal ==
  /\ fn = "decrypt" /\ Last
  /\ ctxs' = ctxs - 1
  /\ \/ Match /\ Return("length") /\ UNCHANGED <<out, failed, failures>>
     \/ ~ Match /\ Return("-1") /\ out' = "zero" /\ UNCHANGED <<failed, failures>>
     \/ Fails /\ Return("-1") /\ out' = "zero"
  /\ UNCHANGED <<n, ct, tag, sealed>>

-----------------------------------------------------------------------------
(* main.cpp.                                                               *)

NextMessage ==
  /\ failed' = "none" /\ out' = "zero"
  /\ IF n < Len(Message) THEN n' = n + 1 /\ fn' = "encrypt"
     ELSE n' = n /\ fn' = "done"

\* round_trip changes what it was told to change and decrypts into a new
\* buffer.
Change ==
  /\ fn = "encrypted" /\ n \in DOMAIN Trip /\ ret # "-1"
  /\ ct' = IF issue = "CHANGE_CIPHER" THEN 0 ELSE ct
  /\ tag' = IF issue = "CHANGE_TAG" THEN 1 ELSE tag
  /\ fn' = "decrypt"
  /\ UNCHANGED <<n, k, ret, out, sealed, ctxs, failed, failures>>

\* round_trip gives up, or main has what it wants: the next message.
AfterEncrypt ==
  /\ fn = "encrypted" /\ (ret = "-1" \/ n \notin DOMAIN Trip)
  /\ NextMessage
  /\ UNCHANGED <<k, ret, ct, tag, sealed, ctxs, failures>>

\* What round_trip returns: the text came back, the same.
RoundTripOK == ret # "-1" /\ (size = 0 \/ out = "plaintext")

AfterDecrypt ==
  /\ fn = "decrypted"
  /\ NextMessage
  /\ UNCHANGED <<k, ret, ct, tag, sealed, ctxs, failures>>

Done == fn = "done" /\ UNCHANGED vars

Next == \/ Proceed \/ GetTag \/ EarlyReturn \/ DecryptFinal
        \/ Change \/ AfterEncrypt \/ AfterDecrypt \/ Done

Spec == Init /\ [][Next]_vars

-----------------------------------------------------------------------------
(* Properties.                                                             *)

(* A round trip succeeds exactly if nothing was changed on the way and no  *)
(* library call failed: a changed byte is never accepted and an unchanged  *)
(* message never refused (main.cpp 18-63; criteria 1 and 2).               *)
Verdict ==
  fn = "decrypted" =>
    LET presented == << IF issue = "CHANGE_AAD" THEN "wrong" ELSE sealed[1], ct, tag >>
    IN RoundTripOK <=> presented = sealed /\ failed = "none"

(* After a decryption that returned -1 the output buffer holds nothing of  *)
(* the text ("unauthenticated plaintext must never escape",                *)
(* aes_gcm.cpp 106), unless the call that failed is the update that writes *)
(* it or the one that sets the tag: these return at 86 and 91 before the   *)
(* buffer is wiped.                                                        *)
NoEscape ==
  fn = "decrypted" /\ ret = "-1" /\ out # "zero" => failed \in {"update", "set_tag"}

(* Contexts are lost by failing calls only, one each at most: a function   *)
(* that gets to its last call frees the context it allocated, also if the  *)
(* tag does not match (aes_gcm.cpp 49, 98).                                *)
ContextsFreed == ~ InCall => ctxs \in 0 .. failures
=============================================================================
