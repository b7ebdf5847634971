----------------------------- MODULE MCDnsQuery -----------------------------
(***************************************************************************)
(* Names, answers and foreign datagrams for TLC.                           *)
(***************************************************************************)
EXTENDS DnsQuery

\* Two labels, one of them of the greatest length; an absolute name; a label
\* that is too long; a name that is too long; one too long for the array.
MCDomain == {<<1, 2>>, <<1, 0>>, <<3>>, <<2, 2, 1>>, <<2, 2, 2>>}

A(ptr, last) == [ptr |-> ptr, type |-> DNS_TYPE_A, rdata |-> <<10, 0, 0, last>>]
CName(ptr) == [ptr |-> ptr, type |-> 5, rdata |-> <<1, Letter, 192, Header>>]

NoData == [ptr |-> TRUE, type |-> DNS_TYPE_A, rdata |-> <<>>]

\* An alias as long as an address, addresses and an empty record; an answer
\* that is cut off.
MCAnswers == {<<CName(TRUE), A(FALSE, 1), A(TRUE, 2), NoData>>,
              <<A(TRUE, 1), A(FALSE, 2), A(FALSE, 3), A(TRUE, 4)>>}

\* A datagram of n bytes, the first of a response with records rrs, whose
\* header promises count records.
Foreign(s, id, rrs, count, n) ==
  [to |-> s, id |-> id, len |-> n, ancount |-> count,
   bytes |-> SubSeq(Response(<<1, 2>>, rrs), 1, n - Header), rrs |-> rrs, of |-> None]

Two == <<A(TRUE, 5), NoData>>

\* Three bytes.  With the identifier of process 1, a question of 10 bytes and
\* records of 16 and 12: a response, one without records, one that lacks a
\* third record, and ones that end in the question, in the middle of a pointer,
\* with it, and in the middle of an address.
MCStray ==
  {Foreign(s, 0, <<>>, 0, 3) : s \in Port} \cup
  {Foreign(s, 1, <<>>, 0, 22) : s \in Port} \cup
  {Foreign(s, 1, Two, 2, n) : s \in Port, n \in {20, 23, 24, 36, 50}} \cup
  {Foreign(s, 1, Two, 3, 50) : s \in Port}

\* The hypothesis of PrintsOwnAnswer in DnsQueryProofs.
ASSUME IdAssumption == DistinctIds
=============================================================================
