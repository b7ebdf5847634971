------------------------------ MODULE DnsQuery ------------------------------
(***************************************************************************)
(* The resolver client of 04-dns_query/main.c: processes of one host, each *)
(* of which asks for one name, over a network that may lose, delay,        *)
(* reorder and repeat datagrams.  A datagram on its way stays in net, so   *)
(* it may arrive never, late or twice, also at a process that has got the  *)
(* port of an earlier one.                                                 *)
(*                                                                         *)
(* Messages are sequences of bytes after the 12 bytes of the header, whose *)
(* fields are kept by name.  A name on the command line is the sequence of *)
(* the lengths of its labels, as the dots separate them: what the labels   *)
(* spell makes no difference to the program.                               *)
(***************************************************************************)
EXTENDS Integers, Sequences, SequencesExt

CONSTANTS
  Process,            \* the process identifiers, numbers
  IdSpace,            \* 2^16, the number of message identifiers
  Domain,             \* the names asked for
  Port,               \* the ephemeral ports of the host
  Answers,            \* the lists of records the resolver may answer with
  Stray,              \* datagrams of others that may arrive at a port, with any
                      \* identifier and any contents
  None,               \* no name, port, packet, datagram or process
  MAX_LABEL_SEGMENT, MAX_LABEL_TOTAL,
  EncodedSize,        \* sizeof(encoded_domain)
  RespSize            \* sizeof(resp)

\* The bytes of a header.
Header == 12

ASSUME ProcessAssumption == Process \subseteq Nat /\ IdSpace \in Nat \ {0}
ASSUME SizeAssumption == RespSize \in Nat /\ RespSize >= Header
\* A length byte of 192 or more is not that of a label but a pointer.
ASSUME NameAssumption ==
  Domain \subseteq Seq(Nat) /\ MAX_LABEL_SEGMENT \in Nat /\ MAX_LABEL_SEGMENT < 192

\* A resource record: whether its owner is a pointer to the question, its
\* type and its data.
RR == [ptr : BOOLEAN, type : Nat, rdata : Seq(Nat)]
ASSUME AnswersAssumption == Answers \subseteq Seq(RR)
ASSUME StrayAssumption ==
  /\ Stray \subseteq [to : Port, id : Nat, len : Nat, ancount : Nat, bytes : Seq(Nat),
                     rrs : Seq(RR), of : {None}]
  /\ \A m \in Stray : m.len <= Header + Len(m.bytes)

VARIABLES
  pc,       \* where main is, see Places
  domain,   \* argv[1]
  pkt,      \* the question built, without its header; None for length -1
  port,     \* the port of the socket while it is open
  got,      \* the datagram recvfrom has returned
  pos, an,  \* the cursor of parse_response, the answers it has passed
  printed,  \* the addresses printed
  asked,    \* the queries sent, on their way to the resolver
  net       \* the datagrams on their way to the host

locals == <<domain, pkt, port, got, pos, an, printed>>
vars == <<pc, locals, asked, net>>

\* socket, sendto, recvfrom; parse_response: the header, skip_name on the
\* question and on the owner of an answer, the rest of an answer; returned
\* from main with 0 or 1; a read or a write outside an array.
Places == {"start", "socket", "send", "wait", "header", "question", "owner",
           "record", "exit0", "exit1", "undefined"}
Ended == {"exit0", "exit1", "undefined"}

DNS_TYPE_A == 1
DNS_CLASS_IN == 1
U16(n) == <<n \div 256, n % 256>>

TypeOK ==
  /\ pc \in [Process -> Places]
  /\ domain \in [Process -> Domain \cup {None}]
  /\ port \in [Process -> Port \cup {None}]
  /\ \A p, q \in Process : port[p] = port[q] /\ port[p] # None => p = q
  /\ pos \in [Process -> Nat] /\ an \in [Process -> Nat]

Init ==
  /\ pc = [p \in Process |-> "start"]
  /\ domain = [p \in Process |-> None] /\ pkt = [p \in Process |-> None]
  /\ port = [p \in Process |-> None] /\ got = [p \in Process |-> None]
  /\ pos = [p \in Process |-> 0] /\ an = [p \in Process |-> 0]
  /\ printed = [p \in Process |-> <<>>]
  /\ asked = {} /\ net = Stray

-----------------------------------------------------------------------------
(* The query.                                                              *)

Letter == 97
Label(n) == <<n>> \o [k \in 1 .. n |-> Letter]
Labels(d) == FlattenSeq([k \in DOMAIN d |-> Label(d[k])])
LongLabel(d) == \E k \in DOMAIN d : d[k] > MAX_LABEL_SEGMENT

\* Mutant: the root label is only written after a name that ends in a dot.
encode_name_unrooted(d) ==
  IF LongLabel(d) \/ Len(Labels(d)) > MAX_LABEL_TOTAL THEN None ELSE Labels(d)

encode_name(d) ==
  LET buf == Labels(d) \o <<0>>
  IN IF LongLabel(d) \/ Len(buf) > MAX_LABEL_TOTAL THEN None ELSE buf

build_query(d) ==
  LET name == encode_name(d)
  IN IF name = None THEN None
     ELSE name \o U16(DNS_TYPE_A) \o U16(DNS_CLASS_IN)

Id(p) == p % IdSpace

-----------------------------------------------------------------------------
(* The resolver, as far as the program depends on it: it reads the name of *)
(* a question up to the root label and answers with records, or reports an *)
(* error with a bare header if the question does not end where it should.  *)
(* What it or anybody else may send instead is in Stray.                   *)

QName(b) ==
  LET from[k \in DOMAIN b] ==
        IF b[k] = 0 THEN <<>>
        ELSE <<b[k]>> \o (IF k + 1 + b[k] \in DOMAIN b THEN from[k + 1 + b[k]]
                          ELSE <<0>>)
  IN from[1]

\* The question b asks for the addresses of name d, and nothing else.
AsksFor(b, d) ==
  /\ QName(b) = d
  /\ SubSeq(b, Len(Labels(d)) + 1, Len(b)) = <<0, 0, 1, 0, 1>>

Wire(question, r) ==
  (IF r.ptr THEN <<192, Header>> ELSE SubSeq(question, 1, Len(question) - 4))
    \o U16(r.type) \o U16(DNS_CLASS_IN) \o <<0, 0, 0, 60>>
    \o U16(Len(r.rdata)) \o r.rdata

\* A question for name d, and a response to it with records rrs.
Question(d) == Labels(d) \o <<0, 0, 1, 0, 1>>
Response(d, rrs) ==
  Question(d) \o FlattenSeq([k \in DOMAIN rrs |-> Wire(Question(d), rrs[k])])

Datagram(q, rrs, bytes) ==
  [to |-> q.from, id |-> q.id, len |-> Header + Len(bytes),
   ancount |-> Len(rrs), bytes |-> bytes, rrs |-> rrs, of |-> q.of]

Answer(q) ==
  /\ \/ /\ AsksFor(q.bytes, QName(q.bytes))
        /\ \E rrs \in Answers :
             net' = net \cup {Datagram(q, rrs, q.bytes
                      \o FlattenSeq([k \in DOMAIN rrs |-> Wire(q.bytes, rrs[k])]))}
     \/ /\ ~ AsksFor(q.bytes, QName(q.bytes))
        /\ net' = net \cup {Datagram(q, <<>>, <<>>)}
  /\ UNCHANGED <<pc, locals, asked>>

-----------------------------------------------------------------------------
(* main, up to the answer.                                                 *)

Goto(p, place) == pc' = [pc EXCEPT ![p] = place]

Usage(p) ==
  /\ pc[p] = "start"
  /\ Goto(p, "exit1")
  /\ UNCHANGED <<locals, asked, net>>

\* encode_name tests the length of a label after it has stored the label, in
\* an array of MAX_LABEL_SEGMENT bytes, and that of the name after it has
\* stored the name, in one of EncodedSize bytes.
Overruns(d) == LongLabel(d) \/ Len(Labels(d)) + 1 > EncodedSize

Build(p, d) ==
  /\ pc[p] = "start"
  /\ \/ Goto(p, "socket")
     \/ Overruns(d) /\ Goto(p, "undefined")
  /\ domain' = [domain EXCEPT ![p] = d]
  /\ pkt' = [pkt EXCEPT ![p] = build_query(d)]
  /\ UNCHANGED <<port, got, pos, an, printed, asked, net>>

Socket(p) ==
  /\ pc[p] = "socket"
  /\ Goto(p, "send") \/ Goto(p, "exit1")
  /\ UNCHANGED <<locals, asked, net>>

\* sendto chooses a port and sends; or it fails, always if the length is -1,
\* and main goes on all the same.
Send(p) ==
  /\ pc[p] = "send"
  /\ \/ /\ pkt[p] # None
        /\ \E s \in Port \ {port[q] : q \in Process} :
             /\ port' = [port EXCEPT ![p] = s]
             /\ asked' = asked \cup {[from |-> s, id |-> Id(p),
                                      bytes |-> pkt[p], of |-> p]}
     \/ UNCHANGED <<port, asked>>
  /\ Goto(p, "wait")
  /\ UNCHANGED <<domain, pkt, got, pos, an, printed, net>>

\* recvfrom takes whatever datagram is the first to arrive, and close.
Recv(p) ==
  /\ pc[p] = "wait"
  /\ \E m \in net : m.to = port[p] /\ got' = [got EXCEPT ![p] = m]
  /\ port' = [port EXCEPT ![p] = None]
  /\ Goto(p, "header")
  /\ UNCHANGED <<domain, pkt, pos, an, printed, asked, net>>

\* Mutant: recvfrom is called again.
TimeoutRetried(p) == pc[p] = "wait" /\ UNCHANGED vars

\* The five seconds of SO_RCVTIMEO are over.
Timeout(p) ==
  /\ pc[p] = "wait"
  /\ port' = [port EXCEPT ![p] = None]
  /\ Goto(p, "exit1")
  /\ UNCHANGED <<domain, pkt, got, pos, an, printed, asked, net>>

-----------------------------------------------------------------------------
(* parse_response.                                                         *)

\* A datagram longer than resp is cut off.
len(p) == IF got[p].len <= RespSize THEN got[p].len ELSE RespSize
Byte(p, i) == got[p].bytes[i - Header + 1]
Word(p, i) == 256 * Byte(p, i) + Byte(p, i + 1)

\* Mutant: the identifier is not compared.
ParseHeaderAny(p) ==
  /\ pc[p] = "header"
  /\ \/ len(p) < Header /\ Goto(p, "exit0") /\ UNCHANGED pos
     \/ len(p) >= Header /\ Goto(p, "question") /\ pos' = [pos EXCEPT ![p] = Header]
  /\ UNCHANGED <<domain, pkt, port, got, an, printed, asked, net>>

ParseHeader(p) ==
  /\ pc[p] = "header"
  /\ \/ /\ len(p) < Header \/ got[p].id # Id(p)
        /\ Goto(p, "exit0")
        /\ UNCHANGED pos
     \/ /\ len(p) >= Header /\ got[p].id = Id(p)
        /\ Goto(p, "question")
        /\ pos' = [pos EXCEPT ![p] = Header]
  /\ UNCHANGED <<domain, pkt, port, got, an, printed, asked, net>>

\* The test of the loop over the answers.
NextAnswer(p, passed) == IF passed < got[p].ancount THEN "owner" ELSE "exit0"

\* Mutant: a pointer is taken for one byte.
AfterNameShort(p) ==
  CASE Byte(p, pos[p]) = 0 -> pos[p] + 1
    [] Byte(p, pos[p]) >= 192 -> pos[p] + 1
    [] OTHER -> pos[p] + 1 + Byte(p, pos[p])

\* Where skip_name goes from the length byte at pos: past the root label, a
\* pointer or an ordinary label.
AfterName(p) ==
  CASE Byte(p, pos[p]) = 0 -> pos[p] + 1
    [] Byte(p, pos[p]) >= 192 -> pos[p] + 2
    [] OTHER -> pos[p] + 1 + Byte(p, pos[p])

\* One round of the loop of skip_name.
SkipName(p) ==
  /\ pc[p] \in {"question", "owner"}
  /\ \/ /\ pos[p] >= len(p)
        /\ Goto(p, "exit0")
        /\ UNCHANGED pos
     \/ /\ pos[p] < len(p)
        /\ LET over == Byte(p, pos[p]) = 0 \/ Byte(p, pos[p]) >= 192
           IN CASE ~ over ->
                     UNCHANGED pc /\ pos' = [pos EXCEPT ![p] = AfterName(p)]
                [] over /\ pc[p] = "question" ->
                     /\ Goto(p, NextAnswer(p, 0))
                     /\ pos' = [pos EXCEPT ![p] = AfterName(p) + 4]
                [] over /\ pc[p] = "owner" ->
                     Goto(p, "record") /\ pos' = [pos EXCEPT ![p] = AfterName(p)]
  /\ UNCHANGED <<domain, pkt, port, got, an, printed, asked, net>>

\* Mutant: the length of the data is not looked at.
IsAddressAnyLength(p) == Word(p, pos[p]) = DNS_TYPE_A

IsAddress(p) == Word(p, pos[p]) = DNS_TYPE_A /\ Word(p, pos[p] + 8) = 4

\* The ten bytes of type, class, ttl and rdlen, and the address if it is one:
\* read without a look at len.
Record(p) ==
  LET at == pos[p] + 10
      inside == at <= len(p) /\ (IsAddress(p) => at + 4 <= len(p))
  IN /\ pc[p] = "record"
     /\ \/ /\ ~ inside
           /\ Goto(p, "undefined")
           /\ UNCHANGED <<pos, an, printed>>
        \/ /\ inside
           /\ printed' = IF ~ IsAddress(p) THEN printed
                         ELSE [printed EXCEPT ![p] =
                                 Append(@, [k \in 1 .. 4 |-> Byte(p, at + k - 1)])]
           /\ pos' = [pos EXCEPT ![p] = at + Word(p, at - 2)]
           /\ an' = [an EXCEPT ![p] = @ + 1]
           /\ Goto(p, NextAnswer(p, an[p] + 1))
     /\ UNCHANGED <<domain, pkt, port, got, asked, net>>

-----------------------------------------------------------------------------
\* The program of process p, for the fairness of the scheduler and the clock.
Main(p) ==
  \/ Usage(p) \/ \E d \in Domain : Build(p, d)
  \/ Socket(p) \/ Send(p) \/ Recv(p) \/ Timeout(p)
  \/ ParseHeader(p) \/ SkipName(p) \/ Record(p)

Over == (\A p \in Process : pc[p] \in Ended) /\ UNCHANGED vars

Next ==
  \/ \E p \in Process : Main(p)
  \/ \E q \in asked : Answer(q)
  \/ Over

Spec == Init /\ [][Next]_vars
FairSpec == Spec /\ \A p \in Process : WF_vars(Main(p))

-----------------------------------------------------------------------------
(* Properties.                                                             *)

\* What the program relies on to tell its own answer from that of another
\* process: they have identifiers of their own.
DistinctIds == \A p, q \in Process : Id(p) = Id(q) => p = q

\* Message m holds what it promises: no records, or a question and the number
\* of records in its header, with their data, up to its end.
Intact(m) ==
  \/ m.ancount = 0 /\ m.rrs = <<>>
  \/ /\ m.ancount = Len(m.rrs) /\ m.len = Header + Len(m.bytes)
     /\ \E d \in Domain : /\ \A k \in DOMAIN d : d[k] \in 1 .. MAX_LABEL_SEGMENT
                          /\ m.bytes = Response(d, m.rrs)

(* The resolver is asked what the user asked: a question that is sent,     *)
(* read label by label, has the name on the command line, type A and class *)
(* IN, and ends there (main.c 35-91).  A name with an empty label, such as *)
(* one that ends in a dot, is the exception.                               *)
AsksRight ==
  \A q \in asked :
    (\A k \in DOMAIN domain[q.of] : domain[q.of][k] > 0) =>
      AsksFor(q.bytes, domain[q.of])

(* What is printed answers the query of this process, never a late answer  *)
(* to that of another one (main.c 153-156).  A datagram that answers no    *)
(* query is only taken for the answer if it has the identifier of this     *)
(* process: nothing else is compared, not even the address it came from.   *)
OwnAnswer ==
  \A p \in Process : pc[p] \in {"owner", "record"} \/ printed[p] # <<>> =>
    got[p].of = p \/ (got[p].of = None /\ got[p].id = Id(p))

\* The addresses among records rrs, in order.
Addresses(rrs) ==
  LET IsA(r) == r.type = DNS_TYPE_A /\ Len(r.rdata) = 4
  IN FlattenSeq([k \in DOMAIN rrs |->
                   IF IsA(rrs[k]) THEN <<rrs[k].rdata>> ELSE <<>>])

(* The walk over an intact response prints the addresses of its answer     *)
(* section, in order, whatever names and records lie between them, and all *)
(* of them if the response fits resp (main.c 167-188).                     *)
PrintsAnswer ==
  \A p \in Process : got[p] # None /\ Intact(got[p]) =>
    /\ IsPrefix(printed[p], Addresses(got[p].rrs))
    /\ pc[p] = "exit0" /\ got[p].id = Id(p) /\ got[p].len <= RespSize =>
         printed[p] = Addresses(got[p].rrs)

(* How far parse_response may leave the datagram, given that lines 172-183 *)
(* of main.c read the fields and the address of a record without a look at *)
(* len.  Whatever arrives, and whatever lengths it claims, the last record *)
(* looked at begins at most one byte beyond len, so that its 14 bytes end  *)
(* at most 15 beyond: only the test of skip_name (122) sees to that.  And  *)
(* an intact response that fits resp is read within len.  One that is cut  *)
(* off at the end of resp, or that a datagram with the right identifier    *)
(* only pretends to be, is read beyond it.  The other way to leave an      *)
(* array is a name that is too long, or has a label that is, stored before *)
(* it is measured (45, 51).                                                *)
InBounds ==
  \A p \in Process :
    /\ pc[p] \in {"record", "undefined"} /\ got[p] # None => pos[p] <= len(p) + 1
    /\ pc[p] = "undefined" =>
         \/ Overruns(domain[p])
         \/ ~ Intact(got[p])
         \/ got[p].len > RespSize

(* "Before reading buf[pos] or buf[pos..pos+N], verify pos + N <= len"     *)
(* (CHALLENGE.md 228): no datagram is read beyond its length.  The code    *)
(* does not have this property, for lines 172-183 of main.c verify nothing.*)
BoundsChecked ==
  \A p \in Process : pc[p] = "undefined" => Overruns(domain[p])

(* Every process ends, whatever the network loses ("Don't hang forever if  *)
(* the resolver doesn't answer", main.c 206; criterion 3).                 *)
Termination == \A p \in Process : <>(pc[p] \in Ended)
=============================================================================
