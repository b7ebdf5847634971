---------------------------- MODULE ReactorProofs ---------------------------
(***************************************************************************)
(* Proofs about Reactor, for any number of clients, descriptors, events    *)
(* and bytes, with resets and failing calls: descriptors are not leaked or *)
(* mixed up, no event is lost and, as long as the kernel takes what the    *)
(* server writes, clients get back what they sent.                         *)
(***************************************************************************)
EXTENDS Reactor, FiniteSetTheorems, SequenceTheorems, WellFoundedInduction,
        TLAPS

\* The server is in main's loop over events.
Busy == pc \in {"dispatch", "accept", "add", "read", "write"}

\* The events not yet handled, that of the running handler included.
Pending == IF Busy THEN i .. Len(events) ELSE {}

Awaited(f) == \E k \in Pending : events[k].fd = f

Distinct(s) == \A k, l \in DOMAIN s : s[k] = s[l] => k = l

\* What each handler may rely on.
Handler ==
  /\ pc \in {"boot", "register"} => watched = {}
  /\ pc \in {"accept", "add", "read", "write"} =>
       i <= Len(events) /\ ~ events[i].hup
  /\ pc \in {"accept", "add"} => events[i].fd = listenfd
  /\ pc \in {"read", "write"} => events[i].fd = fd
  /\ pc \in {"add", "read", "write"} => fd \in Fd /\ fds[fd] \in Client

\* Events not yet handled are about different descriptors, in use and
\* registered.
Events ==
  \A k \in Pending :
    /\ events[k].hup => events[k].fd # listenfd
    /\ events[k].fd # listenfd =>
         /\ events[k].of \in Client /\ fds[events[k].fd] = events[k].of
         /\ events[k].fd \in watched
    /\ \A l \in Pending : events[k].fd = events[l].fd => k = l

Queues ==
  /\ Distinct(ready) /\ Distinct(acceptq)
  /\ \A c \in Client : conn[c].st = "queued" <=> Holds(acceptq, c)

\* Bytes are read after they are sent, echoed after they are read, received
\* after they are echoed; the handler has read what it is about to write.
Bytes ==
  /\ \A c \in Client :
       /\ conn[c].got <= Len(conn[c].echo)
       /\ Len(conn[c].echo) <= conn[c].taken /\ conn[c].taken <= conn[c].sent
       /\ conn[c].st \in {"none", "queued"} => conn[c].taken = 0
  /\ pc = "write" =>
       /\ buf[1] <= buf[2] /\ buf[2] = conn[fds[fd]].taken
       /\ Len(conn[fds[fd]].echo) < buf[1]

\* What there is to report about a registered socket is on its way.
Noticed ==
  pc # "killed" =>
    \A f \in watched \ {listenfd} :
      Reportable(f) => Holds(ready, f) \/ Awaited(f)

IInv == TypeOK /\ Handler /\ Events /\ Queues /\ FdTable /\ Bytes /\ Noticed

-----------------------------------------------------------------------------
(* Lists and minima.                                                       *)

(* A set of natural numbers that is not empty has a smallest element.      *)
LEMMA MinOfNaturals ==
  ASSUME NEW T \in SUBSET Nat, T # {}
  PROVE  Min(T) \in T
<1> DEFINE Less == OpToRel(<, Nat)
<1>1. \E x \in T : \A y \in T : <<y, x>> \notin Less
  <2>1. IsWellFoundedOn(Less, Nat)
    BY NatLessThanWellFounded
  <2> HIDE DEF Less
  <2> QED BY <2>1, WFMin
<1>2. \A x, y \in Nat : <<y, x>> \notin Less => x <= y
  BY DEF OpToRel
<1>3. \E x \in T : \A y \in T : x <= y
  BY <1>1, <1>2
<1> QED BY <1>3 DEF Min

(* What read and write transfer: the smaller of two numbers.               *)
LEMMA MinOfTwo ==
  ASSUME NEW x \in Int, NEW y \in Int
  PROVE  Min({x, y}) = IF x <= y THEN x ELSE y
<1>1. \E z \in {x, y} : \A w \in {x, y} : z <= w
  OBVIOUS
<1>2. Min({x, y}) \in {x, y} /\ \A w \in {x, y} : Min({x, y}) <= w
  BY <1>1 DEF Min
<1> QED BY <1>2

(* Kept keeps what it is told to keep, and each position once.             *)
LEMMA KeptProperties ==
  ASSUME NEW T, NEW s \in Seq(T), NEW S
  PROVE  /\ Kept(s, S) \in Seq(T \cap S)
         /\ \A x : Holds(Kept(s, S), x) <=> Holds(s, x) /\ x \in S
         /\ Distinct(s) => Distinct(Kept(s, S))
<1> DEFINE at == {k \in DOMAIN s : s[k] \in S}
           Below(k) == {j \in at : j <= k}
           Rank(k) == Cardinality(Below(k))
           N == Cardinality(at)
           Place(n) == CHOOSE k \in at : Rank(k) = n
<1>1. at \subseteq 1 .. Len(s) /\ Len(s) \in Nat
  OBVIOUS
<1>2. IsFiniteSet(at) /\ N \in Nat
  <2>1. IsFiniteSet(1 .. Len(s))
    BY <1>1, FS_Interval
  <2> HIDE DEF at
  <2>2. IsFiniteSet(at)
    BY <1>1, <2>1, FS_Subset
  <2> QED BY <2>2, FS_CardinalityType
<1>3. \A k \in at : /\ IsFiniteSet(Below(k)) /\ Rank(k) \in 1 .. N
  <2> TAKE k \in at
  <2>1. Below(k) \in SUBSET at /\ k \in Below(k)
    BY <1>1
  <2>2. IsFiniteSet(Below(k)) /\ Rank(k) <= N
    BY <1>2, <2>1, FS_Subset
  <2>3. Rank(k) \in Nat /\ Rank(k) # 0
    BY <2>1, <2>2, FS_CardinalityType, FS_EmptySet
  <2> QED BY <1>2, <2>2, <2>3
<1>4. ASSUME NEW k \in at, NEW l \in at, k < l PROVE Rank(k) # Rank(l)
  <2>1. Below(k) \in SUBSET Below(l) /\ l \in Below(l) /\ l \notin Below(k)
    BY <1>1, <1>4
  <2>2. Below(k) # Below(l)
    BY <2>1
  <2> QED BY <1>3, <2>1, <2>2, FS_Subset
<1>5. \A k, l \in at : Rank(k) = Rank(l) => k = l
  <2> SUFFICES ASSUME NEW k \in at, NEW l \in at, Rank(k) = Rank(l), k # l
               PROVE  FALSE
    OBVIOUS
  <2>1. k < l \/ l < k
    BY <1>1
  <2> HIDE DEF Rank, at
  <2> QED BY <1>4, <2>1
<1>6. \A n \in 1 .. N : \E k \in at : Rank(k) = n
  <2> DEFINE r == [k \in at |-> Rank(k)]
  <2>1. r \in Injection(at, 1 .. N)
    <3> HIDE DEF Rank, N, at
    <3> QED BY <1>3, <1>5 DEF Injection, IsInjective
  <2>2. IsFiniteSet(1 .. N) /\ Cardinality(1 .. N) = N
    BY <1>2, FS_Interval
  <2> HIDE DEF r
  <2>3. r \in Surjection(at, 1 .. N)
    BY <2>1, <2>2, FS_Injection
  <2> HIDE DEF Rank, N, at
  <2>4. \A k \in at : r[k] = Rank(k)
    BY DEF r
  <2> QED BY <2>3, <2>4 DEF Surjection
<1>7. \A n \in 1 .. N : Place(n) \in at /\ Rank(Place(n)) = n
  <2> HIDE DEF Rank, N, at
  <2> QED BY <1>6
<1>8. Kept(s, S) = [n \in 1 .. N |-> s[Place(n)]]
  BY DEF Kept
<1> DEFINE t == Kept(s, S)
<1>9. /\ DOMAIN t = 1 .. N
      /\ \A n \in 1 .. N : t[n] = s[Place(n)] /\ Place(n) \in DOMAIN s /\ t[n] \in T \cap S
  <2>1. \A n \in 1 .. N : Place(n) \in DOMAIN s /\ s[Place(n)] \in S
    <3> HIDE DEF Place, N, Rank
    <3> QED BY <1>7
  <2> HIDE DEF Place, N, at
  <2> QED BY <1>8, <2>1
<1>10. t \in Seq(T \cap S)
  <2> HIDE DEF t, Place, N, at
  <2> QED BY <1>2, <1>8, <1>9 DEF t
<1>11. ASSUME NEW x PROVE Holds(t, x) <=> Holds(s, x) /\ x \in S
  <2>1. ASSUME NEW k \in DOMAIN s, s[k] = x, x \in S PROVE Holds(t, x)
    <3>1. k \in at
      BY <2>1
    <3>2. Rank(k) \in 1 .. N /\ Place(Rank(k)) = k
      <4> HIDE DEF Rank, N, at
      <4> QED BY <1>3, <1>5, <1>7, <3>1
    <3> HIDE DEF t, Place, N, at, Rank
    <3> QED BY <1>9, <2>1, <3>2 DEF Holds
  <2>2. ASSUME Holds(t, x) PROVE Holds(s, x) /\ x \in S
    <3> HIDE DEF t, Place, N, at, Rank
    <3> QED BY <1>9, <2>2 DEF Holds
  <2> QED BY <2>1, <2>2 DEF Holds
<1>12. ASSUME Distinct(s) PROVE Distinct(t)
  <2> HIDE DEF t, Place, N, at, Rank
  <2> SUFFICES ASSUME NEW k \in 1 .. N, NEW l \in 1 .. N, t[k] = t[l] PROVE k = l
    BY <1>9 DEF Distinct
  <2>1. Place(k) = Place(l)
    BY <1>9, <1>12 DEF Distinct
  <2> QED BY <1>7, <2>1
<1> QED BY <1>10, <1>11, <1>12

(* A list grows by one member at its end, shrinks by one at its head.      *)
LEMMA GrowsAtEnd ==
  ASSUME NEW T, NEW s \in Seq(T), NEW x \in T, NEW t, t = Append(s, x)
  PROVE  /\ t \in Seq(T)
         /\ \A y : Holds(t, y) <=> Holds(s, y) \/ y = x
         /\ Distinct(s) /\ ~ Holds(s, x) => Distinct(t)
<1>1. /\ t \in Seq(T) /\ DOMAIN t = 1 .. Len(s) + 1 /\ DOMAIN s = 1 .. Len(s)
      /\ t[Len(s) + 1] = x /\ \A k \in 1 .. Len(s) : t[k] = s[k]
  OBVIOUS
<1>2. Len(s) \in Nat
  OBVIOUS
<1>3. \A k \in DOMAIN t : k = Len(s) + 1 \/ k \in DOMAIN s
  BY <1>1, <1>2
<1>4. \A k \in DOMAIN s : k \in DOMAIN t
  BY <1>1, <1>2
<1>5. Len(s) + 1 \in DOMAIN t
  BY <1>1, <1>2
<1>6. \A y : Holds(t, y) <=> Holds(s, y) \/ y = x
  BY <1>1, <1>3, <1>4, <1>5 DEF Holds
<1>7. Distinct(s) /\ ~ Holds(s, x) => Distinct(t)
  BY <1>1, <1>3, <1>4 DEF Holds, Distinct
<1> QED BY <1>1, <1>6, <1>7

LEMMA ShrinksAtHead ==
  ASSUME NEW T, NEW s \in Seq(T), s # <<>>
  PROVE  /\ Head(s) \in T /\ Holds(s, Head(s)) /\ Tail(s) \in Seq(T)
         /\ Distinct(s) =>
              /\ Distinct(Tail(s))
              /\ \A y : Holds(Tail(s), y) <=> Holds(s, y) /\ y # Head(s)
<1>1. /\ Len(s) \in Nat \ {0} /\ Head(s) = s[1] /\ Tail(s) \in Seq(T)
      /\ Len(Tail(s)) = Len(s) - 1
      /\ \A k \in 1 .. Len(s) - 1 : Tail(s)[k] = s[k + 1]
  BY HeadTailProperties
<1>2. DOMAIN s = 1 .. Len(s) /\ DOMAIN Tail(s) = 1 .. Len(s) - 1
  BY <1>1
<1>3. Head(s) \in T /\ Holds(s, Head(s))
  BY <1>1, <1>2 DEF Holds
<1>4. ASSUME Distinct(s) PROVE Distinct(Tail(s))
  <2> SUFFICES ASSUME NEW k \in 1 .. Len(s) - 1, NEW l \in 1 .. Len(s) - 1,
                      Tail(s)[k] = Tail(s)[l]
               PROVE  k = l
    BY <1>2 DEF Distinct
  <2>1. s[k + 1] = s[l + 1] /\ k + 1 \in 1 .. Len(s) /\ l + 1 \in 1 .. Len(s)
    BY <1>1
  <2>2. k + 1 = l + 1
    BY <1>2, <1>4, <2>1 DEF Distinct
  <2> QED BY <1>1, <2>2
<1>5. ASSUME Distinct(s), NEW y
      PROVE  Holds(Tail(s), y) <=> Holds(s, y) /\ y # Head(s)
  <2>1. ASSUME NEW k \in 1 .. Len(s) - 1, Tail(s)[k] = y
        PROVE  Holds(s, y) /\ y # Head(s)
    <3>1. k + 1 \in DOMAIN s /\ 1 \in DOMAIN s /\ k + 1 # 1 /\ s[k + 1] = y
      BY <1>1, <1>2, <2>1
    <3> QED BY <1>1, <1>5, <3>1 DEF Holds, Distinct
  <2>2. ASSUME NEW k \in 1 .. Len(s), s[k] = y, y # Head(s)
        PROVE  Holds(Tail(s), y)
    <3>1. k - 1 \in 1 .. Len(s) - 1 /\ (k - 1) + 1 = k
      BY <1>1, <2>2
    <3>2. Tail(s)[k - 1] = y
      BY <1>1, <2>2, <3>1
    <3> QED BY <1>2, <3>1, <3>2 DEF Holds
  <2> QED BY <1>2, <2>1, <2>2 DEF Holds
<1> QED BY <1>1, <1>3, <1>4, <1>5

-----------------------------------------------------------------------------
(* The ready list.                                                         *)

(* After an event on a registered descriptor it is in the ready list, and  *)
(* once.                                                                   *)
LEMMA EdgeProperties ==
  ASSUME ready \in Seq(watched), Distinct(ready), NEW f
  PROVE  /\ Edge(f) \in Seq(watched) /\ Distinct(Edge(f))
         /\ \A g : Holds(ready, g) => Holds(Edge(f), g)
         /\ f \in watched => Holds(Edge(f), f)
<1>1. CASE f \in watched /\ ~ Holds(ready, f)
  <2>1. Edge(f) = Append(ready, f)
    BY <1>1 DEF Edge
  <2>2. /\ Edge(f) \in Seq(watched)
        /\ \A y : Holds(Edge(f), y) <=> Holds(ready, y) \/ y = f
        /\ Distinct(ready) /\ ~ Holds(ready, f) => Distinct(Edge(f))
    BY <1>1, <2>1, GrowsAtEnd
  <2> QED BY <1>1, <2>2
<1>2. CASE ~ (f \in watched /\ ~ Holds(ready, f))
  BY <1>2 DEF Edge
<1> QED BY <1>1, <1>2

LEMMA EdgeOnProperties ==
  ASSUME ready \in Seq(watched), Distinct(ready), FdTable, NEW c \in Client
  PROVE  /\ EdgeOn(c) \in Seq(watched) /\ Distinct(EdgeOn(c))
         /\ \A g : Holds(ready, g) => Holds(EdgeOn(c), g)
         /\ \A f \in Fd : f \in watched /\ fds[f] = c => Holds(EdgeOn(c), f)
<1> DEFINE S == {f \in Fd : fds[f] = c}
<1>1. CASE S = {}
  <2>1. EdgeOn(c) = ready
    BY <1>1 DEF EdgeOn
  <2> QED BY <1>1, <2>1
<1>2. CASE S # {}
  <2>1. PICK h \in S : h = CHOOSE f \in S : TRUE
    BY <1>2
  <2>2. EdgeOn(c) = Edge(h)
    BY <1>2, <2>1 DEF EdgeOn
  <2>3. \A f \in Fd : fds[f] = c => f = h
    BY <2>1, NoneAssumption DEF FdTable
  <2> QED BY <2>2, <2>3, EdgeProperties
<1> QED BY <1>1, <1>2

(* What epoll would report of a socket depends on its connection only.     *)
LEMMA ReportableSame ==
  ASSUME NEW f \in Fd, fds'[f] = fds[f], conn'[fds[f]] = conn[fds[f]]
  PROVE  Reportable(f)' = Reportable(f)
<1>1. f # listenfd
  BY BoundsAssumption DEF Fd, listenfd
<1> QED BY <1>1 DEF Reportable, Unread

-----------------------------------------------------------------------------
(* The invariant holds at first.                                           *)
LEMMA Initially == Init => IInv
<1> SUFFICES ASSUME Init PROVE IInv
  OBVIOUS
<1>1. TypeOK
  <2>1. conn \in [Client -> Connection]
    BY BoundsAssumption DEF Init, Connection
  <2> QED BY <2>1, BoundsAssumption DEF Init, TypeOK, Places, Fd, listenfd
<1>2. ready = <<>> /\ acceptq = <<>> /\ watched = {} /\ pc = "boot" /\ Pending = {}
  BY DEF Init, Pending, Busy
<1>3. \A c \in Client : /\ conn[c].st = "none" /\ conn[c].got = 0 /\ conn[c].taken = 0
                        /\ conn[c].sent = 0 /\ conn[c].echo = <<>>
  BY DEF Init
<1>4. Handler /\ Events /\ Noticed
  BY <1>2 DEF Handler, Events, Noticed
<1>5. Queues
  BY <1>2, <1>3 DEF Queues, Distinct, Holds
<1>6. FdTable
  <2>1. \A f \in Fd : fds[f] = None
    BY DEF Init
  <2> QED BY <1>2, <1>3, <2>1, NoneAssumption DEF FdTable
<1>7. Bytes
  BY <1>2, <1>3 DEF Bytes
<1> QED BY <1>1, <1>4, <1>5, <1>6, <1>7 DEF IInv

(* The server moves on and touches neither the kernel nor a connection:    *)
(* enough that it drops only events that leave nothing to report.          *)
LEMMA Moves ==
  ASSUME IInv, UNCHANGED <<events, buf, kernel, conn>>,
         pc \notin {"add", "killed"}, pc' \in Places \ {"add", "write"},
         i' \in 1 .. Len(events) + 1, fd' \in Fd \cup {listenfd},
         Handler', Pending' \subseteq Pending,
         pc' # "killed" =>
           \A f \in Fd : Awaited(f) /\ Reportable(f) => Awaited(f)'
  PROVE  IInv'
<1>0. UNCHANGED <<fds, watched, ready, acceptq>>
  BY DEF kernel
<1>1. TypeOK'
  BY <1>0 DEF IInv, TypeOK
<1>2. Events'
  BY <1>0 DEF IInv, Events
<1>3. Queues'
  BY <1>0 DEF IInv, Queues, Holds, Distinct
<1>4. FdTable'
  BY <1>0 DEF IInv, FdTable
<1>5. Bytes'
  BY <1>0 DEF IInv, Bytes
<1>6. Noticed'
  <2> SUFFICES ASSUME pc' # "killed", NEW f \in watched \ {listenfd}, Reportable(f)'
               PROVE  Holds(ready, f) \/ Awaited(f)'
    BY <1>0 DEF Noticed, Holds
  <2>1. f \in Fd
    BY DEF IInv, TypeOK
  <2>2. Reportable(f)
    BY <1>0, <2>1, ReportableSame
  <2> QED BY <2>1, <2>2 DEF IInv, Noticed
<1> QED BY <1>1, <1>2, <1>3, <1>4, <1>5, <1>6 DEF IInv

(* The types of the fields.                                                *)
LEMMA EventType ==
  ASSUME TypeOK, NEW k \in 1 .. Len(events)
  PROVE  /\ events[k] \in Event /\ events[k].fd \in Fd \cup {listenfd}
         /\ events[k].hup \in BOOLEAN /\ events[k].of \in Client \cup {None}
<1>1. events[k] \in Event
  BY DEF TypeOK
<1> QED BY <1>1 DEF Event

LEMMA ConnType ==
  ASSUME TypeOK, NEW c \in Client
  PROVE  /\ conn[c] \in Connection
         /\ conn[c].st \in {"none", "queued", "open", "closed"}
         /\ conn[c].sent \in 0 .. MaxSend /\ conn[c].taken \in 0 .. MaxSend
         /\ conn[c].got \in 0 .. MaxSend /\ conn[c].echo \in Seq(1 .. MaxSend)
         /\ conn[c].eof \in BOOLEAN /\ conn[c].rst \in BOOLEAN
<1>1. conn[c] \in Connection
  BY DEF TypeOK
<1> QED BY <1>1 DEF Connection

(* One field of a connection changes.                                      *)
LEMMA StateSet ==
  ASSUME conn \in [Client -> Connection], NEW c \in Client, NEW v \in {"none", "queued", "open", "closed"},
         conn' = [conn EXCEPT ![c].st = v]
  PROVE  /\ conn' \in [Client -> Connection]
         /\ \A d \in Client : d # c => conn'[d] = conn[d]
         /\ conn'[c].st = v
         /\ conn'[c].sent = conn[c].sent /\ conn'[c].taken = conn[c].taken
         /\ conn'[c].got = conn[c].got /\ conn'[c].echo = conn[c].echo
         /\ conn'[c].eof = conn[c].eof /\ conn'[c].rst = conn[c].rst
<1>1. PICK r : r = [conn[c] EXCEPT !.st = v]
  OBVIOUS
<1>2. conn[c] \in Connection
  OBVIOUS
<1>3. /\ r \in Connection /\ r.st = v
      /\ r.sent = conn[c].sent /\ r.taken = conn[c].taken /\ r.got = conn[c].got
      /\ r.echo = conn[c].echo /\ r.eof = conn[c].eof /\ r.rst = conn[c].rst
  BY <1>1, <1>2 DEF Connection
<1>4. conn' = [conn EXCEPT ![c] = r]
  BY <1>1
<1> QED BY <1>3, <1>4

LEMMA TakenSet ==
  ASSUME conn \in [Client -> Connection], NEW c \in Client, NEW v \in 0 .. MaxSend,
         conn' = [conn EXCEPT ![c].taken = v]
  PROVE  /\ conn' \in [Client -> Connection]
         /\ \A d \in Client : d # c => conn'[d] = conn[d]
         /\ conn'[c].taken = v
         /\ conn'[c].st = conn[c].st /\ conn'[c].sent = conn[c].sent
         /\ conn'[c].got = conn[c].got /\ conn'[c].echo = conn[c].echo
         /\ conn'[c].eof = conn[c].eof /\ conn'[c].rst = conn[c].rst
<1>1. PICK r : r = [conn[c] EXCEPT !.taken = v]
  OBVIOUS
<1>2. conn[c] \in Connection
  OBVIOUS
<1>3. /\ r \in Connection /\ r.taken = v
      /\ r.st = conn[c].st /\ r.sent = conn[c].sent /\ r.got = conn[c].got
      /\ r.echo = conn[c].echo /\ r.eof = conn[c].eof /\ r.rst = conn[c].rst
  BY <1>1, <1>2 DEF Connection
<1>4. conn' = [conn EXCEPT ![c] = r]
  BY <1>1
<1> QED BY <1>3, <1>4

LEMMA EchoSet ==
  ASSUME conn \in [Client -> Connection], NEW c \in Client, NEW v \in Seq(1 .. MaxSend),
         conn' = [conn EXCEPT ![c].echo = v]
  PROVE  /\ conn' \in [Client -> Connection]
         /\ \A d \in Client : d # c => conn'[d] = conn[d]
         /\ conn'[c].echo = v
         /\ conn'[c].st = conn[c].st /\ conn'[c].sent = conn[c].sent
         /\ conn'[c].taken = conn[c].taken /\ conn'[c].got = conn[c].got
         /\ conn'[c].eof = conn[c].eof /\ conn'[c].rst = conn[c].rst
<1>1. PICK r : r = [conn[c] EXCEPT !.echo = v]
  OBVIOUS
<1>2. conn[c] \in Connection
  OBVIOUS
<1>3. /\ r \in Connection /\ r.echo = v
      /\ r.st = conn[c].st /\ r.sent = conn[c].sent /\ r.taken = conn[c].taken
      /\ r.got = conn[c].got /\ r.eof = conn[c].eof /\ r.rst = conn[c].rst
  BY <1>1, <1>2 DEF Connection
<1>4. conn' = [conn EXCEPT ![c] = r]
  BY <1>1
<1> QED BY <1>3, <1>4

(* main before its loop, and where epoll_wait is called again.             *)
LEMMA SetupSteps ==
  ASSUME IInv, create_listen_socket \/ SetupFails \/ RegisterFails \/ DispatchEnd
  PROVE  IInv'
<1>1. /\ UNCHANGED <<events, i, fd, buf, kernel, conn>>
      /\ pc \notin {"add", "killed"}
      /\ pc' \in {"register", "exit", "wait"} /\ pc \in {"boot", "register", "dispatch"}
  BY DEF create_listen_socket, SetupFails, RegisterFails, DispatchEnd
<1>2. Pending' = {}
  BY <1>1 DEF Pending, Busy
<1>3. Pending = {}
  BY DEF create_listen_socket, SetupFails, RegisterFails, DispatchEnd, Pending, Busy,
         IInv, TypeOK
<1>4. Handler'
  BY <1>1 DEF IInv, Handler, kernel, create_listen_socket, SetupFails, RegisterFails,
              DispatchEnd
<1>5. pc' \in Places \ {"add", "write"} /\ i' \in 1 .. Len(events) + 1
      /\ fd' \in Fd \cup {listenfd}
  BY <1>1 DEF IInv, TypeOK, Places
<1> QED BY <1>1, <1>2, <1>3, <1>4, <1>5, Moves DEF Awaited

(* main's loop hands an event to its handler.                              *)
LEMMA DispatchSteps ==
  ASSUME IInv, DispatchNew \/ DispatchData
  PROVE  IInv'
<1>1. /\ UNCHANGED <<events, i, buf, kernel, conn>>
      /\ pc = "dispatch" /\ pc' \in {"accept", "read"} /\ i <= Len(events)
      /\ ~ events[i].hup
      /\ pc' = "accept" => events[i].fd = listenfd /\ fd' = fd
      /\ pc' = "read" => events[i].fd # listenfd /\ fd' = events[i].fd
  BY DEF DispatchNew, DispatchData
<1>2. Pending' = Pending /\ i \in Pending
  BY <1>1 DEF Pending, Busy, IInv, TypeOK
<1>3. \A f : Awaited(f)' = Awaited(f)
  BY <1>1, <1>2 DEF Awaited
<1>4. events[i].fd \in Fd \cup {listenfd}
  <2>1. i \in 1 .. Len(events)
    BY <1>1 DEF IInv, TypeOK
  <2> QED BY <2>1, EventType DEF IInv
<1>5. fd' \in Fd \cup {listenfd}
  BY <1>1, <1>4 DEF IInv, TypeOK
<1>6. Handler'
  <2>1. CASE pc' = "accept"
    BY <1>1, <2>1 DEF Handler
  <2>2. CASE pc' = "read"
    <3>1. fds[events[i].fd] \in Client
      BY <1>1, <1>2, <2>2 DEF IInv, Events
    <3>2. fds' = fds
      BY <1>1 DEF kernel
    <3> QED BY <1>1, <1>4, <2>2, <3>1, <3>2 DEF Handler
  <2> QED BY <1>1, <2>1, <2>2
<1>7. pc' \in Places \ {"add", "write"} /\ i' \in 1 .. Len(events) + 1
  BY <1>1 DEF IInv, TypeOK, Places
<1> QED BY <1>1, <1>2, <1>3, <1>5, <1>6, <1>7, Moves

(* A handler returns after which nothing is left to report: accept4 is for *)
(* the listening socket, and read has found its socket empty.              *)
LEMMA ReturnSteps ==
  ASSUME IInv, AcceptFails \/ ReadAgain
  PROVE  IInv'
<1>1. /\ UNCHANGED <<events, fd, buf, kernel, conn>>
      /\ pc \in {"accept", "read"} /\ pc' = "dispatch" /\ i' = i + 1
      /\ pc = "read" => /\ Unread(fds[fd]) = 0 /\ ~ conn[fds[fd]].eof
                        /\ ~ conn[fds[fd]].rst
  BY DEF AcceptFails, ReadAgain, NextEvent
<1>2. /\ i \in 1 .. Len(events) /\ Len(events) \in Nat
      /\ pc = "accept" => events[i].fd = listenfd
      /\ pc = "read" => events[i].fd = fd /\ fd \in Fd
  BY <1>1 DEF IInv, Handler, TypeOK
<1>3. Pending' \subseteq Pending /\ Pending \subseteq {i} \cup Pending'
  BY <1>1, <1>2 DEF Pending, Busy
<1>4. \A f \in Fd : Awaited(f) /\ Reportable(f) => Awaited(f)'
  <2> SUFFICES ASSUME NEW f \in Fd, Awaited(f), Reportable(f), ~ Awaited(f)'
               PROVE  FALSE
    OBVIOUS
  <2>1. f # listenfd
    BY BoundsAssumption DEF Fd, listenfd
  <2>2. events[i].fd = f
    BY <1>1, <1>3 DEF Awaited
  <2>3. pc = "read" /\ f = fd
    BY <1>1, <1>2, <2>1, <2>2
  <2>4. Unread(fds[f]) > 0
    BY <1>1, <2>1, <2>3 DEF Reportable
  <2> QED BY <1>1, <2>3, <2>4
<1>5. Handler'
  BY <1>1 DEF Handler
<1>6. pc' \in Places \ {"add", "write"} /\ i' \in 1 .. Len(events) + 1
  BY <1>1, <1>2 DEF Places
<1>7. fd' \in Fd \cup {listenfd}
  BY <1>1 DEF IInv, TypeOK
<1> QED BY <1>1, <1>3, <1>4, <1>5, <1>6, <1>7, Moves

(* A signal ends the process.                                              *)
LEMMA SignalStep == ASSUME IInv, WriteSignalled PROVE IInv'
<1>1. /\ UNCHANGED <<events, i, fd, buf, kernel, conn>>
      /\ pc = "write" /\ pc' = "killed"
  BY DEF WriteSignalled
<1>2. Pending' = {} /\ Handler'
  BY <1>1 DEF Pending, Busy, Handler
<1>3. pc' \in Places \ {"add", "write"} /\ i' \in 1 .. Len(events) + 1
      /\ fd' \in Fd \cup {listenfd}
  BY <1>1 DEF IInv, TypeOK, Places
<1> QED BY <1>1, <1>2, <1>3, Moves

-----------------------------------------------------------------------------
(* The clients.                                                            *)

(* The client of connection c does something to it that the server has not *)
(* seen yet; enough that the socket is in the ready list then.             *)
LEMMA Touches ==
  ASSUME IInv, NEW c \in Client, UNCHANGED <<server, fds, watched, acceptq>>,
         conn' \in [Client -> Connection],
         \A d \in Client \ {c} : conn'[d] = conn[d],
         conn'[c].st = conn[c].st, conn'[c].taken = conn[c].taken,
         conn'[c].echo = conn[c].echo, conn'[c].sent >= conn[c].taken,
         conn'[c].got <= Len(conn[c].echo),
         ready' \in Seq(watched), Distinct(ready'),
         \A g : Holds(ready, g) => Holds(ready', g),
         \A f \in Fd : f \in watched /\ fds[f] = c /\ Reportable(f)' =>
                         Holds(ready', f) \/ Reportable(f)
  PROVE  IInv'
<1>0. UNCHANGED <<pc, events, i, fd, buf, fds, watched, acceptq>>
  BY DEF server
<1>1. \A d \in Client : /\ conn'[d].st = conn[d].st
                        /\ conn'[d].taken = conn[d].taken
                        /\ conn'[d].echo = conn[d].echo
  OBVIOUS
<1>2. Pending' = Pending /\ \A f : Awaited(f)' = Awaited(f)
  BY <1>0 DEF Pending, Busy, Awaited
<1>3. TypeOK'
  BY <1>0 DEF IInv, TypeOK
<1>4. Handler'
  BY <1>0 DEF IInv, Handler
<1>5. Events'
  BY <1>0, <1>2 DEF IInv, Events
<1>6. Queues'
  BY <1>0, <1>1 DEF IInv, Queues, Holds, Distinct
<1>7. FdTable'
  BY <1>0, <1>1 DEF IInv, FdTable
<1>8. Bytes'
  <2>1. \A d \in Client :
          /\ conn'[d].got <= Len(conn'[d].echo)
          /\ Len(conn'[d].echo) <= conn'[d].taken /\ conn'[d].taken <= conn'[d].sent
    <3> TAKE d \in Client
    <3>1. CASE d = c
      <4>1. conn'[c].sent \in Int /\ conn[c].taken \in Int
        BY DEF IInv, TypeOK, Connection
      <4> QED BY <3>1, <4>1 DEF IInv, Bytes
    <3>2. CASE d # c
      BY <3>2 DEF IInv, Bytes
    <3> QED BY <3>1, <3>2
  <2>2. pc = "write" => fds[fd] \in Client
    BY DEF IInv, Handler
  <2> QED BY <1>0, <1>1, <2>1, <2>2 DEF IInv, Bytes
<1>9. Noticed'
  <2> SUFFICES ASSUME pc # "killed", NEW f \in watched \ {listenfd}, Reportable(f)'
               PROVE  Holds(ready', f) \/ Awaited(f)
    BY <1>0, <1>2 DEF Noticed, Holds
  <2>1. f \in Fd
    BY DEF IInv, TypeOK
  <2>2. CASE fds[f] = c
    BY <2>1, <2>2 DEF IInv, Noticed
  <2>3. CASE fds[f] # c
    <3>1. fds[f] \in Client
      BY <2>1 DEF IInv, FdTable, TypeOK
    <3>2. Reportable(f)
      BY <1>0, <2>1, <2>3, <3>1, ReportableSame
    <3> QED BY <3>2 DEF IInv, Noticed
  <2> QED BY <2>2, <2>3
<1> QED BY <1>3, <1>4, <1>5, <1>6, <1>7, <1>8, <1>9 DEF IInv

(* Data, the end of the stream and a reset each put the socket into the    *)
(* ready list.                                                             *)
LEMMA ClientSteps ==
  ASSUME IInv, NEW c \in Client, Send(c) \/ Shutdown(c) \/ Reset(c)
  PROVE  IInv'
<1>1. UNCHANGED <<server, fds, watched, acceptq>> /\ ready' = EdgeOn(c)
  BY DEF Send, Shutdown, Reset
<1>2. /\ conn' \in [Client -> Connection]
      /\ \A d \in Client \ {c} : conn'[d] = conn[d]
      /\ conn'[c].st = conn[c].st /\ conn'[c].taken = conn[c].taken
      /\ conn'[c].echo = conn[c].echo /\ conn'[c].got = conn[c].got
      /\ conn'[c].sent \in {conn[c].sent, conn[c].sent + 1}
  <2>0. conn \in [Client -> Connection]
    BY DEF IInv, TypeOK
  <2>1. CASE Send(c)
    <3>1. conn[c].sent + 1 \in 0 .. MaxSend
      BY <2>0, <2>1, BoundsAssumption DEF Send, Connection
    <3>2. conn' = [conn EXCEPT ![c].sent = @ + 1]
      BY <2>1 DEF Send
    <3> QED BY <2>0, <3>1, <3>2 DEF Connection
  <2>2. CASE Shutdown(c)
    <3>1. conn' = [conn EXCEPT ![c].eof = TRUE]
      BY <2>2 DEF Shutdown
    <3> QED BY <2>0, <3>1 DEF Connection
  <2>3. CASE Reset(c)
    <3>1. conn' = [conn EXCEPT ![c].rst = TRUE]
      BY <2>3 DEF Reset
    <3> QED BY <2>0, <3>1 DEF Connection
  <2> QED BY <2>1, <2>2, <2>3
<1>3. conn'[c].sent >= conn[c].taken /\ conn'[c].got <= Len(conn[c].echo)
  <2>1. conn[c].taken <= conn[c].sent /\ conn[c].got <= Len(conn[c].echo)
    BY DEF IInv, Bytes
  <2>2. conn[c].taken \in Int /\ conn[c].sent \in Int
    BY ConnType DEF IInv
  <2> QED BY <1>2, <2>1, <2>2
<1>4. /\ ready' \in Seq(watched) /\ Distinct(ready')
      /\ \A g : Holds(ready, g) => Holds(ready', g)
      /\ \A f \in Fd : f \in watched /\ fds[f] = c => Holds(ready', f)
  BY <1>1, EdgeOnProperties DEF IInv, TypeOK, Queues
<1> QED BY <1>1, <1>2, <1>3, <1>4, Touches

(* That a client takes its echo is no event.                               *)
LEMMA ReceiveStep ==
  ASSUME IInv, NEW c \in Client, Receive(c)
  PROVE  IInv'
<1>1. UNCHANGED <<server, fds, watched, ready, acceptq>>
  BY DEF Receive, kernel
<1>2. conn[c].got < Len(conn[c].echo)
  BY DEF Receive
<1>3. /\ conn[c].got \in 0 .. MaxSend /\ conn[c].taken \in 0 .. MaxSend
      /\ conn[c].sent \in 0 .. MaxSend /\ Len(conn[c].echo) \in Nat
      /\ Len(conn[c].echo) <= conn[c].taken /\ conn[c].taken <= conn[c].sent
  BY ConnType DEF IInv, Bytes
<1>4. conn[c].got + 1 \in 0 .. MaxSend /\ conn[c].got + 1 <= Len(conn[c].echo)
  BY <1>2, <1>3, BoundsAssumption
<1>5. /\ conn' \in [Client -> Connection]
      /\ \A d \in Client \ {c} : conn'[d] = conn[d]
      /\ conn'[c].st = conn[c].st /\ conn'[c].taken = conn[c].taken
      /\ conn'[c].echo = conn[c].echo /\ conn'[c].got = conn[c].got + 1
      /\ conn'[c].sent = conn[c].sent /\ conn'[c].eof = conn[c].eof
      /\ conn'[c].rst = conn[c].rst
  <2>1. conn \in [Client -> Connection] /\ conn' = [conn EXCEPT ![c].got = @ + 1]
    BY DEF IInv, TypeOK, Receive
  <2> QED BY <1>4, <2>1 DEF Connection
<1>6. \A f \in Fd : fds[f] = c => Reportable(f)' = Reportable(f)
  <2>1. \A f \in Fd : f # listenfd
    BY BoundsAssumption DEF Fd, listenfd
  <2> QED BY <1>1, <1>5, <2>1 DEF Reportable, Unread
<1>7. ready' \in Seq(watched) /\ Distinct(ready') /\ conn'[c].sent >= conn[c].taken
  BY <1>1, <1>3, <1>5 DEF IInv, TypeOK, Queues
<1>8. \A g : Holds(ready, g) => Holds(ready', g)
  BY <1>1
<1> QED BY <1>1, <1>4, <1>5, <1>6, <1>7, <1>8, Touches

(* A new connection enters the accept queue.                               *)
LEMMA ConnectStep ==
  ASSUME IInv, NEW c \in Client, Connect(c)
  PROVE  IInv'
<1>0. /\ UNCHANGED <<pc, events, i, fd, buf, fds, watched>>
      /\ acceptq' = Append(acceptq, c) /\ ready' = Edge(listenfd)
      /\ conn[c].st = "none"
  BY DEF Connect, server
<1>1. /\ conn' \in [Client -> Connection]
      /\ \A d \in Client : /\ d # c => conn'[d] = conn[d]
                           /\ conn'[d].taken = conn[d].taken
                           /\ conn'[d].sent = conn[d].sent
                           /\ conn'[d].got = conn[d].got
                           /\ conn'[d].echo = conn[d].echo
      /\ conn'[c].st = "queued"
  <2>1. conn \in [Client -> Connection] /\ conn' = [conn EXCEPT ![c].st = "queued"]
    BY DEF IInv, TypeOK, Connect
  <2>2. "queued" \in {"none", "queued", "open", "closed"}
    OBVIOUS
  <2>3. /\ conn' \in [Client -> Connection]
        /\ \A d \in Client : d # c => conn'[d] = conn[d]
        /\ conn'[c].st = "queued"
        /\ conn'[c].sent = conn[c].sent /\ conn'[c].taken = conn[c].taken
        /\ conn'[c].got = conn[c].got /\ conn'[c].echo = conn[c].echo
    BY <2>1, <2>2, StateSet, Zenon
  <2> QED BY <2>3, Zenon
<1>2. /\ ready' \in Seq(watched) /\ Distinct(ready')
      /\ \A g : Holds(ready, g) => Holds(ready', g)
  BY <1>0, EdgeProperties DEF IInv, TypeOK, Queues
<1>3. ~ Holds(acceptq, c)
  BY <1>0 DEF IInv, Queues
<1>4. /\ acceptq' \in Seq(Client) /\ Distinct(acceptq')
      /\ \A d : Holds(acceptq', d) <=> Holds(acceptq, d) \/ d = c
  <2>1. acceptq \in Seq(Client) /\ Distinct(acceptq)
    BY DEF IInv, TypeOK, Queues
  <2>2. acceptq' = Append(acceptq, c)
    BY <1>0
  <2> QED BY <1>3, <2>1, <2>2, GrowsAtEnd, ZenonT(30)
<1>5. Pending' = Pending /\ \A f : Awaited(f)' = Awaited(f)
  BY <1>0 DEF Pending, Busy, Awaited
<1>6. TypeOK'
  BY <1>0, <1>1, <1>2, <1>4 DEF IInv, TypeOK
<1>7. Handler'
  BY <1>0 DEF IInv, Handler
<1>8. Events'
  BY <1>0, <1>5 DEF IInv, Events
<1>9. Queues'
  <2>1. Distinct(ready)' /\ Distinct(acceptq)'
    BY <1>2, <1>4 DEF Distinct
  <2>2. \A d \in Client : conn'[d].st = "queued" <=> Holds(acceptq, d)'
    <3>1. \A d \in Client : Holds(acceptq, d)' <=> conn[d].st = "queued" \/ d = c
      BY <1>4 DEF IInv, Queues, Holds
    <3> QED BY <1>1, <3>1
  <2> QED BY <2>1, <2>2 DEF Queues
<1>10. FdTable'
  <2>1. \A d \in Client : conn'[d].st = "open" <=> conn[d].st = "open"
    BY <1>0, <1>1
  <2> QED BY <1>0, <2>1 DEF IInv, FdTable
<1>11. Bytes'
  <2>1. \A d \in Client : conn'[d].st \in {"none", "queued"} =>
                            conn[d].st \in {"none", "queued"}
    BY <1>0, <1>1
  <2>2. pc = "write" => fds[fd] \in Client
    BY DEF IInv, Handler
  <2> QED BY <1>0, <1>1, <2>1, <2>2 DEF IInv, Bytes
<1>12. Noticed'
  <2> SUFFICES ASSUME pc # "killed", NEW f \in watched \ {listenfd}, Reportable(f)'
               PROVE  Holds(ready', f) \/ Awaited(f)
    BY <1>0, <1>5 DEF Noticed, Holds
  <2>1. f \in Fd
    BY DEF IInv, TypeOK
  <2>2. fds[f] \in Client /\ fds[f] # c
    BY <1>0, <2>1 DEF IInv, FdTable, TypeOK
  <2>3. Reportable(f)
    BY <1>0, <1>1, <2>1, <2>2, ReportableSame
  <2> QED BY <1>2, <2>3 DEF IInv, Noticed
<1> QED BY <1>6, <1>7, <1>8, <1>9, <1>10, <1>11, <1>12 DEF IInv

-----------------------------------------------------------------------------
(* main.                                                                   *)

(* The listening socket is registered.                                     *)
LEMMA RegisterStep == ASSUME IInv, Register PROVE IInv'
<1>0. /\ UNCHANGED <<events, i, fd, buf, fds, acceptq, conn>>
      /\ pc = "register" /\ pc' = "wait" /\ watched = {} /\ watched' = {listenfd}
      /\ ready' \in {<<listenfd>>, <<>>}
  BY DEF Register, IInv, Handler
<1>1. Pending' = {} /\ listenfd \notin Fd
  BY <1>0, BoundsAssumption DEF Pending, Busy, Fd, listenfd
<1>2. ready' \in Seq(watched') /\ Distinct(ready')
  <2>1. CASE ready' = <<>>
    BY <2>1 DEF Distinct
  <2>2. CASE ready' = <<listenfd>>
    <3>1. DOMAIN ready' = {1} /\ ready' \in Seq(watched')
      BY <1>0, <2>2
    <3> QED BY <3>1 DEF Distinct
  <2> QED BY <1>0, <2>1, <2>2
<1>3. TypeOK'
  BY <1>0, <1>2 DEF IInv, TypeOK, Places
<1>4. Handler' /\ Events' /\ Noticed'
  BY <1>0, <1>1 DEF Handler, Events, Noticed
<1>5. Queues'
  BY <1>0, <1>2 DEF IInv, Queues, Holds, Distinct
<1>6. FdTable'
  BY <1>0, <1>1 DEF IInv, FdTable
<1>7. Bytes'
  BY <1>0 DEF IInv, Bytes
<1> QED BY <1>3, <1>4, <1>5, <1>6, <1>7 DEF IInv

(* epoll_wait takes events out of the ready list and leaves there those    *)
(* that do not fit into the array; what it drops had nothing to report.    *)
LEMMA WaitStep ==
  ASSUME IInv, epoll_wait
  PROVE  /\ IInv'
         /\ \A f \in watched : Holds(ready, f) /\ Reportable(f) =>
                               Holds(ready', f) \/ Awaited(f)'
<1> DEFINE live == Kept(ready, {f \in watched : Reportable(f)})
           n == Min({MAX_EVENTS, Len(live)})
<1>0. /\ UNCHANGED <<fd, buf, fds, watched, acceptq, conn>> /\ pc = "wait"
      /\ pc' = IF n = 0 THEN "wait" ELSE "dispatch"
      /\ events' = [k \in 1 .. n |-> Report(live[k])] /\ i' = 1
      /\ ready' = SubSeq(live, n + 1, Len(live))
  BY DEF epoll_wait
<1>1. ready \in Seq(watched) /\ Distinct(ready)
  BY DEF IInv, TypeOK, Queues
<1>2. /\ live \in Seq(watched) /\ Distinct(live)
      /\ \A f \in watched : Holds(ready, f) /\ Reportable(f) => Holds(live, f)
  <2> DEFINE S == {f \in watched : Reportable(f)}
  <2>1. \A f \in watched : Reportable(f) <=> f \in S
    OBVIOUS
  <2> HIDE DEF S
  <2>2. /\ Kept(ready, S) \in Seq(watched \cap S) /\ Distinct(Kept(ready, S))
        /\ \A f : Holds(ready, f) /\ f \in S => Holds(Kept(ready, S), f)
    BY <1>1, KeptProperties
  <2>3. Kept(ready, S) \in Seq(watched)
    BY <2>2
  <2> QED BY <2>1, <2>2, <2>3 DEF S
<1> HIDE DEF live
<1>3. /\ Len(live) \in Nat /\ DOMAIN live = 1 .. Len(live)
      /\ \A k \in 1 .. Len(live) : live[k] \in watched
  BY <1>2
<1>4. /\ n \in 0 .. Len(live) /\ n <= MAX_EVENTS
      /\ n = 0 => Len(live) = 0
  BY <1>3, MinOfTwo, BoundsAssumption
<1> HIDE DEF n
<1>5. /\ DOMAIN events' = 1 .. n
      /\ \A k \in 1 .. n : events'[k] = Report(live[k])
  BY <1>0
<1>6. \A k \in 1 .. n :
        /\ events'[k].fd = live[k] /\ events'[k] \in Event
        /\ live[k] = listenfd => ~ events'[k].hup
        /\ live[k] # listenfd => /\ events'[k].of = fds[live[k]]
                                 /\ events'[k].of \in Client
  <2> TAKE k \in 1 .. n
  <2>1. live[k] \in watched /\ live[k] \in Fd \cup {listenfd}
    BY <1>3, <1>4 DEF IInv, TypeOK
  <2>2. CASE live[k] = listenfd
    <3>1. events'[k] = [fd |-> listenfd, hup |-> FALSE, of |-> None]
      BY <1>5, <2>2 DEF Report
    <3> QED BY <2>2, <3>1 DEF Event
  <2>3. CASE live[k] # listenfd
    <3>1. fds[live[k]] \in Client
      BY <2>1, <2>3 DEF IInv, TypeOK, FdTable
    <3>2. conn[fds[live[k]]].rst \in BOOLEAN
      BY <3>1, ConnType DEF IInv
    <3> QED BY <1>5, <2>1, <2>3, <3>1, <3>2 DEF Report, Event
  <2> QED BY <2>2, <2>3
<1>7. events' \in Seq(Event) /\ Len(events') = n
  BY <1>0, <1>4, <1>5, <1>6
<1>8. Pending' = 1 .. n
  BY <1>0, <1>4, <1>7 DEF Pending, Busy
<1>9. /\ ready' \in Seq(watched) /\ DOMAIN ready' = 1 .. Len(live) - n
      /\ \A k \in 1 .. Len(live) - n : ready'[k] = live[n + k]
  <2>1. \A k \in n + 1 .. Len(live) : live[k] \in watched
    BY <1>3, <1>4
  <2> QED BY <1>0, <1>2, <1>3, <1>4, <2>1
<1>10. TypeOK'
  BY <1>0, <1>4, <1>7, <1>9 DEF IInv, TypeOK, Places
<1>11. Handler'
  BY <1>0 DEF Handler
<1>12. Events'
  <2> SUFFICES ASSUME NEW k \in 1 .. n
               PROVE  /\ events'[k].hup => events'[k].fd # listenfd
                      /\ events'[k].fd # listenfd =>
                           /\ events'[k].of \in Client
                           /\ fds[events'[k].fd] = events'[k].of
                           /\ events'[k].fd \in watched
                      /\ \A l \in 1 .. n : events'[k].fd = events'[l].fd => k = l
    BY <1>0, <1>8 DEF Events
  <2>1. \A l \in 1 .. n : l \in DOMAIN live /\ live[l] \in watched
    BY <1>3, <1>4
  <2> QED BY <1>2, <1>6, <2>1 DEF Distinct
<1>13. Queues'
  <2>1. Distinct(ready')
    <3> SUFFICES ASSUME NEW k \in 1 .. Len(live) - n, NEW l \in 1 .. Len(live) - n,
                        ready'[k] = ready'[l]
                 PROVE  k = l
      BY <1>9 DEF Distinct
    <3>1. live[n + k] = live[n + l] /\ n + k \in DOMAIN live /\ n + l \in DOMAIN live
      BY <1>3, <1>4, <1>9
    <3>2. n + k = n + l
      BY <1>2, <3>1 DEF Distinct
    <3> QED BY <1>4, <3>2
  <2> QED BY <1>0, <2>1 DEF IInv, Queues, Holds, Distinct
<1>14. FdTable' /\ Bytes'
  BY <1>0 DEF IInv, FdTable, Bytes
<1>15. ASSUME NEW f \in watched, Holds(ready, f), Reportable(f)
       PROVE  Holds(ready', f) \/ Awaited(f)'
  <2>1. PICK k \in 1 .. Len(live) : live[k] = f
    BY <1>2, <1>3, <1>15 DEF Holds
  <2>2. CASE k <= n
    <3>1. k \in 1 .. n
      BY <1>4, <2>2
    <3> QED BY <1>6, <1>8, <2>1, <3>1 DEF Awaited
  <2>3. CASE k > n
    <3>1. k - n \in 1 .. Len(live) - n /\ n + (k - n) = k
      BY <1>3, <1>4, <2>3
    <3> QED BY <1>9, <2>1, <3>1 DEF Holds
  <2> QED BY <1>4, <2>2, <2>3
<1>16. Noticed'
  <2> SUFFICES ASSUME NEW f \in watched \ {listenfd}, Reportable(f)'
               PROVE  Holds(ready', f) \/ Awaited(f)'
    BY <1>0 DEF Noticed, Holds
  <2>1. f \in Fd
    BY DEF IInv, TypeOK
  <2>2. Reportable(f)
    BY <1>0, <2>1, ReportableSame
  <2>3. Holds(ready, f)
    BY <1>0, <2>2 DEF IInv, Noticed, Awaited, Pending, Busy
  <2> QED BY <1>15, <2>2, <2>3
<1> QED BY <1>10, <1>11, <1>12, <1>13, <1>14, <1>15, <1>16 DEF IInv

-----------------------------------------------------------------------------
(* handle_new_connection.                                                  *)

(* accept4 hands out a number that no event still to be handled is about.  *)
LEMMA AcceptStep == ASSUME IInv, Accept PROVE IInv'
<1>1. PICK f \in Fd : f = Min(Free) /\ fds[f] = None
  <2>1. Free \in SUBSET Nat /\ Free # {}
    BY BoundsAssumption DEF Free, Fd, Accept
  <2>2. Min(Free) \in Free
    BY <2>1, MinOfNaturals
  <2> QED BY <2>2 DEF Free
<1>2. PICK c \in Client : c = Head(acceptq)
  <2>1. acceptq \in Seq(Client) /\ acceptq # <<>>
    BY DEF IInv, TypeOK, Accept
  <2> QED BY <2>1
<1>3. /\ UNCHANGED <<events, i, buf, watched, ready>>
      /\ pc = "accept" /\ pc' = "add" /\ fd' = f
      /\ fds' = [fds EXCEPT ![f] = c] /\ acceptq' = Tail(acceptq)
      /\ conn' = [conn EXCEPT ![c].st = "open"]
  BY <1>1, <1>2 DEF Accept
<1>4. /\ Holds(acceptq, c) /\ acceptq' \in Seq(Client) /\ Distinct(acceptq')
      /\ \A d : Holds(acceptq', d) <=> Holds(acceptq, d) /\ d # c
  <2>1. acceptq \in Seq(Client) /\ acceptq # <<>> /\ Distinct(acceptq)
    BY DEF IInv, TypeOK, Accept, Queues
  <2> QED BY <1>2, <1>3, <2>1, ShrinksAtHead
<1>5. conn[c].st = "queued" /\ \A g \in Fd : fds[g] # c
  <2>1. conn[c].st = "queued"
    BY <1>4 DEF IInv, Queues
  <2> QED BY <2>1 DEF IInv, FdTable
<1>6. /\ conn' \in [Client -> Connection]
      /\ \A d \in Client : /\ d # c => conn'[d] = conn[d]
                           /\ conn'[d].taken = conn[d].taken
                           /\ conn'[d].sent = conn[d].sent
                           /\ conn'[d].got = conn[d].got
                           /\ conn'[d].echo = conn[d].echo
      /\ conn'[c].st = "open"
  <2>1. conn \in [Client -> Connection] /\ conn' = [conn EXCEPT ![c].st = "open"]
    BY <1>3 DEF IInv, TypeOK
  <2> QED BY <2>1, StateSet
<1>7. /\ fds' \in [Fd -> Client \cup {None}] /\ fds'[f] = c
      /\ \A g \in Fd : g # f => fds'[g] = fds[g]
  <2>1. fds \in [Fd -> Client \cup {None}]
    BY DEF IInv, TypeOK
  <2> QED BY <1>3, <2>1
<1>8. Pending' = Pending /\ \A g : Awaited(g)' = Awaited(g)
  BY <1>3 DEF Pending, Busy, Awaited
<1>9. TypeOK'
  BY <1>3, <1>4, <1>6, <1>7 DEF IInv, TypeOK, Places
<1>10. Handler'
  BY <1>3, <1>7 DEF IInv, Handler
<1>11. Events'
  <2> SUFFICES ASSUME NEW k \in Pending, events[k].fd # listenfd
               PROVE  fds'[events[k].fd] = fds[events[k].fd]
    BY <1>3, <1>8 DEF IInv, Events
  <2>1. fds[events[k].fd] \in Client /\ events[k].fd \in Fd
    BY DEF IInv, Events, TypeOK
  <2> QED BY <1>1, <1>7, <2>1, NoneAssumption
<1>12. Queues'
  <2>1. Distinct(acceptq)' /\ Distinct(ready)'
    BY <1>3, <1>4 DEF IInv, Queues, Distinct
  <2>2. \A d \in Client : conn'[d].st = "queued" <=> Holds(acceptq, d)'
    <3>1. \A d \in Client : Holds(acceptq, d)' <=> conn[d].st = "queued" /\ d # c
      BY <1>4 DEF IInv, Queues, Holds
    <3> QED BY <1>6, <3>1
  <2> QED BY <2>1, <2>2 DEF Queues
<1>13. FdTable'
  <2>1. \A d \in Client : conn'[d].st = "open" <=> \E g \in Fd : fds'[g] = d
    <3> TAKE d \in Client
    <3>1. CASE d = c
      BY <1>6, <1>7, <3>1
    <3>2. CASE d # c
      <4>1. \A g \in Fd : fds'[g] = d <=> fds[g] = d
        BY <1>1, <1>7, <3>2, NoneAssumption
      <4> QED BY <1>6, <3>2, <4>1 DEF IInv, FdTable
    <3> QED BY <3>1, <3>2
  <2>2. \A g, h \in Fd : fds'[g] = fds'[h] /\ fds'[g] # None => g = h
    BY <1>5, <1>7 DEF IInv, FdTable
  <2>3. \A g \in Fd : g \in watched <=> fds'[g] # None /\ ~ (g = f)
    BY <1>1, <1>3, <1>7 DEF IInv, FdTable
  <2> QED BY <1>3, <2>1, <2>2, <2>3 DEF FdTable
<1>14. Bytes'
  <2>1. \A d \in Client : conn'[d].st \in {"none", "queued"} =>
                            conn[d].st \in {"none", "queued"}
    BY <1>6
  <2> QED BY <1>3, <1>6, <2>1 DEF IInv, Bytes
<1>15. Noticed'
  <2> SUFFICES ASSUME NEW g \in watched \ {listenfd}, Reportable(g)'
               PROVE  Holds(ready, g) \/ Awaited(g)
    BY <1>3, <1>8 DEF Noticed, Holds
  <2>1. g \in Fd
    BY DEF IInv, TypeOK
  <2>2. fds[g] \in Client /\ g # f /\ fds[g] # c
    BY <1>1, <1>5, <2>1 DEF IInv, FdTable, TypeOK
  <2>3. Reportable(g)
    BY <1>6, <1>7, <2>1, <2>2, ReportableSame
  <2> QED BY <1>3, <2>3 DEF IInv, Noticed
<1> QED BY <1>9, <1>10, <1>11, <1>12, <1>13, <1>14, <1>15 DEF IInv

(* EPOLL_CTL_ADD looks at what arrived before it.                          *)
LEMMA AddStep == ASSUME IInv, Add PROVE IInv'
<1>1. /\ UNCHANGED <<events, i, fd, buf, fds, acceptq, conn>>
      /\ pc = "add" /\ pc' = "accept" /\ watched' = watched \cup {fd}
      /\ ready' = IF Reportable(fd) THEN Append(ready, fd) ELSE ready
  BY DEF Add
<1>2. fd \in Fd /\ fds[fd] \in Client /\ fd \notin watched
  BY <1>1 DEF IInv, Handler, FdTable
<1>3. ready \in Seq(watched') /\ ~ Holds(ready, fd) /\ Distinct(ready)
  <2>1. ready \in Seq(watched) /\ Distinct(ready)
    BY DEF IInv, TypeOK, Queues
  <2>2. \A k \in DOMAIN ready : ready[k] \in watched
    BY <2>1
  <2> QED BY <1>1, <1>2, <2>1, <2>2 DEF Holds
<1>4. /\ ready' \in Seq(watched') /\ Distinct(ready')
      /\ \A g : Holds(ready, g) => Holds(ready', g)
      /\ Reportable(fd) => Holds(ready', fd)
  <2>1. CASE Reportable(fd)
    <3>1. ready' = Append(ready, fd) /\ fd \in watched'
      BY <1>1, <2>1
    <3> QED BY <1>3, <3>1, GrowsAtEnd, ZenonT(30)
  <2>2. CASE ~ Reportable(fd)
    <3>1. ready' = ready
      BY <1>1, <2>2
    <3> QED BY <1>3, <2>2, <3>1
  <2> QED BY <2>1, <2>2
<1>5. Pending' = Pending /\ \A g : Awaited(g)' = Awaited(g)
  BY <1>1 DEF Pending, Busy, Awaited
<1>6. TypeOK'
  BY <1>1, <1>2, <1>4 DEF IInv, TypeOK, Places
<1>7. Handler'
  BY <1>1 DEF IInv, Handler
<1>8. Events'
  BY <1>1, <1>5 DEF IInv, Events
<1>9. Queues'
  BY <1>1, <1>4 DEF IInv, Queues, Holds, Distinct
<1>10. FdTable'
  BY <1>1, <1>2, NoneAssumption DEF IInv, FdTable
<1>11. Bytes'
  BY <1>1 DEF IInv, Bytes
<1>12. Noticed'
  <2> SUFFICES ASSUME NEW g \in watched' \ {listenfd}, Reportable(g)'
               PROVE  Holds(ready', g) \/ Awaited(g)
    BY <1>1, <1>5 DEF Noticed, Holds
  <2>1. g \in Fd
    BY <1>1, <1>2 DEF IInv, TypeOK
  <2>2. Reportable(g)
    BY <1>1, <2>1, ReportableSame
  <2>3. CASE g = fd
    BY <1>4, <2>2, <2>3
  <2>4. CASE g # fd
    BY <1>1, <1>4, <2>2, <2>4 DEF IInv, Noticed
  <2> QED BY <2>3, <2>4
<1> QED BY <1>6, <1>7, <1>8, <1>9, <1>10, <1>11, <1>12 DEF IInv

-----------------------------------------------------------------------------
(* Connections are closed.                                                 *)

(* A descriptor is closed that no other event still to be handled is about *)
(* and taken out of the ready list.                                        *)
LEMMA Closes ==
  ASSUME IInv, NEW f \in Fd, fds[f] \in Client, Close(f),
         UNCHANGED <<events, fd, buf, acceptq>>,
         pc # "killed", pc' \in {"dispatch", "accept"}, pc = "add" => fd = f,
         i' \in 1 .. Len(events) + 1, Handler', Pending' \subseteq Pending,
         \A k \in Pending' : events[k].fd # f,
         \A g \in Fd : Awaited(g) => g = f \/ Awaited(g)'
  PROVE  IInv'
<1> DEFINE c == fds[f]
<1>1. /\ fds' = [fds EXCEPT ![f] = None] /\ watched' = watched \ {f}
      /\ ready' = Kept(ready, watched \ {f})
      /\ conn' = [conn EXCEPT ![c].st = "closed"]
  BY DEF Close
<1>2. /\ conn' \in [Client -> Connection]
      /\ \A d \in Client : /\ d # c => conn'[d] = conn[d]
                           /\ conn'[d].taken = conn[d].taken
                           /\ conn'[d].sent = conn[d].sent
                           /\ conn'[d].got = conn[d].got
                           /\ conn'[d].echo = conn[d].echo
      /\ conn'[c].st = "closed"
  <2>1. conn \in [Client -> Connection] /\ conn' = [conn EXCEPT ![c].st = "closed"]
    BY <1>1 DEF IInv, TypeOK
  <2>2. c \in Client /\ "closed" \in {"none", "queued", "open", "closed"}
    OBVIOUS
  <2> HIDE DEF c
  <2>3. /\ conn' \in [Client -> Connection]
        /\ \A d \in Client : d # c => conn'[d] = conn[d]
        /\ conn'[c].st = "closed"
        /\ conn'[c].sent = conn[c].sent /\ conn'[c].taken = conn[c].taken
        /\ conn'[c].got = conn[c].got /\ conn'[c].echo = conn[c].echo
    BY <2>1, <2>2, StateSet, Zenon
  <2> QED BY <2>3, Zenon
<1>3. /\ fds' \in [Fd -> Client \cup {None}] /\ fds'[f] = None
      /\ \A g \in Fd : g # f => fds'[g] = fds[g]
  <2>1. fds \in [Fd -> Client \cup {None}]
    BY DEF IInv, TypeOK
  <2> QED BY <1>1, <2>1
<1>4. /\ ready' \in Seq(watched') /\ Distinct(ready')
      /\ \A g \in watched' : Holds(ready, g) => Holds(ready', g)
  <2> DEFINE S == watched \ {f}
  <2>1. ready \in Seq(watched) /\ Distinct(ready) /\ watched \cap S = S
    BY DEF IInv, TypeOK, Queues
  <2> HIDE DEF S
  <2>2. /\ Kept(ready, S) \in Seq(watched \cap S) /\ Distinct(Kept(ready, S))
        /\ \A g : Holds(ready, g) /\ g \in S => Holds(Kept(ready, S), g)
    BY <2>1, KeptProperties
  <2>3. ready' = Kept(ready, S) /\ watched' = S
    BY <1>1 DEF S
  <2> QED BY <2>1, <2>2, <2>3
<1>5. conn[c].st = "open" /\ \A g \in Fd : g # f => fds[g] # c
  BY NoneAssumption DEF IInv, FdTable
<1>6. TypeOK'
  BY <1>1, <1>2, <1>3, <1>4 DEF IInv, TypeOK, Places
<1>7. Events'
  <2> SUFFICES ASSUME NEW k \in Pending', events[k].fd # listenfd
               PROVE  /\ fds'[events[k].fd] = fds[events[k].fd]
                      /\ events[k].fd \in watched \ {f}
    BY <1>1 DEF IInv, Events
  <2>1. events[k].fd \in watched /\ events[k].fd \in Fd /\ events[k].fd # f
    BY DEF IInv, Events, TypeOK
  <2> QED BY <1>3, <2>1
<1>8. Queues'
  <2>1. Distinct(ready)' /\ Distinct(acceptq)'
    BY <1>4 DEF IInv, Queues, Distinct
  <2>2. \A d \in Client : conn'[d].st = "queued" <=> conn[d].st = "queued"
    BY <1>2, <1>5
  <2> QED BY <2>1, <2>2 DEF IInv, Queues, Holds
<1>9. FdTable'
  <2>1. \A d \in Client : conn'[d].st = "open" <=> \E g \in Fd : fds'[g] = d
    <3> TAKE d \in Client
    <3>1. CASE d = c
      BY <1>2, <1>3, <1>5, <3>1, NoneAssumption
    <3>2. CASE d # c
      <4>1. \A g \in Fd : fds'[g] = d <=> fds[g] = d
        BY <1>3, <3>2, NoneAssumption
      <4> QED BY <1>2, <3>2, <4>1 DEF IInv, FdTable
    <3> QED BY <3>1, <3>2
  <2>2. \A g, h \in Fd : fds'[g] = fds'[h] /\ fds'[g] # None => g = h
    BY <1>3 DEF IInv, FdTable
  <2>3. \A g \in Fd : g \in watched' <=> fds'[g] # None
    BY <1>1, <1>3 DEF IInv, FdTable
  <2> QED BY <2>1, <2>2, <2>3 DEF FdTable
<1>10. Bytes'
  <2>1. \A d \in Client : conn'[d].st \in {"none", "queued"} =>
                            conn[d].st \in {"none", "queued"}
    BY <1>2
  <2> QED BY <1>2, <2>1 DEF IInv, Bytes
<1>11. Noticed'
  <2> SUFFICES ASSUME NEW g \in watched' \ {listenfd}, Reportable(g)'
               PROVE  Holds(ready', g) \/ Awaited(g)'
    BY DEF Noticed, Holds
  <2>1. g \in Fd /\ g # f /\ g \in watched
    BY <1>1 DEF IInv, TypeOK
  <2>2. fds[g] \in Client /\ fds[g] # c
    BY <1>5, <2>1 DEF IInv, FdTable, TypeOK
  <2>3. Reportable(g)
    BY <1>2, <1>3, <2>1, <2>2, ReportableSame
  <2>4. Holds(ready, g) \/ Awaited(g)
    BY <2>1, <2>3 DEF IInv, Noticed
  <2> QED BY <1>4, <2>1, <2>4
<1> QED BY <1>6, <1>7, <1>8, <1>9, <1>10, <1>11 DEF IInv

(* EPOLL_CTL_ADD fails: the socket is not registered, so no event is about *)
(* it.                                                                     *)
LEMMA AddFailsStep == ASSUME IInv, AddFails PROVE IInv'
<1>1. /\ UNCHANGED <<events, i, fd, buf, acceptq>> /\ Close(fd)
      /\ pc = "add" /\ pc' = "accept"
  BY DEF AddFails
<1>2. fd \in Fd /\ fds[fd] \in Client /\ fd \notin watched /\ fd # listenfd
  BY <1>1, BoundsAssumption DEF IInv, Handler, FdTable, Fd, listenfd
<1>3. Pending' = Pending /\ \A g : Awaited(g)' = Awaited(g)
  BY <1>1 DEF Pending, Busy, Awaited
<1>4. \A k \in Pending : events[k].fd # fd
  BY <1>2 DEF IInv, Events
<1>5. Handler' /\ i' \in 1 .. Len(events) + 1
  BY <1>1 DEF IInv, Handler, TypeOK
<1> QED BY <1>1, <1>2, <1>3, <1>4, <1>5, Closes

(* A hang-up, the end of a stream, an error or a full socket: the handler  *)
(* closes the descriptor its event is about and the loop goes on.          *)
LEMMA CloseSteps ==
  ASSUME IInv, DispatchHup \/ ReadEnd \/ WriteFails
  PROVE  IInv'
<1>1. PICK f \in Fd : /\ Close(f) /\ f = events[i].fd /\ i \in Pending
                      /\ f # listenfd
  <2>1. CASE DispatchHup
    <3>1. i \in Pending /\ i \in 1 .. Len(events) /\ events[i].hup /\ Close(events[i].fd)
      BY <2>1 DEF DispatchHup, Pending, Busy, IInv, TypeOK
    <3>2. events[i].fd # listenfd /\ events[i].fd \in Fd
      BY <3>1, EventType DEF IInv, Events
    <3> QED BY <3>1, <3>2
  <2>2. CASE ReadEnd \/ WriteFails
    <3>1. pc \in {"read", "write"} /\ Close(fd)
      BY <2>2 DEF ReadEnd, WriteFails
    <3>2. fd \in Fd /\ events[i].fd = fd /\ i \in Pending
      BY <3>1 DEF IInv, Handler, TypeOK, Pending, Busy
    <3> QED BY <3>1, <3>2, BoundsAssumption DEF Fd, listenfd
  <2> QED BY <2>1, <2>2
<1>2. /\ UNCHANGED <<events, fd, buf, acceptq>>
      /\ pc \in {"dispatch", "read", "write"} /\ pc' = "dispatch" /\ i' = i + 1
  BY DEF DispatchHup, ReadEnd, WriteFails, NextEvent
<1>3. /\ Pending = i .. Len(events) /\ i \in 1 .. Len(events) /\ Len(events) \in Nat
      /\ Pending' = i + 1 .. Len(events)
  BY <1>1, <1>2 DEF Pending, Busy, IInv, TypeOK
<1>4. /\ Pending' \subseteq Pending /\ i \notin Pending'
      /\ \A k \in Pending : k = i \/ k \in Pending'
  BY <1>3
<1>5. \A k \in Pending' : events[k].fd # f
  BY <1>1, <1>4 DEF IInv, Events
<1>6. \A g \in Fd : Awaited(g) => g = f \/ Awaited(g)'
  BY <1>1, <1>2, <1>4 DEF Awaited
<1>7. Handler' /\ i' \in 1 .. Len(events) + 1
  BY <1>2, <1>3 DEF Handler
<1>8. fds[f] \in Client
  BY <1>1 DEF IInv, Events
<1> QED BY <1>1, <1>2, <1>4, <1>5, <1>6, <1>7, <1>8, Closes

-----------------------------------------------------------------------------
(* handle_client_data.                                                     *)

(* read and write leave the handler with the same socket.                  *)
LEMMA Transfers ==
  ASSUME IInv, UNCHANGED <<events, i, fd, kernel>>, pc \in {"read", "write"},
         pc' \in {"read", "write"}, buf' \in (1 .. MaxSend + 1) \X (0 .. MaxSend),
         conn' \in [Client -> Connection], Bytes',
         \A d \in Client : conn'[d].st = conn[d].st,
         \A d \in Client : d # fds[fd] => conn'[d] = conn[d]
  PROVE  IInv'
<1>0. UNCHANGED <<events, i, fd, fds, watched, ready, acceptq>>
  BY DEF kernel
<1>1. Pending' = Pending /\ \A g : Awaited(g)' = Awaited(g)
  BY <1>0 DEF Pending, Busy, Awaited
<1>2. TypeOK'
  BY <1>0 DEF IInv, TypeOK, Places
<1>3. Handler'
  BY <1>0 DEF IInv, Handler
<1>4. Events'
  BY <1>0, <1>1 DEF IInv, Events
<1>5. Queues'
  BY <1>0 DEF IInv, Queues, Holds, Distinct
<1>6. FdTable'
  BY <1>0 DEF IInv, FdTable
<1>7. Noticed'
  <2> SUFFICES ASSUME NEW g \in watched \ {listenfd}, Reportable(g)'
               PROVE  Holds(ready, g) \/ Awaited(g)
    BY <1>0, <1>1 DEF Noticed, Holds
  <2>1. g \in Fd
    BY DEF IInv, TypeOK
  <2>2. CASE g = fd
    <3>1. events[i].fd = g /\ i \in Pending
      BY <2>2 DEF IInv, Handler, Pending, Busy, TypeOK
    <3> QED BY <3>1 DEF Awaited
  <2>3. CASE g # fd
    <3>1. fds[g] \in Client /\ fds[g] # fds[fd]
      BY <2>1, <2>3 DEF IInv, FdTable, TypeOK, Handler
    <3>2. Reportable(g)
      BY <1>0, <2>1, <3>1, ReportableSame
    <3> QED BY <3>2 DEF IInv, Noticed
  <2> QED BY <2>2, <2>3
<1> QED BY <1>2, <1>3, <1>4, <1>5, <1>6, <1>7 DEF IInv

(* read takes at least one of the bytes that wait and at most all.         *)
LEMMA ReadEffect ==
  ASSUME IInv, Read, NEW c, c = fds[fd]
  PROVE  /\ c \in Client /\ conn[c].st = "open"
         /\ UNCHANGED <<events, i, fd, kernel>> /\ pc = "read" /\ pc' = "write"
         /\ conn' \in [Client -> Connection]
         /\ \A d \in Client : d # c => conn'[d] = conn[d]
         /\ conn'[c].st = conn[c].st /\ conn'[c].sent = conn[c].sent
         /\ conn'[c].got = conn[c].got /\ conn'[c].echo = conn[c].echo
         /\ conn'[c].taken \in conn[c].taken + 1 .. conn[c].sent
         /\ buf' = <<conn[c].taken + 1, conn'[c].taken>>
         /\ conn'[c].taken \in conn[c].taken + 1 .. conn[c].taken + BUF_SIZE
<1> DEFINE n == Min({BUF_SIZE, Unread(c)})
<1>1. /\ pc = "read" /\ Unread(c) > 0 /\ pc' = "write"
      /\ buf' = <<conn[c].taken + 1, conn[c].taken + n>>
      /\ conn' = [conn EXCEPT ![c].taken = @ + n]
      /\ UNCHANGED <<events, i, fd, kernel>>
  BY DEF Read
<1>2. c \in Client /\ conn[c].st = "open"
  <2>1. fd \in Fd /\ c \in Client
    BY <1>1 DEF IInv, Handler
  <2> QED BY <2>1 DEF IInv, FdTable
<1>3. /\ conn[c].taken \in 0 .. MaxSend /\ conn[c].sent \in 0 .. MaxSend
      /\ conn[c].taken <= conn[c].sent
  BY <1>2, ConnType DEF IInv, Bytes
<1>4. /\ n \in 1 .. conn[c].sent - conn[c].taken /\ n <= BUF_SIZE
  <2>1. Unread(c) = conn[c].sent - conn[c].taken /\ Unread(c) \in Int
    BY <1>3 DEF Unread
  <2>2. n = IF BUF_SIZE <= Unread(c) THEN BUF_SIZE ELSE Unread(c)
    BY <2>1, BoundsAssumption, MinOfTwo
  <2>3. Unread(c) > 0
    BY <1>1
  <2> HIDE DEF n
  <2> QED BY <2>1, <2>2, <2>3, BoundsAssumption
<1> HIDE DEF n
<1>5. conn[c].taken + n \in 0 .. MaxSend
  BY <1>3, <1>4, BoundsAssumption
<1>6. /\ conn' \in [Client -> Connection]
      /\ \A d \in Client : d # c => conn'[d] = conn[d]
      /\ conn'[c].st = conn[c].st /\ conn'[c].sent = conn[c].sent
      /\ conn'[c].got = conn[c].got /\ conn'[c].echo = conn[c].echo
      /\ conn'[c].taken = conn[c].taken + n
  <2>1. conn \in [Client -> Connection]
        /\ conn' = [conn EXCEPT ![c].taken = conn[c].taken + n]
    BY <1>1, <1>2 DEF IInv, TypeOK
  <2>2. c \in Client
    BY <1>2
  <2> QED BY <1>5, <2>1, <2>2, TakenSet, ZenonT(30)
<1>7. /\ conn[c].taken + n \in conn[c].taken + 1 .. conn[c].sent
      /\ conn[c].taken + n \in conn[c].taken + 1 .. conn[c].taken + BUF_SIZE
  BY <1>3, <1>4, BoundsAssumption
<1>8. UNCHANGED <<events, i, fd, kernel>> /\ pc = "read" /\ pc' = "write"
      /\ buf' = <<conn[c].taken + 1, conn[c].taken + n>>
  BY <1>1
<1> QED BY <1>2, <1>6, <1>7, <1>8

LEMMA ReadStep == ASSUME IInv, Read PROVE IInv'
<1> DEFINE c == fds[fd]
<1>1. /\ c \in Client /\ conn[c].st = "open"
      /\ UNCHANGED <<events, i, fd, kernel>> /\ pc = "read" /\ pc' = "write"
      /\ conn' \in [Client -> Connection]
      /\ \A d \in Client : d # c => conn'[d] = conn[d]
      /\ conn'[c].st = conn[c].st /\ conn'[c].sent = conn[c].sent
      /\ conn'[c].got = conn[c].got /\ conn'[c].echo = conn[c].echo
      /\ conn'[c].taken \in conn[c].taken + 1 .. conn[c].sent
      /\ buf' = <<conn[c].taken + 1, conn'[c].taken>>
  BY ReadEffect
<1> HIDE DEF c
<1>2. /\ conn[c].taken \in 0 .. MaxSend /\ conn[c].sent \in 0 .. MaxSend
      /\ conn'[c].taken \in 0 .. MaxSend /\ Len(conn[c].echo) \in Nat
      /\ conn[c].got \in 0 .. MaxSend
      /\ Len(conn[c].echo) <= conn[c].taken /\ conn[c].got <= Len(conn[c].echo)
  <2>1. conn'[c].taken \in 0 .. MaxSend
    BY <1>1 DEF Connection
  <2> QED BY <1>1, <2>1, ConnType DEF IInv, Bytes
<1>3. buf' \in (1 .. MaxSend + 1) \X (0 .. MaxSend)
  <2>1. conn[c].taken + 1 \in 1 .. MaxSend + 1
    BY <1>2, BoundsAssumption
  <2> QED BY <1>1, <1>2, <2>1
<1>4. buf'[1] = conn[c].taken + 1 /\ buf'[2] = conn'[c].taken /\ fds'[fd'] = c
  BY <1>1 DEF kernel, c
<1>5. Bytes'
  <2>1. /\ Len(conn'[c].echo) <= conn'[c].taken /\ conn'[c].taken <= conn'[c].sent
        /\ conn'[c].got <= Len(conn'[c].echo)
    BY <1>1, <1>2
  <2>2. buf'[1] <= buf'[2] /\ Len(conn'[c].echo) < buf'[1]
    BY <1>1, <1>2, <1>4
  <2>3. \A d \in Client : conn'[d].st \in {"none", "queued"} => d # c
    BY <1>1
  <2> QED BY <1>1, <1>4, <2>1, <2>2, <2>3 DEF IInv, Bytes
<1>6. \A d \in Client : conn'[d].st = conn[d].st
  BY <1>1
<1> QED BY <1>1, <1>3, <1>5, <1>6, Transfers DEF c

\* The first n bytes of the buffer, as many as there is room for, are echoed.
Echoes(c, n) ==
  /\ n = Min({buf[2] - buf[1] + 1, Room(c)}) /\ Room(c) > 0
  /\ Len(conn'[c].echo) = Len(conn[c].echo) + n
  /\ \A k \in 1 .. Len(conn[c].echo) : conn'[c].echo[k] = conn[c].echo[k]
  /\ \A k \in 1 .. n : conn'[c].echo[Len(conn[c].echo) + k] = buf[1] + k - 1

(* write appends at least one of the bytes read and at most all of them.   *)
LEMMA WriteEffect ==
  ASSUME IInv, Write, NEW c, c = fds[fd]
  PROVE  /\ c \in Client /\ conn[c].st = "open"
         /\ UNCHANGED <<events, i, fd, buf, kernel>> /\ pc = "write" /\ pc' = "read"
         /\ conn' \in [Client -> Connection]
         /\ \A d \in Client : d # c => conn'[d] = conn[d]
         /\ conn'[c].st = conn[c].st /\ conn'[c].sent = conn[c].sent
         /\ conn'[c].got = conn[c].got /\ conn'[c].taken = conn[c].taken
         /\ \E n \in 1 .. buf[2] - buf[1] + 1 : Echoes(c, n)
<1> DEFINE n == Min({buf[2] - buf[1] + 1, Room(c)})
           more == [k \in 1 .. n |-> buf[1] + k - 1]
           out == conn[c].echo
<1>1. /\ pc = "write" /\ Room(c) > 0 /\ pc' = "read"
      /\ conn' = [conn EXCEPT ![c].echo = @ \o more]
      /\ UNCHANGED <<events, i, fd, buf, kernel>>
  BY DEF Write
<1>2. c \in Client /\ conn[c].st = "open"
  <2>1. fd \in Fd /\ c \in Client
    BY <1>1 DEF IInv, Handler
  <2> QED BY <2>1 DEF IInv, FdTable
<1>3. /\ buf[1] \in 1 .. MaxSend + 1 /\ buf[2] \in 0 .. MaxSend /\ buf[1] <= buf[2]
      /\ out \in Seq(1 .. MaxSend) /\ conn[c].got \in 0 .. MaxSend
  BY <1>1, <1>2, ConnType DEF IInv, TypeOK, Bytes
<1>4. n \in 1 .. buf[2] - buf[1] + 1
  <2>0. Len(conn[c].echo) \in Nat /\ conn[c].got \in Int /\ SndBuf \in Int
    BY <1>3, BoundsAssumption
  <2>1. Room(c) \in Int
    BY <2>0 DEF Room
  <2>1a. buf[2] - buf[1] + 1 \in Int /\ buf[2] - buf[1] + 1 >= 1
    BY <1>3
  <2>2. n = IF buf[2] - buf[1] + 1 <= Room(c) THEN buf[2] - buf[1] + 1 ELSE Room(c)
    BY <2>1, <2>1a, MinOfTwo
  <2>3. Room(c) > 0
    BY <1>1
  <2> HIDE DEF n
  <2> QED BY <2>1, <2>1a, <2>2, <2>3
<1>5. n = Min({buf[2] - buf[1] + 1, Room(c)})
  OBVIOUS
<1> HIDE DEF n
<1>6. more \in Seq(1 .. MaxSend) /\ Len(more) = n /\ n \in Nat
  <2>1. \A k \in 1 .. n : buf[1] + k - 1 \in 1 .. MaxSend
    <3>1. \A u, v \in Int : \A k \in 1 .. n :
            u \in 1 .. MaxSend + 1 /\ v \in 0 .. MaxSend /\ n \in 1 .. v - u + 1
              => u + k - 1 \in 1 .. MaxSend
      BY BoundsAssumption
    <3> QED BY <1>3, <1>4, <3>1
  <2> QED BY <1>4, <2>1
<1>7. \A k \in 1 .. n : more[k] = buf[1] + k - 1
  OBVIOUS
<1> HIDE DEF more
<1>8. /\ out \o more \in Seq(1 .. MaxSend) /\ Len(out \o more) = Len(out) + n
      /\ \A k \in 1 .. Len(out) : (out \o more)[k] = out[k]
      /\ \A k \in 1 .. n : (out \o more)[Len(out) + k] = more[k]
  <2> HIDE DEF out
  <2>1. Len(out) \in Nat
    BY <1>3
  <2>2. /\ out \o more \in Seq(1 .. MaxSend) /\ Len(out \o more) = Len(out) + Len(more)
        /\ \A k \in 1 .. Len(out) + Len(more) :
             (out \o more)[k] = IF k <= Len(out) THEN out[k] ELSE more[k - Len(out)]
    BY <1>3, <1>6, ConcatProperties
  <2>3. \A k \in 1 .. n : /\ Len(out) + k \in 1 .. Len(out) + Len(more)
                          /\ ~ (Len(out) + k <= Len(out)) /\ (Len(out) + k) - Len(out) = k
    BY <1>6, <2>1
  <2>4. \A k \in 1 .. Len(out) : k \in 1 .. Len(out) + Len(more) /\ k <= Len(out)
    BY <1>6, <2>1
  <2> QED BY <1>6, <2>2, <2>3, <2>4
<1>9. /\ conn' \in [Client -> Connection]
      /\ \A d \in Client : d # c => conn'[d] = conn[d]
      /\ conn'[c].st = conn[c].st /\ conn'[c].sent = conn[c].sent
      /\ conn'[c].got = conn[c].got /\ conn'[c].taken = conn[c].taken
      /\ conn'[c].echo = out \o more
  <2>1. conn \in [Client -> Connection] /\ conn' = [conn EXCEPT ![c].echo = @ \o more]
    BY <1>1 DEF IInv, TypeOK
  <2>2. PICK all \in Seq(1 .. MaxSend) : all = out \o more
    BY <1>8
  <2>3. conn' = [conn EXCEPT ![c].echo = all]
    BY <2>1, <2>2
  <2>4. /\ conn' \in [Client -> Connection]
        /\ \A d \in Client : d # c => conn'[d] = conn[d]
        /\ conn'[c].st = conn[c].st /\ conn'[c].sent = conn[c].sent
        /\ conn'[c].got = conn[c].got /\ conn'[c].taken = conn[c].taken
        /\ conn'[c].echo = all
    BY <1>2, <2>1, <2>3, EchoSet, ZenonT(30)
  <2> QED BY <2>2, <2>4
<1>10. /\ UNCHANGED <<events, i, fd, buf, kernel>> /\ pc = "write" /\ pc' = "read"
       /\ Room(c) > 0
  BY <1>1
<1>11. /\ Len(conn'[c].echo) = Len(conn[c].echo) + n
       /\ \A k \in 1 .. Len(conn[c].echo) : conn'[c].echo[k] = conn[c].echo[k]
       /\ \A k \in 1 .. n : conn'[c].echo[Len(conn[c].echo) + k] = buf[1] + k - 1
  <2>1. conn'[c].echo = out \o more
    BY <1>9
  <2> QED BY <1>7, <1>8, <2>1
<1>12. Echoes(c, n)
  BY <1>5, <1>10, <1>11 DEF Echoes
<1> QED BY <1>2, <1>4, <1>9, <1>10, <1>12

LEMMA WriteStep == ASSUME IInv, Write PROVE IInv'
<1> DEFINE c == fds[fd]
<1>1. /\ c \in Client /\ conn[c].st = "open"
      /\ UNCHANGED <<events, i, fd, buf, kernel>> /\ pc = "write" /\ pc' = "read"
      /\ conn' \in [Client -> Connection]
      /\ \A d \in Client : d # c => conn'[d] = conn[d]
      /\ conn'[c].st = conn[c].st /\ conn'[c].sent = conn[c].sent
      /\ conn'[c].got = conn[c].got /\ conn'[c].taken = conn[c].taken
  BY WriteEffect
<1>2. PICK n \in 1 .. buf[2] - buf[1] + 1 :
        Len(conn'[c].echo) = Len(conn[c].echo) + n
  BY WriteEffect DEF Echoes
<1>3. /\ buf[1] \in Int /\ buf[2] \in Int /\ conn[c].taken \in Int
      /\ conn[c].got \in Int /\ Len(conn[c].echo) \in Nat /\ conn[c].sent \in Int
      /\ buf[2] = conn[c].taken /\ Len(conn[c].echo) < buf[1]
      /\ conn[c].got <= Len(conn[c].echo) /\ conn[c].taken <= conn[c].sent
  <2>1. /\ conn[c].taken \in 0 .. MaxSend /\ conn[c].sent \in 0 .. MaxSend
        /\ conn[c].got \in 0 .. MaxSend /\ conn[c].echo \in Seq(1 .. MaxSend)
    BY <1>1, ConnType DEF IInv
  <2>2. buf[1] \in 1 .. MaxSend + 1 /\ buf[2] \in 0 .. MaxSend
    BY DEF IInv, TypeOK
  <2>3. /\ buf[2] = conn[c].taken /\ Len(conn[c].echo) < buf[1]
        /\ conn[c].got <= Len(conn[c].echo) /\ conn[c].taken <= conn[c].sent
    BY <1>1 DEF IInv, Bytes
  <2> HIDE DEF c
  <2> QED BY <2>1, <2>2, <2>3
<1>4. Bytes'
  <2>1. /\ Len(conn'[c].echo) <= conn'[c].taken /\ conn'[c].taken <= conn'[c].sent
        /\ conn'[c].got <= Len(conn'[c].echo)
    <3>1. /\ Len(conn[c].echo) + n <= conn[c].taken
          /\ conn[c].got <= Len(conn[c].echo) + n
      <4>1. \A g, l, u, v \in Int : \A m \in 1 .. v - u + 1 :
              g <= l /\ l < u => l + m <= v /\ g <= l + m
        OBVIOUS
      <4>2. /\ Len(conn[c].echo) \in Int /\ n \in 1 .. conn[c].taken - buf[1] + 1
            /\ conn[c].got <= Len(conn[c].echo) /\ Len(conn[c].echo) < buf[1]
            /\ conn[c].got \in Int /\ buf[1] \in Int /\ conn[c].taken \in Int
        <5> HIDE DEF c
        <5> QED BY <1>3
      <4> HIDE DEF c
      <4> QED BY <4>1, <4>2, Zenon
    <3>2. /\ conn'[c].taken = conn[c].taken /\ conn'[c].sent = conn[c].sent
          /\ conn'[c].got = conn[c].got
          /\ Len(conn'[c].echo) = Len(conn[c].echo) + n
      BY <1>1, <1>2
    <3>3. conn[c].taken <= conn[c].sent
      BY <1>3
    <3> HIDE DEF c
    <3> QED BY <3>1, <3>2, <3>3, Zenon
  <2>2. \A d \in Client : conn'[d].st \in {"none", "queued"} => d # c
    BY <1>1
  <2> HIDE DEF c
  <2> QED BY <1>1, <2>1, <2>2 DEF IInv, Bytes
<1>5. buf' \in (1 .. MaxSend + 1) \X (0 .. MaxSend)
  BY <1>1 DEF IInv, TypeOK
<1>6. \A d \in Client : conn'[d].st = conn[d].st
  BY <1>1
<1> QED BY <1>1, <1>4, <1>5, <1>6, Transfers

-----------------------------------------------------------------------------
(* The invariant and what follows from it.                                 *)

LEMMA Stutter == IInv /\ UNCHANGED vars => IInv'
<1> SUFFICES ASSUME IInv, UNCHANGED vars PROVE IInv'
  OBVIOUS
<1>0. UNCHANGED <<pc, events, i, fd, buf, fds, watched, ready, acceptq, conn>>
  BY DEF vars, server, kernel
<1>1. Pending' = Pending /\ \A f : Awaited(f)' = Awaited(f)
  BY <1>0 DEF Pending, Busy, Awaited
<1>2. TypeOK' /\ Handler' /\ Bytes'
  BY <1>0 DEF IInv, TypeOK, Handler, Bytes
<1>3. Events' /\ FdTable'
  BY <1>0, <1>1 DEF IInv, Events, FdTable
<1>4. Queues'
  BY <1>0 DEF IInv, Queues, Holds, Distinct
<1>5. Noticed'
  BY <1>0, <1>1 DEF IInv, Noticed, Reportable, Unread, Holds
<1> QED BY <1>2, <1>3, <1>4, <1>5 DEF IInv

LEMMA Inductive == IInv /\ [Next]_vars => IInv'
<1> SUFFICES ASSUME IInv, [Next]_vars PROVE IInv'
  OBVIOUS
<1>1. CASE ServerStep
  BY <1>1, SetupSteps, RegisterStep, WaitStep, DispatchSteps, CloseSteps, AcceptStep,
     ReturnSteps, AddStep, AddFailsStep, ReadStep, WriteStep, SignalStep
  DEF ServerStep
<1>2. ASSUME NEW c \in Client, ClientStep(c) PROVE IInv'
  BY <1>2, ConnectStep, ClientSteps, ReceiveStep DEF ClientStep
<1>3. CASE UNCHANGED vars
  BY <1>3, Stutter
<1> QED BY <1>1, <1>2, <1>3 DEF Next, Rest

LEMMA Always == Spec => []IInv
BY Initially, Inductive, PTL DEF Spec

(* Every variable of the server and the kernel keeps its type.             *)
THEOREM TypeCorrect == Spec => []TypeOK
<1>1. IInv => TypeOK
  BY DEF IInv
<1> QED BY <1>1, Always, PTL

(* No descriptor is leaked, closed twice or left unregistered, whichever   *)
(* connections end or fail in which order (reactor.c 65-69, 82-95, 124).   *)
THEOREM NothingLeaked == Spec => []FdTable
<1>1. IInv => FdTable
  BY DEF IInv
<1> QED BY <1>1, Always, PTL

(* Although descriptors are closed and handed out again while events wait  *)
(* to be handled (reactor.c 118-134), each event is applied to the         *)
(* connection epoll_wait reported it for.                                  *)
THEOREM NeverMixedUp == Spec => []RightConnection
<1>1. IInv => RightConnection
  BY DEF IInv, Handler, Events, Pending, Busy, RightConnection
<1> QED BY <1>1, Always, PTL

(* The server never blocks in epoll_wait while an open connection has data *)
(* to read or has ended: each handler reads until the socket is empty      *)
(* (reactor.c 76-99), so that the next event is a new edge.                *)
THEOREM AllInputNoticed == Spec => []NoLostInput
<1>1. IInv => NoLostInput
  <2> SUFFICES ASSUME IInv, Blocked, NEW c \in Client, conn[c].st = "open"
               PROVE  /\ \E f \in watched : f # listenfd /\ fds[f] = c
                      /\ Unread(c) = 0 /\ ~ conn[c].eof /\ ~ conn[c].rst
    BY DEF NoLostInput
  <2>1. pc = "wait" /\ ready = <<>>
    BY DEF Blocked
  <2>2. PICK f \in Fd : fds[f] = c
    BY DEF IInv, FdTable
  <2>3. f \in watched /\ f # listenfd
    BY <2>1, <2>2, NoneAssumption, BoundsAssumption DEF IInv, FdTable, Fd, listenfd
  <2>4. ~ Holds(ready, f) /\ ~ Awaited(f)
    BY <2>1 DEF Holds, Awaited, Pending, Busy
  <2>5. ~ Reportable(f)
    BY <2>1, <2>3, <2>4 DEF IInv, Noticed
  <2>6. ~ (Unread(c) > 0) /\ ~ conn[c].eof /\ ~ conn[c].rst
    BY <2>2, <2>3, <2>5 DEF Reportable
  <2>7. conn[c].sent \in Int /\ conn[c].taken \in Int /\ conn[c].taken <= conn[c].sent
    BY ConnType DEF IInv, Bytes
  <2>8. Unread(c) = 0
    BY <2>6, <2>7 DEF Unread
  <2> QED BY <2>2, <2>3, <2>6, <2>8
<1> QED BY <1>1, Always, PTL

-----------------------------------------------------------------------------
(* The echo.                                                               *)

\* write takes all it is given: the send buffer has room for all a client may
\* send, or bytes are read one at a time.
NoShortWrite == MaxSend <= SndBuf \/ BUF_SIZE = 1

Unwritten(c) == IF pc = "write" /\ fds[fd] = c THEN buf[2] - buf[1] + 1 ELSE 0

Verbatim ==
  /\ \A c \in Client :
       /\ \A k \in 1 .. Len(conn[c].echo) : conn[c].echo[k] = k
       /\ conn[c].st = "open" /\ pc # "killed" =>
            Len(conn[c].echo) + Unwritten(c) = conn[c].taken
  /\ pc = "write" => buf[2] - buf[1] + 1 <= BUF_SIZE

(* A step that neither reads nor writes.                                   *)
LEMMA EchoKept ==
  ASSUME IInv, Verbatim, pc # "killed",
         \A c \in Client : /\ conn'[c].echo = conn[c].echo
                           /\ conn'[c].taken = conn[c].taken
                           /\ conn'[c].st = "open" /\ pc' # "killed" =>
                                /\ conn[c].st \in {"open", "queued"}
                                /\ Unwritten(c)' = Unwritten(c)
                                /\ conn[c].st = "queued" => Unwritten(c) = 0,
         pc' = "write" => pc = "write" /\ buf' = buf
  PROVE  Verbatim'
<1>1. ASSUME NEW c \in Client, conn'[c].st = "open", pc' # "killed"
      PROVE  Len(conn'[c].echo) + Unwritten(c)' = conn'[c].taken
  <2>1. CASE conn[c].st = "open"
    BY <1>1, <2>1 DEF Verbatim
  <2>2. CASE conn[c].st = "queued"
    <3>1. Len(conn[c].echo) \in Nat /\ Len(conn[c].echo) <= 0 /\ conn[c].taken = 0
      BY <2>2, ConnType DEF IInv, Bytes
    <3> QED BY <1>1, <2>2, <3>1
  <2> QED BY <1>1, <2>1, <2>2
<1>2. \A c \in Client : \A k \in 1 .. Len(conn'[c].echo) : conn'[c].echo[k] = k
  BY DEF Verbatim
<1>3. pc' = "write" => buf'[2] - buf'[1] + 1 <= BUF_SIZE
  BY DEF Verbatim
<1> QED BY <1>1, <1>2, <1>3 DEF Verbatim

(* While no handler is about to write, all that was read is written.       *)
LEMMA EchoQuiet ==
  ASSUME IInv, Verbatim, pc \notin {"write", "killed"}, pc' # "write",
         \A c \in Client : /\ conn'[c].echo = conn[c].echo
                           /\ conn'[c].taken = conn[c].taken
                           /\ conn'[c].st = "open" => conn[c].st \in {"open", "queued"}
  PROVE  Verbatim'
<1>1. \A c : Unwritten(c) = 0 /\ Unwritten(c)' = 0
  BY DEF Unwritten
<1> QED BY <1>1, EchoKept

LEMMA EchoClient ==
  ASSUME IInv, Verbatim, NEW c \in Client, ClientStep(c)
  PROVE  Verbatim'
<1>1. UNCHANGED <<pc, fd, buf, fds>> /\ pc # "killed"
  BY DEF ClientStep, Connect, Send, Shutdown, Reset, Receive, Talking, Listening,
         server, kernel
<1>2. conn \in [Client -> Connection]
  BY DEF IInv, TypeOK
<1>3. \A d \in Client : /\ conn'[d].echo = conn[d].echo
                        /\ conn'[d].taken = conn[d].taken
                        /\ conn'[d].st = "open" => conn[d].st = "open"
  <2>1. CASE Connect(c)
    <3>1. conn' = [conn EXCEPT ![c].st = "queued"]
      BY <2>1 DEF Connect
    <3> QED BY <1>2, <3>1 DEF Connection
  <2>2. CASE Send(c)
    <3>1. conn' = [conn EXCEPT ![c].sent = @ + 1]
      BY <2>2 DEF Send
    <3> QED BY <1>2, <3>1 DEF Connection
  <2>3. CASE Shutdown(c)
    <3>1. conn' = [conn EXCEPT ![c].eof = TRUE]
      BY <2>3 DEF Shutdown
    <3> QED BY <1>2, <3>1 DEF Connection
  <2>4. CASE Reset(c)
    <3>1. conn' = [conn EXCEPT ![c].rst = TRUE]
      BY <2>4 DEF Reset
    <3> QED BY <1>2, <3>1 DEF Connection
  <2>5. CASE Receive(c)
    <3>1. conn' = [conn EXCEPT ![c].got = @ + 1]
      BY <2>5 DEF Receive
    <3> QED BY <1>2, <3>1 DEF Connection
  <2> QED BY <2>1, <2>2, <2>3, <2>4, <2>5 DEF ClientStep
<1>4. \A d : Unwritten(d)' = Unwritten(d)
  BY <1>1 DEF Unwritten
<1> QED BY <1>1, <1>3, <1>4, EchoKept

(* A connection is closed, perhaps with bytes not written.                 *)
LEMMA EchoClose ==
  ASSUME IInv, Verbatim, DispatchHup \/ AddFails \/ ReadEnd \/ WriteFails
  PROVE  Verbatim'
<1>1. PICK f \in Fd : /\ Close(f) /\ fds[f] \in Client
                      /\ pc \in {"add", "read", "write"} => f = fd
  <2>1. CASE DispatchHup
    <3>1. i \in Pending /\ i \in 1 .. Len(events) /\ events[i].hup /\ Close(events[i].fd)
          /\ pc = "dispatch"
      BY <2>1 DEF DispatchHup, Pending, Busy, IInv, TypeOK
    <3>2. events[i].fd # listenfd /\ events[i].fd \in Fd /\ fds[events[i].fd] \in Client
      BY <3>1, EventType DEF IInv, Events
    <3> QED BY <3>1, <3>2
  <2>2. CASE AddFails \/ ReadEnd \/ WriteFails
    <3>1. pc \in {"add", "read", "write"} /\ Close(fd)
      BY <2>2 DEF AddFails, ReadEnd, WriteFails
    <3> QED BY <3>1 DEF IInv, Handler
  <2> QED BY <2>1, <2>2
<1>2. pc \in {"dispatch", "add", "read", "write"} /\ pc' \in {"dispatch", "accept"}
  BY DEF DispatchHup, AddFails, ReadEnd, WriteFails, NextEvent
<1>3. \A d \in Client : /\ conn'[d].echo = conn[d].echo
                        /\ conn'[d].taken = conn[d].taken
                        /\ conn'[d].st = "open" => conn[d].st = "open" /\ d # fds[f]
  <2>1. conn \in [Client -> Connection] /\ conn' = [conn EXCEPT ![fds[f]].st = "closed"]
    BY <1>1 DEF IInv, TypeOK, Close
  <2> QED BY <1>1, <2>1 DEF Connection
<1>4. \A d : d # fds[f] => Unwritten(d)' = Unwritten(d)
  BY <1>1, <1>2 DEF Unwritten
<1> QED BY <1>2, <1>3, <1>4, EchoKept

LEMMA EchoRead == ASSUME IInv, Verbatim, Read PROVE Verbatim'
<1>0. PICK c \in Client : c = fds[fd]
  BY ReadEffect
<1>1. /\ c \in Client /\ conn[c].st = "open" /\ pc = "read" /\ pc' = "write"
      /\ UNCHANGED <<fd, kernel>>
      /\ \A d \in Client : d # c => conn'[d] = conn[d]
      /\ conn'[c].echo = conn[c].echo
      /\ conn'[c].taken \in conn[c].taken + 1 .. conn[c].taken + BUF_SIZE
      /\ buf' = <<conn[c].taken + 1, conn'[c].taken>>
  BY <1>0, ReadEffect
<1>2. c = (fds[fd])'
  BY <1>0, <1>1 DEF kernel
<1>3. conn[c].taken \in Nat /\ BUF_SIZE \in Nat /\ conn'[c].taken \in Nat
  BY <1>1, ConnType, BoundsAssumption DEF IInv
<1>4. /\ \A d \in Client : Unwritten(d) = 0
      /\ \A d \in Client : d # c => Unwritten(d)' = 0
      /\ Unwritten(c)' = conn'[c].taken - conn[c].taken
  <2>1. Unwritten(c)' = conn'[c].taken - (conn[c].taken + 1) + 1
    BY <1>1, <1>2 DEF Unwritten
  <2> QED BY <1>1, <1>2, <1>3, <2>1 DEF Unwritten
<1>5. \A d \in Client : /\ d # c => conn'[d] = conn[d]
                        /\ conn'[d].echo = conn[d].echo
  BY <1>1
<1>6. Len(conn'[c].echo) + Unwritten(c)' = conn'[c].taken
  <2>1. Len(conn[c].echo) + 0 = conn[c].taken
    BY <1>1, <1>4 DEF Verbatim
  <2>2. Len(conn[c].echo) = conn[c].taken
    BY <1>1, <2>1, ConnType DEF IInv
  <2> QED BY <1>1, <1>3, <1>4, <2>2
<1>7. \A d \in Client : conn'[d].st = "open" =>
                          Len(conn'[d].echo) + Unwritten(d)' = conn'[d].taken
  BY <1>1, <1>4, <1>5, <1>6 DEF Verbatim
<1>8. \A d \in Client : \A k \in 1 .. Len(conn'[d].echo) : conn'[d].echo[k] = k
  BY <1>5 DEF Verbatim
<1>9. buf'[2] - buf'[1] + 1 <= BUF_SIZE
  BY <1>1, <1>3
<1> QED BY <1>7, <1>8, <1>9 DEF Verbatim

LEMMA EchoWrite == ASSUME NoShortWrite, IInv, Verbatim, Write PROVE Verbatim'
<1>0. PICK c \in Client : c = fds[fd]
  BY WriteEffect
<1> DEFINE size == buf[2] - buf[1] + 1
           len == Len(conn[c].echo)
<1>1. /\ c \in Client /\ conn[c].st = "open" /\ pc = "write" /\ pc' = "read"
      /\ \A d \in Client : d # c => conn'[d] = conn[d]
      /\ conn'[c].taken = conn[c].taken
  BY <1>0, WriteEffect
<1>1a. PICK n \in 1 .. size : Echoes(c, n)
  BY <1>0, WriteEffect
<1>2. /\ n = Min({size, Room(c)}) /\ Room(c) > 0
      /\ Len(conn'[c].echo) = len + n
      /\ \A k \in 1 .. len : conn'[c].echo[k] = conn[c].echo[k]
      /\ \A k \in 1 .. n : conn'[c].echo[len + k] = buf[1] + k - 1
  BY <1>1a DEF Echoes
<1>3. /\ buf[1] \in Nat /\ buf[2] \in Nat /\ buf[2] = conn[c].taken /\ len \in Nat
      /\ conn[c].got \in Nat /\ conn[c].taken \in 0 .. MaxSend
  <2>1. /\ conn[c].taken \in 0 .. MaxSend /\ conn[c].got \in 0 .. MaxSend
        /\ conn[c].echo \in Seq(1 .. MaxSend)
    BY ConnType DEF IInv
  <2>2. buf[1] \in 1 .. MaxSend + 1 /\ buf[2] \in 0 .. MaxSend
    BY DEF IInv, TypeOK
  <2>3. buf[2] = conn[c].taken
    BY <1>0, <1>1 DEF IInv, Bytes
  <2> QED BY <2>1, <2>2, <2>3, BoundsAssumption
<1>4. len + size = conn[c].taken /\ size <= BUF_SIZE
  <2>1. Unwritten(c) = size
    BY <1>0, <1>1 DEF Unwritten
  <2> QED BY <1>1, <2>1 DEF Verbatim
<1>5. size \in Nat /\ len = buf[1] - 1
  <2>1. buf[1] \in Nat /\ buf[2] \in Nat /\ len \in Nat /\ len + size = buf[2]
    BY <1>3, <1>4
  <2>2. size \in Int /\ size >= 1
    BY <2>1
  <2> HIDE DEF len
  <2>3. len = buf[1] - 1
    BY <2>1
  <2> QED BY <2>2, <2>3
<1>6. n = size
  <2>1. Room(c) \in Int /\ Room(c) = SndBuf - (len - conn[c].got)
    BY <1>3, BoundsAssumption DEF Room
  <2>2. n = IF size <= Room(c) THEN size ELSE Room(c)
    BY <1>2, <1>5, <2>1, MinOfTwo
  <2> HIDE DEF size, len
  <2>3. CASE MaxSend <= SndBuf
    <3>1. size <= Room(c)
      BY <1>3, <1>4, <1>5, <2>1, <2>3, BoundsAssumption
    <3> QED BY <2>2, <3>1
  <2>4. CASE BUF_SIZE = 1
    BY <1>2, <1>4, <1>5, <2>1, <2>2, <2>4
  <2> QED BY <2>3, <2>4 DEF NoShortWrite
<1> HIDE DEF size
<1>7. \A k \in 1 .. Len(conn'[c].echo) : conn'[c].echo[k] = k
  <2> SUFFICES ASSUME NEW k \in 1 .. len + n PROVE conn'[c].echo[k] = k
    BY <1>2
  <2> HIDE DEF len
  <2>1. CASE k <= len
    <3>1. k \in 1 .. len
      BY <1>3, <2>1
    <3> QED BY <1>1, <1>2, <3>1 DEF Verbatim, len
  <2>2. CASE k > len
    <3>1. k - len \in 1 .. n /\ len + (k - len) = k /\ buf[1] + (k - len) - 1 = k
      BY <1>3, <1>5, <2>2
    <3> QED BY <1>2, <3>1
  <2> QED BY <1>3, <2>1, <2>2
<1>8. Len(conn'[c].echo) = conn'[c].taken
  BY <1>1, <1>2, <1>4, <1>6
<1>9. \A d \in Client : Unwritten(d)' = 0 /\ (d # c => Unwritten(d) = 0)
  BY <1>0, <1>1 DEF Unwritten
<1>10. \A d \in Client : conn'[d].st = "open" =>
                           Len(conn'[d].echo) + Unwritten(d)' = conn'[d].taken
  <2> TAKE d \in Client
  <2>1. CASE d = c
    <3>1. conn'[c].taken \in Nat
      BY <1>1, <1>3
    <3> QED BY <1>8, <1>9, <2>1, <3>1
  <2>2. CASE d # c
    BY <1>1, <1>9, <2>2 DEF Verbatim
  <2> QED BY <2>1, <2>2
<1>11. \A d \in Client : \A k \in 1 .. Len(conn'[d].echo) : conn'[d].echo[k] = k
  BY <1>1, <1>7 DEF Verbatim
<1> QED BY <1>1, <1>10, <1>11 DEF Verbatim

LEMMA EchoNext ==
  ASSUME NoShortWrite, IInv, Verbatim, [Next]_vars
  PROVE  Verbatim'
<1>1. CASE create_listen_socket \/ SetupFails \/ Register \/ RegisterFails \/ epoll_wait
           \/ DispatchNew \/ DispatchData \/ DispatchEnd
           \/ AcceptFails \/ Add \/ ReadAgain
  <2>1. UNCHANGED conn /\ pc \notin {"write", "killed"} /\ pc' # "write"
    BY <1>1 DEF create_listen_socket, SetupFails, Register, RegisterFails, epoll_wait,
                DispatchNew, DispatchData, DispatchEnd, AcceptFails, Add, ReadAgain,
                NextEvent
  <2> QED BY <2>1, EchoQuiet
<1>2. CASE Accept
  <2>1. pc = "accept" /\ pc' = "add" /\ conn' = [conn EXCEPT ![Head(acceptq)].st = "open"]
        /\ acceptq # <<>>
    BY <1>2 DEF Accept
  <2>2. acceptq \in Seq(Client) /\ conn \in [Client -> Connection]
    BY DEF IInv, TypeOK
  <2>3. PICK c \in Client : c = Head(acceptq) /\ Holds(acceptq, c)
    BY <2>1, <2>2, ShrinksAtHead
  <2>4. conn[c].st = "queued"
    BY <2>3 DEF IInv, Queues
  <2>5. \A d \in Client : /\ conn'[d].echo = conn[d].echo
                          /\ conn'[d].taken = conn[d].taken
                          /\ d # c => conn'[d].st = conn[d].st
    BY <2>1, <2>2, <2>3 DEF Connection
  <2> QED BY <2>1, <2>4, <2>5, EchoQuiet
<1>3. CASE WriteSignalled
  BY <1>3, EchoKept DEF WriteSignalled
<1>4. ASSUME NEW c \in Client, ClientStep(c) PROVE Verbatim'
  BY <1>4, EchoClient
<1>5. CASE UNCHANGED vars
  <2>1. UNCHANGED <<pc, fd, buf, fds, conn>>
    BY <1>5 DEF vars, server, kernel
  <2> QED BY <2>1 DEF Verbatim, Unwritten
<1> QED BY <1>1, <1>2, <1>3, <1>4, <1>5, EchoClose, EchoRead, EchoWrite
        DEF Next, ServerStep, Rest

(* As long as write takes what it is given, each client gets back what it  *)
(* sent, byte for byte and in order, however reads, writes and the other   *)
(* connections' events interleave (reactor.c 76-99).                       *)
THEOREM EchoedVerbatim ==
  ASSUME NoShortWrite
  PROVE  Spec => []EchoVerbatim
<1>1. Init => Verbatim
  BY DEF Init, Verbatim, Unwritten
<1>2. IInv /\ Verbatim /\ [Next]_vars => Verbatim'
  BY EchoNext
<1>3. IInv /\ Verbatim => EchoVerbatim
  <2> SUFFICES ASSUME IInv, Verbatim, NEW c \in Client
               PROVE  /\ \A k \in DOMAIN conn[c].echo : conn[c].echo[k] = k
                      /\ conn[c].st = "open" /\ pc # "killed" =>
                           Len(conn[c].echo) + Unwritten(c) = conn[c].taken
    BY DEF EchoVerbatim, Unwritten
  <2>1. DOMAIN conn[c].echo = 1 .. Len(conn[c].echo)
    BY ConnType DEF IInv
  <2> QED BY <2>1 DEF Verbatim
<1> QED BY <1>1, <1>2, <1>3, Always, PTL DEF Spec

-----------------------------------------------------------------------------
(* The accept queue.                                                       *)

\* The process may have a descriptor for each client.
DescriptorsSuffice == IsFiniteSet(Client) /\ Cardinality(Client) <= MaxFd

\* That connections wait to be accepted is on its way to the server.
Served ==
  pc # "killed" /\ listenfd \in watched /\ acceptq # <<>> =>
    Holds(ready, listenfd) \/ Awaited(listenfd)

(* While a connection waits, another holds each descriptor in use.         *)
LEMMA OneIsFree ==
  ASSUME DescriptorsSuffice, IInv, acceptq # <<>>
  PROVE  Free # {}
<1> SUFFICES ASSUME Free = {} PROVE FALSE
  OBVIOUS
<1>1. PICK c \in Client : conn[c].st = "queued"
  <2>1. acceptq \in Seq(Client)
    BY DEF IInv, TypeOK
  <2>2. Head(acceptq) \in Client /\ Holds(acceptq, Head(acceptq))
    BY <2>1, ShrinksAtHead
  <2> QED BY <2>2 DEF IInv, Queues
<1>2. \A f \in Fd : fds[f] \in Client \ {c}
  <2>1. \A f \in Fd : fds[f] # None /\ fds[f] \in Client \cup {None}
    BY DEF Free, IInv, TypeOK
  <2>2. \A f \in Fd : fds[f] # c
    BY <1>1 DEF IInv, FdTable
  <2> QED BY <2>1, <2>2
<1>3. fds \in Injection(Fd, Client \ {c})
  <2>1. fds \in [Fd -> Client \ {c}]
    BY <1>2 DEF IInv, TypeOK
  <2>2. \A f, g \in Fd : fds[f] = fds[g] => f = g
    BY <1>2, NoneAssumption DEF IInv, FdTable
  <2> QED BY <2>1, <2>2 DEF Injection, IsInjective
<1>4. /\ IsFiniteSet(Client \ {c})
      /\ Cardinality(Client \ {c}) = Cardinality(Client) - 1
      /\ Cardinality(Client) \in Nat
  BY FS_RemoveElement, FS_CardinalityType DEF DescriptorsSuffice
<1>5. Cardinality(Fd) = MaxFd
  BY FS_Interval, BoundsAssumption DEF Fd
<1>6. Cardinality(Fd) <= Cardinality(Client \ {c})
  BY <1>3, <1>4, FS_Injection
<1> QED BY <1>4, <1>5, <1>6, BoundsAssumption DEF DescriptorsSuffice

LEMMA ServedNext ==
  ASSUME DescriptorsSuffice, IInv, Served, [Next]_vars
  PROVE  Served'
<1>0. listenfd \notin Fd
  BY BoundsAssumption DEF Fd, listenfd
<1>1. ASSUME UNCHANGED acceptq, pc # "killed", listenfd \in watched' => listenfd \in watched,
             listenfd \in watched /\ Holds(ready, listenfd) => Holds(ready', listenfd),
             pc' # "killed" /\ Awaited(listenfd) => Awaited(listenfd)'
      PROVE  Served'
  BY <1>1 DEF Served, Holds
<1>2. CASE create_listen_socket \/ SetupFails \/ RegisterFails \/ DispatchEnd
  <2>1. UNCHANGED <<acceptq, watched, ready>> /\ pc # "killed" /\ Pending = {}
    BY <1>2 DEF create_listen_socket, SetupFails, RegisterFails, DispatchEnd, kernel,
                Pending, Busy, IInv, TypeOK
  <2> QED BY <1>1, <2>1 DEF Awaited
<1>3. CASE Register
  <2>1. UNCHANGED acceptq /\ (acceptq # <<>> => ready' = <<listenfd>>)
    BY <1>3 DEF Register, Reportable
  <2> QED BY <2>1 DEF Served, Holds
<1>4. CASE epoll_wait
  <2>1. UNCHANGED <<acceptq, watched>> /\ pc = "wait"
    BY <1>4 DEF epoll_wait
  <2>2. ~ Awaited(listenfd)
    BY <2>1 DEF Awaited, Pending, Busy
  <2>3. ASSUME listenfd \in watched, acceptq # <<>>
        PROVE  Holds(ready', listenfd) \/ Awaited(listenfd)'
    <3>1. Holds(ready, listenfd) /\ Reportable(listenfd)
      BY <2>1, <2>2, <2>3 DEF Served, Reportable
    <3> QED BY <1>4, <2>3, <3>1, WaitStep
  <2> QED BY <2>1, <2>3 DEF Served, Holds
<1>5. CASE DispatchNew \/ DispatchData
  <2>1. /\ UNCHANGED <<acceptq, watched, ready, events, i>> /\ pc = "dispatch"
        /\ pc' \in {"accept", "read"}
    BY <1>5 DEF DispatchNew, DispatchData, kernel
  <2>2. Awaited(listenfd)' = Awaited(listenfd)
    BY <2>1 DEF Awaited, Pending, Busy
  <2> QED BY <1>1, <2>1, <2>2
<1>6. CASE DispatchHup \/ ReadEnd \/ WriteFails \/ ReadAgain
  <2>1. /\ UNCHANGED <<acceptq, events>> /\ pc \in {"dispatch", "read", "write"}
        /\ pc' = "dispatch" /\ i' = i + 1
    BY <1>6 DEF DispatchHup, ReadEnd, WriteFails, ReadAgain, NextEvent, kernel
  <2>2. /\ i \in Pending /\ events[i].fd # listenfd
    <3>1. i \in Nat /\ Len(events) \in Nat
      BY DEF IInv, TypeOK
    <3>2. CASE DispatchHup
      <4>1. i \in Pending /\ events[i].hup
        BY <2>1, <3>1, <3>2 DEF DispatchHup, Pending, Busy
      <4> QED BY <4>1 DEF IInv, Events
    <3>3. CASE ReadEnd \/ WriteFails \/ ReadAgain
      <4>1. pc \in {"read", "write"}
        BY <3>3 DEF ReadEnd, WriteFails, ReadAgain
      <4>2. i <= Len(events) /\ events[i].fd = fd /\ fd \in Fd
        BY <4>1 DEF IInv, Handler
      <4> QED BY <1>0, <3>1, <4>1, <4>2 DEF Pending, Busy
    <3> QED BY <1>6, <3>2, <3>3
  <2>3. Awaited(listenfd) => Awaited(listenfd)'
    <3>1. i \in Nat /\ Len(events) \in Nat
      BY DEF IInv, TypeOK
    <3>2. \A k \in Pending : k = i \/ k \in Pending'
      BY <2>1, <3>1 DEF Pending, Busy
    <3> QED BY <2>1, <2>2, <3>2 DEF Awaited
  <2>4. CASE ReadAgain
    <3>1. UNCHANGED <<watched, ready>>
      BY <2>4 DEF ReadAgain, kernel
    <3> QED BY <1>1, <2>1, <2>3, <3>1
  <2>5. CASE DispatchHup \/ ReadEnd \/ WriteFails
    <3>1. PICK f : Close(f) /\ f # listenfd
      <4>1. CASE DispatchHup
        BY <2>2, <4>1 DEF DispatchHup
      <4>2. CASE ReadEnd \/ WriteFails
        BY <1>0, <4>2 DEF ReadEnd, WriteFails, IInv, Handler
      <4> QED BY <2>5, <4>1, <4>2
    <3>2. watched' = watched \ {f} /\ ready' = Kept(ready, watched \ {f})
      BY <3>1 DEF Close
    <3>3. ready \in Seq(watched)
      BY DEF IInv, TypeOK
    <3>4. listenfd \in watched /\ Holds(ready, listenfd) => Holds(ready', listenfd)
      <4> DEFINE S == watched \ {f}
      <4>1. listenfd \in watched => listenfd \in S
        BY <3>1
      <4> HIDE DEF S
      <4>2. Holds(Kept(ready, S), listenfd) <=> Holds(ready, listenfd) /\ listenfd \in S
        BY <3>3, KeptProperties
      <4> QED BY <3>2, <4>1, <4>2 DEF S
    <3> QED BY <1>1, <2>1, <2>3, <3>2, <3>4
  <2> QED BY <1>6, <2>4, <2>5
<1>7. CASE Accept \/ Add \/ AddFails
  <2>1. UNCHANGED <<events, i>> /\ pc \in {"accept", "add"} /\ pc' \in {"accept", "add"}
    BY <1>7 DEF Accept, Add, AddFails
  <2>2. i \in Pending' /\ events'[i].fd = listenfd
    BY <2>1 DEF IInv, Handler, TypeOK, Pending, Busy
  <2> QED BY <2>2 DEF Served, Awaited
<1>8. CASE AcceptFails
  <2>1. UNCHANGED acceptq /\ acceptq = <<>>
    BY <1>8, OneIsFree DEF AcceptFails, kernel
  <2> QED BY <2>1 DEF Served
<1>9. CASE Read \/ Write
  <2>1. /\ UNCHANGED <<acceptq, watched, ready, events, i>>
        /\ pc \in {"read", "write"} /\ pc' \in {"read", "write"}
    BY <1>9 DEF Read, Write, kernel
  <2>2. Awaited(listenfd)' = Awaited(listenfd)
    BY <2>1 DEF Awaited, Pending, Busy
  <2> QED BY <1>1, <2>1, <2>2
<1>10. CASE WriteSignalled
  BY <1>10 DEF WriteSignalled, Served
<1>11. ASSUME NEW c \in Client, ClientStep(c) PROVE Served'
  <2>0. ready \in Seq(watched) /\ Distinct(ready)
    BY DEF IInv, TypeOK, Queues
  <2>1. UNCHANGED <<pc, events, i, watched>> /\ pc # "killed"
    BY <1>11 DEF ClientStep, Connect, Send, Shutdown, Reset, Receive, Talking,
                 Listening, server, kernel
  <2>2. Awaited(listenfd)' = Awaited(listenfd)
    BY <2>1 DEF Awaited, Pending, Busy
  <2>3. CASE Connect(c)
    <3>1. ready' = Edge(listenfd)
      BY <2>3 DEF Connect
    <3>2. listenfd \in watched => Holds(ready', listenfd)
      BY <2>0, <3>1, EdgeProperties
    <3> QED BY <2>1, <3>2 DEF Served, Holds
  <2>4. CASE Send(c) \/ Shutdown(c) \/ Reset(c)
    <3>1. ready' = EdgeOn(c) /\ UNCHANGED acceptq
      BY <2>4 DEF Send, Shutdown, Reset
    <3>2. Holds(ready, listenfd) => Holds(ready', listenfd)
      BY <2>0, <3>1, EdgeOnProperties DEF IInv
    <3> QED BY <1>1, <2>1, <2>2, <3>1, <3>2
  <2>5. CASE Receive(c)
    <3>1. UNCHANGED <<ready, acceptq>>
      BY <2>5 DEF Receive, kernel
    <3> QED BY <1>1, <2>1, <2>2, <3>1
  <2> QED BY <1>11, <2>3, <2>4, <2>5 DEF ClientStep
<1>12. CASE UNCHANGED vars
  <2>1. UNCHANGED <<pc, events, i, watched, ready, acceptq>>
    BY <1>12 DEF vars, server, kernel
  <2> QED BY <2>1 DEF Served, Awaited, Pending, Busy, Holds
<1> QED BY <1>2, <1>3, <1>4, <1>5, <1>6, <1>7, <1>8, <1>9, <1>10, <1>11, <1>12
        DEF Next, ServerStep, Rest

(* If there can be a descriptor for each client, the server never blocks   *)
(* while a connection waits to be accepted: handle_new_connection accepts  *)
(* until the queue is empty (reactor.c 56-71).                             *)
THEOREM AllAccepted ==
  ASSUME DescriptorsSuffice
  PROVE  Spec => []NoLostConnection
<1>1. Init => Served
  BY DEF Init, Served
<1>2. IInv /\ Served /\ [Next]_vars => Served'
  BY ServedNext
<1>3. Served => NoLostConnection
  <2> SUFFICES ASSUME Served, Blocked, listenfd \in watched PROVE acceptq = <<>>
    BY DEF NoLostConnection
  <2>1. pc = "wait" /\ ready = <<>>
    BY DEF Blocked
  <2>2. ~ Holds(ready, listenfd) /\ ~ Awaited(listenfd)
    BY <2>1 DEF Holds, Awaited, Pending, Busy
  <2> QED BY <2>1, <2>2 DEF Served
<1> QED BY <1>1, <1>2, <1>3, Always, PTL DEF Spec
=============================================================================
