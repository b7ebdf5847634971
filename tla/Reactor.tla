------------------------------ MODULE Reactor ------------------------------
(***************************************************************************)
(* The edge-triggered echo server of 06-epoll_reactor/reactor.c, with the  *)
(* clients and the parts of the kernel it works on: the accept queue, the  *)
(* file descriptor table, sockets, and the ready list of the epoll         *)
(* instance.  Every system call of the server is a step, so connections,   *)
(* data and disconnections arrive between any two of them.                 *)
(*                                                                         *)
(* The bytes a client sends are numbered from 1; of a connection only the  *)
(* numbers of bytes sent and read and the bytes echoed are kept.  Clients  *)
(* and kernel are modelled from how the server uses them (Linux, TCP):     *)
(*  - a descriptor enters the ready list on an event of its mask, once     *)
(*    until epoll_wait takes it out; what epoll_wait reports is the state  *)
(*    of the socket then, and a descriptor with nothing to report is       *)
(*    dropped.  EPOLL_CTL_ADD looks at the state of the socket too;        *)
(*  - a reset is reported as EPOLLHUP | EPOLLERR; data that arrived before *)
(*    it can still be read; a write fails, and raises SIGPIPE, whose       *)
(*    default action ends the process, if the peer had sent FIN before.    *)
(***************************************************************************)
EXTENDS Integers, Sequences, FiniteSets, FiniteSetsExt

CONSTANTS
  Client,      \* the connections of the clients
  None,        \* no connection
  MaxFd,       \* how many descriptors the process has for clients
  MAX_EVENTS,  \* how many events epoll_wait reports at a time
  BUF_SIZE,    \* how many bytes read asks for
  SndBuf,      \* how many bytes a socket takes that its client has not read
  MaxSend,     \* bound: bytes sent on a connection
  MaxTotal,    \* bound: bytes sent on all connections together
  Resets,      \* may clients reset a connection?
  Faults       \* may set-up calls and EPOLL_CTL_ADD fail?

ASSUME BoundsAssumption ==
  /\ MaxFd \in Nat \ {0} /\ MAX_EVENTS \in Nat \ {0} /\ BUF_SIZE \in Nat \ {0}
  /\ SndBuf \in Nat /\ MaxSend \in Nat /\ MaxTotal \in Nat
ASSUME NoneAssumption == None \notin Client

VARIABLES
  pc,         \* where the server is, see Places
  events, i,  \* the array epoll_wait has filled, the index of main's loop
  fd,         \* clientfd of the handler that runs
  buf,        \* the bytes read and not yet written, as an interval <<lo, hi>>
  fds,        \* the connection each descriptor refers to, or None
  watched,    \* the descriptors registered with epoll
  ready,      \* the ready list of the epoll instance
  acceptq,    \* the accept queue of the listening socket
  conn        \* the state of every connection

server == <<pc, events, i, fd, buf>>
kernel == <<fds, watched, ready, acceptq>>
vars == <<server, kernel, conn>>

Fd == 1 .. MaxFd
listenfd == 0

\* before listen; before the listening socket is registered; epoll_wait;
\* main's loop over events; accept4; EPOLL_CTL_ADD of an accepted socket;
\* read; write; returned from main; ended by a signal.
Places == {"boot", "register", "wait", "dispatch", "accept", "add",
           "read", "write", "exit", "killed"}

Event == [fd : Fd \cup {listenfd}, hup : BOOLEAN, of : Client \cup {None}]

\* st: not connected yet, in the accept queue, accepted, closed by the server.
Connection == [st : {"none", "queued", "open", "closed"},
               sent : 0 .. MaxSend, taken : 0 .. MaxSend, got : 0 .. MaxSend,
               echo : Seq(1 .. MaxSend), eof : BOOLEAN, rst : BOOLEAN]

TypeOK ==
  /\ pc \in Places
  /\ events \in Seq(Event) /\ Len(events) <= MAX_EVENTS
  /\ i \in 1 .. Len(events) + 1
  /\ fd \in Fd \cup {listenfd}
  /\ buf \in (1 .. MaxSend + 1) \X (0 .. MaxSend)
  /\ fds \in [Fd -> Client \cup {None}]
  /\ watched \subseteq Fd \cup {listenfd}
  /\ ready \in Seq(watched)
  /\ acceptq \in Seq(Client)
  /\ conn \in [Client -> Connection]

Init ==
  /\ pc = "boot" /\ events = <<>> /\ i = 1 /\ fd = listenfd /\ buf = <<1, 0>>
  /\ fds = [f \in Fd |-> None] /\ watched = {} /\ ready = <<>> /\ acceptq = <<>>
  /\ conn = [c \in Client |->
               [st |-> "none", sent |-> 0, taken |-> 0, got |-> 0,
                echo |-> <<>>, eof |-> FALSE, rst |-> FALSE]]

-----------------------------------------------------------------------------
(* The kernel.                                                             *)

Holds(s, x) == \E k \in DOMAIN s : s[k] = x

\* Of list s the members of S, in the same order.
Kept(s, S) ==
  LET at == {k \in DOMAIN s : s[k] \in S}
      Rank(k) == Cardinality({j \in at : j <= k})
  IN [n \in 1 .. Cardinality(at) |-> s[CHOOSE k \in at : Rank(k) = n]]

\* An event occurs on descriptor f, whose registration is in watched.
Edge(f) == IF f \in watched /\ ~ Holds(ready, f) THEN Append(ready, f) ELSE ready

\* An event occurs on the socket of connection c, if it has a descriptor.
EdgeOn(c) == LET S == {f \in Fd : fds[f] = c}
             IN IF S = {} THEN ready ELSE Edge(CHOOSE f \in S : TRUE)

Unread(c) == conn[c].sent - conn[c].taken

\* Is there anything of the mask to report about descriptor f?
Reportable(f) == IF f = listenfd THEN acceptq # <<>>
                 ELSE LET c == fds[f]
                      IN Unread(c) > 0 \/ conn[c].eof \/ conn[c].rst

Report(f) == IF f = listenfd THEN [fd |-> f, hup |-> FALSE, of |-> None]
             ELSE [fd |-> f, hup |-> conn[fds[f]].rst, of |-> fds[f]]

\* The server is up and its listening socket accepts connections.
Listening == pc \notin {"boot", "exit", "killed"}

-----------------------------------------------------------------------------
(* The clients.                                                            *)

Connect(c) ==
  /\ Listening /\ conn[c].st = "none"
  /\ conn' = [conn EXCEPT ![c].st = "queued"]
  /\ acceptq' = Append(acceptq, c)
  /\ ready' = Edge(listenfd)
  /\ UNCHANGED <<server, fds, watched>>

\* Connection c is up and its client has not ended it.
Talking(c) == /\ Listening /\ conn[c].st \in {"queued", "open"}
              /\ ~ conn[c].rst

TotalSent == MapThenSumSet(LAMBDA c : conn[c].sent, Client)

Send(c) ==
  /\ Talking(c) /\ ~ conn[c].eof /\ conn[c].sent < MaxSend
  /\ TotalSent < MaxTotal
  /\ conn' = [conn EXCEPT ![c].sent = @ + 1]
  /\ ready' = EdgeOn(c)
  /\ UNCHANGED <<server, fds, watched, acceptq>>

Shutdown(c) ==
  /\ Talking(c) /\ ~ conn[c].eof
  /\ conn' = [conn EXCEPT ![c].eof = TRUE]
  /\ ready' = EdgeOn(c)
  /\ UNCHANGED <<server, fds, watched, acceptq>>

Reset(c) ==
  /\ Resets
  /\ Talking(c)
  /\ conn' = [conn EXCEPT ![c].rst = TRUE]
  /\ ready' = EdgeOn(c)
  /\ UNCHANGED <<server, fds, watched, acceptq>>

\* The client reads a byte of the echo.  EPOLLOUT is not in the mask.
Receive(c) ==
  /\ Talking(c) /\ conn[c].got < Len(conn[c].echo)
  /\ conn' = [conn EXCEPT ![c].got = @ + 1]
  /\ UNCHANGED <<server, kernel>>

ClientStep(c) == Connect(c) \/ Send(c) \/ Shutdown(c) \/ Reset(c) \/ Receive(c)

-----------------------------------------------------------------------------
(* main.                                                                   *)

create_listen_socket ==
  /\ pc = "boot"
  /\ pc' = "register"
  /\ UNCHANGED <<events, i, fd, buf, kernel, conn>>

\* create_listen_socket or epoll_create1 fails: main returns 1.
SetupFails ==
  /\ Faults
  /\ pc \in {"boot", "register"}
  /\ pc' = "exit"
  /\ UNCHANGED <<events, i, fd, buf, kernel, conn>>

Register ==
  /\ pc = "register"
  /\ pc' = "wait"
  /\ watched' = watched \cup {listenfd}
  /\ ready' = IF Reportable(listenfd) THEN <<listenfd>> ELSE <<>>
  /\ UNCHANGED <<events, i, fd, buf, fds, acceptq, conn>>

\* epoll_ctl fails: main says so and waits for events all the same.
RegisterFails ==
  /\ Faults
  /\ pc = "register"
  /\ pc' = "wait"
  /\ UNCHANGED <<events, i, fd, buf, kernel, conn>>

\* The answer to epoll_wait; with nothing to report it goes on waiting.
epoll_wait ==
  LET live == Kept(ready, {f \in watched : Reportable(f)})
      n == Min({MAX_EVENTS, Len(live)})
  IN /\ pc = "wait" /\ ready # <<>>
     /\ pc' = IF n = 0 THEN "wait" ELSE "dispatch"
     /\ events' = [k \in 1 .. n |-> Report(live[k])] /\ i' = 1
     /\ ready' = SubSeq(live, n + 1, Len(live))
     /\ UNCHANGED <<fd, buf, fds, watched, acceptq, conn>>

\* The handler, or the branch of main, for events[i] is over.
NextEvent ==
  /\ i' = i + 1
  /\ pc' = "dispatch"

\* EPOLL_CTL_DEL and close of descriptor f.
Close(f) ==
  /\ fds' = [fds EXCEPT ![f] = None]
  /\ watched' = watched \ {f}
  /\ ready' = Kept(ready, watched \ {f})
  /\ conn' = [conn EXCEPT ![fds[f]].st = "closed"]

\* Mutant: without the continue a client handler runs as well.
DispatchHupFallsThrough ==
  /\ pc = "dispatch" /\ i <= Len(events) /\ events[i].hup
  /\ Close(events[i].fd)
  /\ pc' = "read" /\ fd' = events[i].fd
  /\ UNCHANGED <<events, i, buf, acceptq>>

DispatchHup ==
  /\ pc = "dispatch" /\ i <= Len(events) /\ events[i].hup
  /\ Close(events[i].fd)
  /\ NextEvent
  /\ UNCHANGED <<events, fd, buf, acceptq>>

DispatchNew ==
  /\ pc = "dispatch" /\ i <= Len(events)
  /\ ~ events[i].hup /\ events[i].fd = listenfd
  /\ pc' = "accept"
  /\ UNCHANGED <<events, i, fd, buf, kernel, conn>>

DispatchData ==
  /\ pc = "dispatch" /\ i <= Len(events)
  /\ ~ events[i].hup /\ events[i].fd # listenfd
  /\ pc' = "read" /\ fd' = events[i].fd
  /\ UNCHANGED <<events, i, buf, kernel, conn>>

DispatchEnd ==
  /\ pc = "dispatch" /\ i > Len(events)
  /\ pc' = "wait"
  /\ UNCHANGED <<events, i, fd, buf, kernel, conn>>

-----------------------------------------------------------------------------
(* handle_new_connection.                                                  *)

Free == {f \in Fd : fds[f] = None}

Accept ==
  /\ pc = "accept" /\ acceptq # <<>> /\ Free # {}
  /\ fd' = Min(Free)
  /\ fds' = [fds EXCEPT ![Min(Free)] = Head(acceptq)]
  /\ acceptq' = Tail(acceptq)
  /\ conn' = [conn EXCEPT ![Head(acceptq)].st = "open"]
  /\ pc' = "add"
  /\ UNCHANGED <<events, i, buf, watched, ready>>

\* EAGAIN, or EMFILE, which is tested first: either ends the loop.
AcceptFails ==
  /\ pc = "accept" /\ (acceptq = <<>> \/ Free = {})
  /\ NextEvent
  /\ UNCHANGED <<events, fd, buf, kernel, conn>>

\* Mutant: one connection is accepted per event.
AddOnce ==
  /\ pc = "add"
  /\ watched' = watched \cup {fd}
  /\ ready' = IF Reportable(fd) THEN Append(ready, fd) ELSE ready
  /\ NextEvent
  /\ UNCHANGED <<events, fd, buf, fds, acceptq, conn>>

Add ==
  /\ pc = "add"
  /\ watched' = watched \cup {fd}
  /\ ready' = IF Reportable(fd) THEN Append(ready, fd) ELSE ready
  /\ pc' = "accept"
  /\ UNCHANGED <<events, i, fd, buf, fds, acceptq, conn>>

\* Mutant: the socket is left open.
AddFailsOpen ==
  /\ Faults
  /\ pc = "add"
  /\ pc' = "accept"
  /\ UNCHANGED <<events, i, fd, buf, kernel, conn>>

AddFails ==
  /\ Faults
  /\ pc = "add"
  /\ Close(fd)
  /\ pc' = "accept"
  /\ UNCHANGED <<events, i, fd, buf, acceptq>>

-----------------------------------------------------------------------------
(* handle_client_data.                                                     *)

Read ==
  LET c == fds[fd]
      n == Min({BUF_SIZE, Unread(c)})
  IN /\ pc = "read" /\ Unread(c) > 0
     /\ buf' = <<conn[c].taken + 1, conn[c].taken + n>>
     /\ conn' = [conn EXCEPT ![c].taken = @ + n]
     /\ pc' = "write"
     /\ UNCHANGED <<events, i, fd, kernel>>

ReadAgain ==
  LET c == fds[fd]
  IN /\ pc = "read" /\ Unread(c) = 0 /\ ~ conn[c].eof /\ ~ conn[c].rst
     /\ NextEvent
     /\ UNCHANGED <<events, fd, buf, kernel, conn>>

\* Mutant: end of file is taken for an empty buffer.
ReadEndIgnored ==
  LET c == fds[fd]
  IN /\ pc = "read" /\ Unread(c) = 0 /\ (conn[c].eof \/ conn[c].rst)
     /\ NextEvent
     /\ UNCHANGED <<events, fd, buf, kernel, conn>>

\* End of file or ECONNRESET.
ReadEnd ==
  LET c == fds[fd]
  IN /\ pc = "read" /\ Unread(c) = 0 /\ (conn[c].eof \/ conn[c].rst)
     /\ Close(fd)
     /\ NextEvent
     /\ UNCHANGED <<events, fd, buf, acceptq>>

\* The bytes the socket takes.
Room(c) == SndBuf - (Len(conn[c].echo) - conn[c].got)

\* Mutants: the whole buffer is written, however little was read; the
\* socket is read once per event.
WriteWholeBuffer ==
  LET c == fds[fd]
      n == Min({BUF_SIZE, Room(c)})
  IN /\ pc = "write" /\ ~ conn[c].rst /\ Room(c) > 0
     /\ conn' = [conn EXCEPT ![c].echo = @ \o [k \in 1 .. n |-> buf[1] + k - 1]]
     /\ pc' = "read"
     /\ UNCHANGED <<events, i, fd, buf, kernel>>
WriteOnce ==
  LET c == fds[fd]
      n == Min({buf[2] - buf[1] + 1, Room(c)})
  IN /\ pc = "write" /\ ~ conn[c].rst /\ Room(c) > 0
     /\ conn' = [conn EXCEPT ![c].echo = @ \o [k \in 1 .. n |-> buf[1] + k - 1]]
     /\ NextEvent
     /\ UNCHANGED <<events, fd, buf, kernel>>

\* write may take fewer bytes than it is given: the rest is forgotten.
Write ==
  LET c == fds[fd]
      n == Min({buf[2] - buf[1] + 1, Room(c)})
  IN /\ pc = "write" /\ ~ conn[c].rst /\ Room(c) > 0
     /\ conn' = [conn EXCEPT ![c].echo = @ \o [k \in 1 .. n |-> buf[1] + k - 1]]
     /\ pc' = "read"
     /\ UNCHANGED <<events, i, fd, buf, kernel>>

\* EAGAIN, the socket being full, or ECONNRESET: the connection is closed.
WriteFails ==
  LET c == fds[fd]
  IN /\ pc = "write"
     /\ IF conn[c].rst THEN ~ conn[c].eof ELSE Room(c) = 0
     /\ Close(fd)
     /\ NextEvent
     /\ UNCHANGED <<events, fd, buf, acceptq>>

WriteSignalled ==
  /\ pc = "write" /\ conn[fds[fd]].rst /\ conn[fds[fd]].eof
  /\ pc' = "killed"
  /\ UNCHANGED <<events, i, fd, buf, kernel, conn>>

-----------------------------------------------------------------------------
ServerStep ==
  \/ create_listen_socket \/ SetupFails \/ Register \/ RegisterFails
  \/ epoll_wait
  \/ DispatchHup \/ DispatchNew \/ DispatchData \/ DispatchEnd
  \/ Accept \/ AcceptFails \/ Add \/ AddFails
  \/ Read \/ ReadAgain \/ ReadEnd
  \/ Write \/ WriteFails \/ WriteSignalled

\* The server waits for events that never come, or is gone.
Idle == (pc = "wait" /\ ready = <<>>) \/ pc \in {"exit", "killed"}

Rest == Idle /\ UNCHANGED vars

Next == ServerStep \/ (\E c \in Client : ClientStep(c)) \/ Rest

Spec == Init /\ [][Next]_vars

\* The operating system runs the server; clients owe it nothing.
FairSpec == Spec /\ WF_vars(ServerStep)

-----------------------------------------------------------------------------
(* Properties.                                                             *)

Blocked == pc = "wait" /\ ready = <<>>

(* An event is applied to the connection it was reported for: although a   *)
(* handler may close descriptors and accept4 hand out their numbers again  *)
(* while the rest of events (reactor.c 118-134) waits, the descriptor of   *)
(* an event not yet handled, and of the handler that runs, refers to the   *)
(* same connection as when epoll_wait reported it.                         *)
RightConnection ==
  /\ pc \in {"dispatch", "accept", "add", "read", "write"} =>
       \A k \in i .. Len(events) :
         events[k].fd # listenfd => fds[events[k].fd] = events[k].of
  /\ pc \in {"read", "write"} => fd = events[i].fd /\ fds[fd] \in Client

(* No edge is lost: when the server blocks in epoll_wait, every open       *)
(* connection is registered and drained, nothing unread, no end of file    *)
(* or reset unnoticed (reactor.c 74, "read all available data in a loop"). *)
NoLostInput ==
  Blocked => \A c \in Client :
    conn[c].st = "open" =>
      /\ \E f \in watched : f # listenfd /\ fds[f] = c
      /\ Unread(c) = 0 /\ ~ conn[c].eof /\ ~ conn[c].rst

(* When the server blocks in epoll_wait and has a descriptor for it, no    *)
(* connection is left waiting in the accept queue (reactor.c 54, "accept   *)
(* all pending connections in a loop (because edge-triggered)").           *)
NoLostConnection ==
  Blocked /\ listenfd \in watched /\ Free # {} => acceptq = <<>>

(* Echo: the bytes written to a connection are those read from it, in      *)
(* order, none missing, but for the ones in the handler's buffer while the *)
(* server lives.                                                           *)
EchoVerbatim ==
  \A c \in Client :
    LET out == conn[c].echo
        pending == IF pc = "write" /\ fds[fd] = c THEN buf[2] - buf[1] + 1 ELSE 0
    IN /\ \A k \in DOMAIN out : out[k] = k
       /\ conn[c].st = "open" /\ pc # "killed" => Len(out) + pending = conn[c].taken

(* Descriptors are not leaked: the table holds exactly the connections     *)
(* that are open, each once, and those not being set up are registered     *)
(* (reactor.c 65-69, 82-83, 87-88, 94-95, 124-125).                        *)
FdTable ==
  /\ \A c \in Client :
       conn[c].st = "open" <=> \E f \in Fd : fds[f] = c
  /\ \A f, g \in Fd : fds[f] = fds[g] /\ fds[f] # None => f = g
  /\ \A f \in Fd : f \in watched <=> fds[f] # None /\ ~ (pc = "add" /\ fd = f)

(* A client that disconnects does not end the server (criterion 5).        *)
ServerSurvives == pc # "killed"

(* Every byte a client sends is echoed, unless it resets the connection:   *)
(* what it sent before it shut its side down is echoed as well.            *)
Answered ==
  \A c \in Client : \A n \in 1 .. MaxSend :
    (conn[c].sent >= n) ~> (Len(conn[c].echo) >= n \/ conn[c].rst)

(* A connection whose client ends it is closed by the server (criterion 5: *)
(* "the fd is properly closed and removed from epoll").                    *)
Released ==
  \A c \in Client : (conn[c].eof \/ conn[c].rst) ~> (conn[c].st = "closed")
=============================================================================
