---------------------------- MODULE MultiSocket ----------------------------
(***************************************************************************)
(* The class MultiSocket (MultiSocket.cpp): one select() loop over stdin,  *)
(* a UDP socket, a listening TCP socket and the accepted TCP connections,  *)
(* whose ready descriptors are put in sock_queue and handed out one at a   *)
(* time by get_next_fd().  The operators of this module are the parts of   *)
(* actions that a program built on the class (module Server) combines.     *)
(*                                                                         *)
(* The byte stream of a connection is seen as the packets that             *)
(* BufferedTcpSocket cuts out of it (module Framing): what a recv() call   *)
(* takes from the kernel completes some number of packets, possibly none.  *)
(***************************************************************************)
EXTENDS Integers, Sequences, FiniteSets

CONSTANTS
  Conns,      \* the TCP connections ever made, one per run of a subscriber
  NoConn,     \* tcp_sockets has no entry
  Fds,        \* the descriptors accept() can return
  MaxSent,    \* bound: packets a subscriber sends on one connection
  Fragments   \* may a recv() return less than one whole packet?

Stdin  == 0   \* STDIN_FILENO
Udp    == 3   \* sockfd_udp: the first socket the server creates
Listen == 4   \* sockfd_tcp: the second one

ASSUME ConnsAssumption == NoConn \notin Conns
ASSUME FdsAssumption   == Fds \subseteq {fd \in Nat : fd > Listen}
ASSUME BoundAssumption == MaxSent \in Nat /\ Fragments \in BOOLEAN

AllFds == {Stdin, Udp, Listen} \cup Fds

\* recv_holder.type: the macros of MultiSocket.h.
FdTypes == {"SOCK_NULL", "SOCK_CLOSE", "SOCK_TCP", "SOCK_UDP", "SOCK_CONNECT", "FD_UNBUFFERED"}

VARIABLES
  \* The kernel: what has arrived and has not been read.
  link,         \* link[c]: "none" before connect(), "open", "hup" once the subscriber has closed
                \*          its end, "shut" once the server has closed its own
  backlog,      \* connections waiting for accept()
  up,           \* up[c]: packets sent by the subscriber and not yet read by recv()
  udp,          \* datagrams waiting on the UDP socket
  stdin,        \* the line waiting on stdin, "none", or "eof"
  \* The object.
  tcp_sockets,  \* tcp_sockets[fd]: the connection open on fd, NoConn when fd is no key
  packet_queue, \* packet_queue[fd]: whole packets of fd's BufferedTcpSocket
  sock_queue    \* sock_queue[fd]: fd's entry of the queue of ready descriptors, or "none"

kernelVars == <<link, backlog, up, udp, stdin>>
socketVars == <<tcp_sockets, packet_queue, sock_queue>>

-----------------------------------------------------------------------------
(***************************************************************************)
(* sock_queue is filled only when it is empty, by a loop over descriptors  *)
(* in ascending order that pushes each at most once.  So its order is the  *)
(* order of the descriptors and it is kept as a function from them.        *)
(***************************************************************************)
Open   == {fd \in Fds : tcp_sockets[fd] # NoConn}
Queued == {fd \in AllFds : sock_queue[fd] # "none"}

IsLeast(fd, S) == fd \in S /\ \A g \in S : fd <= g

EmptyQueue == [fd \in AllFds |-> "none"]

-----------------------------------------------------------------------------
(***************************************************************************)
(* select() and the loop that classifies what it returns.                  *)
(***************************************************************************)
ReadableFds == {fd \in Open : up[tcp_sockets[fd]] # <<>> \/ link[tcp_sockets[fd]] = "hup"}

ReadableSpecials ==
  {fd \in {Stdin, Udp, Listen} : \/ fd = Stdin  /\ stdin # "none"
                                 \/ fd = Udp    /\ udp # <<>>
                                 \/ fd = Listen /\ backlog # <<>>}

\* Mutated forms of the definitions below (see module Server): a closed connection's last packets
\* are not read; its end is not told from a packet; no type is given to other descriptors; an
\* entry is popped with its first packet, or never.
AtEndWithData(fd) == link[tcp_sockets[fd]] = "hup"
ClassifyNoClose(fd) ==
  IF fd \in Fds THEN "SOCK_TCP" ELSE IF fd = Listen THEN "SOCK_CONNECT"
  ELSE IF fd = Udp THEN "SOCK_UDP" ELSE "FD_UNBUFFERED"
ClassifyNoElse(fd) ==
  IF fd \in Fds THEN IF up[tcp_sockets[fd]] = <<>> THEN "SOCK_CLOSE" ELSE "SOCK_TCP"
  ELSE IF fd = Listen THEN "SOCK_CONNECT" ELSE IF fd = Udp THEN "SOCK_UDP" ELSE "SOCK_TCP"
QueueAfterKept(fd) == [g \in AllFds |-> IF g < fd THEN "none" ELSE sock_queue[g]]
QueueAfterFirst(fd) == [g \in AllFds |-> IF g <= fd THEN "none" ELSE sock_queue[g]]

\* recv() returns 0, or -1 after a reset: everything was read and the subscriber has closed.
AtEnd(fd) == up[tcp_sockets[fd]] = <<>>

\* close(fd) for every fd of S: the object forgets the descriptors, the kernel what they held.
Close(S) ==
  /\ tcp_sockets' = [fd \in Fds |-> IF fd \in S THEN NoConn ELSE tcp_sockets[fd]]
  /\ link' = [c \in Conns |-> IF \E fd \in S : tcp_sockets[fd] = c THEN "shut" ELSE link[c]]

\* n[fd] is how many packets one recv() of TCP_BUFFER_SIZE bytes completes. Zero, with data
\* waiting, is a read that ends inside the first packet.
ReadCounts(R) ==
  {n \in [R -> 0..MaxSent] :
     \A fd \in R : /\ n[fd] <= Len(up[tcp_sockets[fd]])
                   /\ n[fd] = 0 => AtEnd(fd) \/ Fragments}

\* The branches of the loop that assign fd_type.
Classify(fd) ==
  IF fd \in Fds THEN IF AtEnd(fd) THEN "SOCK_CLOSE" ELSE "SOCK_TCP"
  ELSE IF fd = Listen THEN "SOCK_CONNECT"
  ELSE IF fd = Udp THEN "SOCK_UDP" ELSE "FD_UNBUFFERED"

\* fd_type is declared before the loop, without a value, and no branch assigns it when recv()
\* got data but completed no packet: the entry then repeats the type of the descriptor handled
\* before it, and is whatever the stack held (uninit) when there is none.
FdType(fd, S, n, uninit) ==
  LET Unassigned(g) == g \in Fds /\ n[g] = 0 /\ ~AtEnd(g) /\ packet_queue[g] = <<>>
      Before == {g \in S : g < fd /\ ~Unassigned(g)}
  IN  IF ~Unassigned(fd) THEN Classify(fd)
      ELSE IF Before = {} THEN uninit
      ELSE Classify(CHOOSE g \in Before : \A h \in Before : h <= g)

\* One return of select() with the descriptors R (connections) and P (the others), and the
\* loop over them. A closed connection is closed and forgotten here, before its entry is
\* handed out. What is readable but not returned has not arrived yet.
SelectReturns(R, P) ==
  /\ R \cup P # {}
  /\ \E n \in ReadCounts(R) :
       \E uninit \in IF Fragments THEN FdTypes ELSE {"SOCK_NULL"} :
         /\ sock_queue' = [fd \in AllFds |->
              IF fd \in R \cup P THEN FdType(fd, R \cup P, n, uninit) ELSE "none"]
         /\ up' = [c \in Conns |->
              IF \E fd \in R : tcp_sockets[fd] = c
              THEN LET k == n[CHOOSE fd \in R : tcp_sockets[fd] = c]
                   IN  SubSeq(up[c], k + 1, Len(up[c]))
              ELSE up[c]]
         /\ packet_queue' = [fd \in Fds |->
              IF fd \notin R THEN packet_queue[fd]
              ELSE IF AtEnd(fd) THEN <<>>
              ELSE packet_queue[fd] \o SubSeq(up[tcp_sockets[fd]], 1, n[fd])]
  /\ Close({fd \in R : AtEnd(fd)})
  /\ UNCHANGED <<backlog, udp, stdin>>

-----------------------------------------------------------------------------
(***************************************************************************)
(* get_next_fd().  The front entry is returned and popped unless it is a   *)
(* SOCK_TCP one.  From a SOCK_TCP entry on, entries are popped, whatever   *)
(* their type, until one has a packet ready; that one stays in the queue.  *)
(***************************************************************************)
PacketReady(fd) == fd \in Open /\ packet_queue[fd] # <<>>

Returnable == {fd \in Queued : \/ PacketReady(fd)
                               \/ IsLeast(fd, Queued) /\ sock_queue[fd] # "SOCK_TCP"}

NextFd(fd) == IsLeast(fd, Returnable)
NoNextFd   == Returnable = {}

\* Entries get_next_fd() throws away before it returns fd.
Skipped(fd) == {g \in Queued : g < fd}

QueueAfter(fd) ==
  LET popped == IsLeast(fd, Queued) /\ sock_queue[fd] # "SOCK_TCP"
  IN  [g \in AllFds |-> IF g < fd \/ (g = fd /\ popped) THEN "none" ELSE sock_queue[g]]

-----------------------------------------------------------------------------
(***************************************************************************)
(* accept(), close() and the outcome of send().                            *)
(***************************************************************************)

\* The kernel gives the new connection the lowest free descriptor.
Accept ==
  /\ backlog # <<>>
  /\ \E fd \in Fds :
       /\ IsLeast(fd, Fds \ Open)
       /\ tcp_sockets'  = [tcp_sockets EXCEPT ![fd] = Head(backlog)]
       /\ packet_queue' = [packet_queue EXCEPT ![fd] = <<>>]
  /\ backlog' = Tail(backlog)

CloseFd(fd) ==
  /\ Close({fd})
  /\ packet_queue' = [packet_queue EXCEPT ![fd] = <<>>]
  /\ up' = [c \in Conns |-> IF tcp_sockets[fd] = c THEN <<>> ELSE up[c]]

\* close(): every connection and the two server sockets.
CloseAll ==
  /\ Close(Fds)
  /\ packet_queue' = [fd \in Fds |-> <<>>]
  /\ backlog' = <<>>

\* send() on a connection the subscriber has closed is accepted by the kernel and lost, or,
\* once the peer's reset has arrived, fails (-1, or SIGPIPE: the call passes no MSG_NOSIGNAL).
MayFail(c) == link[c] = "hup"

=============================================================================
