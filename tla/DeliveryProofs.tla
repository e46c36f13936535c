--------------------------- MODULE DeliveryProofs ---------------------------
(***************************************************************************)
(* Who gets what: the reply first, news only to subscribers, in order and  *)
(* once, stored news included; and, when every recv() returns whole        *)
(* packets (~Fragments), one session for each id.                          *)
(*                                                                         *)
(* In a batch the datagram is handled before anything else of the network, *)
(* so that no descriptor closed in the batch has been given out again: the *)
(* open descriptor that a connected id leads to is its own.  So news go    *)
(* where they should, with parts of packets or without.                    *)
(*                                                                         *)
(* With whole packets the entry SOCK_CLOSE says that a connection has      *)
(* ended.  With parts of packets an open connection can be given that      *)
(* entry: its id is freed, and logs in again on another connection, and    *)
(* OneSessionPerId and StoredIsForwarded are not true.                     *)
(***************************************************************************)
EXTENDS ServerProofs

-----------------------------------------------------------------------------
(***************************************************************************)
(* The queue of ready descriptors, and the datagram of a batch.            *)
(***************************************************************************)
\* The entries of the keyboard and of the UDP socket have their types.
Specials ==
  sock_queue[Stdin] \in {"none", "FD_UNBUFFERED"} /\ sock_queue[Udp] \in {"none", "SOCK_UDP"}

\* While the datagram of the batch waits, an open descriptor that stands for an id carries its
\* connection, answered: accept() gives out the closed descriptors of the batch only after it.
UdpServed ==
  Running /\ sock_queue[Udp] # "none" =>
    \A fd \in Open : ids_map[fd] # NoId /\ ids_map[fd] \notin missed =>
      IdOf[tcp_sockets[fd]] = ids_map[fd] /\ down[tcp_sockets[fd]] # <<>>

BatchInv == Specials /\ UdpServed

\* get_next_fd() only takes entries out.
LEMMA QueueShrinks ==
  ASSUME TypeOK, NEW fd, Next_fd(fd)
  PROVE  /\ \A g \in AllFds : sock_queue'[g] = sock_queue[g] \/ sock_queue'[g] = "none"
         /\ \A g \in AllFds : g < fd => sock_queue'[g] = "none"
  BY DEF Next_fd, QueueAfter

\* select() gives the keyboard and the UDP socket their types.
LEMMA SelectSpecials ==
  ASSUME TypeOK, Select
  PROVE  Specials'
<1>1. PICK R \in SUBSET ReadableFds, P \in SUBSET ReadableSpecials : SelectReturns(R, P)
  BY DEF Select
<1>2. PICK n, uninit :
        sock_queue' = [fd \in AllFds |->
             IF fd \in R \cup P THEN FdType(fd, R \cup P, n, uninit) ELSE "none"]
  BY <1>1 DEF SelectReturns
<1>3. Stdin \notin Fds /\ Udp \notin Fds /\ Stdin \in AllFds /\ Udp \in AllFds
  BY FdsAssumption DEF Stdin, Udp, Listen, AllFds
<1>4. /\ FdType(Stdin, R \cup P, n, uninit) = "FD_UNBUFFERED"
      /\ FdType(Udp, R \cup P, n, uninit) = "SOCK_UDP"
  BY <1>3 DEF FdType, Classify, Stdin, Udp, Listen
<1>5. QED
  BY <1>2, <1>3, <1>4 DEF Specials

\* The invariant of the batch holds initially ...
LEMMA BatchInit == Init => BatchInv
  BY FdsAssumption DEF Init, BatchInv, Specials, UdpServed, Open, EmptyQueue, AllFds, Stdin, Udp, Listen

\* What is behind the UDP socket is handled when its entry is gone.
LEMMA BehindUdp ==
  ASSUME TypeOK, BatchInv, NEW fd, Next_fd(fd), sock_queue[fd] \notin {"FD_UNBUFFERED", "SOCK_UDP"}
  PROVE  BatchInv'
<1>1. fd \in AllFds /\ sock_queue[fd] # "none"
  BY NextFdType
<1>2. fd # Stdin /\ fd # Udp /\ Stdin \in AllFds /\ Udp \in AllFds
  BY <1>1 DEF BatchInv, Specials, AllFds
<1>3. Udp < fd
  BY <1>1, <1>2, FdsAssumption DEF AllFds, Stdin, Udp, Listen
<1>4. QED
  BY <1>2, <1>3, QueueShrinks DEF BatchInv, Specials, UdpServed

\* ... and every step keeps it.
LEMMA BatchStep ==
  ASSUME TypeOK, TypeOK', ConnsInv, SessionInv, BatchInv, [Next]_vars
  PROVE  BatchInv'
<1>1. Stdin \in AllFds /\ Udp \in AllFds /\ \A fd \in Open : fd \in Fds /\ tcp_sockets[fd] \in Conns
  BY OpenConn DEF AllFds
<1>2. ASSUME \A g \in AllFds : sock_queue'[g] = sock_queue[g] \/ sock_queue'[g] = "none",
             UNCHANGED ids_map, Running, missed \subseteq missed',
             \A fd \in Open' : fd \in Open /\ tcp_sockets'[fd] = tcp_sockets[fd],
             \A c \in Conns : down[c] # <<>> => down'[c] # <<>>
      PROVE  BatchInv'
  BY <1>1, <1>2 DEF BatchInv, Specials, UdpServed
<1>3. CASE UNCHANGED <<ids_map, sock_queue, tcp_sockets, down, missed, pc>>
  BY <1>3 DEF BatchInv, Specials, UdpServed, Open, Running
<1>4. ASSUME NEW fd, Next_fd(fd), UNCHANGED <<ids_map, tcp_sockets, down>>
      PROVE  BatchInv'
  <2>1. Running /\ missed \subseteq missed'
    BY <1>4, MissedGrows DEF Next_fd
  <2>2. \A g \in AllFds : sock_queue'[g] = sock_queue[g] \/ sock_queue'[g] = "none"
    BY <1>4, QueueShrinks
  <2>3. QED
    BY <1>2, <1>4, <2>1, <2>2 DEF Open
<1>5. CASE Environment \/ UNCHANGED vars
  BY <1>3, <1>5 DEF Environment, Connect, SendAuth, Command, Send, Leave, Reset, Datagram, TypeLine,
                    socketVars, tableVars, vars, historyVars
<1>6. CASE Select
  <2>1. /\ Specials' /\ UNCHANGED <<down, ids_map>> /\ Running /\ MissedBy(Queued)
    BY <1>6, SelectSpecials DEF Select, tableVars, Running
  <2>2. \A fd \in Open' : fd \in Open /\ tcp_sockets'[fd] = tcp_sockets[fd]
    <3>1. PICK R \in SUBSET ReadableFds, P \in SUBSET ReadableSpecials : SelectReturns(R, P)
      BY <1>6 DEF Select
    <3>2. QED
      BY <3>1 DEF SelectReturns, Close, Open
  <2>3. ASSUME NEW fd \in Open, ids_map[fd] # NoId, ids_map[fd] \notin missed'
        PROVE  Serves(fd, ids_map[fd])
    <3>1. fd \in AllFds /\ fd \in Fds
      BY OpenConn
    <3>2. sock_queue[fd] # "SOCK_CLOSE" /\ ids_map[fd] \notin missed
      BY <2>1, <2>3, <3>1 DEF MissedBy, Queued
    <3>3. QED
      BY <2>1, <2>3, <3>1, <3>2 DEF SessionInv, BoundServed
  <2>4. UdpServed'
    BY <2>1, <2>2, <2>3 DEF UdpServed, Serves
  <2>5. QED
    BY <2>1, <2>4 DEF BatchInv
<1>7. CASE HandleStdin
  <2>1. CASE CloseAll
    <3>1. Open' = {} /\ Next_fd(Stdin)
      BY <1>7, <2>1 DEF CloseAll, Close, Open, HandleStdin
    <3>2. QED
      BY <1>1, <3>1, QueueShrinks DEF BatchInv, Specials, UdpServed
  <2>2. QED
    BY <1>4, <1>7, <2>1 DEF HandleStdin, tableVars
<1>8. CASE HandleUdp \/ HandleUdpDies
  <2>1. udp \in Seq(News) /\ udp # <<>>
    BY <1>8 DEF HandleUdp, HandleUdpDies, TypeOK, KernelTypeOK
  <2>2. Head(udp) \in News
    BY <2>1
  <2>3. \E S \in SUBSET Ids : Forward(Head(udp), S)
    BY <1>8 DEF HandleUdp, HandleUdpDies, Online, Subscribed
  <2>4. \A c \in Conns : down[c] # <<>> => down'[c] # <<>>
    BY <2>2, <2>3, ForwardEffect, OnlyNewsKeeps
  <2>5. UNCHANGED <<ids_map, tcp_sockets>> /\ Next_fd(Udp) /\ Running
    BY <1>8 DEF HandleUdp, HandleUdpDies, tableVars, Next_fd
  <2>6. \A g \in AllFds : sock_queue'[g] = sock_queue[g] \/ sock_queue'[g] = "none"
    BY <2>5, QueueShrinks
  <2>7. QED
    BY <1>2, <2>4, <2>5, <2>6, MissedGrows DEF Open
<1>9. ASSUME NEW fd, Next_fd(fd), sock_queue[fd] # "SOCK_UDP",
             fd \in Fds \/ sock_queue[fd] # "FD_UNBUFFERED"
      PROVE  BatchInv'
  <2>1. CASE sock_queue[fd] # "FD_UNBUFFERED"
    BY <1>9, <2>1, BehindUdp
  <2>2. CASE fd \in Fds
    <3>1. Udp < fd
      BY <2>2, FdsAssumption DEF Udp, Listen
    <3>2. QED
      BY <1>1, <1>9, <3>1, QueueShrinks DEF BatchInv, Specials, UdpServed
  <2>3. QED
    BY <1>9, <2>1, <2>2
<1>10. ASSUME NEW fd,
             \/ HandleUdpGarbled(fd) \/ TcpNotReady(fd) \/ AuthDies(fd)
             \/ \E type \in {"SUB", "SUB_SF", "UNSUB"} : Subscribe(fd, type)
       PROVE  BatchInv'
  BY <1>4, <1>10 DEF HandleUdpGarbled, TcpNotReady, AuthDies, Subscribe, Receive, HandleTcp, tableVars
<1>11. CASE NoDescriptor
  BY <1>1, <1>11 DEF NoDescriptor, EmptyQueue, BatchInv, Specials, UdpServed
<1>12. ASSUME NEW fd \in Fds, HandleClose(fd) \/ Auth(fd) \/ AuthDuplicate(fd)
       PROVE  BatchInv'
  BY <1>9, <1>12 DEF HandleClose, Auth, AuthDuplicate, Receive, HandleTcp
<1>13. ASSUME NEW fd, HandleConnect(fd)
       PROVE  BatchInv'
  BY <1>9, <1>13 DEF HandleConnect
<1>14. QED
  BY <1>5, <1>6, <1>7, <1>8, <1>10, <1>11, <1>12, <1>13 DEF Next, Loop

\* It holds in every state, with parts of packets or without.
LEMMA BatchCorrect == Spec => []BatchInv
<1>1. TypeOK /\ TypeOK' /\ ConnsInv /\ SessionInv /\ BatchInv /\ [Next]_vars => BatchInv'
  BY BatchStep
<1>2. QED
  BY <1>1, BatchInit, TypeCorrect, SessionsCorrect, PTL DEF Spec

-----------------------------------------------------------------------------
(***************************************************************************)
(* The descriptors of accepted connections, when every packet arrives      *)
(* whole.                                                                  *)
(***************************************************************************)
\* The descriptor of an accepted connection stands for its id.
Bound == \A fd \in Open : Authenticated(tcp_sockets[fd]) => ids_map[fd] = IdOf[tcp_sockets[fd]]

\* A descriptor closed in this batch carries a connection again only when that one was just
\* accepted.
ReusedInBatch == \A fd \in Open : sock_queue[fd] = "SOCK_CLOSE" => ~Authenticated(tcp_sockets[fd])

\* What whole packets add to the invariant of sessions.
WholeInv == Bound /\ ReusedInBatch

\* Steps that bind no descriptor, accept no connection and queue no entry keep the invariant.
LEMMA WholeKept ==
  ASSUME TypeOK, WholeInv, UNCHANGED ids_map,
         \A g \in AllFds : sock_queue'[g] = sock_queue[g] \/ sock_queue'[g] = "none",
         Open' \subseteq Open,
         \A g \in Open' : /\ tcp_sockets'[g] = tcp_sockets[g]
                          /\ Authenticated(tcp_sockets[g])' => Authenticated(tcp_sockets[g])
  PROVE  WholeInv'
<1>1. \A g \in Open : g \in AllFds
  BY OpenConn
<1>2. QED
  BY <1>1 DEF WholeInv, Bound, ReusedInBatch

\* The case of steps that send nothing.
LEMMA AuthenticatedSame ==
  ASSUME UNCHANGED <<tcp_sockets, down>>
  PROVE  /\ Open' = Open
         /\ \A g \in Open' : /\ tcp_sockets'[g] = tcp_sockets[g]
                             /\ Authenticated(tcp_sockets[g])' => Authenticated(tcp_sockets[g])
  BY DEF Open, Authenticated

\* The invariant of whole packets holds initially ...
LEMMA WholeInit == Init => WholeInv
  BY DEF Init, WholeInv, Bound, ReusedInBatch, Open

\* ... and every step keeps it.
LEMMA WholeStep ==
  ASSUME ~Fragments, TypeOK, TypeOK', NoStrandedPacket, ConnsInv, StreamInv, SessionInv, WholeInv,
         [Next]_vars
  PROVE  WholeInv'
<1>1. CASE UNCHANGED <<ids_map, sock_queue, tcp_sockets, down>>
  BY <1>1, AuthenticatedSame, WholeKept
<1>2. ASSUME NEW fd, Next_fd(fd), UNCHANGED <<ids_map, tcp_sockets, down>>
      PROVE  WholeInv'
  BY <1>2, AuthenticatedSame, QueueShrinks, WholeKept
<1>3. CASE Environment
  <2>1. ASSUME \E c \in Conns : Connect(c) \/ SendAuth(c) \/ Leave(c) \/ Reset(c)
        PROVE  UNCHANGED <<ids_map, sock_queue, tcp_sockets, down>>
    BY <2>1 DEF Connect, SendAuth, Send, Leave, Reset, socketVars, tableVars
  <2>2. ASSUME ~\E c \in Conns : Connect(c) \/ SendAuth(c) \/ Leave(c) \/ Reset(c)
        PROVE  UNCHANGED <<ids_map, sock_queue, tcp_sockets, down>>
    BY <1>3, <2>2 DEF Environment, Command, Send, Datagram, TypeLine, socketVars, tableVars
  <2>3. UNCHANGED <<ids_map, sock_queue, tcp_sockets, down>>
    BY <2>1, <2>2
  <2>4. QED
    BY <1>1, <2>3
<1>4. CASE Select
  <2>1. /\ Open' \subseteq Open /\ \A fd \in Open' : tcp_sockets'[fd] = tcp_sockets[fd]
        /\ \A fd \in Open' : sock_queue'[fd] # "SOCK_CLOSE"
    BY <1>4, SelectEffect DEF ConnsInv
  <2>2. UNCHANGED <<down, ids_map>>
    BY <1>4 DEF Select, tableVars
  <2>3. Bound'
    BY <2>1, <2>2 DEF WholeInv, Bound, Authenticated
  <2>4. QED
    BY <2>1, <2>3 DEF WholeInv, ReusedInBatch
<1>5. CASE HandleStdin
  <2>1. CASE CloseAll
    <3>1. Open' = {} /\ UNCHANGED ids_map
      BY <1>5, <2>1 DEF CloseAll, Close, Open, HandleStdin, tableVars
    <3>2. \A g \in AllFds : sock_queue'[g] = sock_queue[g] \/ sock_queue'[g] = "none"
      BY <1>5, QueueShrinks DEF HandleStdin
    <3>3. QED
      BY <3>1, <3>2, WholeKept
  <2>2. QED
    BY <1>2, <1>5, <2>1 DEF HandleStdin, tableVars
<1>6. CASE HandleUdp \/ HandleUdpDies
  <2>1. udp \in Seq(News) /\ udp # <<>>
    BY <1>6 DEF HandleUdp, HandleUdpDies, TypeOK, KernelTypeOK
  <2>2. Head(udp) \in News
    BY <2>1
  <2>3. \E S \in SUBSET Ids : Forward(Head(udp), S)
    BY <1>6 DEF HandleUdp, HandleUdpDies, Online, Subscribed
  <2>4. \A c \in Conns : OnlyNews(c)
    BY <2>2, <2>3, ForwardEffect
  <2>5. UNCHANGED <<ids_map, tcp_sockets>> /\ Next_fd(Udp)
    BY <1>6 DEF HandleUdp, HandleUdpDies, tableVars
  <2>6. \A c \in Conns : Authenticated(c)' => Authenticated(c)
    BY <2>4, OnlyNewsKeeps
  <2>7. ASSUME NEW g \in Open'
        PROVE  /\ tcp_sockets'[g] = tcp_sockets[g] /\ g \in Open
               /\ Authenticated(tcp_sockets[g])' => Authenticated(tcp_sockets[g])
    <3>1. PICK c \in Conns : c = tcp_sockets[g] /\ c = tcp_sockets'[g] /\ g \in Open
      BY <2>5, <2>7, OpenConn DEF Open
    <3>2. Authenticated(c)' => Authenticated(c)
      BY <2>6
    <3>3. QED
      BY <3>1, <3>2 DEF Authenticated
  <2>8. QED
    BY <2>5, <2>7, QueueShrinks, WholeKept
<1>7. ASSUME NEW fd \in AllFds, HandleConnect(fd)
      PROVE  WholeInv'
  <2>1. PICK f \in Fds :
           /\ f \notin Open /\ Open' = Open \cup {f}
           /\ backlog # <<>> /\ Len(backlog) >= 1 /\ Len(backlog) \in Nat
           /\ tcp_sockets'[f] = backlog[1]
           /\ \A h \in Fds : h # f => tcp_sockets'[h] = tcp_sockets[h]
    BY <1>7, AcceptEffect DEF HandleConnect
  <2>2. UNCHANGED <<down, ids_map>> /\ Next_fd(fd) /\ sock_queue[fd] = "SOCK_CONNECT"
    BY <1>7 DEF HandleConnect, tableVars
  <2>3. down'[backlog[1]] = <<>>
    <3>1. 1 \in 1..Len(backlog)
      BY <2>1
    <3>2. QED
      BY <2>2, <3>1 DEF ConnsInv, BacklogOK
  <2>4. \A g \in AllFds : sock_queue'[g] = sock_queue[g] \/ sock_queue'[g] = "none"
    BY <2>2, QueueShrinks
  <2>5. ~Authenticated(tcp_sockets[f])'
    BY <2>1, <2>3 DEF Authenticated
  <2>6. \A g \in Open : /\ tcp_sockets'[g] = tcp_sockets[g] /\ g \in AllFds
                        /\ Authenticated(tcp_sockets[g])' => Authenticated(tcp_sockets[g])
    BY <2>1, <2>2, OpenConn DEF Authenticated
  <2>7. Bound'
    BY <2>1, <2>2, <2>5, <2>6 DEF WholeInv, Bound
  <2>8. ReusedInBatch'
    BY <2>1, <2>4, <2>5, <2>6 DEF WholeInv, ReusedInBatch
  <2>9. QED
    BY <2>7, <2>8 DEF WholeInv
<1>8. ASSUME NEW fd \in Fds, HandleClose(fd)
      PROVE  WholeInv'
  <2>1. /\ UNCHANGED <<tcp_sockets, down>> /\ Next_fd(fd) /\ sock_queue[fd] = "SOCK_CLOSE"
        /\ ids_map' = [ids_map EXCEPT ![fd] = NoId]
    BY <1>8 DEF HandleClose, IdsAfterClose
  <2>2. /\ \A g \in AllFds : sock_queue'[g] = sock_queue[g] \/ sock_queue'[g] = "none"
        /\ Open' = Open
        /\ \A g \in Open' : /\ tcp_sockets'[g] = tcp_sockets[g] /\ g \in AllFds /\ g \in Fds
                            /\ Authenticated(tcp_sockets[g])' => Authenticated(tcp_sockets[g])
    BY <2>1, QueueShrinks, AuthenticatedSame, OpenConn
  <2>3. ReusedInBatch'
    BY <2>2 DEF WholeInv, ReusedInBatch
  <2>4. Bound'
    <3> SUFFICES ASSUME NEW g \in Open', Authenticated(tcp_sockets[g])'
                 PROVE  ids_map'[g] = IdOf[tcp_sockets'[g]]
      BY DEF Bound
    <3>1. Authenticated(tcp_sockets[g]) /\ g \in Open /\ tcp_sockets'[g] = tcp_sockets[g]
      BY <2>2
    <3>2. g # fd /\ ids_map[g] = IdOf[tcp_sockets[g]]
      BY <2>1, <3>1 DEF WholeInv, Bound, ReusedInBatch
    <3>3. QED
      BY <2>1, <2>2, <3>1, <3>2 DEF TypeOK, TableTypeOK
  <2>5. QED
    BY <2>3, <2>4 DEF WholeInv
<1>9. ASSUME NEW fd \in Fds, Auth(fd)
      PROVE  WholeInv'
  <2>1. PICK c \in Conns : AcceptedOn(fd, c)
    BY <1>9, AuthEffect
  <2>2. /\ fd \in Fds /\ fd \in Open /\ tcp_sockets[fd] = c /\ Open' = Open /\ tcp_sockets' = tcp_sockets
        /\ ids_map' = [ids_map EXCEPT ![fd] = IdOf[c]] /\ sock_queue[fd] # "SOCK_CLOSE"
        /\ \A d \in Conns : d # c => down'[d] = down[d]
        /\ \A g \in Open : g # fd => tcp_sockets[g] # c
    BY <2>1 DEF AcceptedOn
  <2>3. /\ \A g \in AllFds : sock_queue'[g] = sock_queue[g] \/ sock_queue'[g] = "none"
    BY <1>9, QueueShrinks DEF Auth, Receive, HandleTcp
  <2>4. \A g \in Open : g \in Fds /\ g \in AllFds /\ tcp_sockets[g] \in Conns
    BY OpenConn
  <2>5. \A g \in Open : g # fd => /\ Authenticated(tcp_sockets[g])' => Authenticated(tcp_sockets[g])
                                  /\ ids_map'[g] = ids_map[g]
    BY <2>2, <2>4 DEF Authenticated, TypeOK, TableTypeOK
  <2>6. Bound'
    <3>1. ids_map'[fd] = IdOf[c]
      BY <2>2 DEF TypeOK, TableTypeOK
    <3>2. QED
      BY <2>2, <2>5, <3>1 DEF WholeInv, Bound
  <2>7. ReusedInBatch'
    BY <2>2, <2>3, <2>4, <2>5 DEF WholeInv, ReusedInBatch
  <2>8. QED
    BY <2>6, <2>7 DEF WholeInv
<1>10. ASSUME NEW fd \in Fds, AuthDuplicate(fd)
       PROVE  WholeInv'
  <2>1. PICK c \in Conns : c = tcp_sockets[fd]
    BY <1>10, DuplicateEffect DEF ConnsInv
  <2>2. /\ Open' = Open \ {fd}
        /\ \A g \in Open' : tcp_sockets'[g] = tcp_sockets[g] /\ tcp_sockets[g] # c
        /\ \A d \in Conns : d # c => down'[d] = down[d]
    BY <1>10, <2>1, DuplicateEffect DEF ConnsInv
  <2>3. /\ \A g \in AllFds : sock_queue'[g] = sock_queue[g] \/ sock_queue'[g] = "none"
        /\ UNCHANGED ids_map
    BY <1>10, QueueShrinks DEF AuthDuplicate, Receive, HandleTcp, tableVars
  <2>4. \A g \in Open' : /\ tcp_sockets'[g] = tcp_sockets[g]
                         /\ Authenticated(tcp_sockets[g])' => Authenticated(tcp_sockets[g])
    BY <2>2, OpenConn DEF Authenticated
  <2>5. QED
    BY <2>2, <2>3, <2>4, WholeKept
<1>11. ASSUME NEW fd \in Fds,
             \/ HandleUdpGarbled(fd) \/ TcpNotReady(fd) \/ AuthDies(fd)
             \/ \E type \in {"SUB", "SUB_SF", "UNSUB"} : Subscribe(fd, type)
       PROVE  WholeInv'
  BY <1>2, <1>11 DEF HandleUdpGarbled, TcpNotReady, AuthDies, Subscribe, Receive, HandleTcp, tableVars
<1>12. CASE NoDescriptor
  <2>1. \A g \in AllFds : sock_queue'[g] = "none"
    BY <1>12 DEF NoDescriptor, EmptyQueue
  <2>2. UNCHANGED <<ids_map, tcp_sockets, down>>
    BY <1>12 DEF NoDescriptor, tableVars
  <2>3. QED
    BY <2>1, <2>2, AuthenticatedSame, WholeKept
<1>13. CASE UNCHANGED vars
  BY <1>1, <1>13 DEF vars, kernelVars, socketVars, tableVars
<1>14. QED
  BY <1>3, <1>4, <1>5, <1>6, <1>7, <1>8, <1>9, <1>10, <1>11, <1>12, <1>13 DEF Next, Loop

\* It holds in every state when no recv() returns a part of a packet.
LEMMA WholeCorrect ==
  ASSUME ~Fragments
  PROVE  Spec => []WholeInv
<1>1. Init => WholeInv
  BY WholeInit
<1>2. TypeOK /\ TypeOK' /\ NoStrandedPacket /\ ConnsInv /\ StreamInv /\ SessionInv /\ WholeInv
        /\ [Next]_vars => WholeInv'
  BY WholeStep
<1>3. QED
  BY <1>1, <1>2, TypeCorrect, NoStrandedPacketCorrect, SessionsCorrect, PTL DEF Spec

\* Two open connections that were both accepted have different ids: each is the one that the
\* table has for its id.
THEOREM OneSessionCorrect ==
  ASSUME ~Fragments
  PROVE  Spec => []OneSessionPerId
<1>1. TypeOK /\ WholeInv /\ SessionBound => OneSessionPerId
  <2> SUFFICES ASSUME TypeOK, WholeInv, SessionBound, NEW f \in Open, NEW g \in Open,
                      Authenticated(tcp_sockets[f]), Authenticated(tcp_sockets[g]),
                      IdOf[tcp_sockets[f]] = IdOf[tcp_sockets[g]]
               PROVE  f = g
    BY DEF OneSessionPerId
  <2>1. f \in Fds /\ g \in Fds /\ IdOf[tcp_sockets[f]] # NoId
    BY OpenConn, IdsAssumption
  <2>2. ids_map[f] = IdOf[tcp_sockets[f]] /\ ids_map[g] = ids_map[f]
    BY DEF WholeInv, Bound
  <2>3. QED
    BY <2>1, <2>2 DEF SessionBound
<1>2. QED
  BY <1>1, TypeCorrect, WholeCorrect, SessionBoundCorrect, PTL

-----------------------------------------------------------------------------
(***************************************************************************)
(* What each step writes to the connections.                               *)
(***************************************************************************)
LEMMA HeadOfUdp ==
  ASSUME TypeOK, udp # <<>>
  PROVE  /\ Head(udp) = udp[1] /\ 1 \in 1..Len(udp) /\ Head(udp) \in News /\ Len(udp) \in Nat
         /\ Len(Tail(udp)) = Len(udp) - 1
         /\ \A i \in 1..Len(Tail(udp)) : i + 1 \in 1..Len(udp) /\ Tail(udp)[i] = udp[i + 1]
<1>1. udp \in Seq(News)
  BY DEF TypeOK, KernelTypeOK
<1>2. /\ Head(udp) = udp[1] /\ Len(udp) \in Nat /\ Len(udp) >= 1
      /\ Len(Tail(udp)) = Len(udp) - 1
      /\ \A i \in 1..Len(Tail(udp)) : Tail(udp)[i] = udp[i + 1]
  BY <1>1, HeadTailProperties, LenProperties, EmptySeq
<1>3. QED
  BY <1>1, <1>2, ElementOfSeq

\* The steps that send something.
LEMMA DownStep ==
  ASSUME TypeOK, ConnsInv, StreamInv, SessionInv, [Next]_vars
  PROVE  \/ down' = down
         \/ HandleUdp \/ HandleUdpDies
         \/ \E fd \in Fds, c \in Conns : Auth(fd) /\ AcceptedOn(fd, c)
         \/ \E fd \in Fds : AuthDuplicate(fd)
<1>1. CASE Environment \/ UNCHANGED vars
  BY <1>1 DEF Environment, Connect, SendAuth, Command, Send, Leave, Reset, Datagram, TypeLine, vars
<1>2. CASE Select \/ HandleStdin \/ NoDescriptor
  BY <1>2 DEF Select, HandleStdin, NoDescriptor
<1>3. ASSUME NEW fd, \/ HandleConnect(fd) \/ HandleClose(fd) \/ HandleUdpGarbled(fd) \/ TcpNotReady(fd)
                     \/ AuthDies(fd)
                     \/ \E type \in {"SUB", "SUB_SF", "UNSUB"} : Subscribe(fd, type)
      PROVE  down' = down
  BY <1>3 DEF HandleConnect, HandleClose, HandleUdpGarbled, TcpNotReady, AuthDies, Subscribe
<1>4. ASSUME NEW fd \in Fds, Auth(fd)
      PROVE  \E c \in Conns : AcceptedOn(fd, c)
  BY <1>4, AuthEffect
<1>5. QED
  BY <1>1, <1>2, <1>3, <1>4 DEF Next, Loop

\* While no entry was lost, the session behind a connected id's sockfd is its own: the datagrams
\* of a batch are handled before any descriptor is given out again.
LEMMA UdpReceivers ==
  ASSUME TypeOK, SessionInv, BatchInv, Next_fd(Udp), missed = {},
         NEW t, NEW S \in SUBSET Online(t), NEW c \in Conns, NEW id \in Receivers(S, c)
  PROVE  id = IdOf[c] /\ down[c] # <<>> /\ id \in Online(t)
<1>1. /\ id \in Ids /\ id \in Online(t) /\ state[id] # "DISCONNECTED"
      /\ sockfd[id] \in Open /\ tcp_sockets[sockfd[id]] = c
  BY DEF Receivers, Online, Subscribed
<1>2. state[id] = "CONNECTED" /\ id # NoId
  BY <1>1, IdsAssumption DEF TypeOK, TableTypeOK
<1>3. Running /\ sock_queue[Udp] # "none"
  BY NextFdType DEF Next_fd
<1>4. sockfd[id] \in Fds /\ ids_map[sockfd[id]] = id
  BY <1>1, <1>2, <1>3 DEF SessionInv, ConnectedBound
<1>5. QED
  BY <1>1, <1>2, <1>3, <1>4 DEF BatchInv, UdpServed

\* So each connection gets at most one copy of a datagram.
LEMMA OneCopy ==
  ASSUME TypeOK, SessionInv, BatchInv, Next_fd(Udp), missed = {},
         NEW t, NEW S \in SUBSET Online(t), NEW c \in Conns
  PROVE  /\ Receivers(S, c) = {} \/ Receivers(S, c) = {IdOf[c]}
         /\ Cardinality(Receivers(S, c)) = IF Receivers(S, c) = {} THEN 0 ELSE 1
<1>1. \A id \in Receivers(S, c) : id = IdOf[c]
  BY UdpReceivers
<1>2. Receivers(S, c) = {} \/ Receivers(S, c) = {IdOf[c]}
  BY <1>1
<1>3. Cardinality({}) = 0
  BY FS_EmptySet
<1>4. Cardinality({IdOf[c]}) = 1
  BY FS_Singleton
<1>5. QED
  BY <1>2, <1>3, <1>4

\* A datagram goes to connections that were answered, of ids that are subscribed, once.
UdpSent(c) ==
  /\ Grows(c)
  /\ \A i \in (Len(down[c]) + 1)..Len(down'[c]) :
       /\ i = Len(down[c]) + 1 /\ down'[c][i] = Head(udp)
       /\ down[c] # <<>> /\ IdOf[c] \in Subscribed(Head(udp).topic)

\* What the handling of a datagram sends to a connection: the news or nothing.
LEMMA UdpSends ==
  ASSUME TypeOK, SessionInv, BatchInv, missed = {}, HandleUdp \/ HandleUdpDies, NEW c \in Conns
  PROVE  UdpSent(c)
<1>1. Next_fd(Udp) /\ udp # <<>>
  BY DEF HandleUdp, HandleUdpDies
<1>2. Head(udp) \in News
  BY <1>1, HeadOfUdp
<1>3. PICK S \in SUBSET Online(Head(udp).topic) : Forward(Head(udp), S)
  BY DEF HandleUdp, HandleUdpDies
<1>4. S \in SUBSET Ids
  BY DEF Online, Subscribed
<1>5. /\ Grows(c)
      /\ Len(down'[c]) = Len(down[c]) + Cardinality(Receivers(S, c))
      /\ \A i \in (Len(down[c]) + 1)..Len(down'[c]) : down'[c][i] = Head(udp)
  BY <1>2, <1>3, <1>4, ForwardEffect DEF OnlyNews
<1>6. Len(down[c]) \in Nat
  BY DownType
<1>7. Cardinality(Receivers(S, c)) = IF Receivers(S, c) = {} THEN 0 ELSE 1
  BY <1>1, OneCopy
<1>8. \A i \in (Len(down[c]) + 1)..Len(down'[c]) : i = Len(down[c]) + 1 /\ Receivers(S, c) # {}
  <2>1. CASE Receivers(S, c) = {}
    <3>1. Len(down'[c]) = Len(down[c])
      BY <1>5, <1>6, <1>7, <2>1
    <3>2. QED
      BY <1>6, <3>1
  <2>2. CASE Receivers(S, c) # {}
    <3>1. Len(down'[c]) = Len(down[c]) + 1
      BY <1>5, <1>7, <2>2
    <3>2. QED
      BY <1>6, <2>2, <3>1
  <2>3. QED
    BY <2>1, <2>2
<1>9. Receivers(S, c) # {} => down[c] # <<>> /\ IdOf[c] \in Subscribed(Head(udp).topic)
  <2>1. \A id \in Receivers(S, c) : id = IdOf[c] /\ down[c] # <<>> /\ id \in Online(Head(udp).topic)
    BY <1>1, UdpReceivers
  <2>2. QED
    BY <2>1 DEF Online
<1>10. QED
  BY <1>5, <1>8, <1>9 DEF UdpSent

-----------------------------------------------------------------------------
(***************************************************************************)
(* The reply comes first.                                                  *)
(***************************************************************************)
\* The first packet is a reply, and no other is.
ReplyFirst(c) == \A i \in 1..Len(down[c]) : down[c][i].type # "NEWS" <=> i = 1

\* Until an entry is lost: an id that is refused for ever is sent no news on the way.
RepliesFirst == missed = {} => \A c \in Conns : ReplyFirst(c)

\* A connection without a reply was sent nothing.
LEMMA NothingSent ==
  ASSUME TypeOK, NEW c \in Conns, NoReply(c), ReplyFirst(c)
  PROVE  down[c] = <<>> /\ Len(down[c]) = 0
<1>1. down[c] \in Seq(Replies \cup News) /\ Len(down[c]) \in Nat
  BY DownType
<1>2. Len(down[c]) = 0
  <2> SUFFICES ASSUME Len(down[c]) # 0
               PROVE  FALSE
    OBVIOUS
  <2>1. 1 \in 1..Len(down[c])
    BY <1>1
  <2>2. QED
    BY <2>1 DEF NoReply, ReplyFirst
<1>3. QED
  BY <1>1, <1>2, EmptySeq

\* An accepted connection gets the reply and what is stored for its id, and had got nothing.
LEMMA FirstSent ==
  ASSUME TypeOK, RepliesFirst, missed = {}, NEW fd, NEW c \in Conns, AcceptedOn(fd, c)
  PROVE  /\ IdOf[c] \in Ids /\ down[c] = <<>> /\ Len(down[c]) = 0
         /\ Len(subs_queue[IdOf[c]]) \in Nat /\ Len(down'[c]) = Len(subs_queue[IdOf[c]]) + 1
         /\ 1 \in 1..Len(down'[c]) /\ down'[c][1] = [type |-> "AUTH"]
         /\ \A i \in 2..Len(down'[c]) :
              /\ i - 1 \in 1..Len(subs_queue[IdOf[c]]) /\ down'[c][i] = subs_queue[IdOf[c]][i - 1]
              /\ down'[c][i] \in News
<1>1. /\ NoReply(c) /\ IdOf[c] \in Ids /\ down'[c] = down[c] \o AuthReply(IdOf[c])
      /\ AuthReply(IdOf[c]) \in Seq(Replies \cup News)
  BY DEF AcceptedOn
<1>2. down[c] = <<>> /\ Len(down[c]) = 0
  BY <1>1, NothingSent DEF RepliesFirst
<1>3. down'[c] = AuthReply(IdOf[c])
  BY <1>1, <1>2, ConcatEmptySeq
<1>4. /\ Len(AuthReply(IdOf[c])) = Len(subs_queue[IdOf[c]]) + 1
      /\ AuthReply(IdOf[c])[1] = [type |-> "AUTH"]
      /\ \A i \in 2..Len(AuthReply(IdOf[c])) :
           i - 1 \in 1..Len(subs_queue[IdOf[c]]) /\ AuthReply(IdOf[c])[i] = subs_queue[IdOf[c]][i - 1]
  BY <1>1, AuthAnswers
<1>5. subs_queue[IdOf[c]] \in Seq(News)
  BY <1>1 DEF TypeOK, TableTypeOK
<1>6. /\ Len(subs_queue[IdOf[c]]) \in Nat
      /\ \A i \in 1..Len(subs_queue[IdOf[c]]) : subs_queue[IdOf[c]][i] \in News
  BY <1>5, LenProperties, ElementOfSeq
<1>7. QED
  BY <1>1, <1>2, <1>3, <1>4, <1>6

\* A refusal is the only packet its connection gets.
LEMMA RefusalSent ==
  ASSUME TypeOK, ConnsInv, StreamInv, RepliesFirst, missed = {}, NEW fd, AuthDuplicate(fd)
  PROVE  \E c \in Conns : /\ c = tcp_sockets[fd] /\ Len(down[c]) = 0
                          /\ down'[c] = <<[type |-> "AUTH_DUPLICATE"]>>
                          /\ \A d \in Conns : d # c => down'[d] = down[d]
<1>1. PICK c \in Conns : c = tcp_sockets[fd]
  BY DuplicateEffect DEF ConnsInv
<1>2. /\ fd \in Open /\ fd \in Fds /\ down'[c] = down[c] \o <<[type |-> "AUTH_DUPLICATE"]>>
      /\ \A d \in Conns : d # c => down'[d] = down[d]
  BY <1>1, DuplicateEffect DEF ConnsInv
<1>3. packet_queue[fd] # <<>> /\ Head(packet_queue[fd]).type = "AUTH"
  BY DEF AuthDuplicate, Receive, PacketReady
<1>4. NoReply(c)
  <2>1. packet_queue[fd] \in Seq(Packets)
    BY <1>2 DEF TypeOK, SocketTypeOK
  <2>2. 1 \in 1..Len(packet_queue[fd]) /\ Head(packet_queue[fd]) = packet_queue[fd][1]
    BY <1>3, <2>1, HeadTailProperties, EmptySeq, LenProperties
  <2>3. StreamOK(packet_queue[fd], c)
    BY <1>1, <1>2 DEF StreamInv, BufferStreams
  <2>4. QED
    BY <1>3, <2>2, <2>3 DEF StreamOK
<1>5. down[c] = <<>> /\ Len(down[c]) = 0
  BY <1>4, NothingSent DEF RepliesFirst
<1>6. down'[c] = <<[type |-> "AUTH_DUPLICATE"]>>
  BY <1>2, <1>5, DuplicateType, ConcatEmptySeq
<1>7. QED
  BY <1>1, <1>2, <1>5, <1>6

\* Replies come first initially ...
LEMMA RepliesInit == Init => RepliesFirst
  BY DEF Init, RepliesFirst, ReplyFirst

\* ... and after every step ...
LEMMA RepliesStep ==
  ASSUME TypeOK, TypeOK', ConnsInv, StreamInv, SessionInv, BatchInv, RepliesFirst, [Next]_vars
  PROVE  RepliesFirst'
<1> SUFFICES ASSUME missed' = {}, NEW c \in Conns
             PROVE  ReplyFirst(c)'
  BY DEF RepliesFirst
<1>1. missed = {}
  BY MissedGrows
<1>2. ReplyFirst(c) /\ Len(down[c]) \in Nat /\ Len(down'[c]) \in Nat
  BY <1>1, DownType DEF RepliesFirst, TypeOK, OtherTypeOK
<1>3. CASE down'[c] = down[c]
  BY <1>2, <1>3 DEF ReplyFirst
<1>4. CASE HandleUdp \/ HandleUdpDies
  <2>1. UdpSent(c) /\ udp # <<>>
    BY <1>1, <1>4, UdpSends DEF HandleUdp, HandleUdpDies
  <2>2. Head(udp).type = "NEWS"
    BY <2>1, HeadOfUdp DEF News
  <2>3. down[c] # <<>> => Len(down[c]) # 0
    BY <1>2, DownType, EmptySeq
  <2>4. \A i \in 1..Len(down'[c]) : i \in 1..Len(down[c]) \/ i \in (Len(down[c]) + 1)..Len(down'[c])
    BY <1>2
  <2>5. QED
    BY <1>2, <2>1, <2>2, <2>3, <2>4 DEF ReplyFirst, UdpSent, Grows
<1>5. ASSUME NEW fd \in Fds, AcceptedOn(fd, c)
      PROVE  ReplyFirst(c)'
  <2>1. /\ 1 \in 1..Len(down'[c]) /\ down'[c][1] = [type |-> "AUTH"]
        /\ \A i \in 2..Len(down'[c]) : down'[c][i] \in News
    BY <1>1, <1>5, FirstSent
  <2>2. \A i \in 1..Len(down'[c]) : i = 1 \/ i \in 2..Len(down'[c])
    BY <1>2
  <2>3. QED
    BY <2>1, <2>2 DEF ReplyFirst, News
<1>6. CASE down'[c] = <<[type |-> "AUTH_DUPLICATE"]>>
  BY <1>6 DEF ReplyFirst
<1>7. QED
  <2>1. ASSUME NEW fd \in Fds, NEW d \in Conns, AcceptedOn(fd, d)
        PROVE  ReplyFirst(c)'
    <3>1. CASE d = c
      BY <1>5, <2>1, <3>1
    <3>2. CASE d # c
      <4>1. down'[c] = down[c]
        BY <2>1, <3>2, DownType DEF AcceptedOn
      <4>2. QED
        BY <1>3, <4>1
    <3>3. QED
      BY <3>1, <3>2
  <2>2. ASSUME NEW fd \in Fds, AuthDuplicate(fd)
        PROVE  ReplyFirst(c)'
    BY <1>1, <1>3, <1>6, <2>2, RefusalSent
  <2>3. QED
    BY <1>3, <1>4, <2>1, <2>2, DownStep

\* ... hence in every state.
LEMMA RepliesCorrect == Spec => []RepliesFirst
<1>1. Init => RepliesFirst
  BY RepliesInit
<1>2. TypeOK /\ TypeOK' /\ ConnsInv /\ StreamInv /\ SessionInv /\ BatchInv /\ RepliesFirst
        /\ [Next]_vars => RepliesFirst'
  BY RepliesStep
<1>3. QED
  BY <1>1, <1>2, TypeCorrect, SessionsCorrect, BatchCorrect, PTL DEF Spec

\* A subscriber reads the reply to its authentication first, and news after it: none were
\* forwarded to its connection before it was accepted, by way of an old descriptor.
THEOREM ReplyComesFirstCorrect == Spec => []ReplyComesFirst
<1>1. TypeOK /\ RepliesFirst => ReplyComesFirst
  <2> SUFFICES ASSUME TypeOK, RepliesFirst, missed = {}, NEW c \in Conns, NEW i \in DOMAIN down[c]
               PROVE  down[c][i].type # "NEWS" <=> i = 1
    BY DEF ReplyComesFirst
  <2>1. i \in 1..Len(down[c])
    BY DownType, LenProperties
  <2>2. QED
    BY <2>1 DEF RepliesFirst, ReplyFirst
<1>2. QED
  BY <1>1, TypeCorrect, RepliesCorrect, PTL

-----------------------------------------------------------------------------
(***************************************************************************)
(* The numbers of the datagrams: what waits on the UDP socket is newer     *)
(* than all that was sent or stored, and in order.                         *)
(***************************************************************************)
\* Datagrams wait in the order of their numbers.
UdpNumbers ==
  /\ \A i \in 1..Len(udp) : udp[i].n <= published
  /\ \A i, j \in 1..Len(udp) : i < j => udp[i].n < udp[j].n

\* The news is older than every datagram that waits.
Older(news) == news.n <= published /\ \A j \in 1..Len(udp) : news.n < udp[j].n

\* So are those sent,
SentNumbers ==
  \A c \in Conns : \A i \in 1..Len(down[c]) : down[c][i].type = "NEWS" => Older(down[c][i])

\* and those stored.
StoredNumbers == \A id \in Ids : \A i \in 1..Len(subs_queue[id]) : Older(subs_queue[id][i])

\* The invariant of numbers.
Numbers == UdpNumbers /\ SentNumbers /\ StoredNumbers

\* Of the steps, only a datagram's arrival and its handling write these variables.
LEMMA NewsFrame ==
  ASSUME [Next]_vars
  PROVE  \/ UNCHANGED <<udp, published, subs_queue, audience>>
         \/ \E t \in Topics : Datagram(t)
         \/ HandleUdp \/ HandleUdpDies
<1>1. CASE Environment \/ UNCHANGED vars
  <2>1. CASE UNCHANGED vars
    BY <2>1 DEF vars, kernelVars, tableVars, envVars, historyVars
  <2>2. ASSUME NEW c \in Conns, Connect(c) \/ SendAuth(c) \/ Leave(c) \/ Reset(c)
        PROVE  UNCHANGED <<udp, published, subs_queue, audience>>
    BY <2>2, SMTT(20) DEF Connect, SendAuth, Send, Leave, Reset, tableVars, historyVars, kernelVars,
                          envVars, socketVars
  <2>3. ASSUME NEW c \in Conns, NEW type \in Commands, NEW t \in Topics, Command(c, type, t)
        PROVE  UNCHANGED <<udp, published, subs_queue, audience>>
    BY <2>3 DEF Command, Send, tableVars, historyVars
  <2>4. ASSUME NEW line \in Lines, TypeLine(line)
        PROVE  UNCHANGED <<udp, published, subs_queue, audience>>
    BY <2>4 DEF TypeLine, tableVars, historyVars, envVars
  <2>5. CASE \E t \in Topics : Datagram(t)
    BY <2>5
  <2>6. QED
    BY <1>1, <2>1, <2>2, <2>3, <2>4, <2>5 DEF Environment
<1>2. CASE Select \/ HandleStdin \/ NoDescriptor
  BY <1>2 DEF Select, SelectReturns, HandleStdin, NoDescriptor, kernelVars, tableVars, envVars
<1>3. ASSUME NEW fd, \/ HandleConnect(fd) \/ HandleClose(fd) \/ HandleUdpGarbled(fd) \/ TcpNotReady(fd)
                     \/ Auth(fd) \/ AuthDuplicate(fd) \/ AuthDies(fd)
                     \/ \E type \in {"SUB", "SUB_SF", "UNSUB"} : Subscribe(fd, type)
      PROVE  UNCHANGED <<udp, published, subs_queue, audience>>
  BY <1>3 DEF HandleConnect, HandleClose, HandleUdpGarbled, TcpNotReady, Auth, AuthDuplicate,
              AuthDies, Subscribe, Receive, kernelVars, tableVars, envVars
<1>4. QED
  BY <1>1, <1>2, <1>3 DEF Next, Loop

\* A new datagram has the next number and goes to the end of the queue.
LEMMA DatagramEffect ==
  ASSUME TypeOK, NEW t, Datagram(t)
  PROVE  /\ UNCHANGED <<down, subs_queue, audience, missed, tcp_sockets>>
         /\ published \in Nat /\ published' = published + 1
         /\ Len(udp) \in Nat /\ Len(udp') = Len(udp) + 1
         /\ \A i \in 1..Len(udp) : udp'[i] = udp[i] /\ udp[i] \in News
         /\ udp'[Len(udp) + 1].n = published + 1
<1>1. udp \in Seq(News) /\ published \in Nat /\ published' = published + 1
  BY InputsAssumption DEF Datagram, TypeOK, KernelTypeOK, OtherTypeOK
<1>2. udp' = Append(udp, [type |-> "NEWS", topic |-> t, n |-> published + 1])
  BY DEF Datagram
<1>3. /\ Len(udp) \in Nat /\ Len(udp') = Len(udp) + 1
      /\ \A i \in 1..Len(udp) : udp'[i] = udp[i] /\ udp[i] \in News
      /\ udp'[Len(udp) + 1] = [type |-> "NEWS", topic |-> t, n |-> published + 1]
  BY <1>1, <1>2, AppendProperties, LenProperties, ElementOfSeq
<1>4. QED
  BY <1>1, <1>3 DEF Datagram, tableVars, historyVars, socketVars

\* The order of numbers after a new datagram,
LEMMA NumbersDatagram ==
  ASSUME TypeOK, Numbers, NEW t, Datagram(t)
  PROVE  Numbers'
<1>1. /\ UNCHANGED <<down, subs_queue>>
      /\ published \in Nat /\ published' = published + 1
      /\ Len(udp) \in Nat /\ Len(udp') = Len(udp) + 1
      /\ \A i \in 1..Len(udp) : udp'[i] = udp[i] /\ udp[i] \in News
      /\ udp'[Len(udp) + 1].n = published + 1
  BY DatagramEffect
<1>2. \A i \in 1..Len(udp') : i \in 1..Len(udp) \/ i = Len(udp) + 1
  BY <1>1
<1>3. \A i \in 1..Len(udp) : udp[i].n \in Nat
  BY <1>1, InputsAssumption DEF News
<1>4. UdpNumbers'
  <2>1. UdpNumbers
    BY DEF Numbers
  <2>2. \A i \in 1..Len(udp') : udp'[i].n <= published'
    BY <1>1, <1>2, <1>3, <2>1 DEF UdpNumbers
  <2>3. \A i, j \in 1..Len(udp') : i < j => udp'[i].n < udp'[j].n
    <3> SUFFICES ASSUME NEW i \in 1..Len(udp'), NEW j \in 1..Len(udp'), i < j
                 PROVE  udp'[i].n < udp'[j].n
      OBVIOUS
    <3>1. i \in 1..Len(udp)
      BY <1>1
    <3>2. CASE j \in 1..Len(udp)
      BY <1>1, <2>1, <3>1, <3>2 DEF UdpNumbers
    <3>3. CASE j = Len(udp) + 1
      BY <1>1, <1>3, <2>1, <3>1, <3>3 DEF UdpNumbers
    <3>4. QED
      BY <1>2, <3>2, <3>3
  <2>4. QED
    BY <2>2, <2>3 DEF UdpNumbers
<1>5. \A news \in News : Older(news) => Older(news)'
  <2> SUFFICES ASSUME NEW news \in News, Older(news)
               PROVE  /\ news.n <= published'
                      /\ \A j \in 1..Len(udp') : news.n < udp'[j].n
    BY DEF Older
  <2>1. news.n \in Nat
    BY InputsAssumption DEF News
  <2>2. QED
    BY <1>1, <1>2, <2>1 DEF Older
<1>6. SentNumbers'
  <2> SUFFICES ASSUME NEW c \in Conns, NEW i \in 1..Len(down[c]), down[c][i].type = "NEWS"
               PROVE  Older(down[c][i])'
    BY <1>1 DEF SentNumbers
  <2>1. PICK news \in News : news = down[c][i]
    BY DownType DEF Replies
  <2>2. Older(news)'
    BY <1>5, <2>1 DEF Numbers, SentNumbers
  <2>3. QED
    BY <1>1, <2>1, <2>2
<1>7. StoredNumbers'
  <2> SUFFICES ASSUME NEW id \in Ids, NEW i \in 1..Len(subs_queue[id])
               PROVE  Older(subs_queue[id][i])'
    BY <1>1 DEF StoredNumbers
  <2>1. subs_queue[id] \in Seq(News)
    BY DEF TypeOK, TableTypeOK
  <2>2. PICK news \in News : news = subs_queue[id][i]
    BY <2>1, ElementOfSeq
  <2>3. Older(news)'
    BY <1>5, <2>2 DEF Numbers, StoredNumbers
  <2>4. QED
    BY <1>1, <2>2, <2>3
<1>8. QED
  BY <1>4, <1>6, <1>7 DEF Numbers

\* News on a connection were there before, or are the datagram that is handled, or were stored.
LEMMA WhereNewsComeFrom ==
  ASSUME TypeOK, TypeOK', ConnsInv, StreamInv, SessionInv, [Next]_vars,
         NEW c \in Conns, NEW i \in 1..Len(down'[c]), down'[c][i].type = "NEWS"
  PROVE  \/ i \in 1..Len(down[c]) /\ down'[c][i] = down[c][i]
         \/ (HandleUdp \/ HandleUdpDies) /\ down'[c][i] = Head(udp)
         \/ /\ \E fd \in Fds : Auth(fd)
            /\ IdOf[c] \in Ids
            /\ \E j \in 1..Len(subs_queue[IdOf[c]]) : down'[c][i] = subs_queue[IdOf[c]][j]
<1>1. Len(down[c]) \in Nat /\ Len(down'[c]) \in Nat
  BY DownType DEF TypeOK, OtherTypeOK
<1>2. i \in 1..Len(down[c]) \/ i \in (Len(down[c]) + 1)..Len(down'[c])
  BY <1>1
<1>3. CASE HandleUdp \/ HandleUdpDies
  <2>1. Head(udp) \in News
    BY <1>3, HeadOfUdp DEF HandleUdp, HandleUdpDies
  <2>2. \E S \in SUBSET Ids : Forward(Head(udp), S)
    BY <1>3 DEF HandleUdp, HandleUdpDies, Online, Subscribed
  <2>3. OnlyNews(c) /\ \A k \in (Len(down[c]) + 1)..Len(down'[c]) : down'[c][k] = Head(udp)
    BY <2>1, <2>2, ForwardEffect
  <2>4. QED
    BY <1>2, <1>3, <2>3 DEF OnlyNews, Grows
<1>4. ASSUME NEW fd \in Fds, NEW d \in Conns, Auth(fd), AcceptedOn(fd, d), d = c
      PROVE  \/ i \in 1..Len(down[c]) /\ down'[c][i] = down[c][i]
             \/ /\ IdOf[c] \in Ids
                /\ \E j \in 1..Len(subs_queue[IdOf[c]]) : down'[c][i] = subs_queue[IdOf[c]][j]
  <2>1. /\ down'[c] = down[c] \o AuthReply(IdOf[c]) /\ AuthReply(IdOf[c]) \in Seq(Replies \cup News)
        /\ IdOf[c] \in Ids
    BY <1>4 DEF AcceptedOn
  <2>2. CASE i \in 1..Len(down[c])
    BY <2>1, <2>2, AppendedAreSent DEF Grows
  <2>3. CASE i \in (Len(down[c]) + 1)..Len(down'[c])
    <3>1. PICK k \in 1..Len(AuthReply(IdOf[c])) : down'[c][i] = AuthReply(IdOf[c])[k]
      BY <2>1, <2>3, AppendedAreSent
    <3>2. /\ AuthReply(IdOf[c])[1] = [type |-> "AUTH"]
          /\ \A j \in 2..Len(AuthReply(IdOf[c])) :
               j - 1 \in 1..Len(subs_queue[IdOf[c]]) /\ AuthReply(IdOf[c])[j] = subs_queue[IdOf[c]][j - 1]
      BY <2>1, AuthAnswers
    <3>3. k # 1
      BY <3>1, <3>2
    <3>4. Len(AuthReply(IdOf[c])) \in Nat
      BY <2>1, LenProperties
    <3>5. k \in 2..Len(AuthReply(IdOf[c]))
      BY <3>3, <3>4
    <3>6. QED
      BY <2>1, <3>1, <3>2, <3>5
  <2>4. QED
    BY <1>2, <2>2, <2>3
<1>5. ASSUME NEW fd \in Fds, AuthDuplicate(fd), tcp_sockets[fd] = c
      PROVE  i \in 1..Len(down[c]) /\ down'[c][i] = down[c][i]
  <2>1. down'[c] = down[c] \o <<[type |-> "AUTH_DUPLICATE"]>>
    BY <1>5, DuplicateEffect DEF ConnsInv
  <2>2. CASE i \in 1..Len(down[c])
    BY <2>1, <2>2, DuplicateType, AppendedAreSent DEF Grows
  <2>3. CASE i \in (Len(down[c]) + 1)..Len(down'[c])
    <3>1. PICK k \in 1..Len(<<[type |-> "AUTH_DUPLICATE"]>>) :
            down'[c][i] = <<[type |-> "AUTH_DUPLICATE"]>>[k]
      BY <2>1, <2>3, DuplicateType, AppendedAreSent
    <3>2. k = 1
      OBVIOUS
    <3>3. QED
      BY <3>1, <3>2
  <2>4. QED
    BY <1>2, <2>2, <2>3
<1>6. CASE down'[c] = down[c]
  BY <1>6
<1>7. QED
  <2>1. ASSUME NEW fd \in Fds, NEW d \in Conns, Auth(fd), AcceptedOn(fd, d), d # c
        PROVE  down'[c] = down[c]
    BY <2>1 DEF AcceptedOn
  <2>2. ASSUME NEW fd \in Fds, AuthDuplicate(fd), tcp_sockets[fd] # c
        PROVE  down'[c] = down[c]
    BY <2>2, DuplicateEffect DEF ConnsInv
  <2>3. QED
    BY <1>3, <1>4, <1>5, <1>6, <2>1, <2>2, DownStep

\* after the handling of one,
LEMMA NumbersUdp ==
  ASSUME TypeOK, TypeOK', ConnsInv, StreamInv, SessionInv, Numbers, [Next]_vars,
         HandleUdp \/ HandleUdpDies
  PROVE  Numbers'
<1>1. /\ udp # <<>> /\ udp' = Tail(udp) /\ published' = published
      /\ \A id \in Ids : subs_queue'[id] = subs_queue[id] \/ subs_queue'[id] = Append(subs_queue[id], Head(udp))
  BY DEF HandleUdp, HandleUdpDies, envVars, tableVars, Store
<1>2. /\ Head(udp) = udp[1] /\ 1 \in 1..Len(udp) /\ Head(udp) \in News /\ Len(udp) \in Nat
      /\ Len(udp') = Len(udp) - 1
      /\ \A i \in 1..Len(udp') : i + 1 \in 1..Len(udp) /\ udp'[i] = udp[i + 1]
  BY <1>1, HeadOfUdp
<1>3. UdpNumbers'
  BY <1>1, <1>2 DEF Numbers, UdpNumbers
<1>4. ASSUME NEW news, Older(news)
      PROVE  Older(news)'
  BY <1>1, <1>2, <1>4 DEF Older
<1>5. ASSUME NEW news, news = Head(udp)
      PROVE  Older(news)'
  <2>1. \A j \in 1..Len(udp') : 1 < j + 1
    BY <1>2
  <2>2. news.n <= published' /\ \A j \in 1..Len(udp') : news.n < udp'[j].n
    BY <1>1, <1>2, <1>5, <2>1 DEF Numbers, UdpNumbers
  <2>3. QED
    BY <2>2 DEF Older
<1>6. SentNumbers'
  <2> SUFFICES ASSUME NEW c \in Conns, NEW i \in 1..Len(down'[c]), down'[c][i].type = "NEWS",
                      NEW news, news = down'[c][i]
               PROVE  Older(news)'
    BY DEF SentNumbers, Older
  <2>1. CASE i \in 1..Len(down[c]) /\ news = down[c][i]
    <3>1. Older(news)
      BY <2>1 DEF Numbers, SentNumbers
    <3>2. QED
      BY <1>4, <3>1
  <2>2. CASE news = Head(udp)
    BY <1>5, <2>2
  <2>3. CASE IdOf[c] \in Ids /\ \E j \in 1..Len(subs_queue[IdOf[c]]) : news = subs_queue[IdOf[c]][j]
    <3>1. Older(news)
      BY <2>3 DEF Numbers, StoredNumbers
    <3>2. QED
      BY <1>4, <3>1
  <2>4. QED
    BY <2>1, <2>2, <2>3, WhereNewsComeFrom
<1>7. StoredNumbers'
  <2> SUFFICES ASSUME NEW id \in Ids, NEW i \in 1..Len(subs_queue'[id]),
                      NEW news, news = subs_queue'[id][i]
               PROVE  Older(news)'
    BY DEF StoredNumbers, Older
  <2>1. (i \in 1..Len(subs_queue[id]) /\ news = subs_queue[id][i]) \/ news = Head(udp)
    <3>1. subs_queue[id] \in Seq(News) /\ Len(subs_queue[id]) \in Nat
      BY LenProperties DEF TypeOK, TableTypeOK
    <3>2. CASE subs_queue'[id] = subs_queue[id]
      BY <3>2
    <3>3. CASE subs_queue'[id] = Append(subs_queue[id], Head(udp))
      BY <1>2, <3>1, <3>3, AppendProperties
    <3>4. QED
      BY <1>1, <3>2, <3>3
  <2>2. CASE i \in 1..Len(subs_queue[id]) /\ news = subs_queue[id][i]
    <3>1. Older(news)
      BY <2>2 DEF Numbers, StoredNumbers
    <3>2. QED
      BY <1>4, <3>1
  <2>3. QED
    BY <1>5, <2>1, <2>2
<1>8. QED
  BY <1>3, <1>6, <1>7 DEF Numbers

\* after any step,
LEMMA NumbersStep ==
  ASSUME TypeOK, TypeOK', ConnsInv, StreamInv, SessionInv, Numbers, [Next]_vars
  PROVE  Numbers'
<1>1. CASE UNCHANGED <<udp, published, subs_queue, audience>> /\ ~(HandleUdp \/ HandleUdpDies)
  <2>1. UdpNumbers' /\ StoredNumbers'
    BY <1>1 DEF Numbers, UdpNumbers, StoredNumbers, Older
  <2>2. SentNumbers'
    <3> SUFFICES ASSUME NEW c \in Conns, NEW i \in 1..Len(down'[c]), down'[c][i].type = "NEWS",
                        NEW news, news = down'[c][i]
                 PROVE  Older(news)
      BY <1>1 DEF SentNumbers, Older
    <3>1. CASE i \in 1..Len(down[c]) /\ news = down[c][i]
      BY <3>1 DEF Numbers, SentNumbers
    <3>2. CASE IdOf[c] \in Ids /\ \E j \in 1..Len(subs_queue[IdOf[c]]) : news = subs_queue[IdOf[c]][j]
      BY <3>2 DEF Numbers, StoredNumbers
    <3>3. QED
      BY <1>1, <3>1, <3>2, WhereNewsComeFrom
  <2>3. QED
    BY <2>1, <2>2 DEF Numbers
<1>2. QED
  BY <1>1, NewsFrame, NumbersDatagram, NumbersUdp

\* and in every state.
LEMMA NumbersCorrect == Spec => []Numbers
<1>1. Init => Numbers
  <2> SUFFICES ASSUME Init
               PROVE  Numbers
    OBVIOUS
  <2>1. /\ Len(udp) = 0 /\ \A c \in Conns : Len(down[c]) = 0
        /\ \A id \in Ids : Len(subs_queue[id]) = 0
    BY DEF Init
  <2>2. QED
    BY <2>1 DEF Numbers, UdpNumbers, SentNumbers, StoredNumbers
<1>2. TypeOK /\ TypeOK' /\ ConnsInv /\ StreamInv /\ SessionInv /\ Numbers /\ [Next]_vars => Numbers'
  BY NumbersStep
<1>3. QED
  BY <1>1, <1>2, TypeCorrect, SessionsCorrect, PTL DEF Spec

-----------------------------------------------------------------------------
(***************************************************************************)
(* To whom and in which order news are stored and sent.                    *)
(***************************************************************************)
\* What is stored for id is for it, in order.
StoredFor(id) ==
  /\ \A i \in 1..Len(subs_queue[id]) : id \in audience[subs_queue[id][i].n]
  /\ \A i, j \in 1..Len(subs_queue[id]) : i < j => subs_queue[id][i].n < subs_queue[id][j].n

\* For every id, although it subscribes, leaves and comes back.
StoredInv == \A id \in Ids : StoredFor(id)

\* News on c were published to its id.
OnlyTo(c) ==
  \A i \in 1..Len(down[c]) : down[c][i].type = "NEWS" => IdOf[c] \in audience[down[c][i].n]

\* News on c are in order, each once.
InOrder(c) ==
  \A i, j \in 1..Len(down[c]) :
    i < j /\ down[c][i].type = "NEWS" /\ down[c][j].type = "NEWS" => down[c][i].n < down[c][j].n

\* For every connection.
SentInv == missed = {} => \A c \in Conns : OnlyTo(c) /\ InOrder(c)

\* The audience of older news stays what it was.
LEMMA AudienceStays ==
  ASSUME TypeOK, Numbers, HandleUdp \/ HandleUdpDies
  PROVE  /\ udp # <<>> /\ Head(udp) \in News
         /\ audience'[Head(udp).n] = Subscribed(Head(udp).topic)
         /\ \A news \in News : Older(news) =>
              news.n < Head(udp).n /\ audience'[news.n] = audience[news.n]
<1>1. /\ udp # <<>> /\ audience' = [audience EXCEPT ![Head(udp).n] = Subscribed(Head(udp).topic)]
  BY DEF HandleUdp, HandleUdpDies
<1>2. Head(udp) = udp[1] /\ 1 \in 1..Len(udp) /\ Head(udp) \in News
  BY <1>1, HeadOfUdp
<1>3. \A news \in News : news.n \in 1..MaxNews /\ news.n \in Nat
  BY InputsAssumption DEF News
<1>4. audience \in [1..MaxNews -> SUBSET Ids]
  BY DEF TypeOK, OtherTypeOK
<1>5. \A news \in News : Older(news) => news.n < Head(udp).n
  BY <1>2 DEF Older
<1>6. audience'[Head(udp).n] = Subscribed(Head(udp).topic)
  BY <1>1, <1>2, <1>3, <1>4
<1>7. \A news \in News : Older(news) => audience'[news.n] = audience[news.n]
  BY <1>1, <1>2, <1>3, <1>4, <1>5
<1>8. QED
  BY <1>1, <1>2, <1>5, <1>6, <1>7

\* A datagram is stored for those subscribed to it, behind older ones.
LEMMA StoredStep ==
  ASSUME TypeOK, Numbers, StoredInv, [Next]_vars
  PROVE  StoredInv'
<1>1. CASE UNCHANGED <<subs_queue, audience>>
  BY <1>1 DEF StoredInv, StoredFor
<1>2. CASE \E t \in Topics : Datagram(t)
  BY <1>1, <1>2, DatagramEffect
<1>3. CASE HandleUdp \/ HandleUdpDies
  <2> SUFFICES ASSUME NEW id \in Ids
               PROVE  StoredFor(id)'
    BY DEF StoredInv
  <2>1. /\ Head(udp) \in News
        /\ audience'[Head(udp).n] = Subscribed(Head(udp).topic)
        /\ \A news \in News : Older(news) => news.n < Head(udp).n /\ audience'[news.n] = audience[news.n]
    BY <1>3, AudienceStays
  <2>2. PICK q \in Seq(News) : q = subs_queue[id]
    BY DEF TypeOK, TableTypeOK
  <2>3. Len(q) \in Nat /\ \A i \in 1..Len(q) : q[i] \in News
    BY LenProperties, ElementOfSeq
  <2>4. \A i \in 1..Len(q) : Older(q[i])
    BY <2>2 DEF Numbers, StoredNumbers
  <2>5. \A i \in 1..Len(q) : id \in audience'[q[i].n] /\ q[i].n < Head(udp).n
    BY <2>1, <2>2, <2>3, <2>4 DEF StoredInv, StoredFor
  <2>6. \A i, j \in 1..Len(q) : i < j => q[i].n < q[j].n
    BY <2>2 DEF StoredInv, StoredFor
  <2>7. CASE subs_queue'[id] = q
    BY <2>5, <2>6, <2>7 DEF StoredFor
  <2>8. CASE subs_queue'[id] = Append(q, Head(udp)) /\ id \in Subscribed(Head(udp).topic)
    <3>1. PICK r : r = subs_queue'[id]
      OBVIOUS
    <3>2. /\ Len(r) = Len(q) + 1 /\ r[Len(q) + 1] = Head(udp)
          /\ \A i \in 1..Len(q) : r[i] = q[i]
      BY <2>1, <2>8, <3>1, AppendProperties
    <3>3. \A i \in 1..Len(r) : i \in 1..Len(q) \/ i = Len(q) + 1
      BY <2>3, <3>2
    <3>4. \A i \in 1..Len(r) : id \in audience'[r[i].n]
      BY <2>1, <2>5, <2>8, <3>2, <3>3
    <3>5. \A i, j \in 1..Len(r) : i < j => r[i].n < r[j].n
      <4> SUFFICES ASSUME NEW i \in 1..Len(r), NEW j \in 1..Len(r), i < j
                   PROVE  r[i].n < r[j].n
        OBVIOUS
      <4>1. i \in 1..Len(q)
        BY <2>3, <3>2
      <4>2. QED
        BY <2>5, <2>6, <3>2, <3>3, <4>1
    <3>6. QED
      BY <3>1, <3>4, <3>5 DEF StoredFor
  <2>9. QED
    <3>1. CASE HandleUdp
      BY <2>2, <2>7, <2>8, <3>1 DEF HandleUdp, Store, Stored
    <3>2. CASE HandleUdpDies
      BY <2>2, <2>7, <3>2 DEF HandleUdpDies, tableVars
    <3>3. QED
      BY <1>3, <3>1, <3>2
<1>4. QED
  BY <1>1, <1>2, <1>3, NewsFrame

\* In every state what is stored for an id is for it and in order.
LEMMA StoredCorrect == Spec => []StoredInv
<1>1. Init => StoredInv
  <2> SUFFICES ASSUME Init
               PROVE  StoredInv
    OBVIOUS
  <2>1. \A id \in Ids : Len(subs_queue[id]) = 0
    BY DEF Init
  <2>2. QED
    BY <2>1 DEF StoredInv, StoredFor
<1>2. TypeOK /\ Numbers /\ StoredInv /\ [Next]_vars => StoredInv'
  BY StoredStep
<1>3. QED
  BY <1>1, <1>2, TypeCorrect, NumbersCorrect, PTL DEF Spec

\* A datagram that is forwarded is newer than all that was sent.
LEMMA SentUdp ==
  ASSUME TypeOK, TypeOK', SessionInv, BatchInv, Numbers, SentInv, missed = {},
         HandleUdp \/ HandleUdpDies, NEW c \in Conns
  PROVE  OnlyTo(c)' /\ InOrder(c)'
<1>1. /\ Head(udp) \in News
      /\ audience'[Head(udp).n] = Subscribed(Head(udp).topic)
      /\ \A news \in News : Older(news) => news.n < Head(udp).n /\ audience'[news.n] = audience[news.n]
  BY AudienceStays
<1>2. UdpSent(c)
  BY UdpSends
<1>3. PICK s, r : s = down[c] /\ r = down'[c]
  OBVIOUS
<1>4. /\ Len(s) \in Nat /\ Len(r) \in Nat
      /\ \A i \in 1..Len(s) : s[i].type = "NEWS" => s[i] \in News /\ Older(s[i])
  <2>1. Len(s) \in Nat /\ Len(r) \in Nat /\ \A i \in 1..Len(s) : s[i] \in Replies \cup News
    BY <1>3, DownType DEF TypeOK, OtherTypeOK
  <2>2. \A i \in 1..Len(s) : s[i].type = "NEWS" => s[i] \in News
    BY <2>1 DEF Replies
  <2>3. \A i \in 1..Len(s) : s[i].type = "NEWS" => Older(s[i])
    BY <1>3 DEF Numbers, SentNumbers
  <2>4. QED
    BY <2>1, <2>2, <2>3
<1>5. /\ \A i \in 1..Len(s) : s[i].type = "NEWS" => IdOf[c] \in audience[s[i].n]
      /\ \A i, j \in 1..Len(s) : i < j /\ s[i].type = "NEWS" /\ s[j].type = "NEWS" => s[i].n < s[j].n
  BY <1>3 DEF SentInv, OnlyTo, InOrder
<1>6. /\ \A i \in 1..Len(s) : r[i] = s[i]
      /\ \A i \in 1..Len(r) : i \in 1..Len(s) \/ (i = Len(s) + 1 /\ r[i] = Head(udp)
                                                  /\ IdOf[c] \in Subscribed(Head(udp).topic))
  <2>1. \A i \in 1..Len(r) : i \in 1..Len(s) \/ i \in (Len(s) + 1)..Len(r)
    BY <1>4
  <2>2. QED
    BY <1>2, <1>3, <2>1 DEF UdpSent, Grows
<1>7. \A i \in 1..Len(r) : r[i].type = "NEWS" => IdOf[c] \in audience'[r[i].n]
  BY <1>1, <1>4, <1>5, <1>6
<1>8. \A i, j \in 1..Len(r) : i < j /\ r[i].type = "NEWS" /\ r[j].type = "NEWS" => r[i].n < r[j].n
  <2> SUFFICES ASSUME NEW i \in 1..Len(r), NEW j \in 1..Len(r), i < j,
                      r[i].type = "NEWS", r[j].type = "NEWS"
               PROVE  r[i].n < r[j].n
    OBVIOUS
  <2>1. i \in 1..Len(s)
    BY <1>4, <1>6
  <2>2. QED
    BY <1>1, <1>4, <1>5, <1>6, <2>1
<1>9. QED
  BY <1>3, <1>7, <1>8 DEF OnlyTo, InOrder

\* After a reply come the stored news, which are for the id and in order.
LEMMA SentAccepted ==
  ASSUME TypeOK, RepliesFirst, StoredInv, missed = {}, NEW fd, NEW c \in Conns, AcceptedOn(fd, c),
         audience' = audience
  PROVE  OnlyTo(c)' /\ InOrder(c)'
<1>0. PICK id \in Ids : id = IdOf[c]
  BY FirstSent
<1>1. PICK q, r : q = subs_queue[id] /\ r = down'[c] /\ id = IdOf[c]
  BY <1>0
<1>2. /\ Len(q) \in Nat /\ Len(r) = Len(q) + 1 /\ r[1].type = "AUTH"
      /\ \A i \in 2..Len(r) : i - 1 \in 1..Len(q) /\ r[i] = q[i - 1]
  BY <1>1, FirstSent
<1>3. /\ \A i \in 1..Len(q) : id \in audience[q[i].n]
      /\ \A i, j \in 1..Len(q) : i < j => q[i].n < q[j].n
  BY <1>1 DEF StoredInv, StoredFor
<1>4. \A i \in 1..Len(r) : r[i].type = "NEWS" => i \in 2..Len(r)
  BY <1>2
<1>5. \A i \in 1..Len(r) : r[i].type = "NEWS" => id \in audience'[r[i].n]
  BY <1>2, <1>3, <1>4
<1>6. \A i, j \in 1..Len(r) : i < j /\ r[i].type = "NEWS" /\ r[j].type = "NEWS" => r[i].n < r[j].n
  <2> SUFFICES ASSUME NEW i \in 2..Len(r), NEW j \in 2..Len(r), i < j
               PROVE  r[i].n < r[j].n
    BY <1>4
  <2>1. i - 1 \in 1..Len(q) /\ j - 1 \in 1..Len(q) /\ i - 1 < j - 1
    BY <1>2
  <2>2. QED
    BY <1>2, <1>3, <2>1
<1>7. QED
  BY <1>1, <1>5, <1>6 DEF OnlyTo, InOrder

\* The other steps send no news.
LEMMA SentStep ==
  ASSUME TypeOK, TypeOK', ConnsInv, StreamInv, SessionInv, BatchInv, RepliesFirst, Numbers, StoredInv,
         SentInv, [Next]_vars
  PROVE  SentInv'
<1> SUFFICES ASSUME missed' = {}, NEW c \in Conns
             PROVE  OnlyTo(c)' /\ InOrder(c)'
  BY DEF SentInv
<1>1. missed = {}
  BY MissedGrows
<1>2. CASE HandleUdp \/ HandleUdpDies
  BY <1>1, <1>2, SentUdp
<1>3. CASE ~(HandleUdp \/ HandleUdpDies)
  <2>1. audience' = audience
    BY <1>3, NewsFrame, DatagramEffect
  <2>2. OnlyTo(c) /\ InOrder(c)
    BY <1>1 DEF SentInv
  <2>3. CASE down'[c] = down[c]
    BY <2>1, <2>2, <2>3 DEF OnlyTo, InOrder
  <2>4. CASE down'[c] = <<[type |-> "AUTH_DUPLICATE"]>>
    BY <2>4 DEF OnlyTo, InOrder
  <2>5. ASSUME NEW fd \in Fds, NEW d \in Conns, AcceptedOn(fd, d)
        PROVE  OnlyTo(c)' /\ InOrder(c)'
    <3>1. CASE d = c
      BY <1>1, <2>1, <2>5, <3>1, SentAccepted
    <3>2. CASE d # c
      BY <2>3, <2>5, <3>2 DEF AcceptedOn
    <3>3. QED
      BY <3>1, <3>2
  <2>6. ASSUME NEW fd \in Fds, AuthDuplicate(fd)
        PROVE  OnlyTo(c)' /\ InOrder(c)'
    BY <1>1, <2>3, <2>4, <2>6, RefusalSent
  <2>7. QED
    BY <1>3, <2>3, <2>5, <2>6, DownStep
<1>4. QED
  BY <1>2, <1>3

\* In every state what was sent to a connection is for its id and in order.
LEMMA SentCorrect == Spec => []SentInv
<1>1. Init => SentInv
  <2> SUFFICES ASSUME Init
               PROVE  SentInv
    OBVIOUS
  <2>1. \A c \in Conns : Len(down[c]) = 0
    BY DEF Init
  <2>2. QED
    BY <2>1 DEF SentInv, OnlyTo, InOrder
<1>2. TypeOK /\ TypeOK' /\ ConnsInv /\ StreamInv /\ SessionInv /\ BatchInv /\ RepliesFirst /\ Numbers
        /\ StoredInv /\ SentInv /\ [Next]_vars => SentInv'
  BY SentStep
<1>3. QED
  BY <1>1, <1>2, TypeCorrect, SessionsCorrect, BatchCorrect, RepliesCorrect, NumbersCorrect,
     StoredCorrect, PTL DEF Spec

\* The numbers of the packets sent.
LEMMA DomainOfDown ==
  ASSUME TypeOK
  PROVE  \A c \in Conns : DOMAIN down[c] = 1..Len(down[c])
  BY DownType, LenProperties

\* News come only to subscribers of their topic, at the time of their datagram, stored or not.
THEOREM NewsOnlyToSubscribersCorrect == Spec => []NewsOnlyToSubscribers
<1>1. TypeOK /\ SentInv => NewsOnlyToSubscribers
  BY DomainOfDown DEF SentInv, OnlyTo, NewsOnlyToSubscribers
<1>2. QED
  BY <1>1, TypeCorrect, SentCorrect, PTL

\* On each connection the stored news and the forwarded ones come in the order of the datagrams,
\* each once.
THEOREM NewsInOrderCorrect == Spec => []NewsInOrder
<1>1. TypeOK /\ SentInv => NewsInOrder
  BY DomainOfDown DEF SentInv, InOrder, NewsInOrder
<1>2. QED
  BY <1>1, TypeCorrect, SentCorrect, PTL

-----------------------------------------------------------------------------
(***************************************************************************)
(* Stored news and the connection of the moment.                           *)
(***************************************************************************)

\* An open connection was open before, or has just been accepted.
LEMMA OpenStep ==
  ASSUME TypeOK, NoStrandedPacket, ConnsInv, StreamInv, [Next]_vars, NEW g \in Open'
  PROVE  \/ g \in Open /\ tcp_sockets'[g] = tcp_sockets[g]
         \/ /\ \E fd \in AllFds : HandleConnect(fd)
            /\ tcp_sockets'[g] \in Conns /\ down[tcp_sockets'[g]] = <<>> /\ down' = down
<1>1. CASE UNCHANGED tcp_sockets
  BY <1>1 DEF Open
<1>2. CASE Select
  BY <1>2, SelectEffect DEF ConnsInv
<1>3. CASE HandleStdin
  BY <1>1, <1>3 DEF HandleStdin, CloseAll, Close, Open
<1>4. ASSUME NEW fd \in AllFds, HandleConnect(fd)
      PROVE  \/ g \in Open /\ tcp_sockets'[g] = tcp_sockets[g]
             \/ tcp_sockets'[g] \in Conns /\ down[tcp_sockets'[g]] = <<>> /\ down' = down
  <2>1. PICK f \in Fds :
           /\ f \notin Open /\ Open' = Open \cup {f} /\ backlog[1] \in Conns
           /\ Len(backlog) \in Nat /\ Len(backlog) >= 1 /\ tcp_sockets'[f] = backlog[1]
           /\ \A h \in Fds : h # f => tcp_sockets'[h] = tcp_sockets[h]
    BY <1>4, AcceptEffect DEF HandleConnect
  <2>2. 1 \in 1..Len(backlog)
    BY <2>1
  <2>3. down[backlog[1]] = <<>>
    BY <2>2 DEF ConnsInv, BacklogOK
  <2>4. CASE g = f
    BY <1>4, <2>1, <2>3, <2>4 DEF HandleConnect
  <2>5. CASE g # f
    BY <2>1, <2>5, OpenConn
  <2>6. QED
    BY <2>4, <2>5
<1>5. ASSUME NEW fd \in Fds, AuthDuplicate(fd)
      PROVE  g \in Open /\ tcp_sockets'[g] = tcp_sockets[g]
  BY <1>5, DuplicateEffect DEF ConnsInv
<1>6. CASE Environment \/ HandleUdp \/ HandleUdpDies \/ NoDescriptor \/ UNCHANGED vars
  BY <1>1, <1>6 DEF Environment, Connect, SendAuth, Command, Send, Leave, Reset, Datagram, TypeLine,
                    HandleUdp, HandleUdpDies, NoDescriptor, vars, socketVars
<1>7. ASSUME NEW fd \in Fds,
             \/ HandleClose(fd) \/ HandleUdpGarbled(fd) \/ TcpNotReady(fd) \/ Auth(fd) \/ AuthDies(fd)
             \/ \E type \in {"SUB", "SUB_SF", "UNSUB"} : Subscribe(fd, type)
      PROVE  UNCHANGED tcp_sockets
  BY <1>7 DEF HandleClose, HandleUdpGarbled, TcpNotReady, Auth, AuthDies, Subscribe
<1>8. QED
  BY <1>1, <1>2, <1>3, <1>4, <1>5, <1>6, <1>7 DEF Next, Loop

\* What was sent stays sent.
LEMMA DownGrows ==
  ASSUME TypeOK, ConnsInv, StreamInv, SessionInv, [Next]_vars, NEW c \in Conns
  PROVE  Grows(c)
<1>1. CASE HandleUdp \/ HandleUdpDies
  <2>1. Head(udp) \in News
    BY <1>1, HeadOfUdp DEF HandleUdp, HandleUdpDies
  <2>2. \E S \in SUBSET Ids : Forward(Head(udp), S)
    BY <1>1 DEF HandleUdp, HandleUdpDies, Online, Subscribed
  <2>3. QED
    BY <2>1, <2>2, ForwardEffect DEF OnlyNews
<1>2. CASE down' = down
  BY <1>2, DownType DEF Grows
<1>3. ASSUME NEW fd \in Fds, AuthDuplicate(fd)
      PROVE  Grows(c)
  BY <1>3, DuplicateEffect DEF ConnsInv
<1>4. QED
  BY <1>1, <1>2, <1>3, DownStep DEF AcceptedOn

\* A connection becomes an accepted one in no other way than by its authentication.
LEMMA AuthStep ==
  ASSUME TypeOK, TypeOK', ConnsInv, StreamInv, SessionInv, [Next]_vars, NEW c \in Conns,
         Authenticated(c)'
  PROVE  Authenticated(c) \/ \E fd \in Fds : Auth(fd) /\ AcceptedOn(fd, c)
<1>1. CASE HandleUdp \/ HandleUdpDies
  <2>1. Head(udp) \in News
    BY <1>1, HeadOfUdp DEF HandleUdp, HandleUdpDies
  <2>2. \E S \in SUBSET Ids : Forward(Head(udp), S)
    BY <1>1 DEF HandleUdp, HandleUdpDies, Online, Subscribed
  <2>3. QED
    BY <2>1, <2>2, ForwardEffect, OnlyNewsKeeps
<1>2. CASE down'[c] = down[c]
  BY <1>2 DEF Authenticated
<1>3. ASSUME NEW fd \in Fds, AuthDuplicate(fd), tcp_sockets[fd] = c
      PROVE  Authenticated(c)
  <2>1. down'[c] = down[c] \o <<[type |-> "AUTH_DUPLICATE"]>>
    BY <1>3, DuplicateEffect DEF ConnsInv
  <2>2. Len(down[c]) \in Nat /\ Len(down'[c]) \in Nat
    BY DownType DEF TypeOK, OtherTypeOK
  <2>3. /\ Authenticated(c) <=> 1 \in 1..Len(down[c]) /\ down[c][1].type = "AUTH"
        /\ Authenticated(c)' <=> 1 \in 1..Len(down'[c]) /\ down'[c][1].type = "AUTH"
    <3>1. down[c] \in Seq(Replies \cup News) /\ down'[c] \in Seq(Replies \cup News)
      BY DEF TypeOK, OtherTypeOK
    <3>2. QED
      BY <3>1, FirstReply DEF Authenticated
  <2>4. CASE 1 \in 1..Len(down[c])
    BY <2>1, <2>3, <2>4, DuplicateType, AppendedAreSent DEF Grows
  <2>5. CASE Len(down[c]) = 0
    <3>1. down'[c] = <<[type |-> "AUTH_DUPLICATE"]>>
      BY <2>1, <2>5, DownType, DuplicateType, EmptySeq, ConcatEmptySeq
    <3>2. down'[c][1].type = "AUTH_DUPLICATE"
      BY <3>1
    <3>3. QED
      BY <2>3, <3>2
  <2>6. QED
    BY <2>2, <2>4, <2>5
<1>4. ASSUME NEW fd \in Fds, AuthDuplicate(fd), tcp_sockets[fd] # c
      PROVE  down'[c] = down[c]
  BY <1>4, DuplicateEffect DEF ConnsInv
<1>5. ASSUME NEW fd \in Fds, NEW d \in Conns, Auth(fd), AcceptedOn(fd, d)
      PROVE  d = c \/ down'[c] = down[c]
  BY <1>5 DEF AcceptedOn
<1>6. QED
  BY <1>1, <1>2, <1>3, <1>4, <1>5, DownStep

\* All that is stored for the id of c was sent on c.
AllSent(c) ==
  \A i \in 1..Len(subs_queue[IdOf[c]]) :
    \E j \in 1..Len(down[c]) : down[c][j] = subs_queue[IdOf[c]][i]

\* For every accepted connection that is open.
StoredSent == \A fd \in Open : Authenticated(tcp_sockets[fd]) => AllSent(tcp_sockets[fd])

\* What was sent stays sent, so that the stored news stay covered while they are the same.
LEMMA AllSentStep ==
  ASSUME TypeOK, ConnsInv, StreamInv, SessionInv, [Next]_vars, NEW c \in Conns, AllSent(c),
         subs_queue'[IdOf[c]] = subs_queue[IdOf[c]]
  PROVE  AllSent(c)'
<1>1. Grows(c) /\ Len(down[c]) \in Nat
  BY DownGrows, DownType
<1>2. Len(down'[c]) >= Len(down[c]) /\ \A j \in 1..Len(down[c]) : down'[c][j] = down[c][j]
  BY <1>1 DEF Grows
<1>3. \A j \in 1..Len(down[c]) : j \in 1..Len(down'[c])
  BY <1>1, <1>2 DEF TypeOK, OtherTypeOK
<1>4. QED
  BY <1>2, <1>3 DEF AllSent

\* Nothing is stored for an id that has an accepted connection.
LEMMA NotStored ==
  ASSUME TypeOK, WholeInv, SessionBound, [Next]_vars, NEW g \in Open, Authenticated(tcp_sockets[g])
  PROVE  subs_queue'[IdOf[tcp_sockets[g]]] = subs_queue[IdOf[tcp_sockets[g]]]
<1>1. PICK id \in Ids : id = IdOf[tcp_sockets[g]] /\ id # NoId
  BY OpenConn, IdsAssumption
<1>2. state[id] = "CONNECTED"
  BY <1>1, OpenConn DEF WholeInv, Bound, SessionBound
<1>3. CASE HandleUdp
  BY <1>1, <1>2, <1>3 DEF HandleUdp, Stored
<1>4. CASE HandleUdpDies
  BY <1>4 DEF HandleUdpDies, tableVars
<1>5. QED
  BY <1>3, <1>4, NewsFrame, DatagramEffect

\* The reply to an authentication takes all that is stored with it.
LEMMA AcceptedSent ==
  ASSUME TypeOK, NEW fd, Auth(fd), NEW c \in Conns, AcceptedOn(fd, c)
  PROVE  AllSent(c)'
<1>1. PICK id \in Ids : id = IdOf[c]
  BY DEF AcceptedOn
<1>2. PICK q \in Seq(News) : q = subs_queue[id]
  BY DEF TypeOK, TableTypeOK
<1>3. PICK r : r = AuthReply(id)
  OBVIOUS
<1>4. /\ down'[c] = down[c] \o r /\ r \in Seq(Replies \cup News)
      /\ subs_queue' = subs_queue
  BY <1>1, <1>3 DEF AcceptedOn, Auth
<1>5. Len(r) = Len(q) + 1 /\ \A i \in 2..Len(r) : i - 1 \in 1..Len(q) /\ r[i] = q[i - 1]
  BY <1>1, <1>2, <1>3, <1>4, AuthAnswers
<1>6. /\ Len(r) \in Nat /\ Len(down[c]) \in Nat /\ Len(down'[c]) = Len(down[c]) + Len(r)
      /\ \A i \in 1..Len(r) : down'[c][Len(down[c]) + i] = r[i]
  BY <1>4, DownType, AppendedAreSent
<1>7. Len(q) \in Nat
  BY <1>2, LenProperties
<1>8. ASSUME NEW i \in 1..Len(q)
      PROVE  \E j \in 1..Len(down'[c]) : down'[c][j] = q[i]
  <2>1. i + 1 \in 2..Len(r) /\ i + 1 \in 1..Len(r) /\ (i + 1) - 1 = i
    BY <1>5, <1>7
  <2>2. r[i + 1] = q[i]
    BY <1>5, <2>1
  <2>3. Len(down[c]) + (i + 1) \in 1..Len(down'[c])
    <3>1. \A m, k, j \in Nat : j \in 1..k => m + j \in 1..(m + k)
      OBVIOUS
    <3>2. i + 1 \in Nat
      BY <2>1
    <3>3. Len(down[c]) + (i + 1) \in 1..(Len(down[c]) + Len(r))
      BY <1>6, <2>1, <3>1, <3>2
    <3>4. QED
      BY <1>6, <3>3
  <2>4. QED
    BY <1>6, <2>1, <2>2, <2>3
<1>9. QED
  BY <1>1, <1>2, <1>4, <1>8 DEF AllSent

\* Every step keeps it, ...
LEMMA StoredSentStep ==
  ASSUME TypeOK, TypeOK', NoStrandedPacket, ConnsInv, StreamInv, SessionInv, WholeInv, SessionBound,
         StoredSent, [Next]_vars
  PROVE  StoredSent'
<1> SUFFICES ASSUME NEW g \in Open', NEW c \in Conns, c = tcp_sockets'[g], Authenticated(c)'
             PROVE  AllSent(c)'
  <2>1. \A g \in Open' : tcp_sockets'[g] \in Conns
    BY DEF Open, TypeOK, SocketTypeOK
  <2>2. QED
    BY <2>1 DEF StoredSent, AllSent, Authenticated
<1>1. CASE g \in Open /\ tcp_sockets[g] = c
  <2>1. CASE Authenticated(c)
    <3>1. AllSent(c)
      BY <1>1, <2>1 DEF StoredSent
    <3>2. subs_queue'[IdOf[c]] = subs_queue[IdOf[c]]
      BY <1>1, <2>1, NotStored
    <3>3. QED
      BY <3>1, <3>2, AllSentStep
  <2>2. QED
    BY <2>1, AuthStep, AcceptedSent
<1>2. CASE down[c] = <<>> /\ down' = down
  BY <1>2 DEF Authenticated
<1>3. QED
  BY <1>1, <1>2, OpenStep

\* ... so that it holds in every state.
LEMMA StoredSentCorrect ==
  ASSUME ~Fragments
  PROVE  Spec => []StoredSent
<1>1. Init => StoredSent
  BY DEF Init, StoredSent, Open
<1>2. TypeOK /\ TypeOK' /\ NoStrandedPacket /\ ConnsInv /\ StreamInv /\ SessionInv /\ WholeInv
        /\ SessionBound /\ StoredSent /\ [Next]_vars => StoredSent'
  BY StoredSentStep
<1>3. QED
  BY <1>1, <1>2, TypeCorrect, NoStrandedPacketCorrect, SessionsCorrect, WholeCorrect,
     SessionBoundCorrect, PTL DEF Spec

\* Whatever is stored for an id, the connection that it has now was sent.
THEOREM StoredIsForwardedCorrect ==
  ASSUME ~Fragments
  PROVE  Spec => []StoredIsForwarded
<1>1. TypeOK /\ StoredSent => StoredIsForwarded
  <2> SUFFICES ASSUME TypeOK, StoredSent, NEW fd \in Open, NEW c \in Conns, c = tcp_sockets[fd],
                      Authenticated(c), NEW i \in DOMAIN subs_queue[IdOf[c]]
               PROVE  \E j \in DOMAIN down[c] : down[c][j] = subs_queue[IdOf[c]][i]
    BY OpenConn DEF StoredIsForwarded
  <2>1. subs_queue[IdOf[c]] \in Seq(News)
    BY IdsAssumption DEF TypeOK, TableTypeOK
  <2>2. i \in 1..Len(subs_queue[IdOf[c]])
    BY <2>1, LenProperties
  <2>3. QED
    BY <2>2, DomainOfDown DEF StoredSent, AllSent
<1>2. QED
  BY <1>1, TypeCorrect, StoredSentCorrect, PTL
=============================================================================
