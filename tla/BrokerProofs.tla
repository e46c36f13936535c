----------------------------- MODULE BrokerProofs -----------------------------
(***************************************************************************)
(* Server implements Broker (ImplementsBroker), when every recv() returns  *)
(* whole packets and until a SOCK_CLOSE entry is lost: the simulation of   *)
(* each action by a step of the broker, or by none.                        *)
(*                                                                         *)
(* Besides the invariants of the modules above it needs two facts about    *)
(* the queue: the entry of a connection tells its end from a packet        *)
(* (Typed), and select() leaves something to hand out (Selected).  The     *)
(* second rests on the least descriptor of the batch.                      *)
(***************************************************************************)
EXTENDS CommandProofs, BrokerRefinement, WellFoundedInduction

-----------------------------------------------------------------------------
(***************************************************************************)
(* What select() leaves in the queue, when every packet arrives whole.     *)
(***************************************************************************)

\* A set of descriptors has a least one.
LEMMA LeastExists ==
  ASSUME NEW S \in SUBSET Nat, S # {}
  PROVE  \E m \in S : \A k \in S : m <= k
<1> DEFINE R == {ss \in Nat \X Nat : ss[1] < ss[2]}
<1>1. IsWellFoundedOn(R, Nat)
  BY NatLessThanWellFounded DEF OpToRel
<1>2. \A m, k \in Nat : k < m => <<k, m>> \in R
  OBVIOUS
<1> HIDE DEF R
<1>3. PICK m \in S : \A k \in S : <<k, m>> \notin R
  BY <1>1, WFMin
<1>4. \A k \in S : ~(k < m)
  BY <1>2, <1>3
<1>5. \A k \in Nat : ~(k < m) => m <= k
  OBVIOUS
<1>6. QED
  BY <1>4, <1>5

\* The entry of a connection tells its end from a packet.
Typed == \A fd \in Fds : sock_queue[fd] \in {"none", "SOCK_TCP", "SOCK_CLOSE"}

\* get_next_fd() has a descriptor to return after select().
Selected == pc = "selected" => ~NoNextFd

\* After select() each entry has its type, one can be handed out, and only connections whose
\* subscriber has left are closed.
LEMMA SelectQueue ==
  ASSUME ~Fragments, TypeOK, NoStrandedPacket, OneFd, Select
  PROVE  /\ Typed' /\ ~NoNextFd'
         /\ \A fd \in Open \ Open' : link[tcp_sockets[fd]] = "hup"
         /\ \A c \in Conns : link'[c] = IF \E fd \in Open \ Open' : tcp_sockets[fd] = c
                                        THEN "shut" ELSE link[c]
<1>1. PICK R \in SUBSET ReadableFds, P \in SUBSET ReadableSpecials : SelectReturns(R, P)
  BY DEF Select
<1>2. PICK n \in ReadCounts(R), uninit \in (IF Fragments THEN FdTypes ELSE {"SOCK_NULL"}) :
        /\ sock_queue' = [fd \in AllFds |->
             IF fd \in R \cup P THEN FdType(fd, R \cup P, n, uninit) ELSE "none"]
        /\ packet_queue' = [fd \in Fds |->
             IF fd \notin R THEN packet_queue[fd]
             ELSE IF AtEnd(fd) THEN <<>>
             ELSE packet_queue[fd] \o SubSeq(up[tcp_sockets[fd]], 1, n[fd])]
        /\ tcp_sockets' = [fd \in Fds |->
             IF fd \in {g \in R : AtEnd(g)} THEN NoConn ELSE tcp_sockets[fd]]
        /\ link' = [c \in Conns |->
             IF \E fd \in {g \in R : AtEnd(g)} : tcp_sockets[fd] = c THEN "shut" ELSE link[c]]
  BY <1>1 DEF SelectReturns, Close
<1>3. R \cup P # {}
  BY <1>1 DEF SelectReturns
<1>4. R \subseteq Open /\ \A fd \in R : fd \in Fds /\ fd \in AllFds /\ tcp_sockets[fd] \in Conns
  BY OpenConn DEF ReadableFds
<1>5. Open' = Open \ {g \in R : AtEnd(g)} /\ Open \ Open' = {g \in R : AtEnd(g)}
  BY <1>2, <1>4 DEF Open
<1>6. P \subseteq AllFds /\ \A fd \in P : fd \notin Fds
  BY FdsAssumption DEF ReadableSpecials, AllFds, Stdin, Udp, Listen
<1>7. \A fd \in R : ~AtEnd(fd) => n[fd] # 0 /\ n[fd] \in 1..Len(up[tcp_sockets[fd]])
  <2>1. \A fd \in R : /\ n[fd] \in 0..MaxSent /\ n[fd] <= Len(up[tcp_sockets[fd]])
                      /\ n[fd] = 0 => AtEnd(fd)
    BY <1>2 DEF ReadCounts
  <2>2. \A fd \in R : Len(up[tcp_sockets[fd]]) \in Nat
    BY <1>4, LenProperties DEF TypeOK, KernelTypeOK
  <2>3. QED
    BY <2>1, <2>2, BoundAssumption
<1>8. \A fd \in R : FdType(fd, R \cup P, n, uninit) = IF AtEnd(fd) THEN "SOCK_CLOSE" ELSE "SOCK_TCP"
  BY <1>4, <1>7 DEF FdType, Classify
<1>9. \A fd \in P : FdType(fd, R \cup P, n, uninit) \notin {"none", "SOCK_TCP"}
  BY <1>6 DEF FdType, Classify
<1>10. \A fd \in AllFds : sock_queue'[fd] = IF fd \in R \cup P THEN FdType(fd, R \cup P, n, uninit)
                                                             ELSE "none"
  BY <1>2
<1>11. Typed'
  BY <1>6, <1>8, <1>10 DEF Typed, AllFds
<1>12. Queued' = R \cup P
  BY <1>4, <1>6, <1>8, <1>9, <1>10 DEF Queued
<1>13. ASSUME NEW fd \in R, ~AtEnd(fd)
       PROVE  fd \in Returnable'
  <2>1. packet_queue[fd] = <<>>
    BY <1>4, NothingLeft DEF Select
  <2>2. PICK s \in Seq(Packets) : s = up[tcp_sockets[fd]]
    BY <1>4 DEF TypeOK, KernelTypeOK
  <2>3. packet_queue'[fd] = <<>> \o SubSeq(s, 1, n[fd])
    BY <1>2, <1>4, <1>13, <2>1, <2>2
  <2>4. n[fd] \in 1..Len(s) /\ n[fd] \in 0..Len(s) /\ n[fd] # 0
    BY <1>7, <1>13, <2>2
  <2>5. SubSeq(s, 1, n[fd]) \in Seq(Packets) /\ Len(SubSeq(s, 1, n[fd])) = n[fd]
    BY <2>2, <2>4, CutElements
  <2>6. packet_queue'[fd] # <<>>
    BY <2>3, <2>4, <2>5, ConcatEmptySeq
  <2>7. fd \in Open'
    BY <1>4, <1>5, <1>13
  <2>8. QED
    BY <1>12, <2>6, <2>7 DEF Returnable, PacketReady
<1>14. Returnable' # {}
  <2>1. CASE \E fd \in R : ~AtEnd(fd)
    BY <1>13, <2>1
  <2>2. CASE \A fd \in R : AtEnd(fd)
    <3>1. R \cup P \in SUBSET Nat
      <4>1. AllFds \subseteq Nat
        BY FdsAssumption DEF AllFds, Stdin, Udp, Listen
      <4>2. QED
        BY <1>4, <1>6, <4>1
    <3>2. PICK m \in R \cup P : \A k \in R \cup P : m <= k
      BY <1>3, <3>1, LeastExists
    <3>3. IsLeast(m, Queued)'
      BY <1>12, <3>2 DEF IsLeast
    <3>4. sock_queue'[m] # "SOCK_TCP"
      BY <1>4, <1>6, <1>8, <1>9, <1>10, <2>2
    <3>5. QED
      BY <1>12, <3>3, <3>4 DEF Returnable
  <2>3. QED
    BY <2>1, <2>2
<1>15. \A fd \in Open \ Open' : link[tcp_sockets[fd]] = "hup"
  BY <1>4, <1>5 DEF ReadableFds, AtEnd
<1>16. QED
  BY <1>2, <1>5, <1>11, <1>14, <1>15 DEF NoNextFd

\* The queue is empty initially.
LEMMA QueueInit == Init => Typed /\ Selected
  BY DEF Init, Typed, Selected, EmptyQueue, AllFds

\* After select() there is a descriptor to handle: the branch of main() with descriptor -1 is only
\* reached when select() returns for a part of a packet alone.
LEMMA QueueStep ==
  ASSUME ~Fragments, TypeOK, NoStrandedPacket, OneFd, Typed, Selected, [Next]_vars
  PROVE  Typed' /\ Selected'
<1>1. CASE UNCHANGED <<pc, sock_queue, packet_queue, tcp_sockets>>
  BY <1>1 DEF Typed, Selected, NoNextFd, Returnable, PacketReady, IsLeast, Queued, Open
<1>2. ASSUME NEW fd, Next_fd(fd), pc' # "selected"
      PROVE  Typed' /\ Selected'
  <2>1. Typed'
    BY <1>2, QueueShrinks DEF Typed, AllFds
  <2>2. QED
    BY <1>2, <2>1 DEF Selected
<1>3. CASE Environment \/ UNCHANGED vars
  BY <1>1, <1>3 DEF Environment, Connect, SendAuth, Command, Send, Leave, Reset, Datagram, TypeLine,
                    vars, socketVars
<1>4. CASE Select
  BY <1>4, SelectQueue DEF Selected
<1>5. CASE NoDescriptor
  BY <1>5 DEF NoDescriptor, Selected, Typed, EmptyQueue, AllFds
<1>6. CASE HandleStdin \/ HandleUdp \/ HandleUdpDies
  BY <1>2, <1>6 DEF HandleStdin, HandleUdp, HandleUdpDies
<1>7. ASSUME NEW fd,
             \/ HandleConnect(fd) \/ HandleClose(fd) \/ HandleUdpGarbled(fd) \/ TcpNotReady(fd)
             \/ Auth(fd) \/ AuthDuplicate(fd) \/ AuthDies(fd)
             \/ \E type \in {"SUB", "SUB_SF", "UNSUB"} : Subscribe(fd, type)
      PROVE  Typed' /\ Selected'
  BY <1>2, <1>7 DEF HandleConnect, HandleClose, HandleUdpGarbled, TcpNotReady, Auth, AuthDuplicate,
                    AuthDies, Subscribe, Receive, HandleTcp
<1>8. QED
  BY <1>3, <1>4, <1>5, <1>6, <1>7 DEF Next, Loop

\* In every state entries have their types, and one is there after select().
LEMMA QueueCorrect ==
  ASSUME ~Fragments
  PROVE  Spec => [](Typed /\ Selected)
<1>1. Init => Typed /\ Selected
  BY QueueInit
<1>2. TypeOK /\ NoStrandedPacket /\ ConnsInv /\ Typed /\ Selected /\ [Next]_vars => (Typed /\ Selected)'
  BY QueueStep DEF ConnsInv
<1>3. QED
  BY <1>1, <1>2, TypeCorrect, NoStrandedPacketCorrect, SessionsCorrect, PTL DEF Spec

\* With whole packets, main() never goes on with the descriptor -1.
THEOREM DescriptorAfterSelectCorrect ==
  ASSUME ~Fragments
  PROVE  Spec => []DescriptorAfterSelect
<1>1. Selected => DescriptorAfterSelect
  BY DEF Selected, DescriptorAfterSelect
<1>2. QED
  BY <1>1, QueueCorrect, PTL

-----------------------------------------------------------------------------
(***************************************************************************)
(* The sessions of the mapping.                                            *)
(***************************************************************************)

\* A connection that is open and was sent something was accepted.
OpenAnswered ==
  missed = {} => \A fd \in Fds, c \in Conns :
    fd \in Open /\ tcp_sockets[fd] = c /\ down[c] # <<>> => Authenticated(c)

\* An accepted connection has its TYPE_AUTH.
LEMMA AcceptedIsAuthenticated ==
  ASSUME TypeOK, TypeOK', RepliesFirst, missed = {}, NEW fd, NEW c \in Conns, AcceptedOn(fd, c)
  PROVE  Authenticated(c)'
<1>1. 1 \in 1..Len(down'[c]) /\ down'[c][1] = [type |-> "AUTH"]
  BY FirstSent
<1>2. down'[c] \in Seq(Replies \cup News)
  BY DEF TypeOK, OtherTypeOK
<1>3. QED
  BY <1>1, <1>2, FirstReply DEF Authenticated

\* What an open connection gets first is TYPE_AUTH: a refused one is closed.
LEMMA AnsweredStep ==
  ASSUME TypeOK, TypeOK', NoStrandedPacket, ConnsInv, StreamInv, SessionInv, BatchInv, RepliesFirst,
         OpenAnswered, [Next]_vars
  PROVE  OpenAnswered'
<1> SUFFICES ASSUME missed' = {}, NEW g \in Fds, NEW c \in Conns,
                    g \in Open', tcp_sockets'[g] = c, down'[c] # <<>>
             PROVE  Authenticated(c)'
  BY DEF OpenAnswered
<1>1. missed = {}
  BY MissedGrows
<1>2. g \in Open /\ tcp_sockets[g] = c
  BY OpenStep
<1>3. CASE down'[c] = down[c]
  BY <1>1, <1>2, <1>3 DEF OpenAnswered, Authenticated
<1>4. CASE HandleUdp \/ HandleUdpDies
  <2>1. UdpSent(c)
    BY <1>1, <1>4, UdpSends
  <2>2. down[c] \in Seq(Replies \cup News) /\ down'[c] \in Seq(Replies \cup News)
    BY DEF TypeOK, OtherTypeOK
  <2>3. down[c] # <<>>
    <3>1. CASE Len(down'[c]) = Len(down[c])
      BY <2>2, <3>1, EmptySeq
    <3>2. CASE Len(down'[c]) # Len(down[c])
      <4>1. Len(down[c]) \in Nat /\ Len(down'[c]) \in Nat /\ Len(down'[c]) >= Len(down[c])
        BY <2>1, <2>2, LenProperties DEF UdpSent, Grows
      <4>2. Len(down'[c]) \in (Len(down[c]) + 1)..Len(down'[c])
        BY <3>2, <4>1
      <4>3. QED
        BY <2>1, <4>2 DEF UdpSent
    <3>3. QED
      BY <3>1, <3>2
  <2>4. Authenticated(c)
    BY <1>1, <1>2, <2>3 DEF OpenAnswered
  <2>5. QED
    BY <2>1, <2>4, GrowsKeeps DEF UdpSent
<1>5. ASSUME NEW fd \in Fds, NEW d \in Conns, AcceptedOn(fd, d)
      PROVE  Authenticated(c)'
  <2>1. CASE d = c
    BY <1>1, <1>5, <2>1, AcceptedIsAuthenticated
  <2>2. CASE d # c
    BY <1>3, <1>5, <2>2 DEF AcceptedOn
  <2>3. QED
    BY <2>1, <2>2
<1>6. ASSUME NEW fd \in Fds, AuthDuplicate(fd)
      PROVE  down'[c] = down[c]
  BY <1>6, DuplicateEffect DEF ConnsInv
<1>7. QED
  BY <1>3, <1>4, <1>5, <1>6, DownStep

\* In every state.
LEMMA AnsweredCorrect == Spec => []OpenAnswered
<1>1. Init => OpenAnswered
  BY DEF Init, OpenAnswered
<1>2. TypeOK /\ TypeOK' /\ NoStrandedPacket /\ ConnsInv /\ StreamInv /\ SessionInv /\ BatchInv
        /\ RepliesFirst /\ OpenAnswered /\ [Next]_vars => OpenAnswered'
  BY AnsweredStep
<1>3. QED
  BY <1>1, <1>2, TypeCorrect, NoStrandedPacketCorrect, SessionsCorrect, BatchCorrect, RepliesCorrect,
     PTL DEF Spec

\* When a datagram is handled, an open descriptor of a connected id is its session.
LEMMA UdpSessions ==
  ASSUME TypeOK, SessionInv, BatchInv, OpenAnswered, Next_fd(Udp), missed = {},
         NEW id \in Ids, state[id] = "CONNECTED", sockfd[id] \in Open
  PROVE  SessionOf(id) = tcp_sockets[sockfd[id]]
<1>1. Running /\ sock_queue[Udp] # "none" /\ id # NoId
  BY NextFdType, IdsAssumption DEF Next_fd
<1>2. sockfd[id] \in Fds /\ ids_map[sockfd[id]] = id
  BY <1>1 DEF SessionInv, ConnectedBound
<1>3. IdOf[tcp_sockets[sockfd[id]]] = id /\ down[tcp_sockets[sockfd[id]]] # <<>>
  BY <1>1, <1>2 DEF BatchInv, UdpServed
<1>4. Authenticated(tcp_sockets[sockfd[id]])
  BY <1>2, <1>3, OpenConn DEF OpenAnswered
<1>5. QED
  BY <1>3, <1>4 DEF SessionOf

\* A session is the connection its descriptor leads to.
LEMMA SessionIs ==
  ASSUME TypeOK, NEW id \in Ids, SessionOf(id) # NoConn
  PROVE  /\ state[id] = "CONNECTED" /\ sockfd[id] \in Open /\ SessionOf(id) \in Conns
         /\ SessionOf(id) = tcp_sockets[sockfd[id]]
         /\ Authenticated(SessionOf(id)) /\ IdOf[SessionOf(id)] = id
  BY OpenConn DEF SessionOf

\* Forwarding to ids is the broker's delivery to their sessions.
LEMMA ForwardDelivers ==
  ASSUME TypeOK, TypeOK', SessionInv, BatchInv, OpenAnswered, Next_fd(Udp), missed = {}, udp # <<>>,
         NEW S \in SUBSET Online(Head(udp).topic), Forward(Head(udp), S)
  PROVE  Broker!Deliver(Head(udp), S)
<1>1. S \subseteq Ids /\ \A id \in S : state[id] = "CONNECTED"
  BY DEF Online, Subscribed, TypeOK, TableTypeOK
<1>2. ASSUME NEW c \in Conns
      PROVE  (\E id \in S : SessionOf(id) = c) <=> IdOf[c] \in Receivers(S, c)
  <2>1. ASSUME NEW id \in S, SessionOf(id) = c
        PROVE  IdOf[c] \in Receivers(S, c)
    BY <1>1, <2>1, SessionIs, ConnsAssumption DEF Receivers
  <2>2. ASSUME IdOf[c] \in Receivers(S, c)
        PROVE  \E id \in S : SessionOf(id) = c
    BY <1>1, <2>2, UdpSessions DEF Receivers
  <2>3. QED
    BY <2>1, <2>2
<1>3. \A c \in Conns : down'[c] = IF \E id \in S : SessionOf(id) = c
                                  THEN Append(down[c], Head(udp)) ELSE down[c]
  BY <1>2, SentTo
<1>4. down' = [c \in Conns |-> down'[c]]
  BY DEF Forward
<1>5. \A c \in Conns : (\E id \in S : SessionOf(id) = c)
                         <=> (\E id \in S : [i \in Ids |-> SessionOf(i)][id] = c)
  BY <1>1
<1>6. QED
  BY <1>3, <1>4, <1>5 DEF Broker!Deliver

-----------------------------------------------------------------------------
(***************************************************************************)
(* The refinement, action by action, as long as no entry was lost.         *)
(***************************************************************************)
\* All that the simulation uses.
BrokerInv ==
  /\ TypeOK /\ NoStrandedPacket /\ ConnsInv /\ StreamInv /\ SessionInv /\ BatchInv /\ WholeInv
  /\ SessionBound /\ RepliesFirst /\ Typed /\ Selected /\ OpenAnswered

\* No session begins or ends.
SessionsSame == \A id \in Ids : SessionOf(id)' = SessionOf(id)
\* No connection is closed.
GoneSame == \A c \in Conns : link'[c] \in {"hup", "shut"} <=> link[c] \in {"hup", "shut"}

\* A step that changes none of what the mapping reads is a stuttering step of the broker.
LEMMA BrokerSame ==
  ASSUME UNCHANGED <<udp, topic_map, state, subs_queue, down>>, Running' <=> Running,
         SessionsSame, GoneSame
  PROVE  UNCHANGED Broker!vars
<1>1. {id \in Ids : state'[id] = "CONNECTED"} = {id \in Ids : state[id] = "CONNECTED"}
  OBVIOUS
<1>2. [id \in Ids |-> SessionOf(id)'] = [id \in Ids |-> SessionOf(id)]
  BY DEF SessionsSame
<1>3. {c \in Conns : link'[c] \in {"hup", "shut"}} = {c \in Conns : link[c] \in {"hup", "shut"}}
  BY DEF GoneSame
<1>4. QED
  BY <1>1, <1>2, <1>3 DEF Broker!vars

\* Sessions change only with the table, with the connections, or with the reply.
LEMMA SessionsKept ==
  ASSUME TypeOK, UNCHANGED <<state, sockfd, tcp_sockets>>,
         \A c \in Conns : Authenticated(c)' <=> Authenticated(c)
  PROVE  SessionsSame
<1>1. Open' = Open
  BY DEF Open
<1>2. \A fd \in Open : tcp_sockets[fd] \in Conns
  BY OpenConn
<1>3. QED
  BY <1>1, <1>2 DEF SessionsSame, SessionOf

\* The case of steps that send nothing.
LEMMA SessionsKeptDown ==
  ASSUME TypeOK, UNCHANGED <<state, sockfd, tcp_sockets, down>>
  PROVE  SessionsSame
BY SessionsKept DEF Authenticated

\* select() ends the sessions of the connections it closes.
LEMMA BrokerSelect ==
  ASSUME ~Fragments, BrokerInv, Select
  PROVE  Broker!EndSessions({id \in Ids : SessionOf(id) # NoConn /\ sockfd[id] \notin Open'})
<1>1. /\ Open' \subseteq Open /\ \A fd \in Open' : tcp_sockets'[fd] = tcp_sockets[fd]
      /\ UNCHANGED <<udp, topic_map, state, sockfd, subs_queue, down>> /\ Running /\ Running'
  BY SelectEffect DEF BrokerInv, ConnsInv, Select, SelectReturns, Running, tableVars
<1>2. /\ \A fd \in Open \ Open' : link[tcp_sockets[fd]] = "hup"
      /\ \A c \in Conns : link'[c] = IF \E fd \in Open \ Open' : tcp_sockets[fd] = c
                                     THEN "shut" ELSE link[c]
  BY SelectQueue DEF BrokerInv, ConnsInv
<1>3. GoneSame
  BY <1>2 DEF GoneSame
<1>4. TypeOK
  BY DEF BrokerInv
<1>5. ASSUME NEW id \in Ids
      PROVE  /\ SessionOf(id) # NoConn /\ sockfd[id] \notin Open' =>
                  SessionOf(id)' = NoConn /\ SessionOf(id) \in Conns /\ link[SessionOf(id)] = "hup"
             /\ ~(SessionOf(id) # NoConn /\ sockfd[id] \notin Open') => SessionOf(id)' = SessionOf(id)
  <2>1. CASE SessionOf(id) # NoConn /\ sockfd[id] \notin Open'
    <3>1. SessionOf(id)' = NoConn
      BY <1>1, <2>1 DEF SessionOf
    <3>2. sockfd[id] \in Open \ Open' /\ SessionOf(id) = tcp_sockets[sockfd[id]] /\ SessionOf(id) \in Conns
      BY <1>4, <2>1, SessionIs
    <3>3. QED
      BY <1>2, <2>1, <3>1, <3>2
  <2>2. CASE sockfd[id] \in Open'
    <3>1. sockfd[id] \in Open /\ tcp_sockets'[sockfd[id]] = tcp_sockets[sockfd[id]]
      BY <1>1, <2>2
    <3>2. QED
      BY <1>1, <2>2, <3>1 DEF SessionOf, Authenticated
  <2>3. CASE SessionOf(id) = NoConn /\ sockfd[id] \notin Open'
    BY <1>1, <2>3 DEF SessionOf
  <2>4. QED
    BY <2>1, <2>2, <2>3
<1> DEFINE S == {id \in Ids : SessionOf(id) # NoConn /\ sockfd[id] \notin Open'}
<1>6. PICK T : T = S
  OBVIOUS
<1>7. [id \in Ids |-> SessionOf(id)'] = [id \in Ids |-> IF id \in T THEN NoConn ELSE SessionOf(id)]
  BY <1>5, <1>6
<1>8. \A id \in T : id \in Ids /\ SessionOf(id) \in {c \in Conns : link[c] \in {"hup", "shut"}}
  BY <1>5, <1>6
<1>9. {c \in Conns : link'[c] \in {"hup", "shut"}} = {c \in Conns : link[c] \in {"hup", "shut"}}
  BY <1>3 DEF GoneSame
<1>10. \A id \in Ids : [i \in Ids |-> SessionOf(i)][id] = SessionOf(id)
  OBVIOUS
<1>11. Broker!EndSessions(T)
  <2>1. [id \in Ids |-> SessionOf(id)'] =
          [id \in Ids |-> IF id \in T THEN NoConn ELSE [i \in Ids |-> SessionOf(i)][id]]
    BY <1>7, <1>10
  <2>2. {id \in Ids : state'[id] = "CONNECTED"} = {id \in Ids : state[id] = "CONNECTED"}
    BY <1>1
  <2>3. \A id \in T : [i \in Ids |-> SessionOf(i)][id] \in {c \in Conns : link[c] \in {"hup", "shut"}}
    BY <1>8, <1>10
  <2>4. Running = Running'
    BY <1>1
  <2>5. QED
    BY <1>1, <1>9, <2>1, <2>2, <2>3, <2>4 DEF Broker!EndSessions
<1>12. QED
  BY <1>6, <1>11

\* The command exit stops the broker; other lines are nothing to it.
LEMMA BrokerStdin ==
  ASSUME BrokerInv, HandleStdin
  PROVE  Broker!Stop \/ UNCHANGED Broker!vars
<1>1. Running /\ UNCHANGED <<udp, topic_map, state, sockfd, subs_queue, down>>
  BY DEF HandleStdin, Next_fd, tableVars
<1>2. CASE UNCHANGED <<link, tcp_sockets>> /\ pc' = "top"
  <2>1. SessionsSame
    BY <1>1, <1>2, SessionsKeptDown DEF BrokerInv
  <2>2. Running' /\ GoneSame
    BY <1>2 DEF Running, GoneSame
  <2>3. QED
    BY <1>1, <2>1, <2>2, BrokerSame
<1>3. CASE CloseAll /\ pc' = "exited"
  <2>1. PICK T : T = {c \in Conns : \E fd \in Fds : tcp_sockets[fd] = c}
    OBVIOUS
  <2>2. \A c \in Conns : link'[c] = IF c \in T THEN "shut" ELSE link[c]
    BY <1>3, <2>1 DEF CloseAll, Close
  <2>3. {c \in Conns : link'[c] \in {"hup", "shut"}} = {c \in Conns : link[c] \in {"hup", "shut"}} \cup T
    BY <2>1, <2>2
  <2>4. Open' = {}
    BY <1>3 DEF CloseAll, Close, Open
  <2>5. \A id \in Ids : SessionOf(id)' = NoConn
    BY <2>4 DEF SessionOf
  <2>6. [id \in Ids |-> SessionOf(id)'] = [id \in Ids |-> NoConn]
    BY <2>5
  <2>7. {id \in Ids : state'[id] = "CONNECTED"} = {id \in Ids : state[id] = "CONNECTED"}
    BY <1>1
  <2>8. T \in SUBSET Conns /\ Running' = FALSE
    BY <1>3, <2>1 DEF Running
  <2>9. Broker!Stop
    BY <1>1, <2>3, <2>6, <2>7, <2>8 DEF Broker!Stop
  <2>10. QED
    BY <2>9
<1>4. QED
  BY <1>2, <1>3 DEF HandleStdin

\* The subscribers of a topic that are online, in both modules.
LEMMA OnlineIs ==
  ASSUME TypeOK, NEW t \in Topics
  PROVE  /\ Broker!Subscribers(t) \cap {id \in Ids : state[id] = "CONNECTED"} = Online(t)
         /\ \A id \in Ids : id \in Stored(t) <=>
              id \notin {i \in Ids : state[i] = "CONNECTED"} /\ topic_map[t][id] = 1
<1>1. \A id \in Ids : state[id] \in {"CONNECTED", "DISCONNECTED"} /\ topic_map[t][id] \in {NotSub, 0, 1}
  BY DEF TypeOK, TableTypeOK
<1>2. NotSub # 1 /\ NotSub # 0
  BY DEF NotSub
<1>3. QED
  BY <1>1, <1>2 DEF Broker!Subscribers, Online, Stored, Subscribed

\* A datagram changes no session.
LEMMA UdpKeeps ==
  ASSUME BrokerInv, TypeOK', missed = {}, HandleUdp \/ HandleUdpDies
  PROVE  /\ SessionsSame /\ GoneSame /\ Running /\ udp # <<>> /\ udp' = Tail(udp) /\ Next_fd(Udp)
         /\ Head(udp) \in News /\ Head(udp).topic \in Topics
         /\ UNCHANGED <<topic_map, state, sockfd, tcp_sockets, link>>
<1>1. /\ Running /\ udp # <<>> /\ udp' = Tail(udp) /\ Next_fd(Udp)
      /\ UNCHANGED <<topic_map, state, sockfd, tcp_sockets, link>>
  BY DEF HandleUdp, HandleUdpDies, Next_fd, tableVars
<1>2. Head(udp) \in News
  BY <1>1, HeadOfUdp DEF BrokerInv
<1>3. PICK S \in SUBSET Online(Head(udp).topic) : Forward(Head(udp), S)
  BY DEF HandleUdp, HandleUdpDies
<1>4. S \in SUBSET Ids
  BY DEF Online, Subscribed
<1>5. \A c \in Conns : Authenticated(c)' <=> Authenticated(c)
  BY <1>2, <1>3, <1>4, ForwardEffect, OnlyNewsKeeps DEF BrokerInv
<1>6. SessionsSame
  BY <1>1, <1>5, SessionsKept DEF BrokerInv
<1>7. GoneSame
  BY <1>1 DEF GoneSame
<1>8. Head(udp).topic \in Topics
  BY <1>2 DEF News
<1>9. QED
  BY <1>1, <1>2, <1>6, <1>7, <1>8

\* A datagram is published: to the sessions of those online, and kept for those that asked for it.
LEMMA BrokerUdp ==
  ASSUME BrokerInv, TypeOK', missed = {}, HandleUdp
  PROVE  Broker!Publish(Head(udp))
<1> DEFINE t == Head(udp).topic
           On == {id \in Ids : state[id] = "CONNECTED"}
<1>1. /\ SessionsSame /\ GoneSame /\ Running /\ udp # <<>> /\ udp' = Tail(udp) /\ Next_fd(Udp)
      /\ Head(udp) \in News /\ t \in Topics /\ UNCHANGED <<topic_map, state, sockfd, tcp_sockets, link>>
  BY UdpKeeps
<1>2. /\ Broker!Subscribers(t) \cap On = Online(t)
      /\ \A id \in Ids : id \in Stored(t) <=> id \notin On /\ topic_map[t][id] = 1
  BY <1>1, OnlineIs DEF BrokerInv
<1>3. \A id \in Online(t) : [i \in Ids |-> SessionOf(i)][id] # NoConn
  <2> SUFFICES ASSUME NEW id \in Online(t)
               PROVE  SessionOf(id) # NoConn /\ id \in Ids
    OBVIOUS
  <2>1. id \in Ids /\ state[id] = "CONNECTED"
    BY DEF Online, Subscribed, BrokerInv, TypeOK, TableTypeOK
  <2>2. sockfd[id] \in Open
    BY DEF HandleUdp, SendFails
  <2>3. SessionOf(id) = tcp_sockets[sockfd[id]]
    BY <1>1, <2>1, <2>2, UdpSessions DEF BrokerInv
  <2>4. QED
    BY <2>1, <2>2, <2>3 DEF Open
<1>4. Broker!Deliver(Head(udp), Online(t))
  <2>1. Forward(Head(udp), Online(t)) /\ Online(t) \in SUBSET Online(t)
    BY DEF HandleUdp
  <2>2. QED
    BY <1>1, <2>1, ForwardDelivers DEF BrokerInv
<1>5. subs_queue' = [id \in Ids |->
        IF id \notin On /\ topic_map[t][id] = 1 THEN Append(subs_queue[id], Head(udp))
                                                ELSE subs_queue[id]]
  BY <1>2 DEF HandleUdp, Store
<1>6. {id \in Ids : state'[id] = "CONNECTED"} = On
  BY <1>1
<1>7. [id \in Ids |-> SessionOf(id)'] = [id \in Ids |-> SessionOf(id)]
  BY <1>1 DEF SessionsSame
<1>8. {c \in Conns : link'[c] \in {"hup", "shut"}} = {c \in Conns : link[c] \in {"hup", "shut"}}
  BY <1>1 DEF GoneSame
<1>9. Running = Running'
  BY <1>1 DEF HandleUdp, Running
<1>10. Broker!Take(Head(udp))
  BY <1>1 DEF Broker!Take
<1>11. QED
  BY <1>1, <1>2, <1>3, <1>4, <1>5, <1>6, <1>7, <1>8, <1>9, <1>10 DEF Broker!Publish

\* The server dies of a datagram only when one of those online has left.
LEMMA BrokerUdpDies ==
  ASSUME BrokerInv, TypeOK', missed = {}, HandleUdpDies
  PROVE  Broker!PublishDies(Head(udp))
<1> DEFINE t == Head(udp).topic
           On == {id \in Ids : state[id] = "CONNECTED"}
           Gone == {c \in Conns : link[c] \in {"hup", "shut"}}
<1>1. /\ SessionsSame /\ GoneSame /\ Running /\ udp # <<>> /\ udp' = Tail(udp) /\ Next_fd(Udp)
      /\ Head(udp) \in News /\ t \in Topics /\ UNCHANGED <<topic_map, state, sockfd, tcp_sockets, link>>
  BY UdpKeeps
<1>2. Broker!Subscribers(t) \cap On = Online(t)
  BY <1>1, OnlineIs DEF BrokerInv
<1>3. PICK id \in Online(t) :
        /\ SendMayFail(id)
        /\ \E S \in SUBSET {i \in Online(t) \ {id} : ~SendFails(i)} : Forward(Head(udp), S)
  BY DEF HandleUdpDies
<1>4. PICK S \in SUBSET Online(t) : Forward(Head(udp), S)
  BY <1>3
<1>5. Broker!Deliver(Head(udp), S)
  BY <1>1, <1>4, ForwardDelivers DEF BrokerInv
<1>6. id \in Ids /\ state[id] = "CONNECTED"
  BY DEF Online, Subscribed, BrokerInv, TypeOK, TableTypeOK
<1>7. SessionOf(id) \in Gone \cup {NoConn}
  <2>1. CASE sockfd[id] \notin Open
    BY <2>1 DEF SessionOf
  <2>2. CASE sockfd[id] \in Open
    <3>1. link[tcp_sockets[sockfd[id]]] = "hup"
      BY <1>3, <2>2 DEF SendMayFail, MayFail
    <3>2. tcp_sockets[sockfd[id]] \in Gone
      BY <2>2, <3>1, OpenConn DEF BrokerInv
    <3>3. SessionOf(id) = tcp_sockets[sockfd[id]] \/ SessionOf(id) = NoConn
      BY DEF SessionOf
    <3>4. QED
      BY <3>2, <3>3
  <2>3. QED
    BY <2>1, <2>2
<1>8. \E i \in Online(t) : [j \in Ids |-> SessionOf(j)][i] \in Gone \cup {NoConn}
  BY <1>6, <1>7
<1>9. {i \in Ids : state'[i] = "CONNECTED"} = On
  BY <1>1
<1>10. [i \in Ids |-> SessionOf(i)'] = [i \in Ids |-> SessionOf(i)]
  BY <1>1 DEF SessionsSame
<1>11. {c \in Conns : link'[c] \in {"hup", "shut"}} = Gone
  BY <1>1 DEF GoneSame
<1>12. Running' = FALSE /\ subs_queue' = subs_queue
  BY DEF HandleUdpDies, Running, tableVars
<1>13. Broker!Take(Head(udp))
  BY <1>1 DEF Broker!Take
<1>14. QED
  BY <1>1, <1>2, <1>4, <1>5, <1>8, <1>9, <1>10, <1>11, <1>12, <1>13 DEF Broker!PublishDies

\* A new connection was sent nothing, so that it is nobody's session yet.
LEMMA BrokerConnect ==
  ASSUME BrokerInv, NEW fd, HandleConnect(fd)
  PROVE  UNCHANGED Broker!vars
<1>1. /\ UNCHANGED <<link, udp, topic_map, state, sockfd, subs_queue, down>> /\ Running /\ Running'
      /\ TypeOK /\ Accept
  BY DEF HandleConnect, Next_fd, Running, tableVars, BrokerInv
<1>2. PICK g \in Fds :
        /\ g \notin Open /\ Open' = Open \cup {g} /\ backlog[1] \in Conns /\ tcp_sockets'[g] = backlog[1]
        /\ \A h \in Fds : h # g => tcp_sockets'[h] = tcp_sockets[h]
        /\ Len(backlog) \in Nat /\ Len(backlog) >= 1
  BY <1>1, AcceptEffect
<1>3. 1 \in 1..Len(backlog)
  BY <1>2
<1>4. down[backlog[1]] = <<>>
  BY <1>3 DEF BrokerInv, ConnsInv, BacklogOK
<1>5. SessionsSame
  <2> SUFFICES ASSUME NEW id \in Ids
               PROVE  SessionOf(id)' = SessionOf(id)
    BY DEF SessionsSame
  <2>1. CASE sockfd[id] = g
    BY <1>1, <1>2, <1>4, <2>1 DEF SessionOf, Authenticated
  <2>2. CASE sockfd[id] # g
    BY <1>1, <1>2, <2>2 DEF SessionOf, Authenticated, Open
  <2>3. QED
    BY <2>1, <2>2
<1>6. GoneSame
  BY <1>1 DEF GoneSame
<1>7. QED
  BY <1>1, <1>5, <1>6, BrokerSame

\* The SOCK_CLOSE entry of a session is its logout; that of a connection without an id, nothing.
LEMMA BrokerClose ==
  ASSUME BrokerInv, missed = {}, NEW fd \in Fds, HandleClose(fd)
  PROVE  (\E id \in Ids : Broker!Logout(id)) \/ UNCHANGED Broker!vars
<1>1. /\ UNCHANGED <<link, udp, topic_map, sockfd, tcp_sockets, subs_queue, down>>
      /\ Running /\ Running' /\ sock_queue[fd] = "SOCK_CLOSE" /\ TypeOK
      /\ state' = [state EXCEPT ![IF ids_map[fd] = NoId THEN EmptyId ELSE ids_map[fd]] = "DISCONNECTED"]
  BY DEF HandleClose, Next_fd, Running, kernelVars, BrokerInv
<1>2. GoneSame
  BY <1>1 DEF GoneSame
<1>3. /\ ids_map \in [Fds -> (Ids \ {EmptyId}) \cup {NoId}] /\ state \in [Ids -> {"CONNECTED", "DISCONNECTED"}]
      /\ EmptyId \in Ids /\ NoId \notin Ids
  BY <1>1, IdsAssumption DEF TypeOK, TableTypeOK
<1>4. CASE ids_map[fd] = NoId
  <2>1. state[EmptyId] # "CONNECTED"
    BY <1>1, <1>3 DEF BrokerInv, SessionInv, ConnectedBound
  <2>2. state' = state
    BY <1>1, <1>3, <1>4, <2>1
  <2>3. SessionsSame
    BY <1>1, <2>2, SessionsKeptDown
  <2>4. QED
    BY <1>1, <1>2, <2>2, <2>3, BrokerSame
<1>5. ASSUME NEW id, id = ids_map[fd], id # NoId
      PROVE  id \in Ids /\ Broker!Logout(id)
  <2>1. id \in Ids /\ state[id] = "CONNECTED" /\ sockfd[id] = fd
    BY <1>3, <1>5 DEF BrokerInv, SessionBound
  <2>2. SessionOf(id) = NoConn
    BY <1>1, <2>1 DEF SessionOf, BrokerInv, WholeInv, ReusedInBatch
  <2>3. state' = [state EXCEPT ![id] = "DISCONNECTED"]
    BY <1>1, <1>5
  <2>4. \A i \in Ids : SessionOf(i)' = SessionOf(i)
    <3>1. SessionOf(id)' = NoConn
      BY <1>3, <2>1, <2>3 DEF SessionOf
    <3>2. Open' = Open
      BY <1>1 DEF Open
    <3>3. ASSUME NEW i \in Ids, i # id
          PROVE  SessionOf(i)' = SessionOf(i)
      BY <1>1, <1>3, <2>3, <3>2, <3>3 DEF SessionOf, Authenticated
    <3>4. QED
      BY <2>2, <3>1, <3>3
  <2>5. [i \in Ids |-> SessionOf(i)'] = [i \in Ids |-> SessionOf(i)]
    BY <2>4
  <2>6. {i \in Ids : state'[i] = "CONNECTED"} = {i \in Ids : state[i] = "CONNECTED"} \ {id}
    BY <1>3, <2>1, <2>3
  <2>7. {c \in Conns : link'[c] \in {"hup", "shut"}} = {c \in Conns : link[c] \in {"hup", "shut"}}
    BY <1>2 DEF GoneSame
  <2>8. id \in {i \in Ids : state[i] = "CONNECTED"} /\ [i \in Ids |-> SessionOf(i)][id] = NoConn
    BY <2>1, <2>2
  <2>9. QED
    BY <1>1, <2>1, <2>5, <2>6, <2>7, <2>8 DEF Broker!Logout
<1>6. QED
  BY <1>4, <1>5

\* An authentication that is not refused is a login.
LEMMA BrokerAuth ==
  ASSUME BrokerInv, TypeOK', missed = {}, NEW fd, Auth(fd)
  PROVE  \E c \in Conns : Broker!Login(c)
<1>1. PICK c \in Conns : AcceptedOn(fd, c)
  BY AuthEffect DEF BrokerInv
<1> DEFINE id == IdOf[c]
<1>2. /\ UNCHANGED <<link, udp, topic_map, subs_queue>> /\ Running /\ Running' /\ TypeOK
  BY DEF Auth, Receive, HandleTcp, Next_fd, Running, BrokerInv
<1>3. down[c] = <<>> /\ id \in Ids
  BY <1>1, FirstSent DEF BrokerInv
<1>4. Authenticated(c)'
  BY <1>1, AcceptedIsAuthenticated DEF BrokerInv
<1>5. /\ fd \in Open /\ fd \in Fds /\ tcp_sockets[fd] = c /\ Open' = Open /\ tcp_sockets' = tcp_sockets
      /\ state[id] # "CONNECTED" /\ state' = [state EXCEPT ![id] = "CONNECTED"]
      /\ sockfd' = [sockfd EXCEPT ![id] = fd]
      /\ \A d \in Conns : d # c => down'[d] = down[d]
      /\ down'[c] = down[c] \o AuthReply(id) /\ AuthReply(id) \in Seq(Replies \cup News)
  BY <1>1 DEF AcceptedOn
<1>6. state \in [Ids -> {"CONNECTED", "DISCONNECTED"}] /\ sockfd \in [Ids -> Fds \cup {NoFd}]
  BY <1>2 DEF TypeOK, TableTypeOK
<1>7. SessionOf(id)' = c
  BY <1>3, <1>4, <1>5, <1>6 DEF SessionOf
<1>8. ASSUME NEW i \in Ids, i # id
      PROVE  SessionOf(i)' = SessionOf(i)
  <2>1. state'[i] = state[i] /\ sockfd'[i] = sockfd[i]
    BY <1>5, <1>6, <1>8
  <2>2. CASE sockfd[i] \in Open /\ tcp_sockets[sockfd[i]] = c
    BY <1>5, <1>8, <2>1, <2>2 DEF SessionOf
  <2>3. CASE sockfd[i] \in Open /\ tcp_sockets[sockfd[i]] # c
    <3>1. tcp_sockets[sockfd[i]] \in Conns
      BY <1>2, <2>3, OpenConn
    <3>2. Authenticated(tcp_sockets[sockfd[i]])' <=> Authenticated(tcp_sockets[sockfd[i]])
      BY <1>5, <2>1, <2>3, <3>1 DEF Authenticated
    <3>3. QED
      BY <1>5, <2>1, <3>2 DEF SessionOf
  <2>4. CASE sockfd[i] \notin Open
    BY <1>5, <2>1, <2>4 DEF SessionOf
  <2>5. QED
    BY <2>2, <2>3, <2>4
<1>9. [i \in Ids |-> SessionOf(i)'] = [[i \in Ids |-> SessionOf(i)] EXCEPT ![id] = c]
  BY <1>3, <1>7, <1>8
<1>10. {i \in Ids : state'[i] = "CONNECTED"} = {i \in Ids : state[i] = "CONNECTED"} \cup {id}
  BY <1>3, <1>5, <1>6
<1>11. down' = [down EXCEPT ![c] = <<[type |-> "AUTH"]>> \o subs_queue[id]]
  <2>1. down'[c] = AuthReply(id)
    BY <1>3, <1>5, ConcatEmptySeq
  <2>2. down \in [Conns -> Seq(Replies \cup News)] /\ down' \in [Conns -> Seq(Replies \cup News)]
    BY <1>2 DEF TypeOK, OtherTypeOK
  <2>3. QED
    BY <1>5, <2>1, <2>2 DEF AuthReply
<1>12. {d \in Conns : link'[d] \in {"hup", "shut"}} = {d \in Conns : link[d] \in {"hup", "shut"}}
  BY <1>2
<1>13. id \notin {i \in Ids : state[i] = "CONNECTED"}
  BY <1>5
<1>14. Broker!Login(c)
  BY <1>2, <1>3, <1>9, <1>10, <1>11, <1>12, <1>13 DEF Broker!Login
<1>15. QED
  BY <1>14

\* The authentication packet that is handled is the first one of its connection, and carries its id.
LEMMA AuthPacketIs ==
  ASSUME BrokerInv, missed = {}, NEW fd, Receive(fd, "AUTH")
  PROVE  /\ fd \in Open /\ tcp_sockets[fd] \in Conns
         /\ Head(packet_queue[fd]).id = IdOf[tcp_sockets[fd]]
         /\ down[tcp_sockets[fd]] = <<>>
<1>1. /\ fd \in Fds /\ tcp_sockets[fd] \in Conns /\ packet_queue[fd] # <<>>
      /\ Head(packet_queue[fd]).type = "AUTH"
  BY ReceiveType DEF BrokerInv
<1>2. fd \in Open
  BY <1>1, ConnsAssumption DEF Open
<1>3. PICK s \in Seq(Packets) : s = packet_queue[fd]
  BY <1>1 DEF BrokerInv, TypeOK, SocketTypeOK
<1>4. 1 \in 1..Len(s) /\ Head(s) = s[1]
  BY <1>1, <1>3
<1>5. s[1].id = IdOf[tcp_sockets[fd]] /\ NoReply(tcp_sockets[fd])
  BY <1>1, <1>2, <1>3, <1>4 DEF BrokerInv, StreamInv, BufferStreams, StreamOK
<1>6. ReplyFirst(tcp_sockets[fd])
  BY <1>1 DEF BrokerInv, RepliesFirst
<1>7. down[tcp_sockets[fd]] = <<>>
  BY <1>1, <1>5, <1>6, NothingSent DEF BrokerInv
<1>8. QED
  BY <1>1, <1>2, <1>3, <1>4, <1>5, <1>7

\* One that is refused, of an id that is online.
LEMMA BrokerDuplicate ==
  ASSUME BrokerInv, missed = {}, NEW fd, AuthDuplicate(fd)
  PROVE  \E c \in Conns : Broker!Refuse(c)
<1>1. Receive(fd, "AUTH") /\ TypeOK /\ OneFd
  BY DEF AuthDuplicate, BrokerInv, ConnsInv
<1>2. PICK c \in Conns : c = tcp_sockets[fd]
  BY <1>1, AuthPacketIs
<1>3. fd \in Open /\ Head(packet_queue[fd]).id = IdOf[c] /\ down[c] = <<>>
  BY <1>1, <1>2, AuthPacketIs
<1>4. /\ UNCHANGED <<udp, topic_map, state, sockfd, subs_queue>> /\ Running /\ Running'
      /\ InUse(IdOf[c]) /\ Reply(fd, <<[type |-> "AUTH_DUPLICATE"]>>) /\ Close({fd})
  BY <1>3 DEF AuthDuplicate, Receive, HandleTcp, Next_fd, Running, tableVars, CloseFd
<1>5. fd \in Fds /\ Open' = Open \ {fd}
      /\ \A g \in Open' : g \in Fds /\ tcp_sockets'[g] = tcp_sockets[g] /\ tcp_sockets[g] # c
  BY <1>1, <1>2, DuplicateEffect DEF BrokerInv
<1>6. down' = [down EXCEPT ![c] = <<[type |-> "AUTH_DUPLICATE"]>>]
  <2>1. down' = [down EXCEPT ![c] = @ \o <<[type |-> "AUTH_DUPLICATE"]>>]
    BY <1>2, <1>4 DEF Reply
  <2>2. <<>> \o <<[type |-> "AUTH_DUPLICATE"]>> = <<[type |-> "AUTH_DUPLICATE"]>>
    BY ConcatEmptySeq, DuplicateType
  <2>3. QED
    BY <1>3, <2>1, <2>2
<1>7. ASSUME NEW i \in Ids
      PROVE  SessionOf(i)' = SessionOf(i)
  <2>1. CASE sockfd[i] = fd
    BY <1>2, <1>3, <1>4, <1>5, <2>1 DEF SessionOf, Authenticated
  <2>2. CASE sockfd[i] # fd /\ sockfd[i] \in Open
    <3>1. sockfd[i] \in Open' /\ tcp_sockets'[sockfd[i]] = tcp_sockets[sockfd[i]] /\ tcp_sockets[sockfd[i]] # c
      BY <1>5, <2>2
    <3>2. tcp_sockets[sockfd[i]] \in Conns
      BY <1>1, <2>2, OpenConn
    <3>3. down'[tcp_sockets[sockfd[i]]] = down[tcp_sockets[sockfd[i]]]
      BY <1>6, <3>1, <3>2 DEF BrokerInv, TypeOK, OtherTypeOK
    <3>4. QED
      BY <1>4, <2>2, <3>1, <3>3 DEF SessionOf, Authenticated
  <2>3. CASE sockfd[i] \notin Open
    BY <1>4, <1>5, <2>3 DEF SessionOf
  <2>4. QED
    BY <2>1, <2>2, <2>3
<1>8. [i \in Ids |-> SessionOf(i)'] = [i \in Ids |-> SessionOf(i)]
  BY <1>7
<1>9. {i \in Ids : state'[i] = "CONNECTED"} = {i \in Ids : state[i] = "CONNECTED"}
  BY <1>4
<1>10. \A d \in Conns : link'[d] = IF d = c THEN "shut" ELSE link[d]
  BY <1>2, <1>4 DEF Close
<1>11. {d \in Conns : link'[d] \in {"hup", "shut"}} = {d \in Conns : link[d] \in {"hup", "shut"}} \cup {c}
  BY <1>10
<1>12. IdOf[c] \in {i \in Ids : state[i] = "CONNECTED"}
  BY <1>4, IdsAssumption DEF InUse
<1>13. Broker!Refuse(c)
  BY <1>3, <1>4, <1>6, <1>8, <1>9, <1>11, <1>12 DEF Broker!Refuse
<1>14. QED
  BY <1>13

\* The server dies of a reply only when its subscriber has left.
LEMMA BrokerAuthDies ==
  ASSUME BrokerInv, missed = {}, NEW fd, AuthDies(fd)
  PROVE  \E c \in Conns : Broker!ReplyDies(c)
<1>1. /\ Receive(fd, "AUTH") /\ TypeOK /\ MayFail(tcp_sockets[fd])
      /\ UNCHANGED <<link, udp, topic_map, state, sockfd, tcp_sockets, subs_queue, down>>
      /\ Running /\ ~Running'
  BY DEF AuthDies, BrokerInv, Receive, HandleTcp, Next_fd, Running, tableVars
<1>2. PICK c \in Conns : c = tcp_sockets[fd]
  BY <1>1, AuthPacketIs
<1>3. down[c] = <<>> /\ c \in {d \in Conns : link[d] \in {"hup", "shut"}}
  BY <1>1, <1>2, AuthPacketIs DEF MayFail
<1>4. SessionsSame
  BY <1>1, SessionsKeptDown
<1>5. [i \in Ids |-> SessionOf(i)'] = [i \in Ids |-> SessionOf(i)]
  BY <1>4 DEF SessionsSame
<1>6. {i \in Ids : state'[i] = "CONNECTED"} = {i \in Ids : state[i] = "CONNECTED"}
  BY <1>1
<1>7. {d \in Conns : link'[d] \in {"hup", "shut"}} = {d \in Conns : link[d] \in {"hup", "shut"}}
  BY <1>1
<1>8. Running' = FALSE
  BY <1>1 DEF Running
<1>9. Broker!ReplyDies(c)
  BY <1>1, <1>3, <1>5, <1>6, <1>7, <1>8 DEF Broker!ReplyDies
<1>10. QED
  BY <1>9

\* A command changes the subscription of an id that has a session.
LEMMA BrokerSubscribe ==
  ASSUME BrokerInv, NEW fd, NEW type \in {"SUB", "SUB_SF", "UNSUB"}, Subscribe(fd, type)
  PROVE  \/ \E id \in Ids : \E t \in Topics, sf \in {NotSub, 0, 1} : Broker!Subscribe(id, t, sf)
         \/ UNCHANGED Broker!vars
<1>1. /\ Receive(fd, type) /\ TypeOK
      /\ UNCHANGED <<link, udp, state, sockfd, tcp_sockets, subs_queue, down>>
      /\ Running /\ Running'
  BY DEF Subscribe, BrokerInv, Receive, HandleTcp, Next_fd, Running
<1>2. SessionsSame /\ GoneSame
  BY <1>1, SessionsKeptDown DEF GoneSame
<1>3. /\ fd \in Fds /\ tcp_sockets[fd] \in Conns /\ packet_queue[fd] # <<>>
      /\ Head(packet_queue[fd]) \in Packets /\ Head(packet_queue[fd]).type = type
  BY <1>1, ReceiveType
<1>4. CASE ids_map[fd] = NoId
  <2>1. topic_map' = topic_map
    BY <1>4 DEF Subscribe
  <2>2. QED
    BY <1>1, <1>2, <2>1, BrokerSame
<1>5. ASSUME NEW id, id = ids_map[fd], id # NoId
      PROVE  \E i \in Ids : \E t \in Topics, sf \in {NotSub, 0, 1} : Broker!Subscribe(i, t, sf)
  <2>1. fd \in Open
    BY <1>3, ConnsAssumption DEF Open
  <2>2. PICK s \in Seq(Packets) : s = packet_queue[fd]
    BY <1>1, <1>3 DEF TypeOK, SocketTypeOK
  <2>3. 1 \in 1..Len(s) /\ Head(s) = s[1]
    BY <1>3, <2>2
  <2>4. Authenticated(tcp_sockets[fd])
    BY <1>3, <2>1, <2>2, <2>3 DEF BrokerInv, StreamInv, BufferStreams, StreamOK
  <2>5. id = IdOf[tcp_sockets[fd]] /\ id \in Ids
    <3>1. ids_map[fd] = IdOf[tcp_sockets[fd]]
      BY <2>1, <2>4 DEF BrokerInv, WholeInv, Bound
    <3>2. QED
      BY <1>3, <1>5, <3>1, IdsAssumption
  <2>6. state[id] = "CONNECTED" /\ sockfd[id] = fd
    BY <1>3, <1>5 DEF BrokerInv, SessionBound
  <2>7. SessionOf(id) = tcp_sockets[fd]
    BY <2>1, <2>4, <2>5, <2>6 DEF SessionOf
  <2>8. [i \in Ids |-> SessionOf(i)][id] # NoConn
    BY <1>3, <2>5, <2>7, ConnsAssumption
  <2>9. Head(packet_queue[fd]).topic \in Topics /\ Subscription(type) \in {NotSub, 0, 1}
    BY <1>3 DEF Packets, AuthPackets, CommandPackets, Subscription
  <2>10. topic_map' = [topic_map EXCEPT ![Head(packet_queue[fd]).topic][id] = Subscription(type)]
    BY <1>5 DEF Subscribe
  <2>11. [i \in Ids |-> SessionOf(i)'] = [i \in Ids |-> SessionOf(i)]
    BY <1>2 DEF SessionsSame
  <2>12. {i \in Ids : state'[i] = "CONNECTED"} = {i \in Ids : state[i] = "CONNECTED"}
    BY <1>1
  <2>13. {d \in Conns : link'[d] \in {"hup", "shut"}} = {d \in Conns : link[d] \in {"hup", "shut"}}
    BY <1>1
  <2>14. Broker!Subscribe(id, Head(packet_queue[fd]).topic, Subscription(type))
    BY <1>1, <2>8, <2>10, <2>11, <2>12, <2>13 DEF Broker!Subscribe
  <2>15. QED
    BY <2>5, <2>9, <2>14
<1>6. QED
  BY <1>4, <1>5

\* Of what the environment does the broker sees datagrams and subscribers that leave.
LEMMA BrokerEnvironment ==
  ASSUME BrokerInv, Environment
  PROVE  Broker!Next \/ UNCHANGED Broker!vars
<1>1. /\ UNCHANGED <<topic_map, state, sockfd, tcp_sockets, subs_queue, down>> /\ Running /\ Running'
      /\ TypeOK
  BY DEF Environment, Connect, SendAuth, Command, Send, Leave, Reset, Datagram, TypeLine, BrokerInv, Running,
         socketVars, tableVars
<1>2. SessionsSame
  BY <1>1, SessionsKeptDown
<1>3. /\ [i \in Ids |-> SessionOf(i)'] = [i \in Ids |-> SessionOf(i)]
      /\ {i \in Ids : state'[i] = "CONNECTED"} = {i \in Ids : state[i] = "CONNECTED"}
  BY <1>1, <1>2 DEF SessionsSame
<1>4. ASSUME NEW c \in Conns, Leave(c)
      PROVE  Broker!Leave(c)
  <2>1. link' = [link EXCEPT ![c] = "hup"] /\ udp' = udp
    BY <1>4 DEF Leave
  <2>2. {d \in Conns : link'[d] \in {"hup", "shut"}} = {d \in Conns : link[d] \in {"hup", "shut"}} \cup {c}
    BY <1>1, <2>1 DEF TypeOK, KernelTypeOK
  <2>3. QED
    BY <1>1, <1>3, <2>1, <2>2 DEF Broker!Leave
<1>5. ASSUME NEW t \in Topics, Datagram(t)
      PROVE  \E news \in News : Broker!Post(news)
  <2>1. PICK news : news = [type |-> "NEWS", topic |-> t, n |-> published + 1]
    OBVIOUS
  <2>2. published + 1 \in 1..MaxNews
    BY <1>1, <1>5, InputsAssumption DEF Datagram, TypeOK, OtherTypeOK
  <2>3. news \in News
    BY <2>1, <2>2 DEF News
  <2>4. udp' = Append(udp, news) /\ link' = link
    BY <1>5, <2>1 DEF Datagram
  <2>5. Broker!Post(news)
    BY <1>1, <1>3, <2>4 DEF Broker!Post
  <2>6. QED
    BY <2>3, <2>5
<1>6. CASE UNCHANGED udp /\ GoneSame
  BY <1>1, <1>2, <1>6, BrokerSame
<1>7. ASSUME NEW c \in Conns, Connect(c)
      PROVE  UNCHANGED udp /\ GoneSame
  BY <1>1, <1>7 DEF Connect, GoneSame, TypeOK, KernelTypeOK
<1>8. ASSUME NEW c \in Conns,
             SendAuth(c) \/ Reset(c) \/ \E type \in Commands, t \in Topics : Command(c, type, t)
      PROVE  UNCHANGED udp /\ GoneSame
  BY <1>8 DEF SendAuth, Command, Send, Reset, GoneSame
<1>9. ASSUME NEW line \in Lines, TypeLine(line)
      PROVE  UNCHANGED udp /\ GoneSame
  BY <1>9 DEF TypeLine, GoneSame
<1>10. QED
  BY <1>4, <1>5, <1>6, <1>7, <1>8, <1>9 DEF Environment, Broker!Next

\* Every iteration of main() is a step of the broker or none.
LEMMA BrokerLoop ==
  ASSUME ~Fragments, BrokerInv, TypeOK', missed = {}, Loop
  PROVE  Broker!Next \/ UNCHANGED Broker!vars
<1>1. CASE Select
  <2>1. {id \in Ids : SessionOf(id) # NoConn /\ sockfd[id] \notin Open'} \in SUBSET Ids
    OBVIOUS
  <2>2. \E S \in SUBSET Ids : Broker!EndSessions(S)
    BY <1>1, <2>1, BrokerSelect
  <2>3. QED
    BY <2>2 DEF Broker!Next
<1>2. CASE HandleStdin
  BY <1>2, BrokerStdin DEF Broker!Next
<1>3. CASE HandleUdp
  <2>1. Head(udp) \in News
    BY <1>3, UdpKeeps
  <2>2. QED
    BY <1>3, <2>1, BrokerUdp DEF Broker!Next
<1>4. CASE HandleUdpDies
  <2>1. Head(udp) \in News
    BY <1>4, UdpKeeps
  <2>2. QED
    BY <1>4, <2>1, BrokerUdpDies DEF Broker!Next
<1>5. ~NoDescriptor
  BY DEF NoDescriptor, BrokerInv, Selected
<1>6. ASSUME NEW fd \in AllFds, HandleConnect(fd)
      PROVE  UNCHANGED Broker!vars
  BY <1>6, BrokerConnect
<1>7. ASSUME NEW fd \in Fds, HandleClose(fd)
      PROVE  Broker!Next \/ UNCHANGED Broker!vars
  BY <1>7, BrokerClose DEF Broker!Next
<1>8. ASSUME NEW fd \in Fds
      PROVE  ~HandleUdpGarbled(fd)
  BY DEF HandleUdpGarbled, BrokerInv, Typed
<1>9. ASSUME NEW fd \in Fds, TcpNotReady(fd)
      PROVE  UNCHANGED Broker!vars
  <2>1. /\ UNCHANGED <<link, udp, topic_map, state, sockfd, tcp_sockets, subs_queue, down>>
        /\ Running /\ Running' /\ TypeOK
    BY <1>9 DEF TcpNotReady, HandleTcp, Next_fd, Running, kernelVars, tableVars, BrokerInv
  <2>2. SessionsSame /\ GoneSame
    BY <2>1, SessionsKeptDown DEF GoneSame
  <2>3. QED
    BY <2>1, <2>2, BrokerSame
<1>10. ASSUME NEW fd \in Fds, Auth(fd)
       PROVE  Broker!Next
  BY <1>10, BrokerAuth DEF Broker!Next
<1>11. ASSUME NEW fd \in Fds, AuthDuplicate(fd)
       PROVE  Broker!Next
  BY <1>11, BrokerDuplicate DEF Broker!Next
<1>12. ASSUME NEW fd \in Fds, AuthDies(fd)
       PROVE  Broker!Next
  BY <1>12, BrokerAuthDies DEF Broker!Next
<1>13. ASSUME NEW fd \in Fds, NEW type \in {"SUB", "SUB_SF", "UNSUB"}, Subscribe(fd, type)
       PROVE  Broker!Next \/ UNCHANGED Broker!vars
  BY <1>13, BrokerSubscribe DEF Broker!Next
<1>14. QED
  BY <1>1, <1>2, <1>3, <1>4, <1>5, <1>6, <1>7, <1>8, <1>9, <1>10, <1>11, <1>12, <1>13 DEF Loop

\* Every step of the server is a step of the broker, or none, or has lost an entry.
LEMMA BrokerStep ==
  ASSUME ~Fragments, BrokerInv, TypeOK', [Next]_vars
  PROVE  [Broker!Next \/ missed' # {}]_(Broker!vars)
<1> SUFFICES ASSUME missed' = {}
             PROVE  Broker!Next \/ UNCHANGED Broker!vars
  OBVIOUS
<1>1. missed = {}
  BY MissedGrows
<1>2. CASE UNCHANGED vars
  <2>1. SessionsSame
    BY <1>2, SessionsKeptDown DEF vars, tableVars, socketVars, BrokerInv
  <2>2. GoneSame
    BY <1>2 DEF vars, kernelVars, GoneSame
  <2>3. QED
    BY <1>2, <2>1, <2>2, BrokerSame DEF vars, kernelVars, tableVars, Running
<1>3. QED
  BY <1>1, <1>2, BrokerEnvironment, BrokerLoop DEF Next

\* The server starts as the broker does.
LEMMA BrokerInit == Init => Broker!Init
<1> SUFFICES ASSUME Init
             PROVE  Broker!Init
  OBVIOUS
<1>1. \A id \in Ids : state[id] # "CONNECTED"
  BY DEF Init
<1>2. \A id \in Ids : SessionOf(id) = NoConn
  BY <1>1 DEF SessionOf
<1>3. {c \in Conns : link[c] \in {"hup", "shut"}} = {}
  BY DEF Init
<1>4. {id \in Ids : state[id] = "CONNECTED"} = {} /\ [id \in Ids |-> SessionOf(id)] = [id \in Ids |-> NoConn]
  BY <1>1, <1>2
<1>5. Running = TRUE
  BY DEF Init, Running
<1>6. QED
  BY <1>3, <1>4, <1>5 DEF Init, Broker!Init, NoSubscription

\* With whole packets, and as long as no SOCK_CLOSE entry is lost, every step of the server is a
\* step of the broker, or none.
THEOREM ImplementsBrokerCorrect ==
  ASSUME ~Fragments
  PROVE  Spec => ImplementsBroker
<1>1. BrokerInv /\ TypeOK' /\ [Next]_vars => [Broker!Next \/ missed' # {}]_(Broker!vars)
  BY BrokerStep
<1>2. TypeOK /\ NoStrandedPacket /\ ConnsInv /\ StreamInv /\ SessionInv /\ BatchInv /\ WholeInv /\ SessionBound
        /\ RepliesFirst /\ (Typed /\ Selected) /\ OpenAnswered => BrokerInv
  BY DEF BrokerInv
<1>3. QED
  BY <1>1, <1>2, BrokerInit, TypeCorrect, NoStrandedPacketCorrect, SessionsCorrect, BatchCorrect, WholeCorrect,
     SessionBoundCorrect, RepliesCorrect, QueueCorrect, AnsweredCorrect, PTL DEF Spec, ImplementsBroker
=============================================================================
