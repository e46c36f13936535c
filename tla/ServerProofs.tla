---------------------------- MODULE ServerProofs ----------------------------
(***************************************************************************)
(* Proofs about the server, for any number of connections, descriptors,    *)
(* ids and topics, with or without fragmented packets.                     *)
(***************************************************************************)
EXTENDS Server, SequenceTheorems, FiniteSetTheorems, TLAPS

\* The first packets of what the kernel holds are packets, whatever their number.
LEMMA PrefixIsSeq ==
  ASSUME NEW S, NEW s \in Seq(S), NEW k \in 0..Len(s)
  PROVE  /\ SubSeq(s, 1, k) \in Seq(S)
         /\ SubSeq(s, k + 1, Len(s)) \in Seq(S)
<1>1. Len(s) \in Nat /\ \A i \in 1..Len(s) : s[i] \in S
  BY LenProperties, ElementOfSeq
<1>2. \A i \in 1..k : s[i] \in S
  BY <1>1
<1>3. \A i \in (k + 1)..Len(s) : s[i] \in S
  BY <1>1
<1>4. QED
  BY <1>1, <1>2, <1>3, SubSeqProperties

\* Repeating a message gives a sequence of messages.
LEMMA CopiesAreSeq ==
  ASSUME NEW S, NEW e \in S, NEW k \in Nat
  PROVE  [i \in 1..k |-> e] \in Seq(S)
<1>1. [i \in 1..k |-> e] \in [1..k -> S]
  OBVIOUS
<1>2. QED
  BY <1>1, SeqDef

\* The ids that a step adds to missed are ids.
LEMMA MissedType ==
  ASSUME TypeOK, NEW S, MissedBy(S)
  PROVE  missed' \subseteq Ids
  BY DEF TypeOK, TableTypeOK, OtherTypeOK, MissedBy

\* get_next_fd() leaves entries of known types.
LEMMA NextFdType ==
  ASSUME TypeOK, NEW fd, Next_fd(fd)
  PROVE  /\ sock_queue' \in [AllFds -> FdTypes \cup {"none"}]
         /\ missed' \subseteq Ids
         /\ fd \in AllFds /\ sock_queue[fd] # "none" /\ Running
<1>1. sock_queue' = QueueAfter(fd) /\ MissedBy(Skipped(fd)) /\ NextFd(fd) /\ Running
  BY DEF Next_fd
<1>2. missed' \subseteq Ids
  BY <1>1, MissedType
<1>3. sock_queue' \in [AllFds -> FdTypes \cup {"none"}]
  BY <1>1 DEF QueueAfter, TypeOK, SocketTypeOK
<1>4. QED
  BY <1>1, <1>2, <1>3 DEF NextFd, IsLeast, Returnable, Queued

LEMMA TypeInit == Init => TypeOK
<1>0. \A S : <<>> \in Seq(S)
  BY EmptySeq
<1>1. NoSubscription \in [Topics -> [Ids -> {NotSub, 0, 1}]]
  BY DEF NoSubscription
<1>2. Init => KernelTypeOK
  BY <1>0 DEF Init, KernelTypeOK
<1>3. Init => SocketTypeOK
  BY <1>0 DEF Init, SocketTypeOK, EmptyQueue
<1>4. Init => TableTypeOK
  BY <1>0, <1>1 DEF Init, TableTypeOK
<1>5. Init => OtherTypeOK
  BY <1>0, <1>1, BoundAssumption, InputsAssumption DEF Init, OtherTypeOK
<1>6. QED
  BY <1>2, <1>3, <1>4, <1>5 DEF TypeOK

LEMMA TypeEnvironment ==
  ASSUME TypeOK, Environment
  PROVE  TypeOK'
<1> USE DEF TypeOK
<1>1. ASSUME NEW c \in Conns, Connect(c)
      PROVE  TypeOK'
  <2>1. KernelTypeOK'
    BY <1>1 DEF Connect, KernelTypeOK
  <2>2. QED
    BY <1>1, <2>1 DEF Connect, SocketTypeOK, TableTypeOK, OtherTypeOK, socketVars, tableVars,
                      envVars, historyVars
<1>2. ASSUME NEW c \in Conns, NEW packet \in Packets, Send(c, packet), Running,
             wanted' \in [Topics -> [Ids -> {NotSub, 0, 1}]]
      PROVE  TypeOK'
  <2>1. KernelTypeOK'
    BY <1>2 DEF Send, KernelTypeOK
  <2>2. OtherTypeOK'
    BY <1>2, BoundAssumption DEF Send, OtherTypeOK
  <2>3. QED
    BY <1>2, <2>1, <2>2 DEF Send, SocketTypeOK, TableTypeOK, socketVars, tableVars
<1>3. ASSUME NEW c \in Conns, SendAuth(c)
      PROVE  TypeOK'
  <2>1. [type |-> "AUTH", id |-> IdOf[c]] \in Packets
    BY IdsAssumption DEF Packets, AuthPackets
  <2>2. QED
    BY <1>2, <1>3, <2>1 DEF SendAuth, OtherTypeOK
<1>4. ASSUME NEW c \in Conns, NEW type \in Commands, NEW t \in Topics, Command(c, type, t)
      PROVE  TypeOK'
  <2>1. type \in {"SUB", "SUB_SF", "UNSUB"}
    BY InputsAssumption
  <2>2. [type |-> type, topic |-> t] \in Packets
    BY <2>1 DEF Packets, CommandPackets
  <2>3. wanted' \in [Topics -> [Ids -> {NotSub, 0, 1}]]
    <3>1. (CASE type = "SUB" -> 0 [] type = "SUB_SF" -> 1 [] type = "UNSUB" -> NotSub)
             \in {NotSub, 0, 1}
      BY <2>1
    <3>2. QED
      BY <1>4, <3>1 DEF Command, OtherTypeOK
  <2>4. QED
    BY <1>2, <1>4, <2>2, <2>3 DEF Command
<1>5. ASSUME NEW c \in Conns, Leave(c)
      PROVE  TypeOK'
  <2>1. KernelTypeOK'
    BY <1>5 DEF Leave, KernelTypeOK
  <2>2. QED
    BY <1>5, <2>1 DEF Leave, SocketTypeOK, TableTypeOK, OtherTypeOK, socketVars, tableVars,
                      envVars, historyVars
<1>6. ASSUME NEW t \in Topics, Datagram(t)
      PROVE  TypeOK'
  <2>1. published + 1 \in 1..MaxNews
    BY <1>6, InputsAssumption DEF Datagram, OtherTypeOK
  <2>2. [type |-> "NEWS", topic |-> t, n |-> published + 1] \in News
    BY <2>1 DEF News
  <2>3. KernelTypeOK'
    BY <1>6, <2>2 DEF Datagram, KernelTypeOK
  <2>4. OtherTypeOK'
    BY <1>6, <2>1 DEF Datagram, OtherTypeOK, historyVars
  <2>5. QED
    BY <1>6, <2>3, <2>4 DEF Datagram, SocketTypeOK, TableTypeOK, socketVars, tableVars
<1>7. ASSUME NEW line \in Lines, TypeLine(line)
      PROVE  TypeOK'
  <2>1. KernelTypeOK'
    BY <1>7, InputsAssumption DEF TypeLine, KernelTypeOK
  <2>2. QED
    BY <1>7, <2>1 DEF TypeLine, SocketTypeOK, TableTypeOK, OtherTypeOK, socketVars, tableVars,
                      envVars, historyVars
<1>8. ASSUME NEW c \in Conns, Reset(c)
      PROVE  TypeOK'
  <2>1. up[c] \in Seq(Packets) /\ Len(up[c]) \in Nat /\ up[c] # <<>>
    BY <1>8, LenProperties DEF Reset, KernelTypeOK
  <2>2. Len(up[c]) - 1 \in 0..Len(up[c])
    BY <2>1, EmptySeq
  <2>3. SubSeq(up[c], 1, Len(up[c]) - 1) \in Seq(Packets)
    BY <2>1, <2>2, PrefixIsSeq
  <2>4. KernelTypeOK'
    BY <1>8, <2>3 DEF Reset, KernelTypeOK
  <2>5. QED
    BY <1>8, <2>4 DEF Reset, SocketTypeOK, TableTypeOK, OtherTypeOK, socketVars, tableVars,
                      envVars, historyVars
<1>9. QED
  BY <1>1, <1>3, <1>4, <1>5, <1>6, <1>7, <1>8 DEF Environment

-----------------------------------------------------------------------------
(***************************************************************************)
(* select(), accept() and close().                                         *)
(***************************************************************************)

\* Whatever recv() leaves undone, the type pushed for a descriptor is one of recv_holder's.
LEMMA FdTypeType ==
  ASSUME NEW S, NEW fd, NEW n, NEW uninit \in FdTypes
  PROVE  FdType(fd, S, n, uninit) \in FdTypes
<1>1. \A g : Classify(g) \in FdTypes
  BY DEF Classify, FdTypes
<1>2. QED
  BY <1>1 DEF FdType

LEMMA CloseType ==
  ASSUME TypeOK, NEW S, Close(S)
  PROVE  /\ tcp_sockets' \in [Fds -> Conns \cup {NoConn}]
         /\ link' \in [Conns -> {"none", "open", "hup", "shut"}]
  BY DEF TypeOK, KernelTypeOK, SocketTypeOK, Close

LEMMA SelectType ==
  ASSUME TypeOK, Select
  PROVE  TypeOK'
<1>1. PICK R \in SUBSET ReadableFds, P \in SUBSET ReadableSpecials : SelectReturns(R, P)
  BY DEF Select
<1>2. PICK n \in ReadCounts(R), uninit \in IF Fragments THEN FdTypes ELSE {"SOCK_NULL"} :
        /\ sock_queue' = [fd \in AllFds |->
             IF fd \in R \cup P THEN FdType(fd, R \cup P, n, uninit) ELSE "none"]
        /\ up' = [c \in Conns |->
             IF \E fd \in R : tcp_sockets[fd] = c
             THEN LET k == n[CHOOSE fd \in R : tcp_sockets[fd] = c]
                  IN  SubSeq(up[c], k + 1, Len(up[c]))
             ELSE up[c]]
        /\ packet_queue' = [fd \in Fds |->
             IF fd \notin R THEN packet_queue[fd]
             ELSE IF AtEnd(fd) THEN <<>>
             ELSE packet_queue[fd] \o SubSeq(up[tcp_sockets[fd]], 1, n[fd])]
  BY <1>1 DEF SelectReturns
<1>3. \A fd \in R : /\ fd \in Fds /\ tcp_sockets[fd] \in Conns
                    /\ n[fd] \in 0..Len(up[tcp_sockets[fd]])
  <2>1. \A fd \in R : fd \in Fds /\ tcp_sockets[fd] \in Conns
    BY DEF ReadableFds, Open, TypeOK, SocketTypeOK
  <2>2. \A c \in Conns : Len(up[c]) \in Nat
    BY LenProperties DEF TypeOK, KernelTypeOK
  <2>3. \A fd \in R : n[fd] \in 0..MaxSent /\ n[fd] <= Len(up[tcp_sockets[fd]])
    BY <1>2 DEF ReadCounts
  <2>4. QED
    BY <2>1, <2>2, <2>3, BoundAssumption
<1>4. \A c \in Conns, k \in Nat : k <= Len(up[c]) =>
        SubSeq(up[c], 1, k) \in Seq(Packets) /\ SubSeq(up[c], k + 1, Len(up[c])) \in Seq(Packets)
  <2> SUFFICES ASSUME NEW c \in Conns, NEW k \in Nat, k <= Len(up[c])
               PROVE  /\ SubSeq(up[c], 1, k) \in Seq(Packets)
                      /\ SubSeq(up[c], k + 1, Len(up[c])) \in Seq(Packets)
    OBVIOUS
  <2>1. up[c] \in Seq(Packets)
    BY DEF TypeOK, KernelTypeOK
  <2>2. k \in 0..Len(up[c])
    BY <2>1, LenProperties
  <2>3. QED
    BY <2>1, <2>2, PrefixIsSeq
<1>5. up' \in [Conns -> Seq(Packets)]
  <2> SUFFICES ASSUME NEW c \in Conns
               PROVE  up'[c] \in Seq(Packets)
    BY <1>2
  <2>1. CASE \E fd \in R : tcp_sockets[fd] = c
    <3>1. PICK fd \in R : /\ tcp_sockets[fd] = c
                          /\ up'[c] = SubSeq(up[c], n[fd] + 1, Len(up[c]))
      BY <1>2, <2>1
    <3>2. n[fd] \in Nat /\ n[fd] <= Len(up[c])
      BY <1>3, <3>1
    <3>3. QED
      BY <1>4, <3>1, <3>2
  <2>2. CASE ~ \E fd \in R : tcp_sockets[fd] = c
    BY <1>2, <2>2 DEF TypeOK, KernelTypeOK
  <2>3. QED
    BY <2>1, <2>2
<1>6. packet_queue' \in [Fds -> Seq(Packets)]
  <2> SUFFICES ASSUME NEW fd \in Fds
               PROVE  packet_queue'[fd] \in Seq(Packets)
    BY <1>2
  <2>1. packet_queue[fd] \in Seq(Packets)
    BY DEF TypeOK, SocketTypeOK
  <2>2. CASE fd \in R /\ ~AtEnd(fd)
    <3>1. SubSeq(up[tcp_sockets[fd]], 1, n[fd]) \in Seq(Packets)
      BY <1>3, <1>4, <2>2
    <3>2. packet_queue[fd] \o SubSeq(up[tcp_sockets[fd]], 1, n[fd]) \in Seq(Packets)
      BY <2>1, <3>1, ConcatProperties
    <3>3. QED
      BY <1>2, <2>2, <3>2
  <2>3. CASE ~(fd \in R /\ ~AtEnd(fd))
    BY <1>2, <2>1, <2>3
  <2>4. QED
    BY <2>2, <2>3
<1>7. sock_queue' \in [AllFds -> FdTypes \cup {"none"}]
  <2>1. uninit \in FdTypes
    BY DEF FdTypes
  <2>2. \A fd : FdType(fd, R \cup P, n, uninit) \in FdTypes
    BY <2>1, FdTypeType
  <2>3. QED
    BY <1>2, <2>2
<1>8. /\ tcp_sockets' \in [Fds -> Conns \cup {NoConn}]
      /\ link' \in [Conns -> {"none", "open", "hup", "shut"}]
  BY <1>1, CloseType DEF SelectReturns
<1>9. missed' \subseteq Ids
  BY MissedType DEF Select
<1>10. KernelTypeOK'
  BY <1>1, <1>5, <1>8 DEF SelectReturns, TypeOK, KernelTypeOK
<1>11. TableTypeOK' /\ OtherTypeOK'
  BY <1>9 DEF Select, TypeOK, TableTypeOK, OtherTypeOK, tableVars, envVars
<1>12. QED
  BY <1>6, <1>7, <1>8, <1>10, <1>11 DEF TypeOK, SocketTypeOK

LEMMA HandleStdinType ==
  ASSUME TypeOK, HandleStdin
  PROVE  TypeOK'
<1>1. /\ sock_queue' \in [AllFds -> FdTypes \cup {"none"}]
      /\ missed' \subseteq Ids
  BY NextFdType DEF HandleStdin
<1>2. TableTypeOK' /\ OtherTypeOK'
  BY <1>1 DEF HandleStdin, TypeOK, TableTypeOK, OtherTypeOK, tableVars, envVars
<1>3. CASE CloseAll /\ up' = [c \in Conns |-> <<>>]
  <2>1. /\ CloseAll /\ stdin' \in {"none", "eof"} /\ udp' = udp
        /\ up' = [c \in Conns |-> <<>>]
    BY <1>3 DEF HandleStdin
  <2>2. /\ tcp_sockets' \in [Fds -> Conns \cup {NoConn}]
        /\ link' \in [Conns -> {"none", "open", "hup", "shut"}]
    BY <2>1, CloseType DEF CloseAll
  <2>3. KernelTypeOK' /\ SocketTypeOK'
    BY <1>1, <2>1, <2>2 DEF CloseAll, TypeOK, KernelTypeOK, SocketTypeOK
  <2>4. QED
    BY <1>2, <2>3 DEF TypeOK
<1>4. CASE UNCHANGED <<link, up, backlog, tcp_sockets, packet_queue>>
  <2>1. KernelTypeOK' /\ SocketTypeOK'
    BY <1>1, <1>4 DEF HandleStdin, TypeOK, KernelTypeOK, SocketTypeOK
  <2>2. QED
    BY <1>2, <2>1 DEF TypeOK
<1>5. QED
  BY <1>3, <1>4 DEF HandleStdin

LEMMA HandleConnectType ==
  ASSUME TypeOK, NEW fd, HandleConnect(fd)
  PROVE  TypeOK'
<1>1. /\ sock_queue' \in [AllFds -> FdTypes \cup {"none"}]
      /\ missed' \subseteq Ids
  BY NextFdType DEF HandleConnect
<1>2. Head(backlog) \in Conns /\ Tail(backlog) \in Seq(Conns)
  BY DEF HandleConnect, Accept, TypeOK, KernelTypeOK
<1>3. SocketTypeOK'
  BY <1>1, <1>2 DEF HandleConnect, Accept, TypeOK, SocketTypeOK
<1>4. KernelTypeOK'
  BY <1>2 DEF HandleConnect, Accept, TypeOK, KernelTypeOK
<1>5. TableTypeOK' /\ OtherTypeOK'
  BY <1>1 DEF HandleConnect, TypeOK, TableTypeOK, OtherTypeOK, tableVars, envVars
<1>6. QED
  BY <1>3, <1>4, <1>5 DEF TypeOK

LEMMA HandleCloseType ==
  ASSUME TypeOK, NEW fd \in Fds, HandleClose(fd)
  PROVE  TypeOK'
<1>1. /\ sock_queue' \in [AllFds -> FdTypes \cup {"none"}]
      /\ missed' \subseteq Ids
  BY NextFdType DEF HandleClose
<1>2. TableTypeOK'
  BY DEF HandleClose, IdsAfterClose, TypeOK, TableTypeOK
<1>3. KernelTypeOK' /\ SocketTypeOK' /\ OtherTypeOK'
  BY <1>1 DEF HandleClose, TypeOK, KernelTypeOK, SocketTypeOK, OtherTypeOK, kernelVars, envVars
<1>4. QED
  BY <1>2, <1>3 DEF TypeOK

-----------------------------------------------------------------------------
(***************************************************************************)
(* News.                                                                   *)
(***************************************************************************)

LEMMA ForwardType ==
  ASSUME TypeOK, NEW news \in News, NEW S \in SUBSET Ids, Forward(news, S)
  PROVE  down' \in [Conns -> Seq(Replies \cup News)]
<1> DEFINE Receivers(c) == {id \in S : sockfd[id] \in Open /\ tcp_sockets[sockfd[id]] = c}
           Copies(c) == [i \in 1..Cardinality(Receivers(c)) |-> news]
<1>1. \A c \in Conns : Cardinality(Receivers(c)) \in Nat
  <2> SUFFICES ASSUME NEW c \in Conns
               PROVE  Cardinality(Receivers(c)) \in Nat
    OBVIOUS
  <2>1. Receivers(c) \in SUBSET Ids
    OBVIOUS
  <2>2. IsFiniteSet(Receivers(c))
    BY <2>1, IdsAssumption, FS_Subset
  <2>3. QED
    BY <2>2, FS_CardinalityType
<1>2. \A c \in Conns : Copies(c) \in Seq(Replies \cup News)
  <2> HIDE DEF Receivers
  <2> SUFFICES ASSUME NEW c \in Conns
               PROVE  Copies(c) \in Seq(Replies \cup News)
    OBVIOUS
  <2>1. Cardinality(Receivers(c)) \in Nat /\ news \in Replies \cup News
    BY <1>1
  <2>2. QED
    BY <2>1, CopiesAreSeq
<1>3. down' = [c \in Conns |-> down[c] \o Copies(c)]
  BY DEF Forward
<1> HIDE DEF Copies
<1>4. \A c \in Conns : down[c] \o Copies(c) \in Seq(Replies \cup News)
  BY <1>2, ConcatProperties DEF TypeOK, OtherTypeOK
<1>5. QED
  BY <1>3, <1>4

LEMMA HandleUdpType ==
  ASSUME TypeOK, HandleUdp
  PROVE  TypeOK'
<1>1. /\ sock_queue' \in [AllFds -> FdTypes \cup {"none"}]
      /\ missed' \subseteq Ids
  BY NextFdType DEF HandleUdp
<1>2. Head(udp) \in News /\ Tail(udp) \in Seq(News)
  BY DEF HandleUdp, TypeOK, KernelTypeOK
<1>3. Online(Head(udp).topic) \in SUBSET Ids /\ Subscribed(Head(udp).topic) \in SUBSET Ids
  BY DEF Online, Subscribed
<1>4. down' \in [Conns -> Seq(Replies \cup News)]
  BY <1>2, <1>3, ForwardType DEF HandleUdp
<1>5. subs_queue' \in [Ids -> Seq(News)]
  <2>1. \A id \in Ids : Store(subs_queue[id], Head(udp)) \in Seq(News)
    BY <1>2 DEF Store, TypeOK, TableTypeOK
  <2>2. QED
    BY <2>1 DEF HandleUdp, TypeOK, TableTypeOK
<1>6. audience' \in [1..MaxNews -> SUBSET Ids]
  BY <1>3 DEF HandleUdp, TypeOK, OtherTypeOK
<1>7. KernelTypeOK' /\ SocketTypeOK'
  BY <1>1, <1>2 DEF HandleUdp, TypeOK, KernelTypeOK, SocketTypeOK
<1>8. TableTypeOK' /\ OtherTypeOK'
  BY <1>1, <1>4, <1>5, <1>6 DEF HandleUdp, TypeOK, TableTypeOK, OtherTypeOK, envVars
<1>9. QED
  BY <1>7, <1>8 DEF TypeOK

LEMMA HandleUdpDiesType ==
  ASSUME TypeOK, HandleUdpDies
  PROVE  TypeOK'
<1>1. /\ sock_queue' \in [AllFds -> FdTypes \cup {"none"}]
      /\ missed' \subseteq Ids
  BY NextFdType DEF HandleUdpDies
<1>2. Head(udp) \in News /\ Tail(udp) \in Seq(News)
  BY DEF HandleUdpDies, TypeOK, KernelTypeOK
<1>3. PICK S \in SUBSET Online(Head(udp).topic) : Forward(Head(udp), S)
  BY DEF HandleUdpDies
<1>4. S \in SUBSET Ids /\ Subscribed(Head(udp).topic) \in SUBSET Ids
  BY DEF Online, Subscribed
<1>5. down' \in [Conns -> Seq(Replies \cup News)]
  BY <1>2, <1>3, <1>4, ForwardType
<1>6. audience' \in [1..MaxNews -> SUBSET Ids]
  BY <1>4 DEF HandleUdpDies, TypeOK, OtherTypeOK
<1>7. KernelTypeOK' /\ SocketTypeOK'
  BY <1>1, <1>2 DEF HandleUdpDies, TypeOK, KernelTypeOK, SocketTypeOK
<1>8. TableTypeOK' /\ OtherTypeOK'
  BY <1>1, <1>5, <1>6 DEF HandleUdpDies, TypeOK, TableTypeOK, OtherTypeOK, tableVars, envVars
<1>9. QED
  BY <1>7, <1>8 DEF TypeOK

-----------------------------------------------------------------------------
(***************************************************************************)
(* Packets of a subscriber.                                                *)
(***************************************************************************)

\* What a handler of packets finds, and leaves as it was.
LEMMA ReceiveType ==
  ASSUME TypeOK, NEW fd, NEW type, Receive(fd, type)
  PROVE  /\ sock_queue' \in [AllFds -> FdTypes \cup {"none"}]
         /\ missed' \subseteq Ids
         /\ fd \in Fds /\ tcp_sockets[fd] \in Conns
         /\ packet_queue[fd] # <<>>
         /\ Head(packet_queue[fd]) \in Packets /\ Head(packet_queue[fd]).type = type
         /\ Tail(packet_queue[fd]) \in Seq(Packets)
<1>1. HandleTcp(fd) /\ PacketReady(fd) /\ Head(packet_queue[fd]).type = type
  BY DEF Receive
<1>2. fd \in Fds /\ tcp_sockets[fd] \in Conns /\ packet_queue[fd] # <<>>
  BY <1>1 DEF PacketReady, Open, TypeOK, SocketTypeOK
<1>3. packet_queue[fd] \in Seq(Packets)
  BY <1>2 DEF TypeOK, SocketTypeOK
<1>4. Head(packet_queue[fd]) \in Packets /\ Tail(packet_queue[fd]) \in Seq(Packets)
  BY <1>2, <1>3, HeadTailProperties
<1>5. QED
  BY <1>1, <1>2, <1>4, NextFdType DEF HandleTcp

LEMMA ReplyType ==
  ASSUME TypeOK, NEW fd, tcp_sockets[fd] \in Conns,
         NEW packets \in Seq(Replies \cup News), Reply(fd, packets)
  PROVE  down' \in [Conns -> Seq(Replies \cup News)]
<1>1. down[tcp_sockets[fd]] \o packets \in Seq(Replies \cup News)
  BY ConcatProperties DEF TypeOK, OtherTypeOK
<1>2. QED
  BY <1>1 DEF Reply, TypeOK, OtherTypeOK

\* The packets of type "AUTH" carry an id that is not the empty one.
LEMMA AuthPacketId ==
  ASSUME NEW packet \in Packets, packet.type = "AUTH"
  PROVE  packet.id \in Ids \ {EmptyId}
  BY DEF Packets, AuthPackets, CommandPackets

LEMMA AuthType ==
  ASSUME TypeOK, NEW fd, Auth(fd)
  PROVE  TypeOK'
<1> DEFINE id == Head(packet_queue[fd]).id
<1>1. Receive(fd, "AUTH")
  BY DEF Auth
<1>2. /\ sock_queue' \in [AllFds -> FdTypes \cup {"none"}]
      /\ missed' \subseteq Ids
      /\ fd \in Fds /\ tcp_sockets[fd] \in Conns
      /\ Tail(packet_queue[fd]) \in Seq(Packets)
      /\ id \in Ids \ {EmptyId}
  BY <1>1, ReceiveType, AuthPacketId
<1>3. AuthReply(id) \in Seq(Replies \cup News)
  <2>1. subs_queue[id] \in Seq(Replies \cup News)
    BY <1>2, SeqMonotonic DEF TypeOK, TableTypeOK
  <2>2. <<[type |-> "AUTH"]>> \in Seq(Replies \cup News)
    BY DEF Replies
  <2>3. QED
    BY <2>1, <2>2, ConcatProperties DEF AuthReply
<1>4. down' \in [Conns -> Seq(Replies \cup News)]
  BY <1>2, <1>3, ReplyType DEF Auth
<1>5. KernelTypeOK'
  BY <1>1 DEF Auth, Receive, TypeOK, KernelTypeOK
<1>6. SocketTypeOK'
  BY <1>2 DEF Auth, TakePacket, TypeOK, SocketTypeOK
<1>7. TableTypeOK'
  BY <1>2 DEF Auth, SockfdAfterAuth, TypeOK, TableTypeOK
<1>8. OtherTypeOK'
  BY <1>1, <1>2, <1>4 DEF Auth, Receive, TypeOK, OtherTypeOK, envVars
<1>9. QED
  BY <1>5, <1>6, <1>7, <1>8 DEF TypeOK

LEMMA AuthDuplicateType ==
  ASSUME TypeOK, NEW fd, AuthDuplicate(fd)
  PROVE  TypeOK'
<1>1. Receive(fd, "AUTH") /\ CloseFd(fd) /\ Reply(fd, <<[type |-> "AUTH_DUPLICATE"]>>)
  BY DEF AuthDuplicate
<1>2. /\ sock_queue' \in [AllFds -> FdTypes \cup {"none"}]
      /\ missed' \subseteq Ids
      /\ tcp_sockets[fd] \in Conns
  BY <1>1, ReceiveType
<1>3. <<[type |-> "AUTH_DUPLICATE"]>> \in Seq(Replies \cup News)
  BY DEF Replies
<1>4. down' \in [Conns -> Seq(Replies \cup News)]
  BY <1>1, <1>2, <1>3, ReplyType
<1>5. /\ tcp_sockets' \in [Fds -> Conns \cup {NoConn}]
      /\ link' \in [Conns -> {"none", "open", "hup", "shut"}]
  BY <1>1, CloseType DEF CloseFd
<1>6. KernelTypeOK' /\ SocketTypeOK'
  <2>1. /\ packet_queue' = [packet_queue EXCEPT ![fd] = <<>>]
        /\ up' = [c \in Conns |-> IF tcp_sockets[fd] = c THEN <<>> ELSE up[c]]
        /\ UNCHANGED <<backlog, udp, stdin>>
    BY <1>1 DEF CloseFd, Receive
  <2>2. up' \in [Conns -> Seq(Packets)]
    <3>1. up \in [Conns -> Seq(Packets)] /\ <<>> \in Seq(Packets)
      BY DEF TypeOK, KernelTypeOK
    <3>2. \A c \in Conns : up'[c] \in Seq(Packets)
      BY <2>1, <3>1
    <3>3. QED
      BY <2>1, <3>2
  <2>3. packet_queue' \in [Fds -> Seq(Packets)]
    <3>1. packet_queue \in [Fds -> Seq(Packets)]
      BY DEF TypeOK, SocketTypeOK
    <3>2. <<>> \in Seq(Packets)
      BY EmptySeq
    <3>3. [packet_queue EXCEPT ![fd] = <<>>] \in [Fds -> Seq(Packets)]
      BY <3>1, <3>2
    <3>4. QED
      BY <2>1, <3>3
  <2>4. QED
    BY <1>2, <1>5, <2>1, <2>2, <2>3 DEF TypeOK, KernelTypeOK, SocketTypeOK
<1>7. TableTypeOK' /\ OtherTypeOK'
  BY <1>1, <1>2, <1>4 DEF AuthDuplicate, Receive, TypeOK, TableTypeOK, OtherTypeOK, tableVars, envVars
<1>8. QED
  BY <1>6, <1>7 DEF TypeOK

LEMMA SubscribeType ==
  ASSUME TypeOK, NEW fd, NEW type \in {"SUB", "SUB_SF", "UNSUB"}, Subscribe(fd, type)
  PROVE  TypeOK'
<1>1. Receive(fd, type)
  BY DEF Subscribe
<1>2. /\ sock_queue' \in [AllFds -> FdTypes \cup {"none"}]
      /\ missed' \subseteq Ids
      /\ fd \in Fds /\ Tail(packet_queue[fd]) \in Seq(Packets)
  BY <1>1, ReceiveType
<1>3. Subscription(type) \in {NotSub, 0, 1}
  BY DEF Subscription
<1>4. topic_map' \in [Topics -> [Ids -> {NotSub, 0, 1}]]
  <2>1. topic_map \in [Topics -> [Ids -> {NotSub, 0, 1}]]
    BY DEF TypeOK, TableTypeOK
  <2>2. \A t, id : [topic_map EXCEPT ![t][id] = Subscription(type)]
                     \in [Topics -> [Ids -> {NotSub, 0, 1}]]
    BY <1>3, <2>1
  <2>3. QED
    BY <2>1, <2>2 DEF Subscribe
<1>5. KernelTypeOK' /\ SocketTypeOK'
  BY <1>1, <1>2 DEF Subscribe, Receive, TakePacket, TypeOK, KernelTypeOK, SocketTypeOK
<1>6. TableTypeOK' /\ OtherTypeOK'
  BY <1>1, <1>2, <1>4 DEF Subscribe, Receive, TypeOK, TableTypeOK, OtherTypeOK, envVars
<1>7. QED
  BY <1>5, <1>6 DEF TypeOK

\* The ends of main(), and the branch that does nothing, change no table.
LEMMA OtherActionsType ==
  ASSUME TypeOK, NEW fd \in Fds,
         HandleUdpGarbled(fd) \/ TcpNotReady(fd) \/ AuthDies(fd)
  PROVE  TypeOK'
<1>1. CASE HandleUdpGarbled(fd)
  BY <1>1, NextFdType DEF HandleUdpGarbled, TypeOK, KernelTypeOK, SocketTypeOK, TableTypeOK,
                          OtherTypeOK, kernelVars, tableVars, envVars
<1>2. CASE TcpNotReady(fd)
  BY <1>2, NextFdType DEF TcpNotReady, HandleTcp, TypeOK, KernelTypeOK, SocketTypeOK, TableTypeOK,
                          OtherTypeOK, kernelVars, tableVars, envVars
<1>3. CASE AuthDies(fd)
  BY <1>3, ReceiveType DEF AuthDies, Receive, TypeOK, KernelTypeOK, SocketTypeOK, TableTypeOK,
                           OtherTypeOK, tableVars, envVars
<1>4. QED
  BY <1>1, <1>2, <1>3

-----------------------------------------------------------------------------
\* Every variable keeps its values, in particular sf and the types in the queue, and no descriptor
\* ever stands for the empty id.
THEOREM TypeCorrect == Spec => []TypeOK
<1>1. Init => TypeOK
  BY TypeInit
<1>2. TypeOK /\ [Next]_vars => TypeOK'
  <2> SUFFICES ASSUME TypeOK, [Next]_vars
               PROVE  TypeOK'
    OBVIOUS
  <2>1. CASE Environment
    BY <2>1, TypeEnvironment
  <2>2. CASE Select
    BY <2>2, SelectType
  <2>3. CASE HandleStdin
    BY <2>3, HandleStdinType
  <2>4. CASE HandleUdp
    BY <2>4, HandleUdpType
  <2>5. CASE HandleUdpDies
    BY <2>5, HandleUdpDiesType
  <2>6. CASE NoDescriptor
    BY <2>6, MissedType DEF NoDescriptor, EmptyQueue, TypeOK, KernelTypeOK, SocketTypeOK,
                            TableTypeOK, OtherTypeOK, kernelVars, tableVars, envVars
  <2>7. ASSUME NEW fd \in AllFds, HandleConnect(fd)
        PROVE  TypeOK'
    BY <2>7, HandleConnectType
  <2>8. ASSUME NEW fd \in Fds,
               \/ HandleClose(fd) \/ HandleUdpGarbled(fd)
               \/ TcpNotReady(fd) \/ Auth(fd) \/ AuthDuplicate(fd) \/ AuthDies(fd)
               \/ \E type \in {"SUB", "SUB_SF", "UNSUB"} : Subscribe(fd, type)
        PROVE  TypeOK'
    BY <2>8, HandleCloseType, OtherActionsType, AuthType, AuthDuplicateType, SubscribeType
  <2>9. CASE UNCHANGED vars
    BY <2>9 DEF vars, kernelVars, socketVars, tableVars, envVars, historyVars, TypeOK,
                KernelTypeOK, SocketTypeOK, TableTypeOK, OtherTypeOK
  <2>10. QED
    BY <2>1, <2>2, <2>3, <2>4, <2>5, <2>6, <2>7, <2>8, <2>9 DEF Next, Loop
<1>3. QED
  BY <1>1, <1>2, PTL DEF Spec

-----------------------------------------------------------------------------
(***************************************************************************)
(* Sessions.  Only an accepted authentication and a SOCK_CLOSE entry write *)
(* the three records of a session.                                         *)
(***************************************************************************)
LEMMA SessionFrame ==
  ASSUME [Next]_vars
  PROVE  \/ UNCHANGED <<ids_map, state, sockfd>>
         \/ \E fd \in Fds : Auth(fd) \/ HandleClose(fd)
<1>1. CASE Environment
  <2>1. ASSUME NEW c \in Conns, Connect(c) \/ SendAuth(c) \/ Leave(c) \/ Reset(c)
        PROVE  UNCHANGED <<ids_map, state, sockfd>>
    BY <2>1 DEF Connect, SendAuth, Send, Leave, Reset, tableVars
  <2>2. ASSUME NEW c \in Conns, NEW type \in Commands, NEW t \in Topics, Command(c, type, t)
        PROVE  UNCHANGED <<ids_map, state, sockfd>>
    BY <2>2 DEF Command, Send, tableVars
  <2>3. ASSUME NEW t \in Topics, Datagram(t)
        PROVE  UNCHANGED <<ids_map, state, sockfd>>
    BY <2>3 DEF Datagram, tableVars
  <2>4. ASSUME NEW line \in Lines, TypeLine(line)
        PROVE  UNCHANGED <<ids_map, state, sockfd>>
    BY <2>4 DEF TypeLine, tableVars
  <2>5. QED
    BY <1>1, <2>1, <2>2, <2>3, <2>4 DEF Environment
<1>2. CASE Select \/ HandleStdin \/ HandleUdp \/ HandleUdpDies \/ NoDescriptor
  BY <1>2 DEF Select, HandleStdin, HandleUdp, HandleUdpDies, NoDescriptor, tableVars
<1>3. ASSUME NEW fd, \/ HandleConnect(fd) \/ HandleUdpGarbled(fd) \/ TcpNotReady(fd)
                     \/ AuthDuplicate(fd) \/ AuthDies(fd)
                     \/ \E type \in {"SUB", "SUB_SF", "UNSUB"} : Subscribe(fd, type)
      PROVE  UNCHANGED <<ids_map, state, sockfd>>
  BY <1>3 DEF HandleConnect, HandleUdpGarbled, TcpNotReady, AuthDuplicate, AuthDies, Subscribe,
              tableVars
<1>4. CASE UNCHANGED vars
  BY <1>4 DEF vars, tableVars
<1>5. QED
  BY <1>1, <1>2, <1>3, <1>4 DEF Next, Loop

\* A descriptor that stands for an id is where that id's news go, and the id counts as connected.
\* The property is inductive given the types: an accepted id had no descriptor, because it was not
\* connected, and a closed descriptor takes away the id of no other one.
THEOREM SessionBoundCorrect == Spec => []SessionBound
<1>1. Init => SessionBound
  BY DEF Init, SessionBound
<1>2. TypeOK /\ SessionBound /\ [Next]_vars => SessionBound'
  <2> SUFFICES ASSUME TypeOK, SessionBound, [Next]_vars,
                      NEW f \in Fds, ids_map'[f] # NoId
               PROVE  state'[ids_map'[f]] = "CONNECTED" /\ sockfd'[ids_map'[f]] = f
    BY DEF SessionBound
  <2>1. CASE UNCHANGED <<ids_map, state, sockfd>>
    BY <2>1 DEF SessionBound
  <2>2. ASSUME NEW fd \in Fds, Auth(fd)
        PROVE  state'[ids_map'[f]] = "CONNECTED" /\ sockfd'[ids_map'[f]] = f
    <3> DEFINE id == Head(packet_queue[fd]).id
    <3>1. id \in Ids \ {EmptyId}
      BY <2>2, ReceiveType, AuthPacketId DEF Auth
    <3>2. /\ state[id] # "CONNECTED"
          /\ state' = [state EXCEPT ![id] = "CONNECTED"]
          /\ sockfd' = [sockfd EXCEPT ![id] = fd]
          /\ ids_map' = [ids_map EXCEPT ![fd] = id]
      BY <2>2 DEF Auth, InUse, SockfdAfterAuth
    <3> HIDE DEF id
    <3>3. CASE f = fd
      BY <3>1, <3>2, <3>3 DEF TypeOK, TableTypeOK
    <3>4. CASE f # fd
      <4>1. ids_map'[f] = ids_map[f] /\ ids_map[f] # NoId
        BY <3>2, <3>4 DEF TypeOK, TableTypeOK
      <4>2. state[ids_map[f]] = "CONNECTED" /\ sockfd[ids_map[f]] = f
        BY <4>1 DEF SessionBound
      <4>3. QED
        BY <3>2, <4>1, <4>2 DEF TypeOK, TableTypeOK
    <3>5. QED
      BY <3>3, <3>4
  <2>3. ASSUME NEW fd \in Fds, HandleClose(fd)
        PROVE  state'[ids_map'[f]] = "CONNECTED" /\ sockfd'[ids_map'[f]] = f
    <3> DEFINE id == IF ids_map[fd] = NoId THEN EmptyId ELSE ids_map[fd]
    <3>1. /\ state' = [state EXCEPT ![id] = "DISCONNECTED"]
          /\ ids_map' = [ids_map EXCEPT ![fd] = NoId]
          /\ sockfd' = sockfd
      BY <2>3 DEF HandleClose, IdsAfterClose
    <3>2. f # fd /\ ids_map'[f] = ids_map[f] /\ ids_map[f] # NoId
      BY <3>1 DEF TypeOK, TableTypeOK
    <3>3. state[ids_map[f]] = "CONNECTED" /\ sockfd[ids_map[f]] = f
      BY <3>2 DEF SessionBound
    <3>4. ids_map[f] # id
      BY <3>2, <3>3 DEF SessionBound, TypeOK, TableTypeOK
    <3>5. QED
      BY <3>1, <3>2, <3>3, <3>4 DEF TypeOK, TableTypeOK
  <2>4. QED
    BY <2>1, <2>2, <2>3, SessionFrame
<1>3. QED
  BY <1>1, <1>2, TypeCorrect, PTL DEF Spec

-----------------------------------------------------------------------------
(***************************************************************************)
(* Packets and entries of the queue.                                       *)
(***************************************************************************)

\* get_next_fd() throws away no entry of a connection that has a packet.
LEMMA EntryOfPacketStays ==
  ASSUME TypeOK, NoStrandedPacket, NEW fd, Next_fd(fd),
         NEW g \in Fds, packet_queue[g] # <<>>
  PROVE  g \in Open /\ sock_queue'[g] = "SOCK_TCP"
<1>1. g \in Open /\ sock_queue[g] = "SOCK_TCP"
  BY DEF NoStrandedPacket
<1>2. g \in AllFds /\ g \in Returnable
  BY <1>1 DEF Returnable, PacketReady, Queued, AllFds
<1>3. fd <= g
  BY <1>2 DEF Next_fd, NextFd, IsLeast
<1>4. fd \in Int /\ g \in Int
  <2>1. \A h \in AllFds : h \in Int
    BY FdsAssumption DEF AllFds, Stdin, Udp, Listen
  <2>2. QED
    BY <1>2, <2>1, NextFdType
<1>5. sock_queue'[g] = IF g < fd \/ (g = fd /\ IsLeast(fd, Queued) /\ sock_queue[fd] # "SOCK_TCP")
                       THEN "none" ELSE sock_queue[g]
  BY <1>2 DEF Next_fd, QueueAfter
<1>6. QED
  BY <1>1, <1>3, <1>4, <1>5

\* When get_next_fd() has nothing to return, no buffer holds a packet.
LEMMA NothingLeft ==
  ASSUME NoStrandedPacket, NoNextFd
  PROVE  \A fd \in Fds : packet_queue[fd] = <<>>
  BY DEF NoStrandedPacket, NoNextFd, Returnable, PacketReady, Queued, AllFds

LEMMA SelectKeepsEntries ==
  ASSUME TypeOK, NoStrandedPacket, Select
  PROVE  NoStrandedPacket'
<1>1. PICK R \in SUBSET ReadableFds, P \in SUBSET ReadableSpecials : SelectReturns(R, P)
  BY DEF Select
<1>2. PICK n \in ReadCounts(R), uninit \in (IF Fragments THEN FdTypes ELSE {"SOCK_NULL"}) :
        /\ sock_queue' = [fd \in AllFds |->
             IF fd \in R \cup P THEN FdType(fd, R \cup P, n, uninit) ELSE "none"]
        /\ packet_queue' = [fd \in Fds |->
             IF fd \notin R THEN packet_queue[fd]
             ELSE IF AtEnd(fd) THEN <<>>
             ELSE packet_queue[fd] \o SubSeq(up[tcp_sockets[fd]], 1, n[fd])]
        /\ tcp_sockets' = [fd \in Fds |->
             IF fd \in {g \in R : AtEnd(g)} THEN NoConn ELSE tcp_sockets[fd]]
  BY <1>1 DEF SelectReturns, Close
<1> SUFFICES ASSUME NEW fd \in Fds, packet_queue'[fd] # <<>>
             PROVE  fd \in Open' /\ sock_queue'[fd] = "SOCK_TCP"
  BY DEF NoStrandedPacket
<1>3. packet_queue[fd] = <<>>
  BY NothingLeft DEF Select
<1>4. /\ fd \in R /\ ~AtEnd(fd)
      /\ packet_queue'[fd] = <<>> \o SubSeq(up[tcp_sockets[fd]], 1, n[fd])
  BY <1>2, <1>3
<1>5. n[fd] # 0
  <2>1. SUFFICES ASSUME n[fd] = 0
                 PROVE  FALSE
    OBVIOUS
  <2>2. SubSeq(up[tcp_sockets[fd]], 1, 0) = <<>>
    BY SubSeqEmpty
  <2>3. QED
    BY <1>4, <2>1, <2>2
<1>6. fd \in Open'
  <2>1. tcp_sockets[fd] # NoConn
    BY <1>4 DEF ReadableFds, Open
  <2>2. QED
    BY <1>2, <1>4, <2>1 DEF Open
<1>7. FdType(fd, R \cup P, n, uninit) = "SOCK_TCP"
  BY <1>4, <1>5 DEF FdType, Classify
<1>8. QED
  BY <1>2, <1>4, <1>6, <1>7 DEF AllFds

\* No packet waits without an entry: select(), which sees only what the kernel holds, would not
\* return for it. What keeps it so is that get_next_fd() leaves a SOCK_TCP entry in the queue until
\* its connection has no packet, and that select() is called only when the queue has run out.
THEOREM NoStrandedPacketCorrect == Spec => []NoStrandedPacket
<1>1. Init => NoStrandedPacket
  BY DEF Init, NoStrandedPacket
<1>2. TypeOK /\ NoStrandedPacket /\ [Next]_vars => NoStrandedPacket'
  <2> SUFFICES ASSUME TypeOK, NoStrandedPacket, [Next]_vars
               PROVE  NoStrandedPacket'
    OBVIOUS
  <2>1. CASE Select
    BY <2>1, SelectKeepsEntries
  <2>2. CASE UNCHANGED socketVars
    BY <2>2 DEF socketVars, NoStrandedPacket, Open
  <2>3. CASE NoDescriptor
    <3>1. \A fd \in Fds : packet_queue'[fd] = <<>>
      BY <2>3, NothingLeft DEF NoDescriptor
    <3>2. QED
      BY <3>1 DEF NoStrandedPacket
  <2>4. ASSUME NEW fd, Next_fd(fd), UNCHANGED tcp_sockets,
               \A g \in Fds : packet_queue'[g] # <<>> => packet_queue[g] # <<>>
        PROVE  NoStrandedPacket'
    BY <2>4, EntryOfPacketStays DEF NoStrandedPacket, Open
  <2>5. ASSUME NEW fd, Next_fd(fd), NEW g \in Fds,
               \/ Close({g})
               \/ /\ tcp_sockets[g] = NoConn
                  /\ \E c : tcp_sockets' = [tcp_sockets EXCEPT ![g] = c],
               packet_queue' = [packet_queue EXCEPT ![g] = <<>>]
        PROVE  NoStrandedPacket'
    <3> SUFFICES ASSUME NEW h \in Fds, packet_queue'[h] # <<>>
                 PROVE  h \in Open' /\ sock_queue'[h] = "SOCK_TCP"
      BY DEF NoStrandedPacket
    <3>1. h # g /\ packet_queue[h] # <<>>
      BY <2>5 DEF TypeOK, SocketTypeOK
    <3>2. h \in Open /\ sock_queue'[h] = "SOCK_TCP"
      BY <2>5, <3>1, EntryOfPacketStays
    <3>3. tcp_sockets'[h] = tcp_sockets[h]
      BY <2>5, <3>1 DEF Close, TypeOK, SocketTypeOK
    <3>4. QED
      BY <3>2, <3>3 DEF Open
  <2>6. CASE HandleStdin
    <3>1. CASE CloseAll
      BY <3>1 DEF CloseAll, NoStrandedPacket
    <3>2. CASE UNCHANGED <<tcp_sockets, packet_queue>>
      BY <2>4, <2>6, <3>2 DEF HandleStdin
    <3>3. QED
      BY <2>6, <3>1, <3>2 DEF HandleStdin
  <2>7. CASE HandleUdp \/ HandleUdpDies
    BY <2>4, <2>7 DEF HandleUdp, HandleUdpDies
  <2>8. ASSUME NEW fd \in AllFds, HandleConnect(fd)
        PROVE  NoStrandedPacket'
    <3>1. PICK g \in Fds : /\ IsLeast(g, Fds \ Open)
                           /\ tcp_sockets' = [tcp_sockets EXCEPT ![g] = Head(backlog)]
                           /\ packet_queue' = [packet_queue EXCEPT ![g] = <<>>]
      BY <2>8 DEF HandleConnect, Accept
    <3>2. tcp_sockets[g] = NoConn
      BY <3>1 DEF IsLeast, Open
    <3>3. QED
      BY <2>5, <2>8, <3>1, <3>2 DEF HandleConnect
  <2>9. ASSUME NEW fd \in Fds, HandleClose(fd) \/ HandleUdpGarbled(fd) \/ TcpNotReady(fd)
                               \/ AuthDies(fd)
        PROVE  NoStrandedPacket'
    BY <2>4, <2>9 DEF HandleClose, HandleUdpGarbled, TcpNotReady, AuthDies, Receive, HandleTcp
  <2>10. ASSUME NEW fd \in Fds, NEW type,
                Receive(fd, type), TakePacket(fd), UNCHANGED tcp_sockets
         PROVE  NoStrandedPacket'
    <3>1. packet_queue[fd] # <<>>
      BY <2>10, ReceiveType
    <3>2. \A g \in Fds : packet_queue'[g] # <<>> => packet_queue[g] # <<>>
      BY <2>10, <3>1 DEF TakePacket, TypeOK, SocketTypeOK
    <3>3. QED
      BY <2>4, <2>10, <3>2 DEF Receive, HandleTcp
  <2>11. ASSUME NEW fd \in Fds, AuthDuplicate(fd)
         PROVE  NoStrandedPacket'
    BY <2>5, <2>11 DEF AuthDuplicate, Receive, HandleTcp, CloseFd
  <2>12. CASE Environment
    BY <2>2, <2>12 DEF Environment, Connect, SendAuth, Command, Send, Leave, Reset, Datagram, TypeLine
  <2>13. QED
    <3>1. ASSUME NEW fd \in Fds, Auth(fd) \/ \E type \in {"SUB", "SUB_SF", "UNSUB"} : Subscribe(fd, type)
          PROVE  NoStrandedPacket'
      BY <2>10, <3>1 DEF Auth, Subscribe
    <3>2. CASE UNCHANGED vars
      BY <2>2, <3>2 DEF vars
    <3>3. QED
      BY <2>1, <2>3, <2>6, <2>7, <2>8, <2>9, <2>11, <2>12, <3>1, <3>2 DEF Next, Loop
<1>3. QED
  BY <1>1, <1>2, TypeCorrect, PTL DEF Spec

-----------------------------------------------------------------------------
(***************************************************************************)
(* The records of a session (SessionLive) and the refusals                 *)
(* (DeclinedOnlyIfInUse), proved for any connections, descriptors and      *)
(* batches, with parts of packets or without.                              *)
(*                                                                         *)
(* The argument follows a connection.  First, where it is: in the backlog, *)
(* then on one descriptor.  Then its stream, of which the kernel holds one *)
(* part and the buffer the other: one authentication, with its own id, and *)
(* commands once it was accepted.  So a descriptor authenticates once, and *)
(* what it is bound to is bound until its SOCK_CLOSE entry is handled.     *)
(***************************************************************************)

-----------------------------------------------------------------------------
(***************************************************************************)
(* Connections: where each one is between connect() and close().           *)
(***************************************************************************)
\* A connection is on one descriptor.
OneFd == \A f, g \in Open : tcp_sockets[f] = tcp_sockets[g] => f = g

\* An open connection was made, and the server has not closed it.
OpenLinks == \A fd \in Open : link[tcp_sockets[fd]] \in {"open", "hup"}

\* A connection waits for accept() once, is on no descriptor, and was sent nothing.
BacklogOK ==
  \A i \in 1..Len(backlog) :
    /\ link[backlog[i]] \in {"open", "hup"} /\ down[backlog[i]] = <<>>
    /\ \A fd \in Open : tcp_sockets[fd] # backlog[i]
    /\ \A j \in 1..Len(backlog) : backlog[i] = backlog[j] => i = j

\* Nothing is sent before connect().
Unmade == \A c \in Conns : link[c] = "none" => down[c] = <<>>

\* A connection that the server has not closed waits for accept() or is open.
Reachable ==
  Running => \A c \in Conns : link[c] \in {"open", "hup"} =>
    \/ \E fd \in Open : tcp_sockets[fd] = c
    \/ \E i \in 1..Len(backlog) : backlog[i] = c

\* Where each connection is.
ConnsInv == OneFd /\ OpenLinks /\ BacklogOK /\ Unmade /\ Reachable

\* What is sent is sent on connections that are open.
SentOnOpen == \A c \in Conns : down'[c] # down[c] => \E fd \in Open : tcp_sockets[fd] = c

\* An open descriptor has a connection.
LEMMA OpenConn ==
  ASSUME TypeOK
  PROVE  \A fd \in Open : fd \in Fds /\ fd \in AllFds /\ tcp_sockets[fd] \in Conns
  BY DEF Open, TypeOK, SocketTypeOK, AllFds

\* main() never goes on after it has ended.
LEMMA RunningStep ==
  ASSUME [Next]_vars
  PROVE  Running' => Running
<1>1. CASE Environment
  BY <1>1 DEF Environment, Connect, SendAuth, Command, Leave, Reset, Datagram, TypeLine
<1>2. CASE Select \/ HandleStdin \/ HandleUdp \/ HandleUdpDies \/ NoDescriptor
  BY <1>2 DEF Select, HandleStdin, HandleUdp, HandleUdpDies, NoDescriptor, Next_fd, Running
<1>3. ASSUME NEW fd, \/ HandleConnect(fd) \/ HandleClose(fd) \/ HandleUdpGarbled(fd) \/ TcpNotReady(fd)
                     \/ Auth(fd) \/ AuthDuplicate(fd) \/ AuthDies(fd)
                     \/ \E type \in {"SUB", "SUB_SF", "UNSUB"} : Subscribe(fd, type)
      PROVE  Running
  BY <1>3 DEF HandleConnect, HandleClose, HandleUdpGarbled, TcpNotReady, Auth, AuthDuplicate,
              AuthDies, Subscribe, Receive, HandleTcp, Next_fd
<1>4. CASE UNCHANGED vars
  BY <1>4 DEF vars, Running
<1>5. QED
  BY <1>1, <1>2, <1>3, <1>4 DEF Next, Loop

\* The connections that Forward reaches are open.
LEMMA ForwardOnOpen ==
  ASSUME TypeOK, NEW news \in News, NEW S \in SUBSET Ids, Forward(news, S)
  PROVE  SentOnOpen
<1> SUFFICES ASSUME NEW c \in Conns, ~ \E fd \in Open : tcp_sockets[fd] = c
             PROVE  down'[c] = down[c]
  BY DEF SentOnOpen
<1>1. {id \in S : sockfd[id] \in Open /\ tcp_sockets[sockfd[id]] = c} = {}
  OBVIOUS
<1>2. Cardinality({id \in S : sockfd[id] \in Open /\ tcp_sockets[sockfd[id]] = c}) = 0
  BY <1>1, FS_EmptySet
<1>3. down'[c] = down[c] \o [i \in 1..0 |-> news]
  BY <1>2 DEF Forward
<1>4. [i \in 1..0 |-> news] = <<>>
  OBVIOUS
<1>5. down[c] \in Seq(Replies \cup News)
  BY DEF TypeOK, OtherTypeOK
<1>6. QED
  BY <1>3, <1>4, <1>5, ConcatEmptySeq

\* Steps that change no connection keep the invariant: what they send goes to open connections.
LEMMA ConnsSame ==
  ASSUME TypeOK, ConnsInv, UNCHANGED <<link, tcp_sockets, backlog>>, SentOnOpen, Running' => Running
  PROVE  ConnsInv'
<1>1. Open' = Open
  BY DEF Open
<1>2. OneFd' /\ OpenLinks'
  BY <1>1 DEF ConnsInv, OneFd, OpenLinks
<1>3. \A i \in 1..Len(backlog) : backlog[i] \in Conns
  BY ElementOfSeq DEF TypeOK, KernelTypeOK
<1>4. BacklogOK'
  BY <1>1, <1>3 DEF ConnsInv, BacklogOK, SentOnOpen
<1>5. Unmade'
  BY DEF ConnsInv, Unmade, OpenLinks, SentOnOpen
<1>6. Reachable'
  BY <1>1 DEF ConnsInv, Reachable
<1>7. QED
  BY <1>2, <1>4, <1>5, <1>6 DEF ConnsInv

\* Closing descriptors, by select(), by a refusal or at the end, keeps it.
LEMMA ConnsClose ==
  ASSUME TypeOK, ConnsInv, NEW S \in SUBSET Fds, Close(S), SentOnOpen,
         \/ backlog' = backlog /\ Running
         \/ backlog' = <<>> /\ ~Running'
  PROVE  /\ ConnsInv'
         /\ Open' = Open \ S /\ \A fd \in Open' : tcp_sockets'[fd] = tcp_sockets[fd]
<1>1. Open' = Open \ S /\ \A fd \in Open' : tcp_sockets'[fd] = tcp_sockets[fd]
  BY DEF Open, Close
<1>2. OneFd'
  BY <1>1 DEF ConnsInv, OneFd
<1>3. \A c \in Conns : \/ link'[c] = link[c] /\ \A fd \in S : tcp_sockets[fd] # c
                       \/ link'[c] = "shut" /\ \E fd \in S \cap Open : tcp_sockets[fd] = c
  BY ConnsAssumption DEF Close, Open
<1>4. OpenLinks'
  <2> SUFFICES ASSUME NEW fd \in Open'
               PROVE  link'[tcp_sockets[fd]] \in {"open", "hup"}
    BY <1>1 DEF OpenLinks
  <2>1. fd \in Open /\ tcp_sockets[fd] \in Conns /\ fd \notin S
    BY <1>1, OpenConn
  <2>2. \A g \in S \cap Open : tcp_sockets[g] # tcp_sockets[fd]
    BY <2>1 DEF ConnsInv, OneFd
  <2>3. QED
    BY <1>3, <2>1, <2>2 DEF ConnsInv, OpenLinks
<1>5. \A i \in 1..Len(backlog) : backlog[i] \in Conns
  BY ElementOfSeq DEF TypeOK, KernelTypeOK
<1>6. BacklogOK'
  <2>1. CASE backlog' = <<>>
    BY <2>1 DEF BacklogOK
  <2>2. CASE backlog' = backlog
    BY <1>1, <1>3, <1>5, <2>2 DEF ConnsInv, BacklogOK, SentOnOpen
  <2>3. QED
    BY <2>1, <2>2
<1>7. Unmade'
  BY <1>3 DEF ConnsInv, Unmade, OpenLinks, SentOnOpen
<1>8. Reachable'
  <2>1. CASE ~Running'
    BY <2>1 DEF Reachable
  <2>2. CASE backlog' = backlog /\ Running
    BY <1>1, <1>3, <2>2 DEF ConnsInv, Reachable
  <2>3. QED
    BY <2>1, <2>2
<1>9. QED
  BY <1>1, <1>2, <1>4, <1>6, <1>7, <1>8 DEF ConnsInv

\* A new connection waits in the backlog, alone there.
LEMMA ConnsConnect ==
  ASSUME TypeOK, ConnsInv, NEW c \in Conns, Connect(c)
  PROVE  ConnsInv'
<1>1. /\ link[c] = "none" /\ link' = [link EXCEPT ![c] = "open"]
      /\ backlog' = Append(backlog, c) /\ UNCHANGED <<tcp_sockets, down, pc>> /\ Open' = Open
  BY DEF Connect, socketVars, Open
<1>2. backlog \in Seq(Conns) /\ link \in [Conns -> {"none", "open", "hup", "shut"}]
  BY DEF TypeOK, KernelTypeOK
<1>3. /\ Len(backlog) \in Nat /\ \A i \in 1..Len(backlog) : backlog[i] \in Conns
      /\ Len(backlog') = Len(backlog) + 1 /\ backlog'[Len(backlog) + 1] = c
      /\ \A i \in 1..Len(backlog) : backlog'[i] = backlog[i]
  BY <1>1, <1>2, AppendProperties, ElementOfSeq, LenProperties
<1>4. \A i \in 1..Len(backlog) : backlog[i] # c
  BY <1>1 DEF ConnsInv, BacklogOK
<1>5. \A fd \in Open : tcp_sockets[fd] # c
  BY <1>1 DEF ConnsInv, OpenLinks
<1>6. OneFd'
  BY <1>1 DEF ConnsInv, OneFd
<1>7. OpenLinks'
  BY <1>1, <1>2, <1>5, OpenConn DEF ConnsInv, OpenLinks
<1>8. BacklogOK'
  <2> SUFFICES ASSUME NEW i \in 1..Len(backlog')
               PROVE  /\ link'[backlog'[i]] \in {"open", "hup"} /\ down[backlog'[i]] = <<>>
                      /\ \A fd \in Open : tcp_sockets[fd] # backlog'[i]
                      /\ \A j \in 1..Len(backlog') : backlog'[i] = backlog'[j] => i = j
    BY <1>1 DEF BacklogOK
  <2>1. \A j \in 1..Len(backlog') : j \in 1..Len(backlog) \/ j = Len(backlog) + 1
    BY <1>3
  <2>2. CASE i \in 1..Len(backlog)
    BY <1>1, <1>2, <1>3, <1>4, <2>1, <2>2 DEF ConnsInv, BacklogOK
  <2>3. CASE i = Len(backlog) + 1
    BY <1>1, <1>2, <1>3, <1>4, <1>5, <2>1, <2>3 DEF ConnsInv, Unmade
  <2>4. QED
    BY <2>1, <2>2, <2>3
<1>9. Unmade'
  BY <1>1, <1>2 DEF ConnsInv, Unmade
<1>10. Reachable'
  <2> SUFFICES ASSUME Running, NEW d \in Conns, link'[d] \in {"open", "hup"}
               PROVE  \/ \E fd \in Open : tcp_sockets[fd] = d
                      \/ \E i \in 1..Len(backlog') : backlog'[i] = d
    BY <1>1 DEF Reachable, Running
  <2>1. CASE d = c
    <3>1. Len(backlog) + 1 \in 1..Len(backlog')
      BY <1>3
    <3>2. QED
      BY <1>3, <2>1, <3>1
  <2>2. CASE d # c
    <3>1. link[d] \in {"open", "hup"}
      BY <1>1, <1>2, <2>2
    <3>2. \A i \in 1..Len(backlog) : i \in 1..Len(backlog')
      BY <1>3
    <3>3. QED
      BY <1>3, <3>1, <3>2 DEF ConnsInv, Reachable
  <2>3. QED
    BY <2>1, <2>2
<1>11. QED
  BY <1>6, <1>7, <1>8, <1>9, <1>10 DEF ConnsInv

\* A connection whose subscriber leaves stays where it is.
LEMMA ConnsLeave ==
  ASSUME TypeOK, ConnsInv, NEW c \in Conns, Leave(c)
  PROVE  ConnsInv'
<1>1. /\ link[c] = "open" /\ link' = [link EXCEPT ![c] = "hup"]
      /\ UNCHANGED <<backlog, tcp_sockets, down, pc>> /\ Open' = Open
  BY DEF Leave, socketVars, Open
<1>2. link \in [Conns -> {"none", "open", "hup", "shut"}]
  BY DEF TypeOK, KernelTypeOK
<1>3. \A d \in Conns : /\ link'[d] \in {"open", "hup"} <=> link[d] \in {"open", "hup"}
                       /\ link'[d] = "none" <=> link[d] = "none"
  BY <1>1, <1>2
<1>4. \A i \in 1..Len(backlog) : backlog[i] \in Conns
  BY ElementOfSeq DEF TypeOK, KernelTypeOK
<1>5. OneFd' /\ OpenLinks'
  BY <1>1, <1>3, OpenConn DEF ConnsInv, OneFd, OpenLinks
<1>6. BacklogOK'
  BY <1>1, <1>3, <1>4 DEF ConnsInv, BacklogOK
<1>7. Unmade' /\ Reachable'
  BY <1>1, <1>3 DEF ConnsInv, Unmade, Reachable, Running
<1>8. QED
  BY <1>5, <1>6, <1>7 DEF ConnsInv

\* accept(): the first connection of the backlog is open now, on a descriptor that was free.
LEMMA AcceptEffect ==
  ASSUME TypeOK, Accept
  PROVE  \E fd \in Fds :
           /\ fd \notin Open /\ tcp_sockets[fd] = NoConn /\ Open' = Open \cup {fd}
           /\ backlog # <<>> /\ backlog[1] \in Conns
           /\ tcp_sockets'[fd] = backlog[1] /\ packet_queue'[fd] = <<>>
           /\ \A g \in Fds : g # fd => tcp_sockets'[g] = tcp_sockets[g] /\ packet_queue'[g] = packet_queue[g]
           /\ Len(backlog) \in Nat /\ Len(backlog) >= 1 /\ Len(backlog') = Len(backlog) - 1
           /\ \A i \in 1..Len(backlog') : backlog'[i] = backlog[i + 1]
<1>1. PICK fd \in Fds : /\ IsLeast(fd, Fds \ Open)
                        /\ tcp_sockets' = [tcp_sockets EXCEPT ![fd] = Head(backlog)]
                        /\ packet_queue' = [packet_queue EXCEPT ![fd] = <<>>]
  BY DEF Accept
<1>2. backlog \in Seq(Conns) /\ backlog # <<>> /\ backlog' = Tail(backlog)
  BY DEF Accept, TypeOK, KernelTypeOK
<1>3. /\ Len(backlog) \in Nat /\ Len(backlog) >= 1 /\ Head(backlog) = backlog[1]
      /\ backlog[1] \in Conns /\ Len(backlog') = Len(backlog) - 1
      /\ \A i \in 1..Len(backlog') : backlog'[i] = backlog[i + 1]
  BY <1>2, HeadTailProperties, LenProperties, EmptySeq, ElementOfSeq
<1>4. tcp_sockets \in [Fds -> Conns \cup {NoConn}] /\ packet_queue \in [Fds -> Seq(Packets)]
  BY DEF TypeOK, SocketTypeOK
<1>5. fd \notin Open /\ tcp_sockets[fd] = NoConn
  BY <1>1 DEF IsLeast, Open
<1>6. Open' = Open \cup {fd}
  BY <1>1, <1>3, <1>4, ConnsAssumption DEF Open
<1>7. QED
  BY <1>1, <1>2, <1>3, <1>4, <1>5, <1>6

\* The accepted connection moves from the backlog to a descriptor of its own.
LEMMA ConnsAccept ==
  ASSUME TypeOK, ConnsInv, Accept, UNCHANGED <<link, down>>, Running
  PROVE  ConnsInv'
<1>1. PICK fd \in Fds :
           /\ fd \notin Open /\ Open' = Open \cup {fd} /\ backlog[1] \in Conns
           /\ tcp_sockets'[fd] = backlog[1]
           /\ \A g \in Fds : g # fd => tcp_sockets'[g] = tcp_sockets[g]
           /\ Len(backlog) \in Nat /\ Len(backlog) >= 1 /\ Len(backlog') = Len(backlog) - 1
           /\ \A i \in 1..Len(backlog') : backlog'[i] = backlog[i + 1]
  BY AcceptEffect
<1> DEFINE c == backlog[1]
<1>2. 1 \in 1..Len(backlog)
  BY <1>1
<1>3. /\ link[c] \in {"open", "hup"} /\ down[c] = <<>>
      /\ \A g \in Open : tcp_sockets[g] # c
      /\ \A j \in 1..Len(backlog) : backlog[j] = c => j = 1
  BY <1>2 DEF ConnsInv, BacklogOK
<1>4. \A g \in Open : g \in Fds /\ g # fd /\ tcp_sockets'[g] = tcp_sockets[g]
  BY <1>1 DEF Open
<1> HIDE DEF c
<1>5. tcp_sockets'[fd] = c
  BY <1>1 DEF c
<1>6. OneFd'
  BY <1>1, <1>3, <1>4, <1>5 DEF ConnsInv, OneFd
<1>7. OpenLinks'
  BY <1>1, <1>3, <1>4, <1>5 DEF ConnsInv, OpenLinks
<1>8. \A i \in 1..Len(backlog') : i + 1 \in 1..Len(backlog) /\ i + 1 # 1
  BY <1>1
<1>9. BacklogOK'
  <2> SUFFICES ASSUME NEW i \in 1..Len(backlog')
               PROVE  /\ link[backlog'[i]] \in {"open", "hup"} /\ down[backlog'[i]] = <<>>
                      /\ \A g \in Open' : tcp_sockets'[g] # backlog'[i]
                      /\ \A j \in 1..Len(backlog') : backlog'[i] = backlog'[j] => i = j
    BY DEF BacklogOK
  <2>1. backlog'[i] = backlog[i + 1] /\ i + 1 \in 1..Len(backlog) /\ backlog[i + 1] # c
    BY <1>1, <1>3, <1>8
  <2>2. /\ link[backlog[i + 1]] \in {"open", "hup"} /\ down[backlog[i + 1]] = <<>>
        /\ \A g \in Open : tcp_sockets[g] # backlog[i + 1]
    BY <2>1 DEF ConnsInv, BacklogOK
  <2>3. \A j \in 1..Len(backlog') : backlog'[i] = backlog'[j] => i = j
    <3> SUFFICES ASSUME NEW j \in 1..Len(backlog'), backlog'[i] = backlog'[j]
                 PROVE  i = j
      OBVIOUS
    <3>1. backlog[i + 1] = backlog[j + 1] /\ j + 1 \in 1..Len(backlog)
      BY <1>1, <1>8, <2>1
    <3>2. i + 1 = j + 1
      BY <2>1, <3>1 DEF ConnsInv, BacklogOK
    <3>3. QED
      BY <1>1, <3>2
  <2>4. QED
    BY <1>1, <1>4, <1>5, <2>1, <2>2, <2>3
<1>10. Unmade'
  BY DEF ConnsInv, Unmade
<1>11. Reachable'
  <2> SUFFICES ASSUME NEW d \in Conns, link[d] \in {"open", "hup"}
               PROVE  \/ \E g \in Open' : tcp_sockets'[g] = d
                      \/ \E i \in 1..Len(backlog') : backlog'[i] = d
    BY DEF Reachable
  <2>1. CASE \E g \in Open : tcp_sockets[g] = d
    BY <1>1, <1>4, <2>1
  <2>2. CASE \E i \in 1..Len(backlog) : backlog[i] = d
    <3>1. PICK i \in 1..Len(backlog) : backlog[i] = d
      BY <2>2
    <3>2. CASE i = 1
      BY <1>1, <3>1, <3>2
    <3>3. CASE i # 1
      <4>1. i - 1 \in 1..Len(backlog') /\ (i - 1) + 1 = i
        BY <1>1, <3>3
      <4>2. backlog'[i - 1] = d
        BY <1>1, <3>1, <4>1
      <4>3. QED
        BY <4>1, <4>2
    <3>4. QED
      BY <3>2, <3>3
  <2>3. QED
    BY <2>1, <2>2 DEF ConnsInv, Reachable
<1>12. QED
  BY <1>6, <1>7, <1>9, <1>10, <1>11 DEF ConnsInv

\* A reply goes to the connection whose packet is handled, which is open.
LEMMA ReplyOnOpen ==
  ASSUME TypeOK, NEW fd, NEW type, Receive(fd, type), NEW packets, Reply(fd, packets)
  PROVE  SentOnOpen /\ fd \in Open
<1>1. fd \in Open /\ tcp_sockets[fd] \in Conns
  BY ReceiveType DEF Receive, PacketReady
<1>2. \A c \in Conns : c # tcp_sockets[fd] => down'[c] = down[c]
  BY DEF Reply, TypeOK, OtherTypeOK
<1>3. QED
  BY <1>1, <1>2 DEF SentOnOpen

\* The invariant of connections holds initially ...
LEMMA ConnsInit == Init => ConnsInv
  BY DEF Init, ConnsInv, OneFd, OpenLinks, BacklogOK, Unmade, Reachable, Open

\* ... and every step keeps it.
LEMMA ConnsStep ==
  ASSUME TypeOK, ConnsInv, [Next]_vars
  PROVE  ConnsInv'
<1>0. Running' => Running
  BY RunningStep
<1>1. CASE UNCHANGED <<link, tcp_sockets, backlog, down>>
  BY <1>0, <1>1, ConnsSame DEF SentOnOpen
<1>2. CASE Environment
  <2>1. CASE \E c \in Conns : Connect(c) \/ Leave(c)
    BY <2>1, ConnsConnect, ConnsLeave
  <2>2. CASE ~ \E c \in Conns : Connect(c) \/ Leave(c)
    <3>1. \A c \in Conns : SendAuth(c) \/ Reset(c) => UNCHANGED <<link, tcp_sockets, backlog, down>>
      BY DEF SendAuth, Send, Reset, socketVars
    <3>2. \A c \in Conns, type \in Commands, t \in Topics :
            Command(c, type, t) => UNCHANGED <<link, tcp_sockets, backlog, down>>
      BY DEF Command, Send, socketVars
    <3>3. (\E t \in Topics : Datagram(t)) \/ (\E line \in Lines : TypeLine(line)) =>
            UNCHANGED <<link, tcp_sockets, backlog, down>>
      BY DEF Datagram, TypeLine, socketVars
    <3>4. QED
      BY <1>1, <1>2, <2>2, <3>1, <3>2, <3>3 DEF Environment
  <2>3. QED
    BY <2>1, <2>2
<1>3. CASE Select
  <2>1. PICK R \in SUBSET ReadableFds, P \in SUBSET ReadableSpecials : SelectReturns(R, P)
    BY <1>3 DEF Select
  <2>2. {fd \in R : AtEnd(fd)} \in SUBSET Fds
    BY DEF ReadableFds, Open
  <2>3. Close({fd \in R : AtEnd(fd)}) /\ backlog' = backlog /\ down' = down /\ Running
    BY <1>3, <2>1 DEF SelectReturns, Select, Running
  <2>4. SentOnOpen
    BY <2>3 DEF SentOnOpen
  <2>5. QED
    BY <2>2, <2>3, <2>4, ConnsClose
<1>4. CASE HandleStdin
  <2>1. CASE CloseAll /\ pc' = "exited"
    <3>1. Close(Fds) /\ backlog' = <<>> /\ ~Running' /\ down' = down /\ Fds \in SUBSET Fds
      BY <1>4, <2>1 DEF CloseAll, Running, HandleStdin
    <3>2. SentOnOpen
      BY <3>1 DEF SentOnOpen
    <3>3. QED
      BY <3>1, <3>2, ConnsClose
  <2>2. QED
    BY <1>1, <1>4, <2>1 DEF HandleStdin
<1>5. CASE HandleUdp \/ HandleUdpDies
  <2>1. /\ Head(udp) \in News
        /\ \E S \in SUBSET Ids : Forward(Head(udp), S)
        /\ UNCHANGED <<link, tcp_sockets, backlog>>
    <3>1. udp \in Seq(News) /\ udp # <<>>
      BY <1>5 DEF HandleUdp, HandleUdpDies, TypeOK, KernelTypeOK
    <3>2. Head(udp) \in News
      BY <3>1
    <3>3. \E S \in SUBSET Ids : Forward(Head(udp), S)
      BY <1>5 DEF HandleUdp, HandleUdpDies, Online, Subscribed
    <3>4. QED
      BY <1>5, <3>2, <3>3 DEF HandleUdp, HandleUdpDies
  <2>2. QED
    BY <1>0, <2>1, ForwardOnOpen, ConnsSame
<1>6. ASSUME NEW fd \in AllFds, HandleConnect(fd)
      PROVE  ConnsInv'
  BY <1>6, ConnsAccept DEF HandleConnect, Next_fd
<1>7. ASSUME NEW fd \in Fds, Auth(fd)
      PROVE  ConnsInv'
  <2>1. SentOnOpen
    BY <1>7, ReplyOnOpen DEF Auth
  <2>2. UNCHANGED <<link, tcp_sockets, backlog>>
    BY <1>7 DEF Auth, Receive
  <2>3. QED
    BY <1>0, <2>1, <2>2, ConnsSame
<1>8. ASSUME NEW fd \in Fds, AuthDuplicate(fd)
      PROVE  ConnsInv'
  <2>1. SentOnOpen
    BY <1>8, ReplyOnOpen DEF AuthDuplicate
  <2>2. Close({fd}) /\ backlog' = backlog /\ Running /\ {fd} \in SUBSET Fds
    BY <1>8 DEF AuthDuplicate, Receive, CloseFd, HandleTcp, Next_fd
  <2>3. QED
    BY <2>1, <2>2, ConnsClose
<1>9. ASSUME NEW fd \in Fds,
             \/ HandleClose(fd) \/ HandleUdpGarbled(fd) \/ TcpNotReady(fd) \/ AuthDies(fd)
             \/ \E type \in {"SUB", "SUB_SF", "UNSUB"} : Subscribe(fd, type)
      PROVE  ConnsInv'
  BY <1>1, <1>9 DEF HandleClose, HandleUdpGarbled, TcpNotReady, AuthDies, Subscribe, Receive, kernelVars
<1>10. CASE NoDescriptor \/ UNCHANGED vars
  BY <1>1, <1>10 DEF NoDescriptor, vars, kernelVars, socketVars
<1>11. QED
  BY <1>2, <1>3, <1>4, <1>5, <1>6, <1>7, <1>8, <1>9, <1>10 DEF Next, Loop

-----------------------------------------------------------------------------
(***************************************************************************)
(* What a step writes to the connections.                                  *)
(***************************************************************************)
\* The server has not answered the authentication of c.
NoReply(c) == \A i \in 1..Len(down[c]) : down[c][i].type = "NEWS"

\* What was sent stays sent.
Grows(c) ==
  /\ Len(down'[c]) >= Len(down[c])
  /\ \A i \in 1..Len(down[c]) : down'[c][i] = down[c][i]

\* Whatever is sent is no reply.
OnlyNews(c) ==
  Grows(c) /\ \A i \in (Len(down[c]) + 1)..Len(down'[c]) : down'[c][i].type = "NEWS"

\* The ids of S that have their session on c.
Receivers(S, c) == {id \in S : sockfd[id] \in Open /\ tcp_sockets[sockfd[id]] = c}

\* What was sent is a sequence of replies and news.
LEMMA DownType ==
  ASSUME TypeOK
  PROVE  \A c \in Conns : /\ down[c] \in Seq(Replies \cup News) /\ Len(down[c]) \in Nat
                          /\ \A i \in 1..Len(down[c]) : down[c][i] \in Replies \cup News
  BY LenProperties, ElementOfSeq DEF TypeOK, OtherTypeOK

\* Authenticated, in terms of the first element.
LEMMA FirstReply ==
  ASSUME NEW s \in Seq(Replies \cup News)
  PROVE  s # <<>> /\ Head(s).type = "AUTH" <=> 1 \in 1..Len(s) /\ s[1].type = "AUTH"
<1>1. Len(s) \in Nat
  BY LenProperties
<1>2. s # <<>> => Head(s) = s[1] /\ 1 \in 1..Len(s)
  BY <1>1, HeadTailProperties, EmptySeq
<1>3. 1 \in 1..Len(s) => s # <<>>
  BY <1>1, EmptySeq
<1>4. QED
  BY <1>2, <1>3

\* What a concatenation adds to the packets sent.
LEMMA AppendedAreSent ==
  ASSUME TypeOK, NEW c \in Conns, NEW packets \in Seq(Replies \cup News), down'[c] = down[c] \o packets
  PROVE  /\ Grows(c) /\ Len(packets) \in Nat /\ Len(down'[c]) = Len(down[c]) + Len(packets)
         /\ \A i \in 1..Len(packets) : down'[c][Len(down[c]) + i] = packets[i]
         /\ \A i \in (Len(down[c]) + 1)..Len(down'[c]) :
              i - Len(down[c]) \in 1..Len(packets) /\ down'[c][i] = packets[i - Len(down[c])]
<1> DEFINE s == down[c]
<1>1. s \in Seq(Replies \cup News) /\ Len(s) \in Nat /\ Len(packets) \in Nat
  BY DownType, LenProperties
<1> HIDE DEF s
<1>2. /\ Len(s \o packets) = Len(s) + Len(packets)
      /\ \A i \in 1..(Len(s) + Len(packets)) :
           (s \o packets)[i] = IF i <= Len(s) THEN s[i] ELSE packets[i - Len(s)]
  BY <1>1, ConcatProperties
<1>3. down'[c] = s \o packets
  BY DEF s
<1>4. /\ Len(down'[c]) = Len(s) + Len(packets)
      /\ \A i \in 1..Len(s) : down'[c][i] = s[i]
      /\ \A i \in (Len(s) + 1)..(Len(s) + Len(packets)) :
           i - Len(s) \in 1..Len(packets) /\ down'[c][i] = packets[i - Len(s)]
  BY <1>1, <1>2, <1>3
<1>5. \A i \in 1..Len(packets) : down'[c][Len(s) + i] = packets[i]
  <2> SUFFICES ASSUME NEW i \in 1..Len(packets)
               PROVE  down'[c][Len(s) + i] = packets[i]
    OBVIOUS
  <2>1. Len(s) + i \in (Len(s) + 1)..(Len(s) + Len(packets)) /\ (Len(s) + i) - Len(s) = i
    BY <1>1
  <2>2. QED
    BY <1>4, <2>1
<1>6. QED
  BY <1>1, <1>4, <1>5 DEF Grows, s

\* Forwarding adds copies of the news, as many as there are ids whose sockfd leads to c.
LEMMA ForwardEffect ==
  ASSUME TypeOK, NEW news \in News, NEW S \in SUBSET Ids, Forward(news, S), NEW c \in Conns
  PROVE  /\ OnlyNews(c)
         /\ Cardinality(Receivers(S, c)) \in Nat
         /\ Len(down'[c]) = Len(down[c]) + Cardinality(Receivers(S, c))
         /\ \A i \in (Len(down[c]) + 1)..Len(down'[c]) : down'[c][i] = news
<1> DEFINE k == Cardinality(Receivers(S, c))
           copies == [i \in 1..k |-> news]
<1>1. k \in Nat
  <2>1. Receivers(S, c) \in SUBSET Ids
    BY DEF Receivers
  <2>2. IsFiniteSet(Receivers(S, c))
    BY <2>1, IdsAssumption, FS_Subset
  <2>3. QED
    BY <2>2, FS_CardinalityType
<1>2. down'[c] = down[c] \o copies
  BY DEF Forward, Receivers
<1> HIDE DEF k
<1>3. copies \in Seq(Replies \cup News) /\ Len(copies) = k /\ \A i \in 1..k : copies[i] = news
  BY <1>1, CopiesAreSeq
<1> HIDE DEF copies
<1>4. /\ Grows(c) /\ Len(down'[c]) = Len(down[c]) + k
      /\ \A i \in (Len(down[c]) + 1)..Len(down'[c]) : down'[c][i] = news
  <2>1. /\ Grows(c) /\ Len(down'[c]) = Len(down[c]) + Len(copies)
        /\ \A i \in (Len(down[c]) + 1)..Len(down'[c]) :
             i - Len(down[c]) \in 1..Len(copies) /\ down'[c][i] = copies[i - Len(down[c])]
    BY <1>2, <1>3, AppendedAreSent
  <2>2. QED
    BY <1>3, <2>1
<1>5. OnlyNews(c)
  BY <1>4 DEF OnlyNews, News
<1>6. QED
  BY <1>1, <1>4, <1>5 DEF k

\* News make no reply, and take none back.
LEMMA OnlyNewsKeeps ==
  ASSUME TypeOK, TypeOK', NEW c \in Conns, OnlyNews(c)
  PROVE  /\ NoReply(c)' <=> NoReply(c)
         /\ Authenticated(c)' <=> Authenticated(c)
         /\ down[c] # <<>> => down'[c] # <<>>
<1>1. Len(down[c]) \in Nat /\ Len(down'[c]) \in Nat
  BY DownType DEF TypeOK, OtherTypeOK
<1>2. /\ Authenticated(c) <=> 1 \in 1..Len(down[c]) /\ down[c][1].type = "AUTH"
      /\ Authenticated(c)' <=> 1 \in 1..Len(down'[c]) /\ down'[c][1].type = "AUTH"
  <2>1. down[c] \in Seq(Replies \cup News) /\ down'[c] \in Seq(Replies \cup News)
    BY DEF TypeOK, OtherTypeOK
  <2>2. QED
    BY <2>1, FirstReply DEF Authenticated
<1>3. NoReply(c)' <=> NoReply(c)
  BY <1>1 DEF NoReply, OnlyNews, Grows
<1>4. Authenticated(c)' <=> Authenticated(c)
  BY <1>1, <1>2 DEF OnlyNews, Grows
<1>5. down[c] # <<>> => down'[c] # <<>>
  <2>1. down[c] # <<>> => Len(down[c]) > 0
    BY <1>1, DownType, EmptySeq
  <2>2. down'[c] = <<>> => Len(down'[c]) = 0
    OBVIOUS
  <2>3. QED
    BY <1>1, <2>1, <2>2 DEF OnlyNews, Grows
<1>6. QED
  BY <1>3, <1>4, <1>5

-----------------------------------------------------------------------------
(***************************************************************************)
(* What a subscriber sends: an authentication with its own id first and    *)
(* once, and commands when it has been accepted.  That is still so for     *)
(* what the server has not handled, in the kernel and in the buffer.       *)
(***************************************************************************)
\* s has no authentication.
NoAuth(s) == \A i \in 1..Len(s) : s[i].type # "AUTH"

\* s is what c may have sent and the server not handled: an authentication, with the id of c,
\* is the first packet and comes before the reply; commands come after the reply TYPE_AUTH.
StreamOK(s, c) ==
  \A i \in 1..Len(s) :
    /\ s[i].type = "AUTH" => i = 1 /\ s[i].id = IdOf[c] /\ NoReply(c)
    /\ s[i].type # "AUTH" => Authenticated(c)

\* In the kernel.
KernelStreams ==
  \A c \in Conns :
    /\ sent[c] = 0 => up[c] = <<>> /\ NoReply(c)
    /\ StreamOK(up[c], c)

\* In the buffer of a descriptor; behind what is in it the kernel holds no authentication.
BufferStreams ==
  \A fd \in Open :
    /\ StreamOK(packet_queue[fd], tcp_sockets[fd])
    /\ packet_queue[fd] # <<>> => sent[tcp_sockets[fd]] # 0 /\ NoAuth(up[tcp_sockets[fd]])

\* What is on its way from the subscribers.
StreamInv == KernelStreams /\ BufferStreams

\* An empty stream is in order.
LEMMA EmptyStream ==
  /\ NoAuth(<<>>)
  /\ \A c : StreamOK(<<>>, c)
  BY DEF NoAuth, StreamOK

\* select() and recv(): each open connection keeps its stream, cut in two; one that has ended is
\* no longer open, and its entry says so.
LEMMA SelectEffect ==
  ASSUME TypeOK, NoStrandedPacket, OneFd, Select
  PROVE  /\ Open' \subseteq Open /\ \A fd \in Open' : tcp_sockets'[fd] = tcp_sockets[fd]
         /\ \A fd \in Fds : packet_queue[fd] = <<>>
         /\ \A fd \in Open' :
              \E k \in 0..Len(up[tcp_sockets[fd]]) :
                /\ packet_queue'[fd] = SubSeq(up[tcp_sockets[fd]], 1, k)
                /\ up'[tcp_sockets[fd]] =
                     SubSeq(up[tcp_sockets[fd]], k + 1, Len(up[tcp_sockets[fd]]))
         /\ \A fd \in Open \ Open' : /\ up[tcp_sockets[fd]] = <<>> /\ up'[tcp_sockets[fd]] = <<>>
                                     /\ sock_queue'[fd] = "SOCK_CLOSE"
         /\ \A c \in Conns : (\A fd \in Open : tcp_sockets[fd] # c) => up'[c] = up[c]
         /\ ~Fragments => \A fd \in Open' : sock_queue'[fd] # "SOCK_CLOSE"
<1>1. PICK R \in SUBSET ReadableFds, P \in SUBSET ReadableSpecials : SelectReturns(R, P)
  BY DEF Select
<1>2. PICK n \in ReadCounts(R), uninit \in (IF Fragments THEN FdTypes ELSE {"SOCK_NULL"}) :
        /\ sock_queue' = [fd \in AllFds |->
             IF fd \in R \cup P THEN FdType(fd, R \cup P, n, uninit) ELSE "none"]
        /\ up' = [c \in Conns |->
             IF \E fd \in R : tcp_sockets[fd] = c
             THEN LET k == n[CHOOSE fd \in R : tcp_sockets[fd] = c]
                  IN  SubSeq(up[c], k + 1, Len(up[c]))
             ELSE up[c]]
        /\ packet_queue' = [fd \in Fds |->
             IF fd \notin R THEN packet_queue[fd]
             ELSE IF AtEnd(fd) THEN <<>>
             ELSE packet_queue[fd] \o SubSeq(up[tcp_sockets[fd]], 1, n[fd])]
        /\ tcp_sockets' = [fd \in Fds |->
             IF fd \in {g \in R : AtEnd(g)} THEN NoConn ELSE tcp_sockets[fd]]
  BY <1>1 DEF SelectReturns, Close
<1>3. \A fd \in Fds : packet_queue[fd] = <<>>
  BY NothingLeft DEF Select
<1>4. R \subseteq Open /\ \A fd \in R : fd \in Fds /\ fd \in AllFds /\ tcp_sockets[fd] \in Conns
  BY OpenConn DEF ReadableFds
<1>5. /\ Open' = Open \ {g \in R : AtEnd(g)}
      /\ \A fd \in Open' : fd \in Fds /\ tcp_sockets'[fd] = tcp_sockets[fd]
  BY <1>2 DEF Open
<1>6. \A c \in Conns : up[c] \in Seq(Packets) /\ Len(up[c]) \in Nat
  BY LenProperties DEF TypeOK, KernelTypeOK
<1>7. \A fd \in R : /\ n[fd] \in 0..Len(up[tcp_sockets[fd]])
                    /\ n[fd] = 0 => AtEnd(fd) \/ Fragments
  <2>1. \A fd \in R : /\ n[fd] \in 0..MaxSent /\ n[fd] <= Len(up[tcp_sockets[fd]])
                      /\ n[fd] = 0 => AtEnd(fd) \/ Fragments
    BY <1>2 DEF ReadCounts
  <2>2. QED
    BY <1>4, <1>6, <2>1, BoundAssumption
<1>8. ASSUME NEW fd \in R
      PROVE  up'[tcp_sockets[fd]] =
               SubSeq(up[tcp_sockets[fd]], n[fd] + 1, Len(up[tcp_sockets[fd]]))
  <2> DEFINE g == CHOOSE g \in R : tcp_sockets[g] = tcp_sockets[fd]
  <2>1. g \in R /\ tcp_sockets[g] = tcp_sockets[fd]
    OBVIOUS
  <2>2. g = fd
    BY <1>4, <2>1 DEF OneFd
  <2>3. up'[tcp_sockets[fd]] = SubSeq(up[tcp_sockets[fd]], n[g] + 1, Len(up[tcp_sockets[fd]]))
    BY <1>2, <1>4
  <2> HIDE DEF g
  <2>4. QED
    BY <2>2, <2>3
<1>9. \A fd \in Open \ R : up'[tcp_sockets[fd]] = up[tcp_sockets[fd]]
  <2> SUFFICES ASSUME NEW fd \in Open \ R
               PROVE  up'[tcp_sockets[fd]] = up[tcp_sockets[fd]]
    OBVIOUS
  <2>1. ~ \E g \in R : tcp_sockets[g] = tcp_sockets[fd]
    BY <1>4 DEF OneFd
  <2>2. QED
    BY <1>2, <2>1, OpenConn
<1>10. ASSUME NEW fd \in Open'
       PROVE  \E k \in 0..Len(up[tcp_sockets[fd]]) :
                /\ packet_queue'[fd] = SubSeq(up[tcp_sockets[fd]], 1, k)
                /\ up'[tcp_sockets[fd]] =
                     SubSeq(up[tcp_sockets[fd]], k + 1, Len(up[tcp_sockets[fd]]))
  <2> DEFINE s == up[tcp_sockets[fd]]
  <2>1. fd \in Open /\ fd \in Fds /\ s \in Seq(Packets) /\ Len(s) \in Nat /\ packet_queue[fd] = <<>>
    BY <1>3, <1>5, <1>6, OpenConn
  <2>2. CASE fd \in R
    <3>1. ~AtEnd(fd) /\ n[fd] \in 0..Len(s)
      BY <1>5, <1>7, <2>2
    <3>2. packet_queue'[fd] = <<>> \o SubSeq(s, 1, n[fd])
      BY <1>2, <2>1, <2>2, <3>1
    <3>3. SubSeq(s, 1, n[fd]) \in Seq(Packets)
      <4> HIDE DEF s
      <4>1. QED
        BY <2>1, <3>1, PrefixIsSeq
    <3>4. packet_queue'[fd] = SubSeq(s, 1, n[fd])
      BY <3>2, <3>3, ConcatEmptySeq
    <3>5. QED
      BY <1>8, <2>2, <3>1, <3>4
  <2>3. CASE fd \notin R
    <3>1. packet_queue'[fd] = <<>> /\ up'[tcp_sockets[fd]] = s
      BY <1>2, <1>9, <2>1, <2>3
    <3>2. SubSeq(s, 1, 0) = <<>> /\ SubSeq(s, 0 + 1, Len(s)) = s /\ 0 \in 0..Len(s)
      <4> HIDE DEF s
      <4>1. QED
        BY <2>1, SubSeqEmpty, SubSeqFull
    <3>3. QED
      BY <3>1, <3>2
  <2>4. QED
    BY <2>2, <2>3
<1>11. ASSUME NEW fd \in Open \ Open'
       PROVE  /\ up[tcp_sockets[fd]] = <<>> /\ up'[tcp_sockets[fd]] = <<>>
              /\ sock_queue'[fd] = "SOCK_CLOSE"
  <2>1. fd \in R /\ AtEnd(fd) /\ up[tcp_sockets[fd]] = <<>>
    BY <1>5 DEF AtEnd
  <2>2. up'[tcp_sockets[fd]] = SubSeq(<<>>, n[fd] + 1, Len(<<>>)) /\ n[fd] \in 0..Len(<<>>)
    BY <1>7, <1>8, <2>1
  <2>3. SubSeq(<<>>, n[fd] + 1, Len(<<>>)) = <<>>
    <3>1. n[fd] = 0 /\ Len(<<>>) = 0
      BY <2>2
    <3>2. SubSeq(<<>>, 1, 0) = <<>>
      BY SubSeqEmpty
    <3>3. QED
      BY <3>1, <3>2
  <2>4. FdType(fd, R \cup P, n, uninit) = "SOCK_CLOSE"
    BY <1>4, <2>1 DEF FdType, Classify
  <2>5. QED
    BY <1>2, <1>4, <2>1, <2>2, <2>3, <2>4
<1>12. \A c \in Conns : (\A fd \in Open : tcp_sockets[fd] # c) => up'[c] = up[c]
  BY <1>2, <1>4
<1>13. ASSUME ~Fragments, NEW fd \in Open'
       PROVE  sock_queue'[fd] # "SOCK_CLOSE"
  <2>1. fd \in AllFds /\ fd \in Fds
    BY <1>5 DEF AllFds
  <2>2. CASE fd \in R
    <3>1. ~AtEnd(fd) /\ n[fd] # 0
      BY <1>5, <1>7, <1>13, <2>2
    <3>2. FdType(fd, R \cup P, n, uninit) = "SOCK_TCP"
      BY <2>1, <3>1 DEF FdType, Classify
    <3>3. QED
      BY <1>2, <2>1, <2>2, <3>2
  <2>3. CASE fd \notin R
    <3>1. fd \notin P
      <4>1. fd \notin {Stdin, Udp, Listen}
        BY <2>1, FdsAssumption DEF Stdin, Udp, Listen
      <4>2. QED
        BY <4>1 DEF ReadableSpecials
    <3>2. QED
      BY <1>2, <2>1, <2>3, <3>1
  <2>4. QED
    BY <2>2, <2>3
<1>14. QED
  BY <1>3, <1>5, <1>10, <1>11, <1>12, <1>13

\* The two parts of a cut.
LEMMA CutElements ==
  ASSUME NEW s \in Seq(Packets), NEW k \in 0..Len(s)
  PROVE  LET p == SubSeq(s, 1, k)
             q == SubSeq(s, k + 1, Len(s))
         IN  /\ p \in Seq(Packets) /\ Len(p) = k /\ \A i \in 1..k : p[i] = s[i]
             /\ q \in Seq(Packets) /\ Len(q) = Len(s) - k
             /\ \A i \in 1..(Len(s) - k) : k + i \in 1..Len(s) /\ q[i] = s[k + i]
             /\ s = p \o q
<1>1. Len(s) \in Nat /\ \A i \in 1..Len(s) : s[i] \in Packets
  BY LenProperties, ElementOfSeq
<1>2. \A i \in 1..k : s[i] \in Packets
  BY <1>1
<1>3. \A i \in (k + 1)..Len(s) : s[i] \in Packets
  BY <1>1
<1>4. LET p == SubSeq(s, 1, k)
      IN  p \in Seq(Packets) /\ Len(p) = k /\ \A i \in 1..k : p[i] = s[i]
  BY <1>1, <1>2, SubSeqProperties
<1>5. LET q == SubSeq(s, k + 1, Len(s))
      IN  /\ q \in Seq(Packets) /\ Len(q) = Len(s) - k
          /\ \A i \in 1..(Len(s) - k) : q[i] = s[k + i]
  BY <1>1, <1>3, SubSeqProperties
<1>6. \A i \in 1..(Len(s) - k) : k + i \in 1..Len(s)
  BY <1>1
<1>7. s = SubSeq(s, 1, k) \o SubSeq(s, k + 1, Len(s))
  <2>1. 1 \in 1..(Len(s) + 1) /\ k \in (1 - 1)..Len(s) /\ Len(s) \in k..Len(s)
    BY <1>1
  <2>2. SubSeq(s, 1, k) \o SubSeq(s, k + 1, Len(s)) = SubSeq(s, 1, Len(s))
    BY <2>1, ConcatAdjacentSubSeq
  <2>3. QED
    BY <2>2, SubSeqFull
<1>8. QED
  BY <1>4, <1>5, <1>6, <1>7

\* A step that takes streams away, or leaves them as they are, and sends nothing or news.
LEMMA StreamSame ==
  ASSUME TypeOK, StreamInv, sent' = sent,
         \A c \in Conns :
           /\ up'[c] = up[c] \/ up'[c] = <<>>
           /\ \/ NoReply(c) => NoReply(c)'
              \/ /\ up'[c] = <<>> /\ sent[c] # 0
                 /\ \A fd \in Open' : tcp_sockets'[fd] # c
           /\ Authenticated(c) => Authenticated(c)',
         \A fd \in Open' :
           /\ tcp_sockets'[fd] \in Conns
           /\ \/ packet_queue'[fd] = <<>>
              \/ /\ fd \in Open /\ tcp_sockets'[fd] = tcp_sockets[fd]
                 /\ packet_queue'[fd] = packet_queue[fd]
  PROVE  StreamInv'
<1>1. KernelStreams'
  <2> SUFFICES ASSUME NEW c \in Conns
               PROVE  /\ sent[c] = 0 => up'[c] = <<>> /\ NoReply(c)'
                      /\ StreamOK(up[c], c)'
    BY DEF KernelStreams
  <2>1. /\ sent[c] = 0 => up[c] = <<>> /\ NoReply(c)
        /\ StreamOK(up[c], c)
    BY DEF StreamInv, KernelStreams
  <2>2. CASE up'[c] = <<>>
    BY <2>1, <2>2 DEF StreamOK
  <2>3. CASE up'[c] = up[c] /\ up'[c] # <<>>
    BY <2>1, <2>3 DEF StreamOK
  <2>4. QED
    BY <2>2, <2>3
<1>2. BufferStreams'
  <2> SUFFICES ASSUME NEW fd \in Open'
               PROVE  /\ StreamOK(packet_queue[fd], tcp_sockets[fd])'
                      /\ packet_queue'[fd] # <<>> =>
                           sent[tcp_sockets'[fd]] # 0 /\ NoAuth(up'[tcp_sockets'[fd]])
    BY DEF BufferStreams, NoAuth
  <2>1. CASE packet_queue'[fd] = <<>>
    BY <2>1 DEF StreamOK
  <2>2. CASE packet_queue'[fd] # <<>>
    <3>1. PICK c \in Conns : /\ fd \in Open /\ tcp_sockets[fd] = c /\ tcp_sockets'[fd] = c
                             /\ packet_queue'[fd] = packet_queue[fd]
      BY <2>2
    <3>2. /\ StreamOK(packet_queue[fd], c)
          /\ sent[c] # 0 /\ NoAuth(up[c])
      BY <2>2, <3>1 DEF StreamInv, BufferStreams
    <3>3. /\ NoReply(c) => NoReply(c)'
          /\ Authenticated(c) => Authenticated(c)'
      BY <3>1
    <3>4. StreamOK(packet_queue[fd], c)'
      BY <3>1, <3>2, <3>3 DEF StreamOK
    <3>5. NoAuth(up'[c])
      BY <3>2, EmptyStream
    <3>6. StreamOK(packet_queue[fd], tcp_sockets[fd])'
      BY <3>1, <3>4 DEF StreamOK, NoReply, Authenticated
    <3>7. QED
      BY <3>1, <3>2, <3>5, <3>6
  <2>3. QED
    BY <2>1, <2>2
<1>3. QED
  BY <1>1, <1>2 DEF StreamInv

\* The subscriber sends a packet that its stream allows.
LEMMA StreamSend ==
  ASSUME TypeOK, ConnsInv, StreamInv, NEW c \in Conns, NEW packet \in Packets, Send(c, packet),
         \/ /\ packet.type = "AUTH" /\ packet.id = IdOf[c] /\ sent[c] = 0
         \/ packet.type # "AUTH" /\ Authenticated(c)
  PROVE  StreamInv'
<1>1. /\ up' = [up EXCEPT ![c] = Append(up[c], packet)]
      /\ sent' = [sent EXCEPT ![c] = sent[c] + 1]
      /\ UNCHANGED <<down, tcp_sockets, packet_queue>> /\ Open' = Open
  BY DEF Send, socketVars, Open
<1>2. /\ up \in [Conns -> Seq(Packets)] /\ sent \in [Conns -> 0..MaxSent]
      /\ up[c] \in Seq(Packets) /\ Len(up[c]) \in Nat
  BY LenProperties DEF TypeOK, KernelTypeOK, OtherTypeOK
<1>3. /\ Len(up'[c]) = Len(up[c]) + 1 /\ up'[c][Len(up[c]) + 1] = packet
      /\ \A i \in 1..Len(up[c]) : up'[c][i] = up[c][i]
  BY <1>1, <1>2, AppendProperties
<1>4. sent'[c] # 0 /\ \A d \in Conns : d # c => up'[d] = up[d] /\ sent'[d] = sent[d]
  BY <1>1, <1>2, BoundAssumption
<1>5. /\ sent[c] = 0 => up[c] = <<>> /\ NoReply(c)
      /\ StreamOK(up[c], c)
  BY DEF StreamInv, KernelStreams
<1>6. StreamOK(up'[c], c)
  <2> SUFFICES ASSUME NEW i \in 1..Len(up'[c])
               PROVE  /\ up'[c][i].type = "AUTH" => i = 1 /\ up'[c][i].id = IdOf[c] /\ NoReply(c)
                      /\ up'[c][i].type # "AUTH" => Authenticated(c)
    BY DEF StreamOK
  <2>1. CASE i \in 1..Len(up[c])
    BY <1>3, <1>5, <2>1 DEF StreamOK
  <2>2. CASE i = Len(up[c]) + 1
    <3>1. up'[c][i] = packet
      BY <1>3, <2>2
    <3>2. packet.type = "AUTH" => i = 1
      <4>1. up[c] = <<>> => Len(up[c]) = 0
        OBVIOUS
      <4>2. QED
        BY <1>5, <2>2, <4>1
    <3>3. QED
      BY <1>5, <3>1, <3>2
  <2>3. QED
    BY <1>2, <1>3, <2>1, <2>2
<1>7. KernelStreams'
  <2> SUFFICES ASSUME NEW d \in Conns
               PROVE  /\ sent'[d] = 0 => up'[d] = <<>> /\ NoReply(d)
                      /\ StreamOK(up'[d], d)
    BY <1>1 DEF KernelStreams, StreamOK, NoReply, Authenticated
  <2>1. CASE d = c
    BY <1>4, <1>6, <2>1
  <2>2. CASE d # c
    BY <1>4, <2>2 DEF StreamInv, KernelStreams
  <2>3. QED
    BY <2>1, <2>2
<1>8. BufferStreams'
  <2> SUFFICES ASSUME NEW fd \in Open
               PROVE  /\ StreamOK(packet_queue[fd], tcp_sockets[fd])
                      /\ packet_queue[fd] # <<>> =>
                           sent'[tcp_sockets[fd]] # 0 /\ NoAuth(up'[tcp_sockets[fd]])
    <3>1. ASSUME NEW f \in Open'
          PROVE  /\ StreamOK(packet_queue[f], tcp_sockets[f])'
                 /\ packet_queue'[f] # <<>> =>
                      sent'[tcp_sockets'[f]] # 0 /\ NoAuth(up'[tcp_sockets'[f]])
      <4>1. /\ f \in Open /\ tcp_sockets'[f] = tcp_sockets[f] /\ packet_queue'[f] = packet_queue[f]
            /\ down' = down
        BY <1>1
      <4>2. /\ StreamOK(packet_queue[f], tcp_sockets[f])
            /\ packet_queue[f] # <<>> => sent'[tcp_sockets[f]] # 0 /\ NoAuth(up'[tcp_sockets[f]])
        BY <4>1
      <4>3. StreamOK(packet_queue[f], tcp_sockets[f])'
        BY <4>1, <4>2 DEF StreamOK, NoReply, Authenticated
      <4>4. QED
        BY <4>1, <4>2, <4>3
    <3>2. QED
      BY <3>1 DEF BufferStreams, NoAuth
  <2>1. /\ StreamOK(packet_queue[fd], tcp_sockets[fd]) /\ tcp_sockets[fd] \in Conns
        /\ packet_queue[fd] # <<>> => sent[tcp_sockets[fd]] # 0 /\ NoAuth(up[tcp_sockets[fd]])
    BY OpenConn DEF StreamInv, BufferStreams
  <2>2. CASE tcp_sockets[fd] = c /\ packet_queue[fd] # <<>>
    <3>1. packet.type # "AUTH" /\ NoAuth(up[c])
      BY <2>1, <2>2
    <3>2. NoAuth(up'[c])
      BY <1>2, <1>3, <3>1 DEF NoAuth
    <3>3. QED
      BY <1>4, <2>1, <2>2, <3>2
  <2>3. CASE ~(tcp_sockets[fd] = c /\ packet_queue[fd] # <<>>)
    BY <1>4, <2>1, <2>3
  <2>4. QED
    BY <2>2, <2>3
<1>9. QED
  BY <1>7, <1>8 DEF StreamInv

\* select() moves a prefix of what the kernel holds to an empty buffer.
LEMMA StreamSelect ==
  ASSUME TypeOK, NoStrandedPacket, ConnsInv, StreamInv, Select
  PROVE  StreamInv'
<1>1. /\ Open' \subseteq Open /\ \A fd \in Open' : tcp_sockets'[fd] = tcp_sockets[fd]
      /\ \A fd \in Open' :
           \E k \in 0..Len(up[tcp_sockets[fd]]) :
             /\ packet_queue'[fd] = SubSeq(up[tcp_sockets[fd]], 1, k)
             /\ up'[tcp_sockets[fd]] = SubSeq(up[tcp_sockets[fd]], k + 1, Len(up[tcp_sockets[fd]]))
      /\ \A fd \in Open \ Open' : up'[tcp_sockets[fd]] = <<>>
      /\ \A c \in Conns : (\A fd \in Open : tcp_sockets[fd] # c) => up'[c] = up[c]
  BY SelectEffect DEF ConnsInv
<1>2. sent' = sent /\ down' = down
  BY DEF Select, envVars
<1>3. ASSUME NEW fd \in Open'
      PROVE  LET c == tcp_sockets[fd]
             IN  /\ StreamOK(packet_queue'[fd], c) /\ StreamOK(up'[c], c)
                 /\ sent[c] = 0 => up'[c] = <<>> /\ packet_queue'[fd] = <<>>
                 /\ packet_queue'[fd] # <<>> => NoAuth(up'[c])
  <2> DEFINE c == tcp_sockets[fd]
             s == up[c]
  <2>1. PICK k \in 0..Len(s) : /\ packet_queue'[fd] = SubSeq(s, 1, k)
                               /\ up'[c] = SubSeq(s, k + 1, Len(s))
    BY <1>1
  <2>2. c \in Conns /\ s \in Seq(Packets) /\ Len(s) \in Nat
    BY <1>1, OpenConn, LenProperties DEF TypeOK, KernelTypeOK
  <2>3. StreamOK(s, c) /\ (sent[c] = 0 => s = <<>>)
    BY <2>2 DEF StreamInv, KernelStreams
  <2> HIDE DEF s
  <2> DEFINE p == packet_queue'[fd]
             q == up'[c]
  <2>4. /\ p \in Seq(Packets) /\ Len(p) = k /\ \A i \in 1..k : p[i] = s[i]
        /\ q \in Seq(Packets) /\ Len(q) = Len(s) - k
        /\ \A i \in 1..(Len(s) - k) : k + i \in 1..Len(s) /\ q[i] = s[k + i]
    <3>1. p = SubSeq(s, 1, k) /\ q = SubSeq(s, k + 1, Len(s))
      BY <2>1
    <3> HIDE DEF p, q, c
    <3>2. QED
      BY <2>2, <3>1, CutElements
  <2> HIDE DEF p, q, c
  <2>5. StreamOK(p, c)
    <3>1. \A i \in 1..Len(p) : i \in 1..Len(s) /\ p[i] = s[i]
      BY <2>2, <2>4
    <3>2. QED
      BY <2>3, <3>1 DEF StreamOK
  <2>6. \A i \in 1..Len(q) : q[i].type = "AUTH" => k = 0 /\ i = 1
    BY <2>2, <2>3, <2>4 DEF StreamOK
  <2>7. StreamOK(q, c)
    <3>1. \A i \in 1..Len(q) : k + i \in 1..Len(s) /\ q[i] = s[k + i]
      BY <2>4
    <3>2. QED
      BY <2>3, <2>6, <3>1 DEF StreamOK
  <2>8. sent[c] = 0 => q = <<>> /\ p = <<>>
    <3>1. s = <<>> => Len(s) = 0
      OBVIOUS
    <3>2. s = <<>> => Len(p) = 0 /\ Len(q) = 0
      BY <2>2, <2>4, <3>1
    <3>3. QED
      BY <2>3, <2>4, <3>2, EmptySeq
  <2>9. p # <<>> => NoAuth(q)
    <3>1. p # <<>> => k # 0
      BY <2>4, EmptySeq
    <3>2. QED
      BY <2>6, <3>1 DEF NoAuth
  <2>10. QED
    BY <2>5, <2>7, <2>8, <2>9 DEF p, q, c
<1>4. KernelStreams'
  <2> SUFFICES ASSUME NEW c \in Conns
               PROVE  /\ sent[c] = 0 => up'[c] = <<>> /\ NoReply(c)
                      /\ StreamOK(up'[c], c)
    BY <1>2 DEF KernelStreams, StreamOK, NoReply, Authenticated
  <2>1. /\ sent[c] = 0 => up[c] = <<>> /\ NoReply(c)
        /\ StreamOK(up[c], c)
    BY DEF StreamInv, KernelStreams
  <2>2. CASE \E fd \in Open' : tcp_sockets[fd] = c
    BY <1>3, <2>1, <2>2
  <2>3. CASE \E fd \in Open \ Open' : tcp_sockets[fd] = c
    BY <1>1, <2>1, <2>3, EmptyStream
  <2>4. CASE \A fd \in Open : tcp_sockets[fd] # c
    BY <1>1, <2>1, <2>4
  <2>5. QED
    BY <2>2, <2>3, <2>4
<1>5. BufferStreams'
  <2> SUFFICES ASSUME NEW fd \in Open'
               PROVE  /\ StreamOK(packet_queue'[fd], tcp_sockets[fd])
                      /\ packet_queue'[fd] # <<>> =>
                           sent[tcp_sockets[fd]] # 0 /\ NoAuth(up'[tcp_sockets[fd]])
    BY <1>1, <1>2 DEF BufferStreams, StreamOK, NoReply, Authenticated, NoAuth
  <2>1. QED
    BY <1>3
<1>6. QED
  BY <1>4, <1>5 DEF StreamInv

\* The first packet sent stays the first.
LEMMA GrowsKeeps ==
  ASSUME TypeOK, TypeOK', NEW c \in Conns, Grows(c)
  PROVE  Authenticated(c) => Authenticated(c)'
<1>1. Len(down[c]) \in Nat /\ Len(down'[c]) \in Nat
  BY DownType DEF TypeOK, OtherTypeOK
<1>2. /\ Authenticated(c) <=> 1 \in 1..Len(down[c]) /\ down[c][1].type = "AUTH"
      /\ Authenticated(c)' <=> 1 \in 1..Len(down'[c]) /\ down'[c][1].type = "AUTH"
  <2>1. down[c] \in Seq(Replies \cup News) /\ down'[c] \in Seq(Replies \cup News)
    BY DEF TypeOK, OtherTypeOK
  <2>2. QED
    BY <2>1, FirstReply DEF Authenticated
<1>3. QED
  BY <1>1, <1>2 DEF Grows

\* A packet is taken from a buffer: the ones behind it are commands.
LEMMA TakeEffect ==
  ASSUME TypeOK, StreamInv, NEW fd, NEW type, Receive(fd, type), TakePacket(fd)
  PROVE  /\ fd \in Open /\ fd \in Fds /\ tcp_sockets[fd] \in Conns
         /\ packet_queue[fd] # <<>> /\ packet_queue[fd] \in Seq(Packets)
         /\ 1 \in 1..Len(packet_queue[fd]) /\ Head(packet_queue[fd]) = packet_queue[fd][1]
         /\ packet_queue'[fd] = Tail(packet_queue[fd])
         /\ Len(packet_queue[fd]) \in Nat /\ Len(packet_queue'[fd]) = Len(packet_queue[fd]) - 1
         /\ \A i \in 1..Len(packet_queue'[fd]) :
              i + 1 \in 1..Len(packet_queue[fd]) /\ packet_queue'[fd][i] = packet_queue[fd][i + 1]
         /\ \A g \in Fds : g # fd => packet_queue'[g] = packet_queue[g]
         /\ NoAuth(packet_queue'[fd]) /\ NoAuth(up[tcp_sockets[fd]]) /\ sent[tcp_sockets[fd]] # 0
<1> DEFINE s == packet_queue[fd]
<1>1. /\ fd \in Open /\ fd \in Fds /\ tcp_sockets[fd] \in Conns
      /\ s # <<>> /\ s \in Seq(Packets)
  <2>1. fd \in Fds /\ PacketReady(fd) /\ tcp_sockets[fd] \in Conns /\ s # <<>>
    BY ReceiveType DEF Receive
  <2>2. QED
    BY <2>1 DEF PacketReady, TypeOK, SocketTypeOK
<1>2. packet_queue'[fd] = Tail(s) /\ \A g \in Fds : g # fd => packet_queue'[g] = packet_queue[g]
  BY <1>1 DEF TakePacket, TypeOK, SocketTypeOK
<1>3. StreamOK(s, tcp_sockets[fd]) /\ sent[tcp_sockets[fd]] # 0 /\ NoAuth(up[tcp_sockets[fd]])
  BY <1>1 DEF StreamInv, BufferStreams
<1> HIDE DEF s
<1>4. /\ Len(s) \in Nat /\ Len(s) >= 1 /\ Head(s) = s[1]
      /\ Len(Tail(s)) = Len(s) - 1
      /\ \A i \in 1..Len(Tail(s)) : Tail(s)[i] = s[i + 1]
  BY <1>1, HeadTailProperties, LenProperties, EmptySeq
<1>5. \A i \in 1..Len(Tail(s)) : i + 1 \in 1..Len(s) /\ i + 1 # 1
  BY <1>4
<1>6. NoAuth(Tail(s))
  BY <1>3, <1>4, <1>5 DEF NoAuth, StreamOK
<1>7. 1 \in 1..Len(s)
  BY <1>4
<1>8. QED
  BY <1>1, <1>2, <1>3, <1>4, <1>5, <1>6, <1>7 DEF s

\* Handling a packet takes the first one of a buffer.
LEMMA StreamTake ==
  ASSUME TypeOK, OneFd, StreamInv, NEW fd, NEW type, Receive(fd, type), TakePacket(fd),
         UNCHANGED <<up, tcp_sockets>>,
         \A c \in Conns : /\ Authenticated(c) => Authenticated(c)'
                          /\ c # tcp_sockets[fd] \/ type # "AUTH" => (NoReply(c) => NoReply(c)')
  PROVE  StreamInv'
<1>1. PICK c \in Conns : c = tcp_sockets[fd]
  BY TakeEffect
<1>2. /\ fd \in Open /\ fd \in Fds /\ packet_queue[fd] # <<>>
      /\ \A i \in 1..Len(packet_queue'[fd]) :
           i + 1 \in 1..Len(packet_queue[fd]) /\ packet_queue'[fd][i] = packet_queue[fd][i + 1]
      /\ \A g \in Fds : g # fd => packet_queue'[g] = packet_queue[g]
      /\ NoAuth(packet_queue'[fd]) /\ NoAuth(up[c]) /\ sent[c] # 0
  BY <1>1, TakeEffect
<1>3. sent' = sent /\ Open' = Open
  BY DEF Receive, envVars, Open
<1>4. StreamOK(packet_queue[fd], c)
  BY <1>1, <1>2 DEF StreamInv, BufferStreams
<1>5. StreamOK(packet_queue[fd], c)'
  BY <1>2, <1>4 DEF StreamOK, NoAuth
<1>6. KernelStreams'
  <2> SUFFICES ASSUME NEW d \in Conns
               PROVE  /\ sent[d] = 0 => up[d] = <<>> /\ NoReply(d)'
                      /\ StreamOK(up[d], d)'
    BY <1>3 DEF KernelStreams
  <2>1. /\ sent[d] = 0 => up[d] = <<>> /\ NoReply(d)
        /\ StreamOK(up[d], d)
    BY DEF StreamInv, KernelStreams
  <2>2. CASE d = c
    BY <1>2, <2>1, <2>2 DEF StreamOK, NoAuth
  <2>3. CASE d # c
    BY <1>1, <2>1, <2>3 DEF StreamOK
  <2>4. QED
    BY <2>2, <2>3
<1>7. BufferStreams'
  <2> SUFFICES ASSUME NEW g \in Open'
               PROVE  /\ StreamOK(packet_queue[g], tcp_sockets[g])'
                      /\ packet_queue'[g] # <<>> =>
                           sent'[tcp_sockets'[g]] # 0 /\ NoAuth(up'[tcp_sockets'[g]])
    BY DEF BufferStreams, NoAuth
  <2>1. PICK d \in Conns : d = tcp_sockets[g] /\ tcp_sockets'[g] = d /\ g \in Fds /\ g \in Open
    BY <1>3, OpenConn
  <2>2. CASE g = fd
    <3>1. d = c
      BY <1>1, <2>1, <2>2
    <3>2. StreamOK(packet_queue[g], tcp_sockets[g])'
      BY <1>5, <2>1, <2>2, <3>1 DEF StreamOK, NoReply, Authenticated
    <3>3. QED
      BY <1>2, <1>3, <2>1, <3>1, <3>2
  <2>3. CASE g # fd
    <3>1. d # c /\ packet_queue'[g] = packet_queue[g]
      BY <1>1, <1>2, <2>1, <2>3 DEF OneFd
    <3>2. StreamOK(packet_queue[g], d) /\ (packet_queue[g] # <<>> => sent[d] # 0 /\ NoAuth(up[d]))
      BY <2>1 DEF StreamInv, BufferStreams
    <3>3. StreamOK(packet_queue[g], d)'
      BY <1>1, <3>1, <3>2 DEF StreamOK
    <3>4. StreamOK(packet_queue[g], tcp_sockets[g])'
      BY <2>1, <3>3 DEF StreamOK, NoReply, Authenticated
    <3>5. QED
      BY <1>3, <2>1, <3>1, <3>2, <3>4
  <2>4. QED
    BY <2>2, <2>3
<1>8. QED
  BY <1>6, <1>7 DEF StreamInv

\* What a handler of packets sends to its own connection, and to no other.
LEMMA ReplyEffect ==
  ASSUME TypeOK, NEW fd, NEW type, Receive(fd, type),
         NEW packets \in Seq(Replies \cup News), Reply(fd, packets)
  PROVE  /\ \A c \in Conns : Grows(c)
         /\ down'[tcp_sockets[fd]] = down[tcp_sockets[fd]] \o packets
         /\ \A c \in Conns : c # tcp_sockets[fd] => down'[c] = down[c]
<1>1. tcp_sockets[fd] \in Conns
  BY ReceiveType
<1>2. /\ down'[tcp_sockets[fd]] = down[tcp_sockets[fd]] \o packets
      /\ \A c \in Conns : c # tcp_sockets[fd] => down'[c] = down[c]
  BY <1>1 DEF Reply, TypeOK, OtherTypeOK
<1>3. \A c \in Conns : Len(down[c]) \in Nat
  BY DownType
<1>4. Grows(tcp_sockets[fd])
  <2>1. PICK c \in Conns : c = tcp_sockets[fd]
    BY <1>1
  <2>2. QED
    BY <1>2, <2>1, AppendedAreSent
<1>5. \A c \in Conns : c # tcp_sockets[fd] => Grows(c)
  BY <1>2, <1>3 DEF Grows
<1>6. QED
  BY <1>2, <1>4, <1>5

\* The reply and the stored news are packets of the server.
LEMMA AuthReplyType ==
  ASSUME TypeOK, NEW id \in Ids
  PROVE  AuthReply(id) \in Seq(Replies \cup News)
<1>1. subs_queue[id] \in Seq(Replies \cup News)
  BY SeqMonotonic DEF TypeOK, TableTypeOK
<1>2. <<[type |-> "AUTH"]>> \in Seq(Replies \cup News)
  BY DEF Replies
<1>3. QED
  BY <1>1, <1>2, ConcatProperties DEF AuthReply

\* So is a refusal.
LEMMA DuplicateType == <<[type |-> "AUTH_DUPLICATE"]>> \in Seq(Replies \cup News)
  BY DEF Replies

\* close(fd) after the reply to a duplicate: fd is free, the other descriptors keep their streams.
LEMMA DuplicateEffect ==
  ASSUME TypeOK, OneFd, StreamInv, NEW fd, AuthDuplicate(fd)
  PROVE  /\ fd \in Open /\ fd \in Fds /\ tcp_sockets[fd] \in Conns /\ sent[tcp_sockets[fd]] # 0
         /\ Open' = Open \ {fd}
         /\ \A g \in Open' : /\ g \in Fds /\ tcp_sockets'[g] = tcp_sockets[g]
                             /\ tcp_sockets[g] # tcp_sockets[fd]
                             /\ packet_queue'[g] = packet_queue[g]
         /\ up'[tcp_sockets[fd]] = <<>>
         /\ \A c \in Conns : c # tcp_sockets[fd] => up'[c] = up[c] /\ down'[c] = down[c]
         /\ down'[tcp_sockets[fd]] = down[tcp_sockets[fd]] \o <<[type |-> "AUTH_DUPLICATE"]>>
         /\ \A c \in Conns : Grows(c)
<1>1. /\ Receive(fd, "AUTH") /\ Close({fd}) /\ Reply(fd, <<[type |-> "AUTH_DUPLICATE"]>>)
      /\ packet_queue' = [packet_queue EXCEPT ![fd] = <<>>]
      /\ up' = [c \in Conns |-> IF tcp_sockets[fd] = c THEN <<>> ELSE up[c]]
  BY DEF AuthDuplicate, CloseFd
<1>2. fd \in Open /\ fd \in Fds /\ tcp_sockets[fd] \in Conns /\ packet_queue[fd] # <<>>
  BY <1>1, ReceiveType DEF Receive, PacketReady
<1>3. sent[tcp_sockets[fd]] # 0
  BY <1>2 DEF StreamInv, BufferStreams
<1>4. Open' = Open \ {fd} /\ \A g \in Open' : g \in Fds /\ tcp_sockets'[g] = tcp_sockets[g]
  BY <1>1 DEF Close, Open
<1>5. \A g \in Open' : /\ tcp_sockets[g] # tcp_sockets[fd]
                       /\ packet_queue'[g] = packet_queue[g]
  BY <1>1, <1>2, <1>4 DEF OneFd, TypeOK, SocketTypeOK
<1>6. /\ \A c \in Conns : Grows(c)
      /\ down'[tcp_sockets[fd]] = down[tcp_sockets[fd]] \o <<[type |-> "AUTH_DUPLICATE"]>>
      /\ \A c \in Conns : c # tcp_sockets[fd] => down'[c] = down[c]
  BY <1>1, ReplyEffect, DuplicateType
<1>7. QED
  BY <1>1, <1>2, <1>3, <1>4, <1>5, <1>6

\* The invariant of streams holds initially ...
LEMMA StreamInit == Init => StreamInv
<1>1. ASSUME Init
      PROVE  StreamInv
  <2>1. Open = {} /\ \A c \in Conns : up[c] = <<>> /\ down[c] = <<>>
    BY <1>1 DEF Init, Open
  <2>2. KernelStreams
    BY <2>1, EmptyStream DEF KernelStreams, NoReply
  <2>3. QED
    BY <2>1, <2>2 DEF StreamInv, BufferStreams
<1>2. QED
  BY <1>1

\* What is in the kernel is a first part of what was.
Shrinks(c) ==
  /\ up[c] = <<>> => up'[c] = <<>>
  /\ \A i \in 1..Len(up'[c]) : i \in 1..Len(up[c]) /\ up'[c][i] = up[c][i]

\* A reset drops the last packet of a stream.
LEMMA ResetEffect ==
  ASSUME TypeOK, NEW c \in Conns, Reset(c)
  PROVE  /\ UNCHANGED <<down, sent, tcp_sockets, packet_queue, sock_queue, ids_map, state, sockfd,
                        missed>>
         /\ \A d \in Conns : Shrinks(d)
<1>1. up \in [Conns -> Seq(Packets)] /\ up[c] \in Seq(Packets) /\ Len(up[c]) \in Nat /\ up[c] # <<>>
  BY LenProperties DEF Reset, TypeOK, KernelTypeOK
<1>2. Len(up[c]) - 1 \in 0..Len(up[c])
  BY <1>1, EmptySeq
<1>3. up'[c] = SubSeq(up[c], 1, Len(up[c]) - 1) /\ \A d \in Conns : d # c => up'[d] = up[d]
  BY <1>1 DEF Reset
<1>4. Len(up'[c]) = Len(up[c]) - 1 /\ \A i \in 1..(Len(up[c]) - 1) : up'[c][i] = up[c][i]
  <2>1. PICK s \in Seq(Packets) : s = up[c]
    BY <1>1
  <2>2. PICK k \in 0..Len(s) : k = Len(s) - 1
    BY <1>2, <2>1
  <2>3. up'[c] = SubSeq(s, 1, k)
    BY <1>3, <2>1, <2>2
  <2>4. Len(SubSeq(s, 1, k)) = k /\ \A i \in 1..k : SubSeq(s, 1, k)[i] = s[i]
    BY CutElements
  <2>5. QED
    BY <2>1, <2>2, <2>3, <2>4
<1>5. \A i \in 1..Len(up'[c]) : i \in 1..Len(up[c]) /\ up'[c][i] = up[c][i]
  BY <1>1, <1>4
<1>6. UNCHANGED <<down, sent, tcp_sockets, packet_queue, sock_queue, ids_map, state, sockfd, missed>>
  BY DEF Reset, socketVars, tableVars, envVars, historyVars
<1>7. QED
  BY <1>1, <1>3, <1>5, <1>6 DEF Shrinks

\* What is left of it is in order, ...
LEMMA StreamReset ==
  ASSUME TypeOK, StreamInv, NEW c \in Conns, Reset(c)
  PROVE  StreamInv'
<1>1. UNCHANGED <<down, sent, tcp_sockets, packet_queue>> /\ \A d \in Conns : Shrinks(d)
  BY ResetEffect
<1>2. ASSUME NEW d \in Conns
      PROVE  /\ sent'[d] = 0 => up'[d] = <<>> /\ NoReply(d)'
             /\ StreamOK(up[d], d)'
             /\ NoAuth(up[d]) => NoAuth(up'[d])
  <2>1. /\ sent[d] = 0 => up[d] = <<>> /\ NoReply(d)
        /\ StreamOK(up[d], d)
    BY DEF StreamInv, KernelStreams
  <2>2. (NoReply(d) <=> NoReply(d)') /\ (Authenticated(d) <=> Authenticated(d)')
    BY <1>1 DEF NoReply, Authenticated
  <2>3. /\ up[d] = <<>> => up'[d] = <<>>
        /\ \A i \in 1..Len(up'[d]) : i \in 1..Len(up[d]) /\ up'[d][i] = up[d][i]
    BY <1>1 DEF Shrinks
  <2>4. StreamOK(up[d], d)'
    BY <2>1, <2>2, <2>3 DEF StreamOK
  <2>5. NoAuth(up[d]) => NoAuth(up'[d])
    BY <2>3 DEF NoAuth
  <2>6. QED
    BY <1>1, <2>1, <2>2, <2>3, <2>4, <2>5
<1>3. KernelStreams'
  BY <1>2 DEF KernelStreams
<1>4. BufferStreams'
  <2> SUFFICES ASSUME NEW fd \in Open'
               PROVE  /\ StreamOK(packet_queue[fd], tcp_sockets[fd])'
                      /\ packet_queue'[fd] # <<>> =>
                           sent'[tcp_sockets'[fd]] # 0 /\ NoAuth(up'[tcp_sockets'[fd]])
    BY DEF BufferStreams, NoAuth
  <2>1. fd \in Open /\ tcp_sockets[fd] \in Conns
    BY <1>1, OpenConn DEF Open
  <2>2. /\ StreamOK(packet_queue[fd], tcp_sockets[fd])
        /\ packet_queue[fd] # <<>> => sent[tcp_sockets[fd]] # 0 /\ NoAuth(up[tcp_sockets[fd]])
    BY <2>1 DEF StreamInv, BufferStreams
  <2>3. QED
    BY <1>1, <1>2, <2>1, <2>2 DEF StreamOK, NoReply, Authenticated
<1>5. QED
  BY <1>3, <1>4 DEF StreamInv

\* ... and every step keeps it.
LEMMA StreamStep ==
  ASSUME TypeOK, TypeOK', NoStrandedPacket, ConnsInv, StreamInv, [Next]_vars
  PROVE  StreamInv'
<1>1. CASE UNCHANGED <<up, down, sent, tcp_sockets, packet_queue>>
  <2>1. \A c \in Conns : /\ NoReply(c) => NoReply(c)'
                         /\ Authenticated(c) => Authenticated(c)'
    BY <1>1 DEF NoReply, Authenticated
  <2>2. \A fd \in Open' : fd \in Open /\ tcp_sockets'[fd] \in Conns
    BY <1>1, OpenConn DEF Open
  <2>3. QED
    BY <1>1, <2>1, <2>2, StreamSame
<1>2. CASE Environment
  <2>1. ASSUME NEW c \in Conns, SendAuth(c)
        PROVE  StreamInv'
    <3>1. [type |-> "AUTH", id |-> IdOf[c]] \in Packets
      BY IdsAssumption DEF Packets, AuthPackets
    <3>2. QED
      BY <2>1, <3>1, StreamSend DEF SendAuth
  <2>2. ASSUME NEW c \in Conns, NEW type \in Commands, NEW t \in Topics, Command(c, type, t)
        PROVE  StreamInv'
    <3>1. type \in {"SUB", "SUB_SF", "UNSUB"}
      BY InputsAssumption
    <3>2. [type |-> type, topic |-> t] \in Packets
      BY <3>1 DEF Packets, CommandPackets
    <3>3. QED
      BY <2>2, <3>1, <3>2, StreamSend DEF Command, Authenticated
  <2>3. QED
    BY <1>1, <1>2, <2>1, <2>2, StreamReset DEF Environment, Connect, Leave, Datagram, TypeLine,
                                               socketVars, envVars
<1>3. CASE Select
  BY <1>3, StreamSelect
<1>4. CASE HandleStdin
  <2>1. CASE CloseAll /\ up' = [c \in Conns |-> <<>>]
    <3>1. Open' = {} /\ UNCHANGED <<down, sent>>
      BY <1>4, <2>1 DEF CloseAll, Close, Open, HandleStdin, envVars
    <3>2. \A c \in Conns : /\ NoReply(c) => NoReply(c)'
                           /\ Authenticated(c) => Authenticated(c)'
      BY <3>1 DEF NoReply, Authenticated
    <3>3. QED
      BY <2>1, <3>1, <3>2, StreamSame
  <2>2. QED
    BY <1>1, <1>4, <2>1 DEF HandleStdin, envVars
<1>5. CASE HandleUdp \/ HandleUdpDies
  <2>1. /\ Head(udp) \in News
        /\ \E S \in SUBSET Ids : Forward(Head(udp), S)
    <3>1. udp \in Seq(News) /\ udp # <<>>
      BY <1>5 DEF HandleUdp, HandleUdpDies, TypeOK, KernelTypeOK
    <3>2. Head(udp) \in News
      BY <3>1
    <3>3. \E S \in SUBSET Ids : Forward(Head(udp), S)
      BY <1>5 DEF HandleUdp, HandleUdpDies, Online, Subscribed
    <3>4. QED
      BY <3>2, <3>3
  <2>2. \A c \in Conns : OnlyNews(c)
    BY <2>1, ForwardEffect
  <2>3. \A c \in Conns : /\ NoReply(c) => NoReply(c)'
                         /\ Authenticated(c) => Authenticated(c)'
    BY <2>2, OnlyNewsKeeps
  <2>4. UNCHANGED <<up, sent, tcp_sockets, packet_queue>>
    BY <1>5 DEF HandleUdp, HandleUdpDies, envVars
  <2>5. \A fd \in Open' : fd \in Open /\ tcp_sockets'[fd] \in Conns
    BY <2>4, OpenConn DEF Open
  <2>6. QED
    BY <2>3, <2>4, <2>5, StreamSame
<1>6. ASSUME NEW fd \in AllFds, HandleConnect(fd)
      PROVE  StreamInv'
  <2>1. PICK g \in Fds :
           /\ g \notin Open /\ Open' = Open \cup {g} /\ backlog[1] \in Conns
           /\ tcp_sockets'[g] = backlog[1] /\ packet_queue'[g] = <<>>
           /\ \A h \in Fds : h # g => tcp_sockets'[h] = tcp_sockets[h] /\ packet_queue'[h] = packet_queue[h]
    BY <1>6, AcceptEffect DEF HandleConnect
  <2>2. UNCHANGED <<up, down, sent>>
    BY <1>6 DEF HandleConnect, envVars
  <2>3. \A c \in Conns : /\ NoReply(c) => NoReply(c)'
                         /\ Authenticated(c) => Authenticated(c)'
    BY <2>2 DEF NoReply, Authenticated
  <2>4. \A h \in Open' : /\ tcp_sockets'[h] \in Conns
                         /\ \/ packet_queue'[h] = <<>>
                            \/ /\ h \in Open /\ tcp_sockets'[h] = tcp_sockets[h]
                               /\ packet_queue'[h] = packet_queue[h]
    BY <2>1, OpenConn
  <2>5. QED
    BY <2>2, <2>3, <2>4, StreamSame
<1>7. ASSUME NEW fd \in Fds, Auth(fd)
      PROVE  StreamInv'
  <2>1. Head(packet_queue[fd]).id \in Ids
    BY <1>7, ReceiveType, AuthPacketId DEF Auth
  <2>2. AuthReply(Head(packet_queue[fd]).id) \in Seq(Replies \cup News)
    BY <2>1, AuthReplyType
  <2>3. /\ \A c \in Conns : Grows(c)
        /\ \A c \in Conns : c # tcp_sockets[fd] => down'[c] = down[c]
    BY <1>7, <2>2, ReplyEffect DEF Auth
  <2>4. \A c \in Conns : /\ Authenticated(c) => Authenticated(c)'
                         /\ c # tcp_sockets[fd] => (NoReply(c) => NoReply(c)')
    BY <2>3, GrowsKeeps DEF NoReply
  <2>5. Receive(fd, "AUTH") /\ TakePacket(fd) /\ UNCHANGED <<up, tcp_sockets>>
    BY <1>7 DEF Auth
  <2>6. QED
    BY <2>4, <2>5, StreamTake DEF ConnsInv
<1>8. ASSUME NEW fd \in Fds, AuthDuplicate(fd)
      PROVE  StreamInv'
  <2>1. /\ fd \in Open /\ fd \in Fds /\ tcp_sockets[fd] \in Conns /\ sent[tcp_sockets[fd]] # 0
        /\ Open' = Open \ {fd}
        /\ \A g \in Open' : /\ g \in Fds /\ tcp_sockets'[g] = tcp_sockets[g]
                            /\ tcp_sockets[g] # tcp_sockets[fd]
                            /\ packet_queue'[g] = packet_queue[g]
        /\ up'[tcp_sockets[fd]] = <<>>
        /\ \A c \in Conns : c # tcp_sockets[fd] => up'[c] = up[c] /\ down'[c] = down[c]
        /\ \A c \in Conns : Grows(c)
    BY <1>8, DuplicateEffect DEF ConnsInv
  <2>2. sent' = sent
    BY <1>8 DEF AuthDuplicate, Receive, envVars
  <2>3. \A c \in Conns : /\ Authenticated(c) => Authenticated(c)'
                         /\ c # tcp_sockets[fd] => (NoReply(c) => NoReply(c)')
    BY <2>1, GrowsKeeps DEF NoReply
  <2>4. \A c \in Conns :
           /\ up'[c] = up[c] \/ up'[c] = <<>>
           /\ \/ NoReply(c) => NoReply(c)'
              \/ /\ up'[c] = <<>> /\ sent[c] # 0
                 /\ \A g \in Open' : tcp_sockets'[g] # c
    BY <2>1, <2>3
  <2>5. \A g \in Open' : tcp_sockets'[g] \in Conns /\ g \in Open
    BY <2>1, OpenConn
  <2>6. QED
    BY <2>1, <2>2, <2>3, <2>4, <2>5, StreamSame
<1>9. ASSUME NEW fd \in Fds, NEW type \in {"SUB", "SUB_SF", "UNSUB"}, Subscribe(fd, type)
      PROVE  StreamInv'
  <2>1. Receive(fd, type) /\ TakePacket(fd) /\ UNCHANGED <<up, tcp_sockets, down>>
    BY <1>9 DEF Subscribe
  <2>2. \A c \in Conns : /\ NoReply(c) => NoReply(c)'
                         /\ Authenticated(c) => Authenticated(c)'
    BY <2>1 DEF NoReply, Authenticated
  <2>3. QED
    BY <2>1, <2>2, StreamTake DEF ConnsInv
<1>10. ASSUME NEW fd \in Fds,
             HandleClose(fd) \/ HandleUdpGarbled(fd) \/ TcpNotReady(fd) \/ AuthDies(fd)
      PROVE  StreamInv'
  BY <1>1, <1>10 DEF HandleClose, HandleUdpGarbled, TcpNotReady, AuthDies, Receive, kernelVars, envVars
<1>11. CASE NoDescriptor \/ UNCHANGED vars
  BY <1>1, <1>11 DEF NoDescriptor, vars, kernelVars, socketVars, envVars
<1>12. QED
  BY <1>2, <1>3, <1>4, <1>5, <1>6, <1>7, <1>8, <1>9, <1>10, <1>11 DEF Next, Loop

\* Connections and streams are in order in every state.
LEMMA StreamsCorrect == Spec => [](ConnsInv /\ StreamInv)
<1>1. Init => ConnsInv /\ StreamInv
  BY ConnsInit, StreamInit
<1>2. TypeOK /\ TypeOK' /\ NoStrandedPacket /\ ConnsInv /\ StreamInv /\ [Next]_vars
        => (ConnsInv /\ StreamInv)'
  BY ConnsStep, StreamStep
<1>3. QED
  BY <1>1, <1>2, TypeCorrect, NoStrandedPacketCorrect, PTL DEF Spec

-----------------------------------------------------------------------------
(***************************************************************************)
(* Sessions.  The connection that an id is bound to has sent its           *)
(* authentication and was answered, so that its descriptor is never bound  *)
(* to another id before its SOCK_CLOSE entry is handled.                   *)
(***************************************************************************)
\* fd carries a connection of id that has authenticated and was answered, for good.
Serves(fd, id) ==
  /\ fd \in Open /\ IdOf[tcp_sockets[fd]] = id
  /\ down[tcp_sockets[fd]] # <<>> /\ sent[tcp_sockets[fd]] # 0
  /\ NoAuth(packet_queue[fd]) /\ NoAuth(up[tcp_sockets[fd]])

\* What stands for an id is its connection, or the entry of one that has ended.
BoundServed ==
  Running => \A fd \in Fds : ids_map[fd] # NoId /\ ids_map[fd] \notin missed =>
    sock_queue[fd] = "SOCK_CLOSE" \/ Serves(fd, ids_map[fd])

\* A connected id has a descriptor that stands for it.
ConnectedBound ==
  Running => \A id \in Ids : state[id] = "CONNECTED" /\ id \notin missed =>
    sockfd[id] \in Fds /\ ids_map[sockfd[id]] = id

\* The records of the sessions, of the ids whose entry was not lost.
SessionInv == BoundServed /\ ConnectedBound

\* A descriptor goes on serving an id while its connection stays.
LEMMA ServesKept ==
  ASSUME NEW g, NEW id, NEW c, Serves(g, id), tcp_sockets[g] = c,
         g \in Open', tcp_sockets'[g] = c, down'[c] # <<>>, sent'[c] # 0,
         NoAuth(packet_queue'[g]), NoAuth(up'[c])
  PROVE  Serves(g, id)'
  BY DEF Serves, NoAuth

\* An entry that get_next_fd() throws away makes its id one of missed.
LEMMA CloseEntryStays ==
  ASSUME TypeOK, NEW fd, Next_fd(fd), NEW g \in Fds, g # fd,
         sock_queue[g] = "SOCK_CLOSE", ids_map[g] # NoId, ids_map[g] \notin missed'
  PROVE  sock_queue'[g] = "SOCK_CLOSE"
<1>1. g \in AllFds /\ g \in Queued
  BY DEF AllFds, Queued
<1>2. ~(g < fd)
  <2>1. SUFFICES ASSUME g < fd
                 PROVE  FALSE
    OBVIOUS
  <2>2. g \in {h \in Skipped(fd) \cap Fds : sock_queue[h] = "SOCK_CLOSE"}
    BY <1>1, <2>1 DEF Skipped
  <2>3. QED
    BY <2>2 DEF Next_fd, MissedBy
<1>3. QED
  BY <1>1, <1>2 DEF Next_fd, QueueAfter

\* No lost entry is forgotten.
LEMMA MissedGrows ==
  ASSUME [Next]_vars
  PROVE  missed \subseteq missed'
<1>1. ASSUME NEW S, MissedBy(S)
      PROVE  missed \subseteq missed'
  BY <1>1 DEF MissedBy
<1>2. CASE Environment \/ UNCHANGED vars
  BY <1>2 DEF Environment, Connect, SendAuth, Command, Send, Leave, Reset, Datagram, TypeLine, historyVars, vars
<1>3. CASE Select \/ HandleStdin \/ HandleUdp \/ HandleUdpDies \/ NoDescriptor
  BY <1>1, <1>3 DEF Select, HandleStdin, HandleUdp, HandleUdpDies, NoDescriptor, Next_fd
<1>4. ASSUME NEW fd, \/ HandleConnect(fd) \/ HandleClose(fd) \/ HandleUdpGarbled(fd) \/ TcpNotReady(fd)
                     \/ Auth(fd) \/ AuthDuplicate(fd) \/ AuthDies(fd)
                     \/ \E type \in {"SUB", "SUB_SF", "UNSUB"} : Subscribe(fd, type)
      PROVE  missed \subseteq missed'
  BY <1>1, <1>4 DEF HandleConnect, HandleClose, HandleUdpGarbled, TcpNotReady, Auth, AuthDuplicate,
              AuthDies, Subscribe, Receive, HandleTcp, Next_fd
<1>5. QED
  BY <1>2, <1>3, <1>4 DEF Next, Loop

\* A step that writes none of the three records.
LEMMA SessionKept ==
  ASSUME SessionInv, Running' => Running, UNCHANGED <<ids_map, state, sockfd>>,
         missed \subseteq missed',
         Running' => \A g \in Fds : ids_map[g] # NoId /\ ids_map[g] \notin missed' =>
           /\ sock_queue[g] = "SOCK_CLOSE" => sock_queue'[g] = "SOCK_CLOSE"
           /\ Serves(g, ids_map[g]) => Serves(g, ids_map[g])' \/ sock_queue'[g] = "SOCK_CLOSE"
  PROVE  SessionInv'
<1>1. BoundServed'
  BY DEF SessionInv, BoundServed
<1>2. ConnectedBound'
  BY DEF SessionInv, ConnectedBound
<1>3. QED
  BY <1>1, <1>2 DEF SessionInv

\* An accepted authentication, for the id of the connection, on a descriptor that was free.
AcceptedOn(fd, c) ==
  /\ fd \in Fds /\ fd \in Open /\ tcp_sockets[fd] = c /\ Open' = Open /\ tcp_sockets' = tcp_sockets
  /\ IdOf[c] \in Ids /\ IdOf[c] # NoId /\ state[IdOf[c]] # "CONNECTED"
  /\ state' = [state EXCEPT ![IdOf[c]] = "CONNECTED"]
  /\ sockfd' = [sockfd EXCEPT ![IdOf[c]] = fd]
  /\ ids_map' = [ids_map EXCEPT ![fd] = IdOf[c]]
  /\ ids_map[fd] # NoId => ids_map[fd] \in missed
  /\ sock_queue[fd] # "SOCK_CLOSE"
  /\ NoReply(c) /\ ~Authenticated(c) /\ sent[c] # 0
  /\ down'[c] = down[c] \o AuthReply(IdOf[c]) /\ AuthReply(IdOf[c]) \in Seq(Replies \cup News)
  /\ \A d \in Conns : Grows(d) /\ (d # c => down'[d] = down[d])
  /\ NoAuth(packet_queue'[fd]) /\ NoAuth(up[c]) /\ up' = up /\ sent' = sent
  /\ \A g \in Fds : g # fd => packet_queue'[g] = packet_queue[g]
  /\ \A g \in Open : g # fd => tcp_sockets[g] # c

\* An authentication that is not refused accepts the connection of its packet.
LEMMA AuthEffect ==
  ASSUME TypeOK, ConnsInv, StreamInv, SessionInv, NEW fd, Auth(fd)
  PROVE  \E c \in Conns : AcceptedOn(fd, c)
<1>1. Receive(fd, "AUTH") /\ TakePacket(fd) /\ up' = up /\ tcp_sockets' = tcp_sockets /\ sent' = sent
  BY DEF Auth, Receive, envVars
<1>2. PICK c \in Conns : tcp_sockets[fd] = c
  BY <1>1, ReceiveType
<1>3. /\ fd \in Open /\ fd \in Fds
      /\ 1 \in 1..Len(packet_queue[fd]) /\ Head(packet_queue[fd]) = packet_queue[fd][1]
      /\ packet_queue[fd] # <<>>
      /\ \A g \in Fds : g # fd => packet_queue'[g] = packet_queue[g]
      /\ NoAuth(packet_queue'[fd]) /\ NoAuth(up[c]) /\ sent[c] # 0
  BY <1>1, <1>2, TakeEffect
<1>4. StreamOK(packet_queue[fd], c)
  BY <1>2, <1>3 DEF StreamInv, BufferStreams
<1>5. Head(packet_queue[fd]).type = "AUTH"
  BY <1>1 DEF Receive
<1>6. NoReply(c) /\ Head(packet_queue[fd]).id = IdOf[c]
  BY <1>3, <1>4, <1>5 DEF StreamOK
<1>7. ~Authenticated(c)
  <2>1. down[c] \in Seq(Replies \cup News)
    BY DownType
  <2>2. Authenticated(c) => 1 \in 1..Len(down[c]) /\ down[c][1].type = "AUTH"
    BY <2>1, FirstReply DEF Authenticated
  <2>3. QED
    BY <1>6, <2>2 DEF NoReply
<1>8. IdOf[c] \in Ids /\ IdOf[c] # NoId
  BY IdsAssumption
<1>9. /\ state[IdOf[c]] # "CONNECTED"
      /\ state' = [state EXCEPT ![IdOf[c]] = "CONNECTED"]
      /\ sockfd' = [sockfd EXCEPT ![IdOf[c]] = fd]
      /\ ids_map' = [ids_map EXCEPT ![fd] = IdOf[c]]
      /\ Reply(fd, AuthReply(IdOf[c]))
  BY <1>6 DEF Auth, InUse, SockfdAfterAuth
<1>10. AuthReply(IdOf[c]) \in Seq(Replies \cup News)
  BY <1>8, AuthReplyType
<1>11. /\ \A d \in Conns : Grows(d) /\ (d # c => down'[d] = down[d])
       /\ down'[c] = down[c] \o AuthReply(IdOf[c])
  BY <1>1, <1>2, <1>9, <1>10, ReplyEffect
<1>12. sock_queue[fd] # "SOCK_CLOSE" /\ Running
  BY <1>1 DEF Receive, HandleTcp, Next_fd
<1>13. ids_map[fd] # NoId => ids_map[fd] \in missed
  <2>1. ~NoAuth(packet_queue[fd])
    BY <1>3, <1>5 DEF NoAuth
  <2>2. QED
    BY <1>3, <1>12, <2>1 DEF SessionInv, BoundServed, Serves
<1>14. \A g \in Open : g # fd => tcp_sockets[g] # c
  BY <1>2, <1>3 DEF ConnsInv, OneFd
<1>15. Open' = Open
  BY <1>1 DEF Open
<1>16. QED
  BY <1>1, <1>2, <1>3, <1>6, <1>7, <1>8, <1>9, <1>10, <1>11, <1>12, <1>13, <1>14, <1>15 DEF AcceptedOn

\* What was sent is not taken back.
LEMMA StaysAnswered ==
  ASSUME TypeOK, TypeOK', NEW c \in Conns, Grows(c), down[c] # <<>>
  PROVE  down'[c] # <<>>
<1>1. Len(down[c]) \in Nat /\ Len(down'[c]) \in Nat
  BY DownType DEF TypeOK, OtherTypeOK
<1>2. Len(down[c]) > 0
  BY <1>1, DownType, EmptySeq
<1>3. down'[c] = <<>> => Len(down'[c]) = 0
  OBVIOUS
<1>4. QED
  BY <1>1, <1>2, <1>3 DEF Grows

\* A connection that an accepted authentication was answered on has been sent something.
LEMMA AuthAnswers ==
  ASSUME TypeOK, NEW c \in Conns, NEW id \in Ids, down'[c] = down[c] \o AuthReply(id)
  PROVE  /\ down'[c] # <<>> /\ Len(AuthReply(id)) = Len(subs_queue[id]) + 1
         /\ AuthReply(id)[1] = [type |-> "AUTH"]
         /\ \A i \in 2..Len(AuthReply(id)) :
              i - 1 \in 1..Len(subs_queue[id]) /\ AuthReply(id)[i] = subs_queue[id][i - 1]
<1> DEFINE q == subs_queue[id]
           r == <<[type |-> "AUTH"]>>
<1>1. q \in Seq(News) /\ Len(q) \in Nat
  BY LenProperties DEF TypeOK, TableTypeOK
<1>2. q \in Seq(Replies \cup News) /\ r \in Seq(Replies \cup News) /\ Len(r) = 1 /\ r[1] = [type |-> "AUTH"]
  BY <1>1, SeqMonotonic DEF Replies
<1>3. AuthReply(id) = r \o q
  BY DEF AuthReply
<1> HIDE DEF q, r
<1>4. /\ Len(r \o q) = 1 + Len(q)
      /\ \A i \in 1..(1 + Len(q)) : (r \o q)[i] = IF i <= 1 THEN r[i] ELSE q[i - 1]
  <2>1. q \in Seq(Replies \cup News) /\ r \in Seq(Replies \cup News)
    BY <1>2
  <2>2. /\ Len(r \o q) = Len(r) + Len(q)
        /\ \A i \in 1..(Len(r) + Len(q)) : (r \o q)[i] = IF i <= Len(r) THEN r[i] ELSE q[i - Len(r)]
    BY <2>1, ConcatProperties
  <2>3. Len(r) = 1
    BY <1>2
  <2>4. QED
    BY <2>2, <2>3
<1>5. \A i \in 2..Len(r \o q) : i - 1 \in 1..Len(q) /\ (r \o q)[i] = q[i - 1]
  BY <1>1, <1>4
<1>6. (r \o q)[1] = [type |-> "AUTH"]
  <2>1. 1 \in 1..(1 + Len(q))
    BY <1>1
  <2>2. QED
    BY <1>2, <1>4, <2>1
<1>7. down'[c] # <<>>
  <2>1. AuthReply(id) \in Seq(Replies \cup News)
    BY AuthReplyType
  <2>2. Len(down'[c]) = Len(down[c]) + Len(AuthReply(id)) /\ Len(down[c]) \in Nat
    BY <2>1, AppendedAreSent, DownType
  <2>3. Len(AuthReply(id)) = 1 + Len(q)
    BY <1>3, <1>4
  <2>4. Len(down'[c]) > 0
    <3>1. \A i, j \in Nat : i + (1 + j) > 0
      OBVIOUS
    <3>2. Len(down'[c]) = Len(down[c]) + (1 + Len(q)) /\ Len(down[c]) \in Nat /\ Len(q) \in Nat
      BY <1>1, <2>2, <2>3
    <3>3. QED
      BY <3>1, <3>2
  <2>5. down'[c] = <<>> => Len(down'[c]) = 0
    OBVIOUS
  <2>6. QED
    BY <2>4, <2>5
<1>8. QED
  BY <1>1, <1>3, <1>4, <1>5, <1>6, <1>7 DEF q

\* The invariant of sessions holds initially ...
LEMMA SessionInit == Init => SessionInv
  BY DEF Init, SessionInv, BoundServed, ConnectedBound

\* A new session: its descriptor was bound to nobody, or to an id whose entry was lost.
LEMMA SessionAuth ==
  ASSUME TypeOK, TypeOK', ConnsInv, StreamInv, SessionInv, NEW fd, Auth(fd)
  PROVE  SessionInv'
<1>0. PICK c \in Conns : AcceptedOn(fd, c)
  BY AuthEffect
<1>1. /\ fd \in Fds /\ fd \in Open /\ tcp_sockets[fd] = c /\ Open' = Open /\ tcp_sockets' = tcp_sockets
      /\ IdOf[c] \in Ids /\ IdOf[c] # NoId
      /\ state' = [state EXCEPT ![IdOf[c]] = "CONNECTED"]
      /\ sockfd' = [sockfd EXCEPT ![IdOf[c]] = fd]
      /\ ids_map' = [ids_map EXCEPT ![fd] = IdOf[c]]
      /\ ids_map[fd] # NoId => ids_map[fd] \in missed
      /\ sent[c] # 0 /\ down'[c] = down[c] \o AuthReply(IdOf[c])
      /\ \A d \in Conns : Grows(d)
      /\ NoAuth(packet_queue'[fd]) /\ NoAuth(up[c]) /\ up' = up /\ sent' = sent
      /\ \A g \in Fds : g # fd => packet_queue'[g] = packet_queue[g]
  BY <1>0 DEF AcceptedOn
<1> DEFINE id == IdOf[c]
<1>2. /\ \A g \in Fds : ids_map'[g] = IF g = fd THEN id ELSE ids_map[g]
      /\ \A i \in Ids : /\ state'[i] = IF i = id THEN "CONNECTED" ELSE state[i]
                        /\ sockfd'[i] = IF i = id THEN fd ELSE sockfd[i]
  BY <1>1 DEF TypeOK, TableTypeOK
<1>3. Next_fd(fd) /\ Running
  BY DEF Auth, Receive, HandleTcp, Next_fd
<1>4. missed \subseteq missed'
  BY <1>3 DEF Next_fd, MissedBy
<1>5. BoundServed'
  <2> SUFFICES ASSUME NEW g \in Fds, ids_map'[g] # NoId, ids_map'[g] \notin missed'
               PROVE  sock_queue'[g] = "SOCK_CLOSE" \/ Serves(g, ids_map[g])'
    BY DEF BoundServed
  <2>1. CASE g = fd
    <3>1. down'[c] # <<>>
      BY <1>1, AuthAnswers
    <3>2. QED
      BY <1>1, <1>2, <2>1, <3>1 DEF Serves, NoAuth
  <2>2. CASE g # fd
    <3>1. ids_map[g] # NoId /\ ids_map[g] \notin missed /\ ids_map'[g] = ids_map[g] /\ ids_map[g] \notin missed'
      BY <1>2, <1>4, <2>2
    <3>2. CASE sock_queue[g] = "SOCK_CLOSE"
      BY <1>3, <2>2, <3>1, <3>2, CloseEntryStays
    <3>3. CASE Serves(g, ids_map[g])
      <4>1. PICK d \in Conns : /\ tcp_sockets[g] = d /\ g \in Open /\ down[d] # <<>> /\ sent[d] # 0
                               /\ NoAuth(packet_queue[g]) /\ NoAuth(up[d])
        BY <3>3, OpenConn DEF Serves
      <4>2. down'[d] # <<>>
        BY <1>1, <4>1, StaysAnswered
      <4>3. QED
        BY <1>1, <2>2, <3>1, <3>3, <4>1, <4>2 DEF Serves, NoAuth
    <3>4. QED
      BY <1>3, <3>1, <3>2, <3>3 DEF SessionInv, BoundServed
  <2>3. QED
    BY <2>1, <2>2
<1>6. ConnectedBound'
  <2> SUFFICES ASSUME NEW i \in Ids, state'[i] = "CONNECTED", i \notin missed'
               PROVE  sockfd'[i] \in Fds /\ ids_map'[sockfd'[i]] = i
    BY DEF ConnectedBound
  <2>1. CASE i = id
    BY <1>1, <1>2, <2>1
  <2>2. CASE i # id
    <3>1. /\ sockfd'[i] = sockfd[i] /\ sockfd[i] \in Fds /\ ids_map[sockfd[i]] = i /\ i \notin missed
      BY <1>2, <1>3, <1>4, <2>2 DEF SessionInv, ConnectedBound
    <3>2. i # NoId
      BY IdsAssumption
    <3>3. sockfd[i] # fd
      BY <1>1, <3>1, <3>2
    <3>4. QED
      BY <1>2, <3>1, <3>3
  <2>3. QED
    BY <2>1, <2>2
<1>7. QED
  BY <1>5, <1>6 DEF SessionInv

\* The end of a session frees its id and its descriptor, and no other.
LEMMA SessionClose ==
  ASSUME TypeOK, SessionInv, NEW fd \in Fds, HandleClose(fd)
  PROVE  SessionInv'
<1> DEFINE id == IF ids_map[fd] = NoId THEN EmptyId ELSE ids_map[fd]
<1>1. /\ state' = [state EXCEPT ![id] = "DISCONNECTED"]
      /\ ids_map' = [ids_map EXCEPT ![fd] = NoId]
      /\ UNCHANGED <<sockfd, up, tcp_sockets, packet_queue, down, sent>>
      /\ Next_fd(fd) /\ Running
  BY DEF HandleClose, IdsAfterClose, kernelVars, envVars, Next_fd
<1>2. id \in Ids /\ NoId \notin Ids
  BY IdsAssumption DEF TypeOK, TableTypeOK
<1>3. /\ \A g \in Fds : ids_map'[g] = IF g = fd THEN NoId ELSE ids_map[g]
      /\ \A i \in Ids : state'[i] = IF i = id THEN "DISCONNECTED" ELSE state[i]
  BY <1>1 DEF TypeOK, TableTypeOK
<1>4. missed \subseteq missed'
  BY <1>1 DEF Next_fd, MissedBy
<1>5. BoundServed'
  <2> SUFFICES ASSUME NEW g \in Fds, ids_map'[g] # NoId, ids_map'[g] \notin missed'
               PROVE  sock_queue'[g] = "SOCK_CLOSE" \/ Serves(g, ids_map[g])'
    BY DEF BoundServed
  <2>1. g # fd /\ ids_map'[g] = ids_map[g] /\ ids_map[g] # NoId /\ ids_map[g] \notin missed
    BY <1>3, <1>4
  <2>2. CASE sock_queue[g] = "SOCK_CLOSE"
    BY <1>1, <2>1, <2>2, CloseEntryStays
  <2>3. CASE Serves(g, ids_map[g])
    BY <1>1, <2>1, <2>3 DEF Serves, NoAuth, Open
  <2>4. QED
    BY <1>1, <2>1, <2>2, <2>3 DEF SessionInv, BoundServed
<1>6. ConnectedBound'
  <2> SUFFICES ASSUME NEW i \in Ids, state'[i] = "CONNECTED", i \notin missed'
               PROVE  sockfd[i] \in Fds /\ ids_map'[sockfd[i]] = i
    BY <1>1 DEF ConnectedBound
  <2>1. i # id /\ state[i] = "CONNECTED"
    BY <1>3
  <2>2. sockfd[i] \in Fds /\ ids_map[sockfd[i]] = i
    BY <1>1, <1>4, <2>1 DEF SessionInv, ConnectedBound
  <2>3. sockfd[i] # fd
    BY <1>2, <2>1, <2>2
  <2>4. QED
    BY <1>3, <2>2, <2>3
<1>7. QED
  BY <1>5, <1>6 DEF SessionInv

\* A connection that ends is served no more, and its entry says so.
LEMMA SessionSelect ==
  ASSUME TypeOK, NoStrandedPacket, ConnsInv, StreamInv, SessionInv, Select
  PROVE  SessionInv'
<1>1. /\ Open' \subseteq Open /\ \A fd \in Open' : tcp_sockets'[fd] = tcp_sockets[fd]
      /\ \A fd \in Fds : packet_queue[fd] = <<>>
      /\ \A fd \in Open' :
           \E k \in 0..Len(up[tcp_sockets[fd]]) :
             /\ packet_queue'[fd] = SubSeq(up[tcp_sockets[fd]], 1, k)
             /\ up'[tcp_sockets[fd]] = SubSeq(up[tcp_sockets[fd]], k + 1, Len(up[tcp_sockets[fd]]))
      /\ \A fd \in Open \ Open' : sock_queue'[fd] = "SOCK_CLOSE"
  BY SelectEffect DEF ConnsInv
<1>2. UNCHANGED <<sent, down, ids_map, state, sockfd>> /\ Running
  BY DEF Select, envVars, tableVars, Running
<1>3. missed \subseteq missed' /\ MissedBy(Queued)
  BY DEF Select, MissedBy
<1>4. ASSUME NEW g \in Fds, ids_map[g] # NoId, ids_map[g] \notin missed', sock_queue[g] = "SOCK_CLOSE"
      PROVE  FALSE
  <2>1. g \in {h \in Queued \cap Fds : sock_queue[h] = "SOCK_CLOSE"}
    BY <1>4 DEF Queued, AllFds
  <2>2. QED
    BY <1>3, <1>4, <2>1 DEF MissedBy
<1>5. ASSUME NEW g \in Fds, NEW id, Serves(g, id)
      PROVE  Serves(g, id)' \/ sock_queue'[g] = "SOCK_CLOSE"
  <2>1. CASE g \notin Open'
    BY <1>1, <1>5, <2>1 DEF Serves
  <2>2. CASE g \in Open'
    <3>1. PICK c \in Conns : /\ tcp_sockets[g] = c /\ tcp_sockets'[g] = c /\ down[c] # <<>> /\ sent[c] # 0
                             /\ NoAuth(up[c])
      BY <1>1, <1>5, <2>2, OpenConn DEF Serves
    <3>2. PICK k \in 0..Len(up[c]) : /\ packet_queue'[g] = SubSeq(up[c], 1, k)
                                     /\ up'[c] = SubSeq(up[c], k + 1, Len(up[c]))
      BY <1>1, <2>2, <3>1
    <3>3. up[c] \in Seq(Packets) /\ Len(up[c]) \in Nat
      BY LenProperties DEF TypeOK, KernelTypeOK
    <3>4. /\ Len(packet_queue'[g]) = k /\ \A i \in 1..k : packet_queue'[g][i] = up[c][i]
          /\ Len(up'[c]) = Len(up[c]) - k
          /\ \A i \in 1..(Len(up[c]) - k) : k + i \in 1..Len(up[c]) /\ up'[c][i] = up[c][k + i]
      BY <3>2, <3>3, CutElements
    <3>5. \A i \in 1..k : i \in 1..Len(up[c])
      BY <3>3
    <3>6. NoAuth(packet_queue'[g]) /\ NoAuth(up'[c])
      <4>1. \A i \in 1..Len(up[c]) : up[c][i].type # "AUTH"
        BY <3>1 DEF NoAuth
      <4>2. NoAuth(packet_queue'[g])
        BY <3>4, <3>5, <4>1 DEF NoAuth
      <4>3. NoAuth(up'[c])
        BY <3>4, <4>1 DEF NoAuth
      <4>4. QED
        BY <4>2, <4>3
    <3>7. QED
      BY <1>2, <1>5, <2>2, <3>1, <3>6, ServesKept
  <2>3. QED
    BY <2>1, <2>2
<1>6. QED
  BY <1>2, <1>3, <1>4, <1>5, SessionKept

\* Steps that leave connections and streams as they are, and what they send is news.
LEMMA SessionOnlyNews ==
  ASSUME TypeOK, TypeOK', SessionInv, UNCHANGED <<ids_map, state, sockfd>>, missed \subseteq missed',
         NEW fd, Next_fd(fd), fd \in Fds => sock_queue[fd] # "SOCK_CLOSE",
         UNCHANGED <<up, sent, tcp_sockets>>,
         \A c \in Conns : Grows(c),
         \A g \in Fds : NoAuth(packet_queue[g]) => NoAuth(packet_queue'[g])
  PROVE  SessionInv'
<1>1. Running
  BY DEF Next_fd
<1>2. \A g \in Fds : ids_map[g] # NoId /\ ids_map[g] \notin missed' /\ sock_queue[g] = "SOCK_CLOSE"
                       => sock_queue'[g] = "SOCK_CLOSE"
  BY CloseEntryStays
<1>3. ASSUME NEW g \in Fds, NEW id, Serves(g, id)
      PROVE  Serves(g, id)'
  <2>1. PICK c \in Conns : /\ tcp_sockets[g] = c /\ g \in Open /\ down[c] # <<>> /\ sent[c] # 0
                           /\ NoAuth(packet_queue[g]) /\ NoAuth(up[c])
    BY <1>3, OpenConn DEF Serves
  <2>2. down'[c] # <<>>
    BY <2>1, StaysAnswered
  <2>3. g \in Open' /\ tcp_sockets'[g] = c /\ sent'[c] # 0
    BY <2>1 DEF Open
  <2>4. NoAuth(packet_queue'[g]) /\ NoAuth(up'[c])
    BY <2>1
  <2>5. QED
    BY <1>3, <2>1, <2>2, <2>3, <2>4, ServesKept
<1>4. QED
  BY <1>1, <1>2, <1>3, SessionKept

\* A packet that is sent is the first, an authentication, or comes after one.
LEMMA SessionSend ==
  ASSUME TypeOK, SessionInv, NEW c \in Conns, NEW packet \in Packets, Send(c, packet), Running,
         packet.type = "AUTH" => sent[c] = 0, UNCHANGED missed
  PROVE  SessionInv'
<1>1. /\ up' = [up EXCEPT ![c] = Append(up[c], packet)]
      /\ sent' = [sent EXCEPT ![c] = sent[c] + 1]
      /\ UNCHANGED <<down, tcp_sockets, packet_queue, sock_queue, ids_map, state, sockfd>> /\ Open' = Open
  BY DEF Send, socketVars, tableVars, Open
<1>2. /\ up \in [Conns -> Seq(Packets)] /\ sent \in [Conns -> 0..MaxSent]
      /\ up[c] \in Seq(Packets) /\ Len(up[c]) \in Nat
  BY LenProperties DEF TypeOK, KernelTypeOK, OtherTypeOK
<1>3. /\ Len(up'[c]) = Len(up[c]) + 1 /\ up'[c][Len(up[c]) + 1] = packet
      /\ \A i \in 1..Len(up[c]) : up'[c][i] = up[c][i]
  BY <1>1, <1>2, AppendProperties
<1>4. sent'[c] # 0 /\ \A d \in Conns : d # c => up'[d] = up[d] /\ sent'[d] = sent[d]
  BY <1>1, <1>2, BoundAssumption
<1>5. ASSUME NEW g \in Fds, NEW id, Serves(g, id)
      PROVE  Serves(g, id)'
  <2>1. PICK d \in Conns : /\ tcp_sockets[g] = d /\ g \in Open /\ down[d] # <<>> /\ sent[d] # 0
                           /\ NoAuth(packet_queue[g]) /\ NoAuth(up[d])
    BY <1>5, OpenConn DEF Serves
  <2>2. NoAuth(up'[d]) /\ sent'[d] # 0
    <3>1. CASE d = c
      <4>1. packet.type # "AUTH"
        BY <2>1, <3>1
      <4>2. \A i \in 1..Len(up'[c]) : i \in 1..Len(up[c]) \/ i = Len(up[c]) + 1
        BY <1>2, <1>3
      <4>3. QED
        BY <1>3, <1>4, <2>1, <3>1, <4>1, <4>2 DEF NoAuth
    <3>2. CASE d # c
      BY <1>4, <2>1, <3>2
    <3>3. QED
      BY <3>1, <3>2
  <2>3. g \in Open' /\ tcp_sockets'[g] = d /\ down'[d] # <<>> /\ NoAuth(packet_queue'[g])
    BY <1>1, <2>1
  <2>4. QED
    BY <1>5, <2>1, <2>2, <2>3, ServesKept
<1>6. QED
  BY <1>1, <1>5, SessionKept

\* ... and a session without authentications behind its own stays so.
LEMMA SessionReset ==
  ASSUME TypeOK, SessionInv, NEW c \in Conns, Reset(c), Running' => Running
  PROVE  SessionInv'
<1>1. UNCHANGED <<down, sent, tcp_sockets, packet_queue, sock_queue, ids_map, state, sockfd, missed>>
  BY ResetEffect
<1>2. \A d \in Conns : Shrinks(d)
  BY ResetEffect
<1>3. ASSUME NEW g \in Fds, NEW id, Serves(g, id)
      PROVE  Serves(g, id)'
  <2>1. PICK d \in Conns : /\ tcp_sockets[g] = d /\ g \in Open /\ down[d] # <<>> /\ sent[d] # 0
                           /\ NoAuth(packet_queue[g]) /\ NoAuth(up[d])
    BY <1>3, OpenConn DEF Serves
  <2>2. NoAuth(up'[d])
    BY <1>2, <2>1 DEF Shrinks, NoAuth
  <2>3. /\ g \in Open' /\ tcp_sockets'[g] = d /\ down'[d] # <<>> /\ sent'[d] # 0
        /\ NoAuth(packet_queue'[g])
    BY <1>1, <2>1 DEF Open
  <2>4. QED
    BY <1>3, <2>1, <2>2, <2>3, ServesKept
<1>4. QED
  BY <1>1, <1>3, SessionKept

\* ... and every step keeps it.
LEMMA SessionStep ==
  ASSUME TypeOK, TypeOK', NoStrandedPacket, ConnsInv, StreamInv, SessionInv, [Next]_vars
  PROVE  SessionInv'
<1>0. (Running' => Running) /\ missed \subseteq missed'
  BY RunningStep, MissedGrows
<1>1. CASE UNCHANGED <<ids_map, state, sockfd, tcp_sockets, packet_queue, sock_queue, up, down, sent>>
  <2>1. \A g \in Fds : Serves(g, ids_map[g]) => Serves(g, ids_map[g])'
    BY <1>1 DEF Serves, Open, NoAuth
  <2>2. QED
    BY <1>0, <1>1, <2>1, SessionKept
<1>2. CASE ~Running'
  BY <1>2 DEF SessionInv, BoundServed, ConnectedBound
<1>3. CASE Environment
  <2>1. ASSUME NEW c \in Conns, SendAuth(c)
        PROVE  SessionInv'
    <3>1. [type |-> "AUTH", id |-> IdOf[c]] \in Packets
      BY IdsAssumption DEF Packets, AuthPackets
    <3>2. QED
      BY <2>1, <3>1, SessionSend DEF SendAuth, Send
  <2>2. ASSUME NEW c \in Conns, NEW type \in Commands, NEW t \in Topics, Command(c, type, t)
        PROVE  SessionInv'
    <3>1. type \in {"SUB", "SUB_SF", "UNSUB"}
      BY InputsAssumption
    <3>2. [type |-> type, topic |-> t] \in Packets
      BY <3>1 DEF Packets, CommandPackets
    <3>3. QED
      BY <2>2, <3>1, <3>2, SessionSend DEF Command, Send
  <2>3. QED
    BY <1>0, <1>1, <1>3, <2>1, <2>2, SessionReset DEF Environment, Connect, Leave, Datagram, TypeLine,
                                                socketVars, tableVars, envVars
<1>4. CASE Select
  BY <1>4, SessionSelect
<1>5. CASE HandleStdin
  <2>1. CASE pc' = "exited"
    BY <1>2, <2>1 DEF Running
  <2>2. CASE UNCHANGED <<up, tcp_sockets, packet_queue>>
    <3>1. /\ Next_fd(Stdin) /\ Stdin \notin Fds
          /\ UNCHANGED <<ids_map, state, sockfd, down, sent>>
      BY <1>5, FdsAssumption DEF HandleStdin, tableVars, envVars, Stdin, Listen
    <3>2. \A c \in Conns : Grows(c)
      BY <3>1, DownType DEF Grows
    <3>3. QED
      BY <1>0, <2>2, <3>1, <3>2, SessionOnlyNews
  <2>3. QED
    BY <1>5, <2>1, <2>2 DEF HandleStdin
<1>6. CASE HandleUdp
  <2>1. udp \in Seq(News) /\ udp # <<>>
    BY <1>6 DEF HandleUdp, TypeOK, KernelTypeOK
  <2>2. Head(udp) \in News
    BY <2>1
  <2>3. \E S \in SUBSET Ids : Forward(Head(udp), S)
    BY <1>6 DEF HandleUdp, Online, Subscribed
  <2>4. \A c \in Conns : Grows(c)
    BY <2>2, <2>3, ForwardEffect DEF OnlyNews
  <2>5. /\ Next_fd(Udp) /\ Udp \notin Fds
        /\ UNCHANGED <<ids_map, state, sockfd, up, sent, tcp_sockets, packet_queue>>
    BY <1>6, FdsAssumption DEF HandleUdp, envVars, Udp, Listen
  <2>6. QED
    BY <1>0, <2>4, <2>5, SessionOnlyNews
<1>7. ASSUME NEW fd \in AllFds, HandleConnect(fd)
      PROVE  SessionInv'
  <2>1. PICK f \in Fds :
           /\ f \notin Open /\ Open' = Open \cup {f}
           /\ \A h \in Fds : h # f => tcp_sockets'[h] = tcp_sockets[h] /\ packet_queue'[h] = packet_queue[h]
    BY <1>7, AcceptEffect DEF HandleConnect
  <2>2. UNCHANGED <<up, down, sent, ids_map, state, sockfd>> /\ Next_fd(fd) /\ sock_queue[fd] = "SOCK_CONNECT"
    BY <1>7 DEF HandleConnect, envVars, tableVars
  <2>3. \A g \in Fds : ids_map[g] # NoId /\ ids_map[g] \notin missed' /\ sock_queue[g] = "SOCK_CLOSE"
                       => sock_queue'[g] = "SOCK_CLOSE"
    BY <2>2, CloseEntryStays
  <2>4. ASSUME NEW g \in Fds, NEW id, Serves(g, id)
        PROVE  Serves(g, id)'
    BY <2>1, <2>2, <2>4 DEF Serves, NoAuth
  <2>5. QED
    BY <1>0, <2>2, <2>3, <2>4, SessionKept DEF Next_fd
<1>8. ASSUME NEW fd \in Fds, Auth(fd)
      PROVE  SessionInv'
  BY <1>8, SessionAuth
<1>9. ASSUME NEW fd \in Fds, AuthDuplicate(fd)
      PROVE  SessionInv'
  <2>1. PICK c \in Conns : c = tcp_sockets[fd]
    BY <1>9, DuplicateEffect DEF ConnsInv
  <2>2. /\ fd \in Open /\ fd \in Fds
        /\ Open' = Open \ {fd}
        /\ \A g \in Open' : /\ g \in Fds /\ tcp_sockets'[g] = tcp_sockets[g]
                            /\ tcp_sockets[g] # c
                            /\ packet_queue'[g] = packet_queue[g]
        /\ \A d \in Conns : d # c => up'[d] = up[d] /\ down'[d] = down[d]
    BY <1>9, <2>1, DuplicateEffect DEF ConnsInv
  <2>3. /\ Next_fd(fd) /\ Running /\ sock_queue[fd] # "SOCK_CLOSE"
        /\ UNCHANGED <<sent, ids_map, state, sockfd>>
        /\ PacketReady(fd) /\ Head(packet_queue[fd]).type = "AUTH"
    BY <1>9 DEF AuthDuplicate, Receive, HandleTcp, Next_fd, envVars, tableVars
  <2>4. ~NoAuth(packet_queue[fd])
    <3>1. packet_queue[fd] \in Seq(Packets) /\ packet_queue[fd] # <<>>
      BY <2>3 DEF PacketReady, TypeOK, SocketTypeOK
    <3>2. 1 \in 1..Len(packet_queue[fd]) /\ Head(packet_queue[fd]) = packet_queue[fd][1]
      BY <3>1, HeadTailProperties, EmptySeq, LenProperties
    <3>3. QED
      BY <2>3, <3>2 DEF NoAuth
  <2>5. ASSUME NEW g \in Fds, NEW id, Serves(g, id)
        PROVE  Serves(g, id)'
    <3>1. g \in Open /\ g # fd
      BY <2>4, <2>5 DEF Serves
    <3>2. PICK d \in Conns : tcp_sockets[g] = d /\ d # c
      BY <2>2, <3>1, OpenConn
    <3>3. QED
      BY <2>2, <2>3, <2>5, <3>1, <3>2 DEF Serves, NoAuth
  <2>6. \A g \in Fds : ids_map[g] # NoId /\ ids_map[g] \notin missed' /\ sock_queue[g] = "SOCK_CLOSE"
                       => sock_queue'[g] = "SOCK_CLOSE"
    BY <2>3, CloseEntryStays
  <2>7. QED
    BY <1>0, <2>3, <2>5, <2>6, SessionKept
<1>10. ASSUME NEW fd \in Fds, NEW type \in {"SUB", "SUB_SF", "UNSUB"}, Subscribe(fd, type)
      PROVE  SessionInv'
  <2>1. /\ Receive(fd, type) /\ TakePacket(fd) /\ UNCHANGED <<up, tcp_sockets, down, state, sockfd, ids_map>>
        /\ Next_fd(fd) /\ sock_queue[fd] # "SOCK_CLOSE" /\ sent' = sent
    BY <1>10 DEF Subscribe, Receive, HandleTcp, envVars
  <2>2. \A c \in Conns : Grows(c)
    BY <2>1, DownType DEF Grows
  <2>3. NoAuth(packet_queue'[fd]) /\ \A g \in Fds : g # fd => packet_queue'[g] = packet_queue[g]
    BY <2>1, TakeEffect
  <2>4. \A g \in Fds : NoAuth(packet_queue[g]) => NoAuth(packet_queue'[g])
    BY <2>3
  <2>5. QED
    BY <1>0, <2>1, <2>2, <2>4, SessionOnlyNews
<1>11. ASSUME NEW fd \in Fds, TcpNotReady(fd)
       PROVE  SessionInv'
  <2>1. /\ UNCHANGED <<up, tcp_sockets, packet_queue, down, sent, state, sockfd, ids_map>>
        /\ Next_fd(fd) /\ sock_queue[fd] # "SOCK_CLOSE"
    BY <1>11 DEF TcpNotReady, HandleTcp, kernelVars, envVars, tableVars
  <2>2. \A c \in Conns : Grows(c)
    BY <2>1, DownType DEF Grows
  <2>3. QED
    BY <1>0, <2>1, <2>2, SessionOnlyNews
<1>12. ASSUME NEW fd \in Fds, HandleClose(fd)
       PROVE  SessionInv'
  BY <1>12, SessionClose
<1>13. ASSUME NEW fd, HandleUdpGarbled(fd) \/ AuthDies(fd) \/ HandleUdpDies \/ NoDescriptor
       PROVE  SessionInv'
  BY <1>2, <1>13 DEF HandleUdpGarbled, AuthDies, HandleUdpDies, NoDescriptor, Running
<1>14. CASE UNCHANGED vars
  BY <1>1, <1>14 DEF vars, kernelVars, socketVars, tableVars, envVars
<1>15. QED
  BY <1>3, <1>4, <1>5, <1>6, <1>7, <1>8, <1>9, <1>10, <1>11, <1>12, <1>13, <1>14 DEF Next, Loop

\* Connections, streams and sessions are in order in every state.
LEMMA SessionsCorrect == Spec => [](ConnsInv /\ StreamInv /\ SessionInv)
<1>1. Init => SessionInv
  BY SessionInit
<1>2. TypeOK /\ TypeOK' /\ NoStrandedPacket /\ ConnsInv /\ StreamInv /\ SessionInv /\ [Next]_vars
        => SessionInv'
  BY SessionStep
<1>3. QED
  BY <1>1, <1>2, TypeCorrect, NoStrandedPacketCorrect, StreamsCorrect, PTL DEF Spec

\* News for a connected id never go to another id's connection, whatever descriptors the kernel
\* gives out again: an id whose SOCK_CLOSE entry was not lost has its own connection behind
\* sockfd, or the entry of that connection still waits in the queue.
THEOREM SessionLiveCorrect == Spec => []SessionLive
<1>1. SessionInv => SessionLive
  <2> SUFFICES ASSUME SessionInv, Running, NEW id \in Ids, id \notin missed, state[id] = "CONNECTED"
               PROVE  /\ ids_map[sockfd[id]] = id
                      /\ \/ sock_queue[sockfd[id]] = "SOCK_CLOSE"
                         \/ sockfd[id] \in Open /\ IdOf[tcp_sockets[sockfd[id]]] = id
    BY DEF SessionLive
  <2>1. sockfd[id] \in Fds /\ ids_map[sockfd[id]] = id
    BY DEF SessionInv, ConnectedBound
  <2>2. id # NoId
    BY IdsAssumption
  <2>3. QED
    BY <2>1, <2>2 DEF SessionInv, BoundServed, Serves
<1>2. QED
  BY <1>1, SessionsCorrect, PTL

\* What the run send_to_closed refutes, that the server never sends to a connection it has already
\* forgotten (OnlineHasSocket), is due to the ends of connections that wait in the batch, or to a lost
\* one: with neither, each subscriber online has its descriptor, also with partial reads.
THEOREM OnlyEndedConnectionsKill ==
  Spec => [](missed = {} /\ (\A fd \in Fds : sock_queue[fd] # "SOCK_CLOSE") => OnlineHasSocket)
<1> DEFINE NoneEnded == missed = {} /\ \A fd \in Fds : sock_queue[fd] # "SOCK_CLOSE"
<1>1. TypeOK /\ SessionInv /\ SessionLive /\ NoneEnded => OnlineHasSocket
  <2> SUFFICES ASSUME TypeOK, SessionInv, SessionLive, NoneEnded, Running,
                      NEW id \in Online(Head(udp).topic)
               PROVE  sockfd[id] \in Open
    BY DEF OnlineHasSocket, SendFails
  <2>1. id \in Ids /\ id \notin missed /\ state[id] # "DISCONNECTED"
    BY DEF Online, Subscribed
  <2>2. state[id] = "CONNECTED"
    BY <2>1 DEF TypeOK, TableTypeOK
  <2>3. sockfd[id] \in Fds
    BY <2>1, <2>2 DEF SessionInv, ConnectedBound
  <2>4. QED
    BY <2>1, <2>2, <2>3 DEF SessionLive
<1> HIDE DEF NoneEnded
<1>2. Spec => [](NoneEnded => OnlineHasSocket)
  BY <1>1, TypeCorrect, SessionsCorrect, SessionLiveCorrect, PTL
<1>3. QED
  BY <1>2 DEF NoneEnded

\* A refused id is connected, so that a descriptor is bound to it that serves it or has ended.
LEMMA Declines ==
  ASSUME TypeOK, ConnsInv, StreamInv, SessionInv, NEW fd, AuthDuplicate(fd),
         NEW c \in Conns, tcp_sockets[fd] = c, down[c] = <<>>, IdOf[c] \notin missed
  PROVE  \E g \in Fds : /\ ids_map[g] = IdOf[c]
                        /\ \/ sock_queue[g] = "SOCK_CLOSE"
                           \/ g \in Open /\ tcp_sockets[g] # c /\ IdOf[tcp_sockets[g]] = IdOf[c]
<1>1. fd \in Open /\ fd \in Fds
  BY DuplicateEffect DEF ConnsInv
<1>2. /\ Running /\ packet_queue[fd] # <<>> /\ Head(packet_queue[fd]).type = "AUTH"
      /\ state[Head(packet_queue[fd]).id] = "CONNECTED"
  BY DEF AuthDuplicate, Receive, HandleTcp, Next_fd, PacketReady, InUse
<1>3. Head(packet_queue[fd]).id = IdOf[c]
  <2>1. packet_queue[fd] \in Seq(Packets)
    BY <1>1 DEF TypeOK, SocketTypeOK
  <2>2. 1 \in 1..Len(packet_queue[fd]) /\ Head(packet_queue[fd]) = packet_queue[fd][1]
    BY <1>2, <2>1, HeadTailProperties, EmptySeq, LenProperties
  <2>3. StreamOK(packet_queue[fd], c)
    BY <1>1 DEF StreamInv, BufferStreams
  <2>4. QED
    BY <1>2, <2>2, <2>3 DEF StreamOK
<1>4. IdOf[c] \in Ids /\ IdOf[c] # NoId
  BY IdsAssumption
<1>5. sockfd[IdOf[c]] \in Fds /\ ids_map[sockfd[IdOf[c]]] = IdOf[c]
  BY <1>2, <1>3, <1>4 DEF SessionInv, ConnectedBound
<1>6. sock_queue[sockfd[IdOf[c]]] = "SOCK_CLOSE" \/ Serves(sockfd[IdOf[c]], IdOf[c])
  BY <1>2, <1>4, <1>5 DEF SessionInv, BoundServed
<1>7. QED
  BY <1>5, <1>6 DEF Serves

\* Nothing but AuthDuplicate writes a refusal.
LEMMA RefusalIsDuplicate ==
  ASSUME TypeOK, ConnsInv, StreamInv, SessionInv, [Next]_vars, NEW c \in Conns,
         down[c] = <<>>, down'[c] = <<[type |-> "AUTH_DUPLICATE"]>>
  PROVE  \E fd \in Fds : AuthDuplicate(fd) /\ tcp_sockets[fd] = c
<1>1. down' # down
  OBVIOUS
<1>2. /\ Len(down[c]) = 0 /\ Len(down'[c]) = 1 /\ 1 \in 1..1
      /\ down'[c][1].type = "AUTH_DUPLICATE"
  OBVIOUS
<1>3. ~(HandleUdp \/ HandleUdpDies)
  <2> SUFFICES ASSUME HandleUdp \/ HandleUdpDies
               PROVE  FALSE
    OBVIOUS
  <2>1. udp \in Seq(News) /\ udp # <<>>
    BY DEF HandleUdp, HandleUdpDies, TypeOK, KernelTypeOK
  <2>2. Head(udp) \in News
    BY <2>1
  <2>3. \E S \in SUBSET Ids : Forward(Head(udp), S)
    BY DEF HandleUdp, HandleUdpDies, Online, Subscribed
  <2>4. OnlyNews(c)
    BY <2>2, <2>3, ForwardEffect
  <2>5. down'[c][1].type = "NEWS"
    BY <1>2, <2>4 DEF OnlyNews
  <2>6. QED
    BY <1>2, <2>5
<1>4. ASSUME NEW fd, Auth(fd)
      PROVE  FALSE
  <2>1. PICK d \in Conns : AcceptedOn(fd, d)
    BY <1>4, AuthEffect
  <2>2. d = c
    BY <1>1, <2>1 DEF AcceptedOn
  <2>3. /\ down'[c] = down[c] \o AuthReply(IdOf[c]) /\ AuthReply(IdOf[c]) \in Seq(Replies \cup News)
        /\ IdOf[c] \in Ids
    BY <2>1, <2>2 DEF AcceptedOn
  <2>4. down'[c] = AuthReply(IdOf[c])
    BY <2>3, ConcatEmptySeq
  <2>5. down'[c][1] = [type |-> "AUTH"]
    BY <2>3, <2>4, AuthAnswers
  <2>6. QED
    BY <1>2, <2>5
<1>5. ASSUME NEW fd \in Fds, AuthDuplicate(fd)
      PROVE  tcp_sockets[fd] = c
  BY <1>1, <1>5, DuplicateEffect DEF ConnsInv
<1>6. ~Environment
  BY <1>1 DEF Environment, Connect, SendAuth, Command, Send, Leave, Reset, Datagram, TypeLine
<1>7. ~(Select \/ HandleStdin \/ NoDescriptor)
  BY <1>1 DEF Select, HandleStdin, NoDescriptor
<1>8. ASSUME NEW fd, \/ HandleConnect(fd) \/ HandleClose(fd) \/ HandleUdpGarbled(fd) \/ TcpNotReady(fd)
                     \/ AuthDies(fd)
                     \/ \E type \in {"SUB", "SUB_SF", "UNSUB"} : Subscribe(fd, type)
      PROVE  FALSE
  BY <1>1, <1>8 DEF HandleConnect, HandleClose, HandleUdpGarbled, TcpNotReady, AuthDies, Subscribe
<1>9. ~UNCHANGED vars
  BY <1>1 DEF vars
<1>10. QED
  BY <1>3, <1>4, <1>5, <1>6, <1>7, <1>8, <1>9 DEF Next, Loop

\* A subscriber is refused because of another connection of its id that is open, or has ended and
\* waits for its SOCK_CLOSE entry to be handled; not because of an authentication of its own.
THEOREM DeclinedCorrect == Spec => DeclinedOnlyIfInUse
<1>1. TypeOK /\ ConnsInv /\ StreamInv /\ SessionInv /\ [Next]_vars =>
        \A c \in Conns :
          down[c] = <<>> /\ down'[c] = <<[type |-> "AUTH_DUPLICATE"]>> /\ IdOf[c] \notin missed =>
            \E fd \in Fds : /\ ids_map[fd] = IdOf[c]
                            /\ \/ sock_queue[fd] = "SOCK_CLOSE"
                               \/ /\ fd \in Open /\ tcp_sockets[fd] # c
                                  /\ IdOf[tcp_sockets[fd]] = IdOf[c]
  BY RefusalIsDuplicate, Declines
<1>2. QED
  BY <1>1, TypeCorrect, SessionsCorrect, PTL DEF Spec, DeclinedOnlyIfInUse
=============================================================================
