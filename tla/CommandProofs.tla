---------------------------- MODULE CommandProofs ----------------------------
(***************************************************************************)
(* Commands, when every recv() returns whole packets: none is lost, in the *)
(* kernel, in the buffer or with the connection that carried it, and a     *)
(* datagram reaches exactly those whose last command asked for its topic.  *)
(*                                                                         *)
(* A subscription is compared with what was asked for through the commands *)
(* that are still on their way: the last of them on the topic, or, when    *)
(* there is none, topic_map itself, agrees with the history variable       *)
(* wanted.  With parts of packets a connection taken for closed is no      *)
(* session any more and its commands are ignored.                          *)
(***************************************************************************)
EXTENDS DeliveryProofs

-----------------------------------------------------------------------------
(***************************************************************************)
(* What a sequence of packets says of a topic.                             *)
(***************************************************************************)
\* The packet is a command on t.
Concerns(packet, t) == packet.type # "AUTH" /\ packet.topic = t

\* s is what a subscriber has sent and the server has not handled, sf the entry of topic_map and
\* asked what the last command asked for: the last command on t in s, or the entry when s has
\* none, is what was asked for.
Current(s, t, sf, asked) ==
  /\ \A i \in 1..Len(s) :
       Concerns(s[i], t) /\ (\A j \in 1..Len(s) : Concerns(s[j], t) => j <= i)
         => asked = Subscription(s[i].type)
  /\ (\A i \in 1..Len(s) : ~Concerns(s[i], t)) => sf = asked

\* With nothing pending the subscription is the one asked for.
LEMMA CurrentEmpty ==
  ASSUME NEW t, NEW sf, NEW asked
  PROVE  Current(<<>>, t, sf, asked) <=> sf = asked
  BY DEF Current

\* Without a command in it, s says nothing.
LEMMA CurrentSilent ==
  ASSUME NEW s, NEW t, NEW sf, NEW asked, \A i \in 1..Len(s) : ~Concerns(s[i], t), sf = asked
  PROVE  Current(s, t, sf, asked)
  BY DEF Current

\* The first packet of s takes effect.
LEMMA CurrentTake ==
  ASSUME NEW s \in Seq(Packets), s # <<>>, NEW t, NEW sf, NEW asked, Current(s, t, sf, asked)
  PROVE  Current(Tail(s), t, IF Concerns(Head(s), t) THEN Subscription(Head(s).type) ELSE sf, asked)
<1>1. PICK r : r = Tail(s)
  OBVIOUS
<1>2. /\ Len(s) \in Nat /\ Len(s) >= 1 /\ Len(r) = Len(s) - 1 /\ Head(s) = s[1]
      /\ \A i \in 1..Len(r) : r[i] = s[i + 1]
  BY <1>1, HeadTailProperties, LenProperties, EmptySeq
<1>3. /\ \A i \in 1..Len(r) : i + 1 \in 1..Len(s)
      /\ \A j \in 1..Len(s) : j = 1 \/ (j - 1 \in 1..Len(r) /\ s[j] = r[j - 1])
  <2>1. \A j \in 1..Len(s) : j = 1 \/ (j - 1 \in 1..Len(r) /\ (j - 1) + 1 = j)
    BY <1>2
  <2>2. QED
    BY <1>2, <2>1
<1>4. ASSUME NEW i \in 1..Len(r), Concerns(r[i], t),
             \A j \in 1..Len(r) : Concerns(r[j], t) => j <= i
      PROVE  asked = Subscription(r[i].type)
  <2>1. i + 1 \in 1..Len(s) /\ r[i] = s[i + 1]
    BY <1>2, <1>3
  <2>2. ASSUME NEW j \in 1..Len(s), Concerns(s[j], t)
        PROVE  j <= i + 1
    <3>1. j = 1 \/ j - 1 <= i
      BY <1>3, <1>4, <2>2
    <3>2. QED
      BY <1>2, <3>1
  <2>3. QED
    BY <1>4, <2>1, <2>2 DEF Current
<1>5. ASSUME \A i \in 1..Len(r) : ~Concerns(r[i], t)
      PROVE  (IF Concerns(Head(s), t) THEN Subscription(Head(s).type) ELSE sf) = asked
  <2>1. \A j \in 1..Len(s) : Concerns(s[j], t) => j = 1
    BY <1>3, <1>5
  <2>2. CASE Concerns(s[1], t)
    <3>1. 1 \in 1..Len(s) /\ \A j \in 1..Len(s) : Concerns(s[j], t) => j <= 1
      BY <1>2, <2>1
    <3>2. asked = Subscription(s[1].type)
      BY <2>2, <3>1 DEF Current
    <3>3. QED
      BY <1>2, <2>2, <3>2
  <2>3. CASE ~Concerns(s[1], t)
    BY <1>2, <2>1, <2>3 DEF Current
  <2>4. QED
    BY <2>2, <2>3
<1>6. QED
  BY <1>1, <1>4, <1>5 DEF Current

\* Another command is given.
LEMMA CurrentAppend ==
  ASSUME NEW s \in Seq(Packets), NEW packet \in Packets, NEW t, NEW sf, NEW asked,
         Current(s, t, sf, asked)
  PROVE  Current(Append(s, packet), t, sf,
                 IF Concerns(packet, t) THEN Subscription(packet.type) ELSE asked)
<1>1. PICK r : r = Append(s, packet)
  OBVIOUS
<1>2. /\ Len(s) \in Nat /\ Len(r) = Len(s) + 1 /\ r[Len(s) + 1] = packet
      /\ \A i \in 1..Len(s) : r[i] = s[i]
  BY <1>1, AppendProperties, LenProperties
<1>3. /\ \A i \in 1..Len(r) : i \in 1..Len(s) \/ i = Len(s) + 1
      /\ \A i \in 1..Len(s) : i \in 1..Len(r)
      /\ Len(s) + 1 \in 1..Len(r)
  BY <1>2
<1>4. ASSUME NEW i \in 1..Len(r), Concerns(r[i], t),
             \A j \in 1..Len(r) : Concerns(r[j], t) => j <= i
      PROVE  (IF Concerns(packet, t) THEN Subscription(packet.type) ELSE asked)
                = Subscription(r[i].type)
  <2>1. CASE Concerns(packet, t)
    <3>1. Len(s) + 1 <= i
      BY <1>2, <1>3, <1>4, <2>1
    <3>2. i = Len(s) + 1
      BY <1>2, <1>3, <3>1
    <3>3. QED
      BY <1>2, <2>1, <3>2
  <2>2. CASE ~Concerns(packet, t)
    <3>1. i \in 1..Len(s) /\ r[i] = s[i]
      BY <1>2, <1>3, <1>4, <2>2
    <3>2. \A j \in 1..Len(s) : Concerns(s[j], t) => j <= i
      BY <1>2, <1>3, <1>4
    <3>3. QED
      BY <1>4, <2>2, <3>1, <3>2 DEF Current
  <2>3. QED
    BY <2>1, <2>2
<1>5. ASSUME \A i \in 1..Len(r) : ~Concerns(r[i], t)
      PROVE  sf = IF Concerns(packet, t) THEN Subscription(packet.type) ELSE asked
  <2>1. ~Concerns(packet, t) /\ \A i \in 1..Len(s) : ~Concerns(s[i], t)
    BY <1>2, <1>3, <1>5
  <2>2. QED
    BY <2>1 DEF Current
<1>6. QED
  BY <1>1, <1>4, <1>5 DEF Current

\* Head and tail of a concatenation whose first part is not empty.
LEMMA TailOfConcat ==
  ASSUME NEW S, NEW s \in Seq(S), s # <<>>, NEW u \in Seq(S)
  PROVE  s \o u # <<>> /\ Head(s \o u) = Head(s) /\ Tail(s \o u) = Tail(s) \o u
<1>1. PICK v, r : v = s \o u /\ r = Tail(s)
  OBVIOUS
<1>2. /\ Len(s) \in Nat /\ Len(s) >= 1 /\ Len(u) \in Nat
      /\ Head(s) = s[1] /\ r \in Seq(S) /\ Len(r) = Len(s) - 1
      /\ \A i \in 1..Len(r) : r[i] = s[i + 1]
  BY <1>1, HeadTailProperties, LenProperties, EmptySeq
<1>3. /\ v \in Seq(S) /\ Len(v) = Len(s) + Len(u)
      /\ \A i \in 1..(Len(s) + Len(u)) : v[i] = IF i <= Len(s) THEN s[i] ELSE u[i - Len(s)]
  BY <1>1, ConcatProperties
<1>4. v # <<>>
  BY <1>2, <1>3, EmptySeq
<1>5. Head(v) = v[1] /\ Tail(v) \in Seq(S) /\ Len(Tail(v)) = Len(v) - 1
      /\ \A i \in 1..Len(Tail(v)) : Tail(v)[i] = v[i + 1]
  BY <1>3, <1>4, HeadTailProperties
<1>6. v[1] = s[1]
  BY <1>2, <1>3
<1>7. /\ r \o u \in Seq(S) /\ Len(r \o u) = Len(r) + Len(u)
      /\ \A i \in 1..(Len(r) + Len(u)) : (r \o u)[i] = IF i <= Len(r) THEN r[i] ELSE u[i - Len(r)]
  BY <1>2, ConcatProperties
<1>8. Len(Tail(v)) = Len(r \o u)
  BY <1>2, <1>3, <1>5, <1>7
<1>9. ASSUME NEW i \in 1..Len(Tail(v))
      PROVE  Tail(v)[i] = (r \o u)[i]
  <2>1. i + 1 \in 1..(Len(s) + Len(u)) /\ i \in 1..(Len(r) + Len(u)) /\ i \in Nat
    BY <1>2, <1>3, <1>5
  <2>2. Tail(v)[i] = IF i + 1 <= Len(s) THEN s[i + 1] ELSE u[(i + 1) - Len(s)]
    BY <1>3, <1>5, <2>1
  <2>3. (r \o u)[i] = IF i <= Len(r) THEN r[i] ELSE u[i - Len(r)]
    BY <1>7, <2>1
  <2>4. CASE i <= Len(r)
    <3>1. i \in 1..Len(r) /\ i + 1 <= Len(s)
      BY <1>2, <2>1, <2>4
    <3>2. QED
      BY <1>2, <2>2, <2>3, <2>4, <3>1
  <2>5. CASE ~(i <= Len(r))
    <3>1. ~(i + 1 <= Len(s)) /\ (i + 1) - Len(s) = i - Len(r)
      BY <1>2, <2>1, <2>5
    <3>2. QED
      BY <2>2, <2>3, <2>5, <3>1
  <2>6. QED
    BY <2>4, <2>5
<1>10. Tail(v) = r \o u
  BY <1>5, <1>7, <1>8, <1>9, SeqEqual
<1>11. QED
  BY <1>1, <1>2, <1>4, <1>5, <1>6, <1>10

-----------------------------------------------------------------------------
(***************************************************************************)
(* No command is lost.                                                     *)
(***************************************************************************)
\* c was accepted and is open, on fd.
Session(fd, c) == fd \in Open /\ tcp_sockets[fd] = c /\ Authenticated(c)

\* The commands of c that the server has not handled, in its buffer and in the kernel's.
Pending(fd, c) == packet_queue[fd] \o up[c]

\* The commands on their way make up for what topic_map lacks; for an id without a session it lacks
\* nothing, since a connection that ends has been read to its last packet.
WantedInv ==
  Running => \A t \in Topics :
    /\ \A fd \in Fds, c \in Conns : Session(fd, c) =>
         Current(Pending(fd, c), t, topic_map[t][IdOf[c]], wanted[t][IdOf[c]])
    /\ \A id \in Ids : (\A fd \in Fds, c \in Conns : Session(fd, c) => IdOf[c] # id) =>
         topic_map[t][id] = wanted[t][id]

\* The streams are sequences of packets.
LEMMA PendingType ==
  ASSUME TypeOK, NEW fd \in Fds, NEW c \in Conns
  PROVE  packet_queue[fd] \in Seq(Packets) /\ up[c] \in Seq(Packets) /\ Pending(fd, c) \in Seq(Packets)
<1>1. packet_queue[fd] \in Seq(Packets) /\ up[c] \in Seq(Packets)
  BY DEF TypeOK, KernelTypeOK, SocketTypeOK
<1>2. QED
  BY <1>1, ConcatProperties DEF Pending

\* An id has one session (OneSessionPerId, for the descriptors and connections named).
LEMMA OneSession ==
  ASSUME TypeOK, WholeInv, SessionBound, OneFd,
         NEW f \in Fds, NEW c \in Conns, Session(f, c), NEW g \in Fds, NEW d \in Conns, Session(g, d),
         IdOf[c] = IdOf[d]
  PROVE  f = g /\ c = d
<1>1. IdOf[c] # NoId /\ IdOf[c] \in Ids
  BY IdsAssumption
<1>2. ids_map[f] = IdOf[c] /\ ids_map[g] = IdOf[c]
  BY DEF Session, WholeInv, Bound
<1>3. f = g
  BY <1>1, <1>2 DEF SessionBound
<1>4. QED
  BY <1>3 DEF Session

\* Sessions go on with what they had sent, or end with nothing left.
LEMMA WantedKept ==
  ASSUME TypeOK, WantedInv, Running' => Running, UNCHANGED <<topic_map, wanted>>,
         \A fd \in Fds, c \in Conns :
           /\ Session(fd, c)' => Session(fd, c) /\ Pending(fd, c)' = Pending(fd, c)
           /\ Session(fd, c) => Session(fd, c)' \/ Pending(fd, c) = <<>>
  PROVE  WantedInv'
<1> SUFFICES ASSUME Running, NEW t \in Topics
             PROVE  /\ \A fd \in Fds, c \in Conns : Session(fd, c)' =>
                         Current(Pending(fd, c)', t, topic_map[t][IdOf[c]], wanted[t][IdOf[c]])
                    /\ \A id \in Ids : (\A fd \in Fds, c \in Conns : Session(fd, c)' => IdOf[c] # id) =>
                         topic_map[t][id] = wanted[t][id]
  BY DEF WantedInv, Current
<1>1. ASSUME NEW fd \in Fds, NEW c \in Conns, Session(fd, c)'
      PROVE  Current(Pending(fd, c)', t, topic_map[t][IdOf[c]], wanted[t][IdOf[c]])
  BY <1>1 DEF WantedInv
<1>2. ASSUME NEW id \in Ids, \A fd \in Fds, c \in Conns : Session(fd, c)' => IdOf[c] # id
      PROVE  topic_map[t][id] = wanted[t][id]
  <2>1. CASE \A fd \in Fds, c \in Conns : Session(fd, c) => IdOf[c] # id
    BY <2>1 DEF WantedInv
  <2>2. ASSUME NEW fd \in Fds, NEW c \in Conns, Session(fd, c), IdOf[c] = id
        PROVE  topic_map[t][id] = wanted[t][id]
    <3>1. Pending(fd, c) = <<>>
      BY <1>2, <2>2
    <3>2. Current(Pending(fd, c), t, topic_map[t][id], wanted[t][id])
      BY <2>2 DEF WantedInv
    <3>3. QED
      BY <3>1, <3>2, CurrentEmpty
  <2>3. QED
    BY <2>1, <2>2
<1>3. QED
  BY <1>1, <1>2

\* Steps that leave the streams and the replies alone.
LEMMA WantedSame ==
  ASSUME TypeOK, WantedInv, Running' => Running,
         UNCHANGED <<topic_map, wanted, tcp_sockets, packet_queue, up>>,
         \A c \in Conns : Authenticated(c)' <=> Authenticated(c)
  PROVE  WantedInv'
<1>1. \A fd \in Fds, c \in Conns : /\ Session(fd, c)' <=> Session(fd, c)
                                   /\ Pending(fd, c)' = Pending(fd, c)
  BY DEF Session, Pending, Open
<1>2. QED
  BY <1>1, WantedKept

\* The invariant of commands holds initially.
LEMMA WantedInit == Init => WantedInv
  BY DEF Init, WantedInv, Session, Open

\* select() moves commands from the kernel to the buffer, in order; a connection that ends has none.
LEMMA WantedSelect ==
  ASSUME TypeOK, TypeOK', NoStrandedPacket, ConnsInv, StreamInv, WantedInv, Select
  PROVE  WantedInv'
<1>1. /\ Open' \subseteq Open /\ \A fd \in Open' : tcp_sockets'[fd] = tcp_sockets[fd]
      /\ \A fd \in Fds : packet_queue[fd] = <<>>
      /\ \A fd \in Open' :
           \E k \in 0..Len(up[tcp_sockets[fd]]) :
             /\ packet_queue'[fd] = SubSeq(up[tcp_sockets[fd]], 1, k)
             /\ up'[tcp_sockets[fd]] = SubSeq(up[tcp_sockets[fd]], k + 1, Len(up[tcp_sockets[fd]]))
      /\ \A fd \in Open \ Open' : up[tcp_sockets[fd]] = <<>>
  BY SelectEffect DEF ConnsInv
<1>2. UNCHANGED <<topic_map, wanted, down>> /\ Running
  BY DEF Select, tableVars, Running
<1>3. \A c \in Conns : Authenticated(c)' <=> Authenticated(c)
  BY <1>2 DEF Authenticated
<1>4. ASSUME NEW fd \in Fds, NEW c \in Conns
      PROVE  Pending(fd, c) = up[c]
  BY <1>1, PendingType, ConcatEmptySeq DEF Pending
<1>5. ASSUME NEW fd \in Fds, NEW c \in Conns, Session(fd, c)'
      PROVE  Session(fd, c) /\ Pending(fd, c)' = Pending(fd, c)
  <2>1. fd \in Open' /\ fd \in Open /\ tcp_sockets[fd] = c
    BY <1>1, <1>5 DEF Session
  <2>2. Session(fd, c)
    BY <1>3, <1>5, <2>1 DEF Session
  <2>3. PICK s \in Seq(Packets) : s = up[c]
    BY PendingType
  <2>4. PICK k \in 0..Len(s) : packet_queue'[fd] = SubSeq(s, 1, k) /\ up'[c] = SubSeq(s, k + 1, Len(s))
    BY <1>1, <2>1, <2>3
  <2>5. packet_queue'[fd] \o up'[c] = s
    BY <2>4, CutElements
  <2>6. QED
    BY <1>4, <2>2, <2>3, <2>5 DEF Pending
<1>6. ASSUME NEW fd \in Fds, NEW c \in Conns, Session(fd, c)
      PROVE  Session(fd, c)' \/ Pending(fd, c) = <<>>
  <2>1. CASE fd \in Open'
    BY <1>1, <1>3, <1>6, <2>1 DEF Session
  <2>2. CASE fd \notin Open'
    BY <1>1, <1>4, <1>6, <2>2 DEF Session
  <2>3. QED
    BY <2>1, <2>2
<1>7. QED
  BY <1>2, <1>5, <1>6, WantedKept

\* A session whose first packet is taken.
LEMMA PendingTaken ==
  ASSUME TypeOK, StreamInv, NEW fd, NEW type, Receive(fd, type), TakePacket(fd), UNCHANGED up,
         NEW c \in Conns, c = tcp_sockets[fd]
  PROVE  /\ fd \in Fds /\ fd \in Open
         /\ Pending(fd, c) # <<>> /\ Head(Pending(fd, c)) = Head(packet_queue[fd])
         /\ Pending(fd, c)' = Tail(Pending(fd, c))
         /\ \A g \in Fds, d \in Conns : g # fd => Pending(g, d)' = Pending(g, d)
<1>1. /\ fd \in Fds /\ fd \in Open /\ packet_queue[fd] # <<>> /\ packet_queue[fd] \in Seq(Packets)
      /\ packet_queue'[fd] = Tail(packet_queue[fd])
      /\ \A g \in Fds : g # fd => packet_queue'[g] = packet_queue[g]
  BY TakeEffect
<1>2. up[c] \in Seq(Packets)
  BY <1>1, PendingType
<1>3. PICK s \in Seq(Packets), u \in Seq(Packets) : s = packet_queue[fd] /\ u = up[c]
  BY <1>1, <1>2
<1>4. s \o u # <<>> /\ Head(s \o u) = Head(s) /\ Tail(s \o u) = Tail(s) \o u
  BY <1>1, <1>3, TailOfConcat
<1>5. \A g \in Fds, d \in Conns : g # fd => Pending(g, d)' = Pending(g, d)
  BY <1>1 DEF Pending
<1>6. Pending(fd, c) = s \o u /\ Pending(fd, c)' = Tail(s) \o u
  BY <1>1, <1>3 DEF Pending
<1>7. QED
  BY <1>1, <1>3, <1>4, <1>5, <1>6

\* A command that is carried out was the first one pending.
LEMMA WantedSubscribe ==
  ASSUME TypeOK, ConnsInv, StreamInv, WholeInv, SessionBound, WantedInv,
         NEW fd, NEW type \in {"SUB", "SUB_SF", "UNSUB"}, Subscribe(fd, type)
  PROVE  WantedInv'
<1>1. /\ Receive(fd, type) /\ TakePacket(fd) /\ Running
      /\ UNCHANGED <<up, tcp_sockets, down, wanted>>
  BY DEF Subscribe, Receive, HandleTcp, Next_fd
<1>2. PICK c \in Conns : c = tcp_sockets[fd]
  BY <1>1, TakeEffect
<1>3. /\ fd \in Fds /\ fd \in Open
      /\ Pending(fd, c) # <<>> /\ Head(Pending(fd, c)) = Head(packet_queue[fd])
      /\ Pending(fd, c)' = Tail(Pending(fd, c))
      /\ \A g \in Fds, d \in Conns : g # fd => Pending(g, d)' = Pending(g, d)
  BY <1>1, <1>2, PendingTaken
<1>4. PICK packet \in CommandPackets : packet = Head(packet_queue[fd]) /\ packet.type = type
  <2>1. Head(packet_queue[fd]) \in Packets /\ Head(packet_queue[fd]).type = type
    BY <1>1, ReceiveType
  <2>2. QED
    BY <2>1 DEF Packets, AuthPackets
<1>5. packet.topic \in Topics /\ packet.type = type /\ packet.type # "AUTH"
  BY <1>4 DEF CommandPackets
<1>6. Session(fd, c)
  <2>1. 1 \in 1..Len(packet_queue[fd]) /\ Head(packet_queue[fd]) = packet_queue[fd][1]
    BY <1>1, TakeEffect
  <2>2. StreamOK(packet_queue[fd], c)
    BY <1>2, <1>3 DEF StreamInv, BufferStreams
  <2>3. Authenticated(c)
    BY <1>4, <1>5, <2>1, <2>2 DEF StreamOK
  <2>4. QED
    BY <1>2, <1>3, <2>3 DEF Session
<1>7. PICK id \in Ids : id = IdOf[c] /\ id # NoId
  BY IdsAssumption
<1>8. ids_map[fd] = id
  BY <1>2, <1>3, <1>6, <1>7 DEF Session, WholeInv, Bound
<1>9. topic_map' = [topic_map EXCEPT ![packet.topic][id] = Subscription(type)]
  BY <1>4, <1>7, <1>8 DEF Subscribe
<1>10. \A t \in Topics :
         /\ \A i \in Ids : i # id => topic_map'[t][i] = topic_map[t][i]
         /\ topic_map'[t][id] = IF Concerns(packet, t) THEN Subscription(packet.type) ELSE topic_map[t][id]
  BY <1>5, <1>7, <1>9 DEF Concerns, TypeOK, TableTypeOK
<1>11. \A g \in Fds, d \in Conns : Session(g, d)' <=> Session(g, d)
  BY <1>1 DEF Session, Open, Authenticated
<1> SUFFICES ASSUME NEW t \in Topics
             PROVE  /\ \A g \in Fds, d \in Conns : Session(g, d)' =>
                         Current(Pending(g, d)', t, topic_map'[t][IdOf[d]], wanted[t][IdOf[d]])
                    /\ \A i \in Ids : (\A g \in Fds, d \in Conns : Session(g, d)' => IdOf[d] # i) =>
                         topic_map'[t][i] = wanted[t][i]
  BY <1>1 DEF WantedInv, Current
<1>12. ASSUME NEW g \in Fds, NEW d \in Conns, Session(g, d)'
       PROVE  Current(Pending(g, d)', t, topic_map'[t][IdOf[d]], wanted[t][IdOf[d]])
  <2>1. Current(Pending(g, d), t, topic_map[t][IdOf[d]], wanted[t][IdOf[d]])
    BY <1>1, <1>11, <1>12 DEF WantedInv
  <2>2. CASE g = fd
    <3>1. d = c
      BY <1>2, <1>11, <1>12, <2>2 DEF Session
    <3>2. Pending(fd, c) \in Seq(Packets)
      BY <1>3, PendingType
    <3>3. Current(Pending(fd, c), t, topic_map[t][id], wanted[t][id])
      BY <1>7, <2>1, <2>2, <3>1
    <3>4. Head(Pending(fd, c)) = packet
      BY <1>3, <1>4
    <3>5. Current(Tail(Pending(fd, c)), t, topic_map'[t][id], wanted[t][id])
      BY <1>3, <1>10, <3>2, <3>3, <3>4, CurrentTake
    <3>6. QED
      BY <1>3, <1>7, <2>2, <3>1, <3>5
  <2>3. CASE g # fd
    <3>1. IdOf[d] # id /\ IdOf[d] \in Ids
      BY <1>3, <1>6, <1>7, <1>11, <1>12, <2>3, OneSession, IdsAssumption DEF ConnsInv
    <3>2. QED
      BY <1>3, <1>10, <2>1, <2>3, <3>1
  <2>4. QED
    BY <2>2, <2>3
<1>13. ASSUME NEW i \in Ids, \A g \in Fds, d \in Conns : Session(g, d)' => IdOf[d] # i
       PROVE  topic_map'[t][i] = wanted[t][i]
  <2>1. i # id
    BY <1>3, <1>6, <1>7, <1>11, <1>13
  <2>2. topic_map[t][i] = wanted[t][i]
    BY <1>1, <1>11, <1>13 DEF WantedInv
  <2>3. QED
    BY <1>10, <2>1, <2>2
<1>14. QED
  BY <1>12, <1>13

\* A connection without a reply is no session.
LEMMA NotYetAccepted ==
  ASSUME TypeOK, NEW c \in Conns, NoReply(c)
  PROVE  ~Authenticated(c)
<1>1. Authenticated(c) <=> 1 \in 1..Len(down[c]) /\ down[c][1].type = "AUTH"
  BY DownType, FirstReply DEF Authenticated
<1>2. QED
  BY <1>1 DEF NoReply

\* A new session has sent no command yet, and no other session of its id is left.
LEMMA WantedAuth ==
  ASSUME TypeOK, TypeOK', ConnsInv, StreamInv, SessionInv, WholeInv, SessionBound, WantedInv,
         NEW fd, Auth(fd)
  PROVE  WantedInv'
<1>1. PICK c \in Conns : AcceptedOn(fd, c)
  BY AuthEffect
<1>2. /\ fd \in Fds /\ fd \in Open /\ tcp_sockets[fd] = c /\ Open' = Open /\ tcp_sockets' = tcp_sockets
      /\ state[IdOf[c]] # "CONNECTED" /\ IdOf[c] \in Ids /\ IdOf[c] # NoId
      /\ ~Authenticated(c) /\ up' = up
      /\ \A d \in Conns : d # c => down'[d] = down[d]
      /\ NoAuth(packet_queue'[fd]) /\ NoAuth(up[c])
      /\ \A g \in Fds : g # fd => packet_queue'[g] = packet_queue[g]
      /\ \A g \in Open : g # fd => tcp_sockets[g] # c
  BY <1>1 DEF AcceptedOn
<1>3. Receive(fd, "AUTH") /\ TakePacket(fd) /\ Running /\ UNCHANGED <<topic_map, wanted>>
  BY DEF Auth, Receive, HandleTcp, Next_fd
<1>4. \A g \in Fds, d \in Conns : Session(g, d)' /\ d # c =>
        g # fd /\ Session(g, d) /\ Pending(g, d)' = Pending(g, d)
  BY <1>2 DEF Session, Pending, Authenticated
<1>5. \A g \in Fds, d \in Conns : Session(g, d) => g # fd /\ d # c /\ Session(g, d)'
  BY <1>2 DEF Session, Authenticated
<1>6. \A g \in Fds, d \in Conns : Session(g, d) => IdOf[d] # IdOf[c]
  BY <1>2 DEF Session, WholeInv, Bound, SessionBound
<1>7. \A g \in Fds : Session(g, c)' => g = fd
  BY <1>2 DEF Session
<1>8. PICK s, u : s = packet_queue'[fd] /\ u = up[c]
  OBVIOUS
<1>9. s \in Seq(Packets) /\ u \in Seq(Packets)
  BY <1>2, <1>8, PendingType DEF TypeOK, SocketTypeOK
<1>10. Len(s) = 0
  <2> SUFFICES ASSUME Len(s) # 0
               PROVE  FALSE
    OBVIOUS
  <2>1. 1 \in 1..Len(s)
    BY <1>9, LenProperties
  <2>2. 2 \in 1..Len(packet_queue[fd]) /\ s[1] = packet_queue[fd][2]
    <3>1. 1 + 1 \in 1..Len(packet_queue[fd]) /\ s[1] = packet_queue[fd][1 + 1]
      BY <1>3, <1>8, <2>1, TakeEffect
    <3>2. QED
      BY <3>1
  <2>3. s[1].type # "AUTH"
    BY <1>2, <1>8, <2>1 DEF NoAuth
  <2>4. StreamOK(packet_queue[fd], c)
    BY <1>2 DEF StreamInv, BufferStreams
  <2>5. QED
    BY <1>2, <2>2, <2>3, <2>4 DEF StreamOK
<1>11. Len(u) = 0
  <2> SUFFICES ASSUME Len(u) # 0
               PROVE  FALSE
    OBVIOUS
  <2>1. 1 \in 1..Len(u)
    BY <1>9, LenProperties
  <2>2. u[1].type # "AUTH" /\ StreamOK(u, c)
    BY <1>2, <1>8, <2>1 DEF NoAuth, StreamInv, KernelStreams
  <2>3. QED
    BY <1>2, <2>1, <2>2 DEF StreamOK
<1>12. Pending(fd, c)' = s \o u /\ \A i \in 1..Len(s \o u) : FALSE
  <2>1. Pending(fd, c)' = s \o u
    BY <1>2, <1>8 DEF Pending
  <2>2. Len(s \o u) = Len(s) + Len(u)
    BY <1>9, ConcatProperties
  <2>3. QED
    BY <1>10, <1>11, <2>1, <2>2
<1> SUFFICES ASSUME NEW t \in Topics
             PROVE  /\ \A g \in Fds, d \in Conns : Session(g, d)' =>
                         Current(Pending(g, d)', t, topic_map[t][IdOf[d]], wanted[t][IdOf[d]])
                    /\ \A i \in Ids : (\A g \in Fds, d \in Conns : Session(g, d)' => IdOf[d] # i) =>
                         topic_map[t][i] = wanted[t][i]
  BY <1>3 DEF WantedInv, Current
<1>13. ASSUME NEW g \in Fds, NEW d \in Conns, Session(g, d)'
       PROVE  Current(Pending(g, d)', t, topic_map[t][IdOf[d]], wanted[t][IdOf[d]])
  <2>1. CASE d # c
    <3>1. Session(g, d) /\ Pending(g, d)' = Pending(g, d)
      BY <1>4, <1>13, <2>1
    <3>2. QED
      BY <1>3, <3>1 DEF WantedInv
  <2>2. CASE d = c
    <3>1. Pending(g, d)' = s \o u
      BY <1>7, <1>12, <1>13, <2>2
    <3>2. topic_map[t][IdOf[d]] = wanted[t][IdOf[d]]
      BY <1>2, <1>3, <1>6, <2>2 DEF WantedInv
    <3>3. \A i \in 1..Len(Pending(g, d)') : ~Concerns(Pending(g, d)'[i], t)
      BY <1>12, <3>1
    <3>4. QED
      BY <3>2, <3>3, CurrentSilent
  <2>3. QED
    BY <2>1, <2>2
<1>14. ASSUME NEW i \in Ids, \A g \in Fds, d \in Conns : Session(g, d)' => IdOf[d] # i
       PROVE  topic_map[t][i] = wanted[t][i]
  BY <1>3, <1>5, <1>14 DEF WantedInv
<1>15. QED
  BY <1>13, <1>14

\* A refused connection was no session, and its end is none of another one.
LEMMA WantedDuplicate ==
  ASSUME TypeOK, ConnsInv, StreamInv, WantedInv, NEW fd, AuthDuplicate(fd)
  PROVE  WantedInv'
<1>1. PICK c \in Conns : c = tcp_sockets[fd]
  BY DuplicateEffect DEF ConnsInv
<1>2. /\ fd \in Open /\ fd \in Fds /\ Open' = Open \ {fd}
      /\ \A g \in Open' : /\ g \in Fds /\ tcp_sockets'[g] = tcp_sockets[g]
                          /\ tcp_sockets[g] # c /\ packet_queue'[g] = packet_queue[g]
      /\ \A d \in Conns : d # c => up'[d] = up[d] /\ down'[d] = down[d]
  BY <1>1, DuplicateEffect DEF ConnsInv
<1>3. /\ packet_queue[fd] # <<>> /\ Head(packet_queue[fd]).type = "AUTH"
      /\ Running /\ UNCHANGED <<topic_map, wanted>>
  BY DEF AuthDuplicate, Receive, HandleTcp, Next_fd, PacketReady, tableVars
<1>4. ~Authenticated(c)
  <2>1. packet_queue[fd] \in Seq(Packets)
    BY <1>2 DEF TypeOK, SocketTypeOK
  <2>2. 1 \in 1..Len(packet_queue[fd]) /\ Head(packet_queue[fd]) = packet_queue[fd][1]
    BY <1>3, <2>1, HeadTailProperties, EmptySeq, LenProperties
  <2>3. StreamOK(packet_queue[fd], c)
    BY <1>1, <1>2 DEF StreamInv, BufferStreams
  <2>4. QED
    BY <1>3, <2>2, <2>3, NotYetAccepted DEF StreamOK
<1>5. \A g \in Fds, d \in Conns :
        /\ Session(g, d)' => Session(g, d) /\ Pending(g, d)' = Pending(g, d)
        /\ Session(g, d) => Session(g, d)'
  BY <1>1, <1>2, <1>4 DEF Session, Pending, Authenticated
<1>6. QED
  BY <1>3, <1>5, WantedKept

\* Nor is a new connection.
LEMMA WantedConnect ==
  ASSUME TypeOK, ConnsInv, WantedInv, NEW fd, HandleConnect(fd)
  PROVE  WantedInv'
<1>1. PICK f \in Fds :
         /\ f \notin Open /\ Open' = Open \cup {f} /\ backlog[1] \in Conns
         /\ Len(backlog) \in Nat /\ Len(backlog) >= 1
         /\ tcp_sockets'[f] = backlog[1]
         /\ \A g \in Fds : g # f => tcp_sockets'[g] = tcp_sockets[g] /\ packet_queue'[g] = packet_queue[g]
  BY AcceptEffect DEF HandleConnect
<1>2. UNCHANGED <<topic_map, wanted, down, up>> /\ Running
  BY DEF HandleConnect, Next_fd, tableVars
<1>3. ~Authenticated(backlog[1])
  <2>1. 1 \in 1..Len(backlog)
    BY <1>1
  <2>2. QED
    BY <2>1 DEF ConnsInv, BacklogOK, Authenticated
<1>4. \A c \in Conns : Authenticated(c)' <=> Authenticated(c)
  BY <1>2 DEF Authenticated
<1>5. \A g \in Fds, d \in Conns :
        /\ Session(g, d)' => Session(g, d) /\ Pending(g, d)' = Pending(g, d)
        /\ Session(g, d) => Session(g, d)'
  BY <1>1, <1>2, <1>3, <1>4 DEF Session, Pending
<1>6. QED
  BY <1>2, <1>5, WantedKept

\* An authentication is sent before any session.
LEMMA WantedSendAuth ==
  ASSUME TypeOK, StreamInv, WantedInv, NEW c \in Conns, SendAuth(c)
  PROVE  WantedInv'
<1>1. /\ Running /\ UNCHANGED <<tcp_sockets, packet_queue, topic_map, wanted, down>>
      /\ up' = [up EXCEPT ![c] = Append(up[c], [type |-> "AUTH", id |-> IdOf[c]])]
  BY DEF SendAuth, Send, socketVars, tableVars
<1>2. ~Authenticated(c)
  BY NotYetAccepted DEF SendAuth, StreamInv, KernelStreams
<1>3. \A d \in Conns : d # c => up'[d] = up[d]
  BY <1>1 DEF TypeOK, KernelTypeOK
<1>4. \A g \in Fds, d \in Conns :
        /\ Session(g, d)' => Session(g, d) /\ Pending(g, d)' = Pending(g, d)
        /\ Session(g, d) => Session(g, d)'
  BY <1>1, <1>2, <1>3 DEF Session, Pending, Open, Authenticated
<1>5. QED
  BY <1>1, <1>4, WantedKept

\* The command of a subscriber joins what its session has not handled: a subscriber that reads its
\* reply has a session, whatever else happened to its id.
LEMMA WantedCommand ==
  ASSUME TypeOK, ConnsInv, WholeInv, SessionBound, WantedInv,
         NEW c \in Conns, NEW type \in Commands, NEW topic \in Topics, Command(c, type, topic)
  PROVE  WantedInv'
<1>1. PICK packet \in Packets :
        packet = [type |-> type, topic |-> topic] /\ packet.type # "AUTH"
        /\ packet.type \in {"SUB", "SUB_SF", "UNSUB"}
  <2>1. type \in {"SUB", "SUB_SF", "UNSUB"}
    BY InputsAssumption
  <2>2. [type |-> type, topic |-> topic] \in CommandPackets
    BY <2>1 DEF CommandPackets
  <2>3. QED
    BY <2>1, <2>2 DEF Packets
<1>2. PICK id \in Ids : id = IdOf[c]
  BY IdsAssumption
<1>3. /\ Running /\ Running' /\ link[c] = "open" /\ Authenticated(c)
      /\ UNCHANGED <<tcp_sockets, packet_queue, topic_map, down>>
      /\ up' = [up EXCEPT ![c] = Append(up[c], packet)]
      /\ wanted' = [wanted EXCEPT ![topic][id] = Subscription(type)]
  BY <1>1, <1>2 DEF Command, Send, socketVars, tableVars, Running, Authenticated, Subscription
<1>4. PICK fd \in Fds : Session(fd, c)
  <2>1. \A i \in 1..Len(backlog) : backlog[i] # c
    BY <1>3 DEF ConnsInv, BacklogOK, Authenticated
  <2>2. PICK fd \in Open : tcp_sockets[fd] = c
    BY <1>3, <2>1 DEF ConnsInv, Reachable
  <2>3. QED
    BY <1>3, <2>2, OpenConn DEF Session
<1>5. /\ up'[c] = Append(up[c], packet) /\ \A d \in Conns : d # c => up'[d] = up[d]
      /\ up[c] \in Seq(Packets) /\ packet_queue[fd] \in Seq(Packets)
      /\ Pending(fd, c) \in Seq(Packets)
  BY <1>3, PendingType DEF TypeOK, KernelTypeOK
<1>6. \A t \in Topics :
        /\ \A i \in Ids : i # id => wanted'[t][i] = wanted[t][i]
        /\ wanted'[t][id] = IF Concerns(packet, t) THEN Subscription(packet.type) ELSE wanted[t][id]
  BY <1>1, <1>2, <1>3 DEF Concerns, TypeOK, OtherTypeOK
<1>7. \A g \in Fds, d \in Conns : Session(g, d)' <=> Session(g, d)
  BY <1>3 DEF Session, Open, Authenticated
<1>8. Pending(fd, c)' = Append(Pending(fd, c), packet)
  <2>1. PICK s \in Seq(Packets), u \in Seq(Packets) : s = packet_queue[fd] /\ u = up[c]
    BY <1>5
  <2>2. <<packet>> \in Seq(Packets)
    BY <1>1
  <2>3. s \o u \in Seq(Packets)
    BY <2>1, ConcatProperties
  <2>4. Append(u, packet) = u \o <<packet>>
    BY <1>1, AppendIsConcat
  <2>5. Append(s \o u, packet) = (s \o u) \o <<packet>>
    BY <1>1, <2>3, AppendIsConcat
  <2>6. (s \o u) \o <<packet>> = s \o (u \o <<packet>>)
    BY <2>2, ConcatAssociative
  <2>7. Pending(fd, c)' = s \o Append(u, packet) /\ Pending(fd, c) = s \o u
    BY <1>3, <1>5, <2>1 DEF Pending
  <2>8. QED
    BY <2>4, <2>5, <2>6, <2>7
<1> SUFFICES ASSUME NEW t \in Topics
             PROVE  /\ \A g \in Fds, d \in Conns : Session(g, d)' =>
                         Current(Pending(g, d)', t, topic_map[t][IdOf[d]], wanted'[t][IdOf[d]])
                    /\ \A i \in Ids : (\A g \in Fds, d \in Conns : Session(g, d)' => IdOf[d] # i) =>
                         topic_map[t][i] = wanted'[t][i]
  BY <1>3 DEF WantedInv, Current
<1>9. ASSUME NEW g \in Fds, NEW d \in Conns, Session(g, d)'
      PROVE  Current(Pending(g, d)', t, topic_map[t][IdOf[d]], wanted'[t][IdOf[d]])
  <2>1. Session(g, d) /\ Current(Pending(g, d), t, topic_map[t][IdOf[d]], wanted[t][IdOf[d]])
    BY <1>3, <1>7, <1>9 DEF WantedInv
  <2>2. CASE d = c
    <3>1. g = fd
      BY <1>4, <2>1, <2>2 DEF Session, ConnsInv, OneFd
    <3>2. Current(Append(Pending(fd, c), packet), t, topic_map[t][id], wanted'[t][id])
      BY <1>1, <1>2, <1>5, <1>6, <2>1, <2>2, <3>1, CurrentAppend
    <3>3. QED
      BY <1>2, <1>8, <2>2, <3>1, <3>2
  <2>3. CASE d # c
    <3>1. IdOf[d] # id /\ IdOf[d] \in Ids
      BY <1>2, <1>4, <2>1, <2>3, OneSession, IdsAssumption DEF ConnsInv
    <3>2. Pending(g, d)' = Pending(g, d)
      BY <1>3, <1>5, <2>3 DEF Pending
    <3>3. QED
      BY <1>6, <2>1, <3>1, <3>2
  <2>4. QED
    BY <2>2, <2>3
<1>10. ASSUME NEW i \in Ids, \A g \in Fds, d \in Conns : Session(g, d)' => IdOf[d] # i
       PROVE  topic_map[t][i] = wanted'[t][i]
  <2>1. i # id
    BY <1>2, <1>4, <1>7, <1>10
  <2>2. topic_map[t][i] = wanted[t][i]
    BY <1>3, <1>7, <1>10 DEF WantedInv
  <2>3. QED
    BY <1>6, <2>1, <2>2
<1>11. QED
  BY <1>9, <1>10

\* Every step keeps the invariant ...
LEMMA WantedStep ==
  ASSUME ~Fragments, TypeOK, TypeOK', NoStrandedPacket, ConnsInv, StreamInv, SessionInv, WholeInv, SessionBound,
         WantedInv, [Next]_vars
  PROVE  WantedInv'
<1>0. Running' => Running
  BY RunningStep
<1>1. CASE UNCHANGED <<topic_map, wanted, tcp_sockets, packet_queue, up, down>>
  BY <1>0, <1>1, WantedSame DEF Authenticated
<1>2. CASE Environment
  <2>1. CASE \E c \in Conns : Connect(c) \/ Leave(c)
    BY <1>1, <2>1 DEF Connect, Leave, socketVars, tableVars, historyVars
  <2>2. CASE \E t \in Topics : Datagram(t)
    BY <1>1, <2>2 DEF Datagram, socketVars, tableVars, historyVars
  <2>3. CASE \E line \in Lines : TypeLine(line)
    BY <1>1, <2>3 DEF TypeLine, socketVars, tableVars, historyVars
  <2>4. QED
    BY <1>2, <2>1, <2>2, <2>3, WantedSendAuth, WantedCommand DEF Environment, Reset
<1>3. CASE HandleStdin
  <2>1. CASE pc' = "exited"
    BY <2>1 DEF WantedInv, Running
  <2>2. QED
    BY <1>1, <1>3, <2>1 DEF HandleStdin, tableVars
<1>4. CASE HandleUdp \/ HandleUdpDies
  <2>1. /\ Head(udp) \in News
        /\ UNCHANGED <<topic_map, wanted, tcp_sockets, packet_queue, up>>
    BY <1>4, HeadOfUdp DEF HandleUdp, HandleUdpDies, tableVars
  <2>2. \E S \in SUBSET Ids : Forward(Head(udp), S)
    BY <1>4 DEF HandleUdp, HandleUdpDies, Online, Subscribed
  <2>3. \A c \in Conns : Authenticated(c)' <=> Authenticated(c)
    BY <2>1, <2>2, ForwardEffect, OnlyNewsKeeps
  <2>4. QED
    BY <1>0, <2>1, <2>3, WantedSame
<1>5. ASSUME NEW fd \in Fds,
             HandleClose(fd) \/ HandleUdpGarbled(fd) \/ TcpNotReady(fd) \/ AuthDies(fd)
      PROVE  WantedInv'
  BY <1>1, <1>5 DEF HandleClose, HandleUdpGarbled, TcpNotReady, AuthDies, Receive, kernelVars, tableVars
<1>6. CASE NoDescriptor \/ UNCHANGED vars
  BY <1>1, <1>6 DEF NoDescriptor, vars, kernelVars, socketVars, tableVars, historyVars
<1>7. QED
  BY <1>2, <1>3, <1>4, <1>5, <1>6, WantedSelect, WantedConnect, WantedAuth, WantedDuplicate,
     WantedSubscribe DEF Next, Loop

\* ... so that it holds in every state.
LEMMA WantedCorrect ==
  ASSUME ~Fragments
  PROVE  Spec => []WantedInv
<1>1. Init => WantedInv
  BY WantedInit
<1>2. TypeOK /\ TypeOK' /\ NoStrandedPacket /\ ConnsInv /\ StreamInv /\ SessionInv /\ WholeInv
        /\ SessionBound /\ WantedInv /\ [Next]_vars => WantedInv'
  BY WantedStep
<1>3. QED
  BY <1>1, <1>2, TypeCorrect, NoStrandedPacketCorrect, SessionsCorrect, WholeCorrect,
     SessionBoundCorrect, PTL DEF Spec

\* Once all that the connections of an id have sent is handled, topic_map holds what the last
\* command of the id asked for, whether its connections are still open or not.
THEOREM SubscriptionsUpToDateCorrect ==
  ASSUME ~Fragments
  PROVE  Spec => []SubscriptionsUpToDate
<1>1. TypeOK /\ WantedInv => SubscriptionsUpToDate
  <2> SUFFICES ASSUME TypeOK, WantedInv, Running, NEW t \in Topics, NEW id \in Ids,
                      \A c \in Conns : IdOf[c] = id => up[c] = <<>>,
                      \A fd \in Open : IdOf[tcp_sockets[fd]] = id => packet_queue[fd] = <<>>
               PROVE  topic_map[t][id] = wanted[t][id]
    BY DEF SubscriptionsUpToDate
  <2>1. CASE \A fd \in Fds, c \in Conns : Session(fd, c) => IdOf[c] # id
    BY <2>1 DEF WantedInv
  <2>2. ASSUME NEW fd \in Fds, NEW c \in Conns, Session(fd, c), IdOf[c] = id
        PROVE  topic_map[t][id] = wanted[t][id]
    <3>1. packet_queue[fd] = <<>> /\ up[c] = <<>>
      BY <2>2 DEF Session
    <3>2. Pending(fd, c) = <<>>
      BY <3>1, PendingType, ConcatEmptySeq DEF Pending
    <3>3. Current(Pending(fd, c), t, topic_map[t][id], wanted[t][id])
      BY <2>2 DEF WantedInv
    <3>4. QED
      BY <3>2, <3>3, CurrentEmpty
  <2>3. QED
    BY <2>1, <2>2
<1>2. QED
  BY <1>1, TypeCorrect, WantedCorrect, PTL

-----------------------------------------------------------------------------
(***************************************************************************)
(* News reach those who asked for them.                                    *)
(***************************************************************************)

\* A datagram is taken from the socket by its handling and by nothing else.
LEMMA TakenByHandler ==
  ASSUME TypeOK, [Next]_vars, udp # <<>>, udp' = Tail(udp)
  PROVE  HandleUdp \/ HandleUdpDies
<1>1. Len(udp) \in Nat /\ Len(udp') = Len(udp) - 1
  BY HeadOfUdp
<1>2. Len(udp') # Len(udp) /\ Len(udp') # Len(udp) + 1
  <2>1. \A k \in Nat : k - 1 # k /\ k - 1 # k + 1
    OBVIOUS
  <2>2. QED
    BY <1>1, <2>1
<1>3. QED
  BY <1>2, NewsFrame, DatagramEffect

\* One id of S, or none, has its session on c.
LEMMA SentTo ==
  ASSUME TypeOK, TypeOK', SessionInv, BatchInv, Next_fd(Udp), missed = {}, udp # <<>>,
         NEW S \in SUBSET Online(Head(udp).topic), Forward(Head(udp), S), NEW c \in Conns
  PROVE  down'[c] = IF IdOf[c] \in Receivers(S, c) THEN Append(down[c], Head(udp)) ELSE down[c]
<1>1. PICK news \in News : news = Head(udp)
  BY HeadOfUdp
<1>2. S \in SUBSET Ids
  BY DEF Online, Subscribed
<1>3. /\ Receivers(S, c) = {} \/ Receivers(S, c) = {IdOf[c]}
      /\ Cardinality(Receivers(S, c)) = IF Receivers(S, c) = {} THEN 0 ELSE 1
  BY <1>2, OneCopy
<1>4. PICK s, r : s = down[c] /\ r = down'[c]
  OBVIOUS
<1>5. /\ s \in Seq(Replies \cup News) /\ r \in Seq(Replies \cup News)
      /\ Len(s) \in Nat /\ Len(r) \in Nat
  BY <1>4, DownType DEF TypeOK, OtherTypeOK
<1>6. /\ \A i \in 1..Len(s) : r[i] = s[i]
      /\ Len(r) = Len(s) + Cardinality(Receivers(S, c))
      /\ \A i \in (Len(s) + 1)..Len(r) : r[i] = news
  BY <1>1, <1>2, <1>4, ForwardEffect DEF OnlyNews, Grows
<1>7. CASE Receivers(S, c) = {}
  <2>1. Len(r) = Len(s)
    BY <1>3, <1>5, <1>6, <1>7
  <2>2. r = s
    BY <1>5, <1>6, <2>1, SeqEqual
  <2>3. QED
    BY <1>1, <1>2, <1>4, <1>7, <2>2
<1>8. CASE Receivers(S, c) = {IdOf[c]}
  <2>1. Len(r) = Len(s) + 1
    BY <1>3, <1>6, <1>8
  <2>0. PICK a : a = Append(s, news)
    OBVIOUS
  <2>2. /\ a \in Seq(Replies \cup News) /\ Len(a) = Len(s) + 1 /\ a[Len(s) + 1] = news
        /\ \A i \in 1..Len(s) : a[i] = s[i]
    <3>1. news \in Replies \cup News
      OBVIOUS
    <3>2. QED
      BY <1>5, <2>0, <3>1, AppendProperties
  <2>3. ASSUME NEW i \in 1..Len(r)
        PROVE  r[i] = a[i]
    <3>1. i \in 1..Len(s) \/ (i = Len(s) + 1 /\ i \in (Len(s) + 1)..Len(r))
      BY <1>5, <2>1
    <3>2. QED
      BY <1>6, <2>2, <3>1
  <2>4. r = a
    BY <1>5, <2>1, <2>2, <2>3, SeqEqual
  <2>5. QED
    BY <1>1, <1>2, <1>4, <1>8, <2>0, <2>4
<1>9. QED
  BY <1>3, <1>7, <1>8

\* A datagram reaches a session whose commands were handled exactly when it asked for the topic.
LEMMA NewsReach ==
  ASSUME TypeOK, TypeOK', SessionInv, BatchInv, WholeInv, SessionBound, WantedInv, [Next]_vars,
         udp # <<>>, udp' = Tail(udp), pc' = "top", missed = {},
         NEW fd \in Open, NEW c \in Conns, c = tcp_sockets[fd],
         Authenticated(c), up[c] = <<>>, packet_queue[fd] = <<>>
  PROVE  down'[c] = IF wanted[Head(udp).topic][IdOf[c]] = NotSub THEN down[c]
                    ELSE Append(down[c], Head(udp))
<1>1. HandleUdp
  BY TakenByHandler DEF HandleUdpDies
<1>2. Next_fd(Udp) /\ Running /\ Forward(Head(udp), Online(Head(udp).topic))
  BY <1>1 DEF HandleUdp, Next_fd
<1>3. PICK id \in Ids : id = IdOf[c] /\ id # NoId
  BY IdsAssumption
<1>4. PICK t \in Topics : t = Head(udp).topic
  BY HeadOfUdp DEF News
<1>5. fd \in Fds /\ Session(fd, c)
  BY OpenConn DEF Session
<1>6. topic_map[t][id] = wanted[t][id]
  <2>1. Pending(fd, c) = <<>>
    BY <1>5, PendingType, ConcatEmptySeq DEF Pending
  <2>2. Current(Pending(fd, c), t, topic_map[t][id], wanted[t][id])
    BY <1>2, <1>3, <1>5 DEF WantedInv
  <2>3. QED
    BY <2>1, <2>2, CurrentEmpty
<1>7. state[id] = "CONNECTED" /\ sockfd[id] = fd
  BY <1>3, <1>5 DEF WholeInv, Bound, SessionBound
<1>8. id \in Receivers(Online(t), c) <=> wanted[t][id] # NotSub
  BY <1>3, <1>5, <1>6, <1>7 DEF Receivers, Online, Subscribed
<1>9. down'[c] = IF id \in Receivers(Online(t), c) THEN Append(down[c], Head(udp)) ELSE down[c]
  BY <1>2, <1>3, <1>4, SentTo
<1>10. QED
  BY <1>3, <1>4, <1>8, <1>9

\* An accepted subscriber whose commands were handled gets a datagram exactly when its last
\* command on the topic was a subscription, and gets it once.
THEOREM NewsReachesSubscribersCorrect ==
  ASSUME ~Fragments
  PROVE  Spec => NewsReachesSubscribers
<1>1. TypeOK /\ TypeOK' /\ SessionInv /\ BatchInv /\ WholeInv /\ SessionBound /\ WantedInv /\ [Next]_vars =>
        (udp # <<>> /\ udp' = Tail(udp) /\ pc' = "top" /\ missed = {} =>
           \A fd \in Open :
             LET c == tcp_sockets[fd]
             IN  Authenticated(c) /\ up[c] = <<>> /\ packet_queue[fd] = <<>> =>
                   down'[c] = IF wanted[Head(udp).topic][IdOf[c]] = NotSub THEN down[c]
                              ELSE Append(down[c], Head(udp)))
  <2> SUFFICES ASSUME TypeOK, TypeOK', SessionInv, BatchInv, WholeInv, SessionBound, WantedInv, [Next]_vars,
                      udp # <<>>, udp' = Tail(udp), pc' = "top", missed = {},
                      NEW fd \in Open, NEW c \in Conns, c = tcp_sockets[fd],
                      Authenticated(c), up[c] = <<>>, packet_queue[fd] = <<>>
               PROVE  down'[c] = IF wanted[Head(udp).topic][IdOf[c]] = NotSub THEN down[c]
                                 ELSE Append(down[c], Head(udp))
    BY OpenConn
  <2>1. QED
    BY NewsReach
<1>2. QED
  BY <1>1, TypeCorrect, SessionsCorrect, BatchCorrect, WholeCorrect, SessionBoundCorrect, WantedCorrect, PTL
     DEF Spec, NewsReachesSubscribers
=============================================================================
