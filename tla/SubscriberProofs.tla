-------------------------- MODULE SubscriberProofs --------------------------
(***************************************************************************)
(* Proofs about the client, for any number of lines, news and partial      *)
(* reads: it implements ClientContract, so that what module Server assumes *)
(* of its environment is what client.cpp does; it waits for its keyboard   *)
(* only after a bad line; it prints every news once and in order; and it   *)
(* ends only for a reason.                                                 *)
(***************************************************************************)
EXTENDS Subscriber, SequenceTheorems, FiniteSetTheorems, TLAPS

\* The server's first packet was TYPE_AUTH.
Greeted == heard # <<>> /\ Head(heard) = "AUTH"

\* What may be on its way or in the buffer: a TYPE_AUTH only if it was sent.
Sent == {p \in Packets : p.type = "AUTH" => Greeted}

Heard == {"AUTH", "AUTH_DUPLICATE", "NEWS", "END"}

\* The inductive invariant: the loop is reached only through a TYPE_AUTH that the server sent.
StreamsOK ==
  /\ link \in [{Conn} -> {"none", "open", "hup", "shut"}]
  /\ tcp_sockets \in [{Sock} -> {Conn, NoConn}]
  /\ up \in [{Conn} -> Seq(Sent)]
  /\ packet_queue \in [{Sock} -> Seq(Sent)]
  /\ heard \in Seq(Heard)

StagesOK ==
  /\ pc \in {"connect", "auth"} => out = <<>>
  /\ pc = "connect" => link[Conn] = "none"
  /\ InLoop => Greeted

Inv == StreamsOK /\ StagesOK

LEMMA InvInit == Init => Inv
<1>1. \A S : <<>> \in Seq(S)
  BY EmptySeq
<1>2. QED
  BY <1>1 DEF Init, Inv, StreamsOK, StagesOK, InLoop

\* A greeting is not taken back: what was sent stays sent.
LEMMA GreetingStays ==
  ASSUME heard \in Seq(Heard), NEW t \in Heard, heard' = heard \/ heard' = Append(heard, t)
  PROVE  /\ heard' \in Seq(Heard)
         /\ Greeted => Greeted'
         /\ Sent \subseteq Sent'
<1>1. heard' \in Seq(Heard) /\ (Greeted => Greeted')
  BY DEF Greeted
<1>2. QED
  BY <1>1 DEF Sent

\* The parts of a sequence that one recv() divides.
LEMMA PartsAreSeq ==
  ASSUME NEW S, NEW s \in Seq(S), NEW k \in 0..Len(s)
  PROVE  /\ SubSeq(s, 1, k) \in Seq(S)
         /\ SubSeq(s, k + 1, Len(s)) \in Seq(S)
<1>1. Len(s) \in Nat /\ \A i \in 1..Len(s) : s[i] \in S
  BY LenProperties, ElementOfSeq
<1>2. \A i \in 1..k : s[i] \in S
  BY <1>1
<1>3. \A i \in (k + 1)..Len(s) : s[i] \in S
  BY <1>1
<1>4. QED
  BY <1>1, <1>2, <1>3, SubSeqProperties

LEMMA SentGrows ==
  ASSUME NEW s \in Seq(Sent), Sent \subseteq Sent'
  PROVE  s \in Seq(Sent')
<1>1. s \in [1..Len(s) -> Sent] /\ Len(s) \in Nat
  BY SeqDef, LenProperties
<1>2. QED
  BY <1>1, SeqDef

-----------------------------------------------------------------------------
(***************************************************************************)
(* select(): it moves packets from the kernel to the buffer and closes     *)
(* the connection only at its end.                                         *)
(***************************************************************************)

\* One recv() moves k packets from the kernel to the queue; the end of the stream empties the queue.
LEMMA RecvMoves ==
  ASSUME StreamsOK, NEW P, SelectReturns(P)
  PROVE  \E k \in 0..Len(up[Conn]) :
           /\ up' = [c \in {Conn} |-> SubSeq(up[Conn], k + 1, Len(up[Conn]))]
           /\ \/ packet_queue' = [fd \in {Sock} |-> packet_queue[Sock] \o SubSeq(up[Conn], 1, k)]
              \/ up[Conn] = <<>> /\ packet_queue' = [fd \in {Sock} |-> <<>>]
<1>1. PICK R \in SUBSET MS!ReadableFds : MS!SelectReturns(R, P)
  BY DEF SelectReturns
<1>2. PICK n \in MS!ReadCounts(R) :
        /\ up' = [c \in {Conn} |->
             IF \E fd \in R : tcp_sockets[fd] = c
             THEN LET k == n[CHOOSE fd \in R : tcp_sockets[fd] = c]
                  IN  SubSeq(up[c], k + 1, Len(up[c]))
             ELSE up[c]]
        /\ packet_queue' = [fd \in {Sock} |->
             IF fd \notin R THEN packet_queue[fd]
             ELSE IF MS!AtEnd(fd) THEN <<>>
             ELSE packet_queue[fd] \o SubSeq(up[tcp_sockets[fd]], 1, n[fd])]
  BY <1>1 DEF MS!SelectReturns
<1>3. R \subseteq {Sock} /\ \A fd \in R : tcp_sockets[fd] = Conn
  BY DEF MS!ReadableFds, MS!Open, StreamsOK
<1>4. up[Conn] \in Seq(Sent) /\ packet_queue[Sock] \in Seq(Sent) /\ Len(up[Conn]) \in Nat
  BY LenProperties DEF StreamsOK
<1>5. CASE Sock \in R
  <2>1. n[Sock] \in 0..Len(up[Conn])
    <3>1. n[Sock] \in 0..(MaxNews + 1) /\ n[Sock] <= Len(up[Conn])
      BY <1>2, <1>3, <1>5 DEF MS!ReadCounts
    <3>2. QED
      BY <1>4, <3>1, BoundsAssumption
  <2>2. (CHOOSE fd \in R : tcp_sockets[fd] = Conn) = Sock
    BY <1>3, <1>5
  <2>3. up' = [c \in {Conn} |-> SubSeq(up[Conn], n[Sock] + 1, Len(up[Conn]))]
    BY <1>2, <1>3, <1>5, <2>2
  <2>4. packet_queue' = [fd \in {Sock} |->
          IF MS!AtEnd(Sock) THEN <<>> ELSE packet_queue[Sock] \o SubSeq(up[Conn], 1, n[Sock])]
    BY <1>2, <1>3, <1>5
  <2>5. CASE MS!AtEnd(Sock)
    <3>1. up[Conn] = <<>>
      BY <1>3, <1>5, <2>5 DEF MS!AtEnd
    <3>2. packet_queue' = [fd \in {Sock} |-> <<>>]
      BY <2>4, <2>5
    <3>3. QED
      BY <2>1, <2>3, <3>1, <3>2
  <2>6. CASE ~MS!AtEnd(Sock)
    <3>1. packet_queue' = [fd \in {Sock} |-> packet_queue[Sock] \o SubSeq(up[Conn], 1, n[Sock])]
      BY <2>4, <2>6
    <3>2. QED
      BY <2>1, <2>3, <3>1
  <2>7. QED
    BY <2>5, <2>6
<1>6. CASE Sock \notin R
  <2>1. R = {}
    BY <1>3, <1>6
  <2>2. up' = [c \in {Conn} |-> up[Conn]] /\ packet_queue' = [fd \in {Sock} |-> packet_queue[Sock]]
    BY <1>2, <2>1
  <2>3. SubSeq(up[Conn], 0 + 1, Len(up[Conn])) = up[Conn]
    BY <1>4
  <2>4. packet_queue[Sock] \o SubSeq(up[Conn], 1, 0) = packet_queue[Sock]
    BY <1>4
  <2>5. 0 \in 0..Len(up[Conn])
    BY <1>4
  <2>6. QED
    BY <2>2, <2>3, <2>4, <2>5
<1>7. QED
  BY <1>5, <1>6

LEMMA SelectKeeps ==
  ASSUME StreamsOK, NEW P, SelectReturns(P)
  PROVE  /\ StreamsOK'
         /\ link'[Conn] = link[Conn] \/ (link[Conn] = "hup" /\ link'[Conn] = "shut")
         /\ UNCHANGED <<out, heard>>
<1>1. PICK k \in 0..Len(up[Conn]) :
           /\ up' = [c \in {Conn} |-> SubSeq(up[Conn], k + 1, Len(up[Conn]))]
           /\ \/ packet_queue' = [fd \in {Sock} |-> packet_queue[Sock] \o SubSeq(up[Conn], 1, k)]
              \/ up[Conn] = <<>> /\ packet_queue' = [fd \in {Sock} |-> <<>>]
  BY RecvMoves
<1>2. UNCHANGED <<out, heard>> /\ Greeted' = Greeted /\ Sent' = Sent
  BY DEF SelectReturns, Greeted, Sent
<1>3. /\ SubSeq(up[Conn], 1, k) \in Seq(Sent)
      /\ SubSeq(up[Conn], k + 1, Len(up[Conn])) \in Seq(Sent)
  BY PartsAreSeq DEF StreamsOK
<1>4. up' \in [{Conn} -> Seq(Sent)]
  BY <1>1, <1>3
<1>5. packet_queue' \in [{Sock} -> Seq(Sent)]
  <2>1. packet_queue[Sock] \in Seq(Sent) /\ <<>> \in Seq(Sent)
    BY EmptySeq DEF StreamsOK
  <2>2. packet_queue[Sock] \o SubSeq(up[Conn], 1, k) \in Seq(Sent)
    BY <1>3, <2>1, ConcatProperties
  <2>3. QED
    BY <1>1, <2>1, <2>2
<1>6. PICK R \in SUBSET MS!ReadableFds : MS!SelectReturns(R, P)
  BY DEF SelectReturns
<1>7. \A fd \in R : tcp_sockets[fd] = Conn /\ (up[Conn] # <<>> \/ link[Conn] = "hup")
  BY DEF MS!ReadableFds, MS!Open, StreamsOK
<1>8. MS!Close({fd \in R : MS!AtEnd(fd)})
  BY <1>6 DEF MS!SelectReturns
<1>9. /\ tcp_sockets' \in [{Sock} -> {Conn, NoConn}]
      /\ link' \in [{Conn} -> {"none", "open", "hup", "shut"}]
      /\ link'[Conn] = link[Conn] \/ (link[Conn] = "hup" /\ link'[Conn] = "shut")
  BY <1>7, <1>8 DEF MS!Close, MS!AtEnd, StreamsOK
<1>10. QED
  BY <1>2, <1>4, <1>5, <1>9 DEF StreamsOK

-----------------------------------------------------------------------------
(***************************************************************************)
(* The invariant.                                                          *)
(***************************************************************************)

\* Steps that leave the streams alone.
LEMMA StreamsFrame ==
  ASSUME StreamsOK, UNCHANGED <<link, tcp_sockets, up, packet_queue, heard>>
  PROVE  StreamsOK' /\ Greeted' = Greeted
  BY DEF StreamsOK, Sent, Greeted

LEMMA InvServerSends ==
  ASSUME Inv, NEW packet \in Packets, ServerSends(packet),
         packet.type = "AUTH" => heard = <<>> \/ Greeted
  PROVE  Inv'
<1>1. packet.type \in Heard
  BY DEF Packets, News, Heard
<1>2. heard \in Seq(Heard) /\ heard' = Append(heard, packet.type)
  BY DEF Inv, StreamsOK, ServerSends
<1>3. heard' \in Seq(Heard) /\ (Greeted => Greeted') /\ Sent \subseteq Sent'
  BY <1>1, <1>2, GreetingStays
<1>4. packet.type = "AUTH" => Greeted'
  BY <1>2, <1>3 DEF Greeted
<1>5. packet \in Sent'
  BY <1>4 DEF Sent
<1>6. up' \in [{Conn} -> Seq(Sent')]
  <2>1. up[Conn] \in Seq(Sent')
    BY <1>3, SentGrows DEF Inv, StreamsOK
  <2>2. Append(up[Conn], packet) \in Seq(Sent')
    BY <1>5, <2>1
  <2>3. QED
    BY <2>2 DEF ServerSends, Inv, StreamsOK
<1>7. packet_queue' \in [{Sock} -> Seq(Sent')]
  <2>1. packet_queue[Sock] \in Seq(Sent')
    BY <1>3, SentGrows DEF Inv, StreamsOK
  <2>2. QED
    BY <2>1 DEF ServerSends, envFrame, socketVars, Inv, StreamsOK
<1>8. StreamsOK'
  BY <1>3, <1>6, <1>7 DEF ServerSends, envFrame, socketVars, Inv, StreamsOK
<1>9. StagesOK'
  BY <1>3 DEF ServerSends, envFrame, Inv, StagesOK, InLoop
<1>10. QED
  BY <1>8, <1>9 DEF Inv

LEMMA InvServerCloses ==
  ASSUME Inv, ServerCloses
  PROVE  Inv'
<1>1. "END" \in Heard
  BY DEF Heard
<1>2. heard \in Seq(Heard) /\ heard' = Append(heard, "END")
  BY DEF Inv, StreamsOK, ServerCloses
<1>3. heard' \in Seq(Heard) /\ (Greeted => Greeted') /\ Sent \subseteq Sent'
  BY <1>1, <1>2, GreetingStays
<1>4. up' \in [{Conn} -> Seq(Sent')]
  <2>1. up[Conn] \in Seq(Sent') /\ <<>> \in Seq(Sent')
    BY <1>3, SentGrows, EmptySeq DEF Inv, StreamsOK
  <2>2. QED
    BY <2>1 DEF ServerCloses, Inv, StreamsOK
<1>5. packet_queue' \in [{Sock} -> Seq(Sent')]
  <2>1. packet_queue[Sock] \in Seq(Sent')
    BY <1>3, SentGrows DEF Inv, StreamsOK
  <2>2. QED
    BY <2>1 DEF ServerCloses, envFrame, socketVars, Inv, StreamsOK
<1>6. StreamsOK'
  BY <1>3, <1>4, <1>5 DEF ServerCloses, envFrame, socketVars, Inv, StreamsOK
<1>7. StagesOK'
  BY <1>3 DEF ServerCloses, envFrame, Inv, StreamsOK, StagesOK, InLoop
<1>8. QED
  BY <1>6, <1>7 DEF Inv

LEMMA InvEnvironment ==
  ASSUME Inv, Environment
  PROVE  Inv'
<1>1. CASE ServerReplies
  <2>1. PICK t \in {"AUTH", "AUTH_DUPLICATE"} : heard = <<>> /\ ServerSends([type |-> t])
    BY <1>1 DEF ServerReplies
  <2>2. [type |-> t] \in Packets
    BY DEF Packets
  <2>3. QED
    BY <2>1, <2>2, InvServerSends
<1>2. CASE ServerSendsNews
  <2>1. Len(heard) \in 1..MaxNews
    BY <1>2, BoundsAssumption DEF ServerSendsNews, Inv, StreamsOK
  <2>2. [type |-> "NEWS", n |-> Len(heard)] \in Packets
    BY <2>1 DEF Packets, News
  <2>3. QED
    BY <1>2, <2>2, InvServerSends DEF ServerSendsNews
<1>3. CASE ServerCloses
  BY <1>3, InvServerCloses
<1>4. CASE CloseStdin \/ \E line \in LineKinds : TypeLine(line)
  <2>1. UNCHANGED <<link, tcp_sockets, up, packet_queue, heard, pc, out>>
    BY <1>4 DEF CloseStdin, TypeLine, envFrame, socketVars
  <2>2. QED
    BY <2>1, StreamsFrame DEF Inv, StagesOK, InLoop
<1>5. QED
  BY <1>1, <1>2, <1>3, <1>4 DEF Environment

\* write_packet() takes the first packet.
LEMMA TakeKeeps ==
  ASSUME StreamsOK, TakePacket, MS!PacketReady(Sock), UNCHANGED <<link, tcp_sockets, up, heard>>
  PROVE  /\ StreamsOK' /\ Greeted' = Greeted
         /\ Head(packet_queue[Sock]) \in Sent
<1>1. packet_queue[Sock] \in Seq(Sent) /\ packet_queue[Sock] # <<>>
  BY DEF StreamsOK, MS!PacketReady
<1>2. Head(packet_queue[Sock]) \in Sent /\ Tail(packet_queue[Sock]) \in Seq(Sent)
  BY <1>1
<1>3. Greeted' = Greeted /\ Sent' = Sent
  BY DEF Greeted, Sent
<1>4. QED
  BY <1>2, <1>3 DEF StreamsOK, TakePacket

LEMMA CloseAllKeeps ==
  ASSUME StreamsOK, MS!CloseAll, UNCHANGED <<up, heard>>
  PROVE  StreamsOK'
<1>1. Greeted' = Greeted /\ Sent' = Sent
  BY DEF Greeted, Sent
<1>2. <<>> \in Seq(Sent)
  BY EmptySeq
<1>3. QED
  BY <1>1, <1>2 DEF StreamsOK, MS!CloseAll, MS!Close

LEMMA InvMain ==
  ASSUME Inv, Main
  PROVE  Inv'
<1> USE DEF Inv
<1>1. CASE Connect
  <2>1. Greeted' = Greeted /\ Sent' = Sent
    BY <1>1 DEF Connect, Greeted, Sent
  <2>2. StreamsOK'
    BY <1>1, <2>1 DEF Connect, StreamsOK
  <2>3. StagesOK'
    BY <1>1, <2>1 DEF Connect, StagesOK, InLoop
  <2>4. QED
    BY <2>2, <2>3
<1>2. CASE Authenticate
  <2>1. StreamsOK'
    BY <1>2, StreamsFrame DEF Authenticate, kernelVars, socketVars
  <2>2. QED
    BY <1>2, <2>1 DEF Authenticate, StagesOK, InLoop
<1>3. CASE AwaitReply
  <2>1. StreamsOK' /\ pc' = "replied"
    BY <1>3, SelectKeeps DEF AwaitReply
  <2>2. QED
    BY <2>1 DEF StagesOK, InLoop
<1>4. CASE Reply
  <2>1. StreamsOK' /\ Greeted' = Greeted /\ Head(packet_queue[Sock]) \in Sent
    BY <1>4, TakeKeeps DEF Reply, kernelVars
  <2>2. pc' = "ended" \/ (pc' = "select" /\ Head(packet_queue[Sock]).type = "AUTH")
    BY <1>4 DEF Reply, Accepted
  <2>3. QED
    BY <2>1, <2>2 DEF Sent, StagesOK, InLoop
<1>5. CASE NoReply
  <2>1. StreamsOK' /\ pc' \in {"ended", "dead"}
    BY <1>5, StreamsFrame DEF NoReply, kernelVars, socketVars
  <2>2. QED
    BY <2>1 DEF StagesOK, InLoop
<1>6. CASE Select
  <2>1. PICK P : SelectReturns(P)
    BY <1>6 DEF Select
  <2>2. StreamsOK' /\ UNCHANGED <<out, heard>>
    BY <2>1, SelectKeeps
  <2>3. Greeted' = Greeted
    BY <2>2 DEF Greeted
  <2>4. QED
    BY <1>6, <2>2, <2>3 DEF Select, StagesOK, InLoop
<1>7. CASE SelectSkipped \/ NoNext \/ HandleStdin
  <2>1. UNCHANGED <<link, tcp_sockets, up, packet_queue, heard, out>>
    BY <1>7 DEF SelectSkipped, NoNext, HandleStdin, kernelVars, socketVars, loopFrame
  <2>2. StreamsOK' /\ Greeted' = Greeted
    BY <2>1, StreamsFrame
  <2>3. InLoop /\ pc' \in {"select", "next", "fgets"}
    BY <1>7 DEF SelectSkipped, NoNext, HandleStdin, InLoop
  <2>4. QED
    BY <2>2, <2>3 DEF StagesOK, InLoop
<1>8. CASE BadLine \/ Command
  <2>1. UNCHANGED <<link, tcp_sockets, up, packet_queue, heard>>
    BY <1>8 DEF BadLine, Command, Fgets
  <2>2. StreamsOK' /\ Greeted' = Greeted
    BY <2>1, StreamsFrame
  <2>3. InLoop /\ pc' \in {"fgets", "next", "dead"}
    BY <1>8 DEF BadLine, AfterBadLine, Command, Fgets, InLoop
  <2>4. QED
    BY <2>2, <2>3 DEF StagesOK, InLoop
<1>9. CASE BlankLine \/ EndOfFile
  <2>1. UNCHANGED <<link, tcp_sockets, up, packet_queue, heard>> /\ pc' \in {"dead", "spins"}
    BY <1>9 DEF BlankLine, EndOfFile, Fgets, kernelVars, socketVars, loopFrame
  <2>2. StreamsOK'
    BY <2>1, StreamsFrame
  <2>3. QED
    BY <2>1, <2>2 DEF StagesOK, InLoop
<1>10. CASE Exit \/ HandleClose
  <2>1. MS!CloseAll /\ UNCHANGED <<up, heard>> /\ pc' = "ended"
    BY <1>10 DEF Exit, Fgets, HandleClose, HandleSocket
  <2>2. StreamsOK'
    BY <2>1, CloseAllKeeps
  <2>3. QED
    BY <2>1, <2>2 DEF StagesOK, InLoop
<1>11. CASE HandleNews
  <2>1. StreamsOK' /\ Greeted' = Greeted
    BY <1>11, TakeKeeps DEF HandleNews, HandleSocket
  <2>2. InLoop /\ pc' = "next"
    BY <1>11 DEF HandleNews, HandleSocket, InLoop
  <2>3. QED
    BY <2>1, <2>2 DEF StagesOK, InLoop
<1>12. CASE HandleStale
  <2>1. UNCHANGED <<link, tcp_sockets, up, packet_queue, heard>>
    BY <1>12 DEF HandleStale, HandleSocket
  <2>2. StreamsOK' /\ Greeted' = Greeted
    BY <2>1, StreamsFrame
  <2>3. InLoop /\ pc' \in {"next", "dead"}
    BY <1>12 DEF HandleStale, HandleSocket, InLoop
  <2>4. QED
    BY <2>2, <2>3 DEF StagesOK, InLoop
<1>13. QED
  BY <1>1, <1>2, <1>3, <1>4, <1>5, <1>6, <1>7, <1>8, <1>9, <1>10, <1>11, <1>12 DEF Main

LEMMA InvStep ==
  ASSUME Inv, [Next]_vars
  PROVE  Inv'
<1>1. CASE Environment
  BY <1>1, InvEnvironment
<1>2. CASE Main
  BY <1>2, InvMain
<1>3. CASE UNCHANGED vars
  <2>1. UNCHANGED <<link, tcp_sockets, up, packet_queue, heard, pc, out>>
    BY <1>3 DEF vars, kernelVars, socketVars
  <2>2. QED
    BY <2>1, StreamsFrame DEF Inv, StagesOK, InLoop
<1>4. QED
  BY <1>1, <1>2, <1>3 DEF Next

-----------------------------------------------------------------------------
(***************************************************************************)
(* The simulation of ClientContract.                                       *)
(***************************************************************************)

ContractStep == [Contract!Next]_(Contract!vars)

\* The process ends: the contract's Leave, or nothing if the server ended the connection.
LEMMA EndsIsLeave ==
  ASSUME pc' \in {"ended", "dead", "spins"}, UNCHANGED <<out, heard>>
  PROVE  ContractStep
<1>1. Status' = "closed"
  BY DEF Status, Over
<1>2. CASE Status = "closed"
  BY <1>1, <1>2 DEF ContractStep, Contract!vars
<1>3. CASE Status # "closed"
  BY <1>1, <1>3 DEF ContractStep, Contract!Next, Contract!Leave
<1>4. QED
  BY <1>2, <1>3

\* Nothing is sent and the connection stays as it is.
LEMMA InsideIsStutter ==
  ASSUME ~Over, ~Over', UNCHANGED <<out, heard>>,
         link'[Conn] = link[Conn] \/ (link[Conn] = "hup" /\ link'[Conn] = "shut")
  PROVE  ContractStep
<1>1. Status' = Status
  BY DEF Status
<1>2. QED
  BY <1>1 DEF ContractStep, Contract!vars

LEMMA EnvironmentSimulates ==
  ASSUME Inv, Environment
  PROVE  ContractStep
<1>1. ASSUME NEW packet, ServerSends(packet), packet.type \in {"AUTH", "AUTH_DUPLICATE", "NEWS"},
             (heard = <<>>) <=> (packet.type # "NEWS")
      PROVE  ContractStep
  <2>1. Status = "open" /\ Status' = "open"
    BY <1>1 DEF Environment, ServerSends, envFrame, Status, Over
  <2>2. Contract!Hear(packet.type)
    BY <1>1, <2>1 DEF ServerSends, envFrame, Contract!Hear
  <2>3. QED
    BY <1>1, <2>2 DEF ContractStep, Contract!Next
<1>2. CASE ServerReplies
  BY <1>1, <1>2 DEF ServerReplies
<1>3. CASE ServerSendsNews
  BY <1>1, <1>3 DEF ServerSendsNews
<1>4. CASE ServerCloses
  <2>1. Status = "open" /\ Status' = "closed"
    BY <1>4 DEF Environment, ServerCloses, Status, Over, Inv, StreamsOK
  <2>2. QED
    BY <1>4, <2>1 DEF ServerCloses, envFrame, ContractStep, Contract!Next, Contract!Cut
<1>5. CASE CloseStdin \/ \E line \in LineKinds : TypeLine(line)
  <2>1. UNCHANGED <<link, heard, pc, out>>
    BY <1>5 DEF CloseStdin, TypeLine, envFrame
  <2>2. QED
    BY <2>1, InsideIsStutter DEF Environment, Over
<1>6. QED
  BY <1>2, <1>3, <1>4, <1>5 DEF Environment

LEMMA MainSimulates ==
  ASSUME Inv, Main
  PROVE  ContractStep
<1>1. CASE Connect
  <2>1. CASE pc' = "dead"
    BY <1>1, <2>1, EndsIsLeave DEF Connect
  <2>2. CASE pc' # "dead"
    <3>1. Status = "none" /\ Status' = "open"
      BY <1>1, <2>2 DEF Connect, Inv, StagesOK, StreamsOK, Status, Over
    <3>2. QED
      BY <1>1, <3>1 DEF Connect, ContractStep, Contract!Next, Contract!Connect
  <2>3. QED
    BY <2>1, <2>2
<1>2. CASE Authenticate
  <2>1. CASE pc' = "dead"
    BY <1>2, <2>1, EndsIsLeave DEF Authenticate
  <2>2. CASE pc' # "dead" /\ link[Conn] = "open"
    <3>1. Status = "open" /\ Status' = "open"
      BY <1>2, <2>2 DEF Authenticate, kernelVars, Status, Over
    <3>2. out = <<>> /\ out' = <<"AUTH">> /\ heard' = heard
      BY <1>2, <2>2 DEF Authenticate, Sends, Inv, StagesOK
    <3>3. QED
      BY <3>1, <3>2 DEF ContractStep, Contract!Next, Contract!Authenticate
  <2>3. CASE pc' # "dead" /\ link[Conn] # "open"
    BY <1>2, <2>3, InsideIsStutter DEF Authenticate, Sends, kernelVars, Over
  <2>4. QED
    BY <2>1, <2>2, <2>3
<1>3. CASE AwaitReply
  BY <1>3, SelectKeeps, InsideIsStutter DEF AwaitReply, Over, Inv
<1>4. CASE Reply
  <2>1. UNCHANGED <<link, out, heard>> /\ pc = "replied" /\ pc' \in {"select", "ended"}
    BY <1>4 DEF Reply, kernelVars
  <2>2. QED
    BY <2>1, EndsIsLeave, InsideIsStutter DEF Over
<1>5. CASE NoReply \/ BlankLine \/ EndOfFile \/ Exit \/ HandleClose
  <2>1. UNCHANGED <<out, heard>> /\ pc' \in {"ended", "dead", "spins"}
    BY <1>5 DEF NoReply, BlankLine, EndOfFile, Exit, HandleClose, Fgets, HandleSocket, loopFrame
  <2>2. QED
    BY <2>1, EndsIsLeave
<1>6. CASE Select
  <2>1. PICK P : SelectReturns(P)
    BY <1>6 DEF Select
  <2>2. QED
    BY <1>6, <2>1, SelectKeeps, InsideIsStutter DEF Select, Over, Inv
<1>7. CASE SelectSkipped \/ NoNext \/ HandleStdin \/ BadLine \/ HandleNews
  <2>1. UNCHANGED <<link, out, heard>> /\ ~Over /\ ~Over'
    BY <1>7 DEF SelectSkipped, NoNext, HandleStdin, BadLine, AfterBadLine, HandleNews, Fgets,
                HandleSocket, loopFrame, kernelVars, Over
  <2>2. QED
    BY <2>1, InsideIsStutter
<1>8. CASE HandleStale
  <2>1. UNCHANGED <<link, out, heard>> /\ pc = "next" /\ pc' \in {"next", "dead"}
    BY <1>8 DEF HandleStale, HandleSocket
  <2>2. QED
    BY <2>1, EndsIsLeave, InsideIsStutter DEF Over
<1>9. CASE Command
  <2>1. UNCHANGED <<link, heard>> /\ pc = "fgets" /\ pc' \in {"next", "dead"}
    BY <1>9 DEF Command, Fgets
  <2>2. CASE pc' = "dead"
    BY <1>9, <2>1, <2>2, EndsIsLeave DEF Command
  <2>3. CASE pc' # "dead" /\ link[Conn] = "open"
    <3>1. Status = "open" /\ Status' = "open"
      BY <2>1, <2>3 DEF Status, Over
    <3>2. Greeted /\ out' = Append(out, "COMMAND")
      BY <1>9, <2>1, <2>3 DEF Command, Sends, Inv, StagesOK, InLoop
    <3>3. QED
      BY <2>1, <3>1, <3>2 DEF Greeted, ContractStep, Contract!Next, Contract!Command
  <2>4. CASE pc' # "dead" /\ link[Conn] # "open"
    BY <1>9, <2>1, <2>4, InsideIsStutter DEF Command, Sends, Over
  <2>5. QED
    BY <2>2, <2>3, <2>4
<1>10. QED
  BY <1>1, <1>2, <1>3, <1>4, <1>5, <1>6, <1>7, <1>8, <1>9 DEF Main

\* The client, with any keyboard and any server that answers first and ends when it likes, keeps
\* its part of the contract that module Server relies on: one authentication, and commands only
\* after a reply TYPE_AUTH (client.cpp:92-112, 146-147).
THEOREM ClientKeepsContract == Spec => ImplementsContract
<1>1. Init => Contract!Init
  BY DEF Init, Contract!Init, Status, Over
<1>2. Inv /\ [Next]_vars => [Contract!Next]_(Contract!vars)
  <2> SUFFICES ASSUME Inv, [Next]_vars
               PROVE  ContractStep
    BY DEF ContractStep
  <2>1. CASE UNCHANGED vars
    BY <2>1 DEF vars, kernelVars, Status, Over, ContractStep, Contract!vars
  <2>2. QED
    BY <2>1, EnvironmentSimulates, MainSimulates DEF Next
<1>3. QED
  BY <1>1, <1>2, InvInit, InvStep, PTL DEF Spec, ImplementsContract, Contract!Spec

-----------------------------------------------------------------------------
(***************************************************************************)
(* The entry of stdin stands for a line to read.                           *)
(***************************************************************************)

\* A line waits in the kernel, or the end of stdin.
LineWaits == typed # <<>> \/ eof

\* The inductive invariant: stdin's entry is popped when it is handed out, and no line is read while
\* it is queued; what leads to fgets() is the entry or a bad line.
StdinOK ==
  /\ sock_queue \in [MS!AllFds -> MS!FdTypes \cup {"none"}]
  /\ sock_queue[Stdin] \in {"none", "FD_UNBUFFERED"}
  /\ sock_queue[Stdin] # "none" => LineWaits
  /\ pc = "fgets" => sock_queue[Stdin] = "none" /\ (LineWaits \/ last = "bad")

LEMMA StdinInit == Init => StdinOK
<1>1. Stdin \in MS!AllFds
  BY DEF Stdin, MS!AllFds
<1>2. QED
  BY <1>1 DEF Init, MS!EmptyQueue, StdinOK

\* select() reports stdin only when there is something to read, and always with the same type.
LEMMA StdinSelect ==
  ASSUME StdinOK, NEW P \in SUBSET MS!ReadableSpecials, SelectReturns(P)
  PROVE  /\ sock_queue' \in [MS!AllFds -> MS!FdTypes \cup {"none"}]
         /\ sock_queue'[Stdin] \in {"none", "FD_UNBUFFERED"}
         /\ sock_queue'[Stdin] # "none" => LineWaits'
<1>1. PICK R \in SUBSET MS!ReadableFds : MS!SelectReturns(R, P)
  BY DEF SelectReturns
<1>2. PICK n \in MS!ReadCounts(R), uninit \in MS!FdTypes :
        sock_queue' = [fd \in MS!AllFds |->
          IF fd \in R \cup P THEN MS!FdType(fd, R \cup P, n, uninit) ELSE "none"]
  BY <1>1 DEF MS!SelectReturns, MS!FdTypes
<1>3. /\ Stdin \in MS!AllFds /\ Stdin = 0 /\ Sock = 5 /\ MS!Listen = 4 /\ MS!Udp = 3
      /\ R \subseteq {Sock}
  BY DEF Stdin, MS!Stdin, MS!AllFds, Sock, MS!Listen, MS!Udp, MS!ReadableFds, MS!Open
<1>4. Stdin \in P => LineWaits'
  BY <1>3 DEF MS!ReadableSpecials, Stdin, SelectReturns, lineVars, LineWaits
<1>5. MS!FdType(Stdin, R \cup P, n, uninit) = "FD_UNBUFFERED"
  BY <1>3 DEF MS!FdType, MS!Classify
<1>6. \A fd : MS!FdType(fd, R \cup P, n, uninit) \in MS!FdTypes
  <2>1. \A g : MS!Classify(g) \in MS!FdTypes
    BY DEF MS!Classify, MS!FdTypes
  <2>2. QED
    BY <1>2, <2>1 DEF MS!FdType
<1>7. QED
  BY <1>2, <1>3, <1>4, <1>5, <1>6

\* get_next_fd() adds no entry.
LEMMA StdinQueueAfter ==
  ASSUME StdinOK, NEW fd, sock_queue' = MS!QueueAfter(fd)
  PROVE  /\ sock_queue' \in [MS!AllFds -> MS!FdTypes \cup {"none"}]
         /\ sock_queue'[Stdin] \in {sock_queue[Stdin], "none"}
  BY DEF StdinOK, MS!QueueAfter, Stdin, MS!AllFds

\* It hands out stdin when its entry is queued, and pops it.
LEMMA StdinPopped ==
  ASSUME StdinOK, MS!NextFd(Stdin), sock_queue' = MS!QueueAfter(Stdin)
  PROVE  sock_queue[Stdin] # "none" /\ sock_queue'[Stdin] = "none"
<1>1. Stdin \in MS!Queued
  BY DEF MS!NextFd, MS!IsLeast, MS!Returnable
<1>2. sock_queue[Stdin] # "none" /\ Stdin \in MS!AllFds
  BY <1>1 DEF MS!Queued
<1>3. \A fd \in MS!AllFds : Stdin <= fd
  BY DEF MS!AllFds, Stdin, MS!Stdin, MS!Udp, MS!Listen, Sock
<1>4. MS!IsLeast(Stdin, MS!Queued)
  BY <1>1, <1>3 DEF MS!IsLeast, MS!Queued
<1>5. QED
  BY <1>2, <1>4 DEF MS!QueueAfter, StdinOK

LEMMA StdinStep ==
  ASSUME StdinOK, [Next]_vars
  PROVE  StdinOK'
<1>1. CASE Environment
  <2>1. UNCHANGED <<sock_queue, pc, last>>
    BY <1>1 DEF Environment, ServerReplies, ServerSendsNews, ServerSends, ServerCloses, TypeLine,
                CloseStdin, envFrame, socketVars
  <2>2. LineWaits => LineWaits'
    <3>1. CASE \E line \in LineKinds : TypeLine(line)
      BY <3>1 DEF TypeLine, LineWaits
    <3>2. CASE CloseStdin
      BY <3>2 DEF CloseStdin, LineWaits
    <3>3. CASE ServerReplies \/ ServerSendsNews \/ ServerCloses
      BY <3>3 DEF ServerReplies, ServerSendsNews, ServerSends, ServerCloses, LineWaits
    <3>4. QED
      BY <1>1, <3>1, <3>2, <3>3 DEF Environment
  <2>3. QED
    BY <2>1, <2>2 DEF StdinOK
<1>2. CASE Connect \/ Authenticate \/ NoReply \/ SelectSkipped \/ EndOfFile
  <2>1. UNCHANGED <<sock_queue, typed, eof>> /\ pc' # "fgets"
    BY <1>2 DEF Connect, Authenticate, NoReply, SelectSkipped, EndOfFile, kernelVars, socketVars,
                lineVars
  <2>2. QED
    BY <2>1 DEF StdinOK, LineWaits
<1>3. CASE AwaitReply
  <2>1. SelectReturns({}) /\ {} \in SUBSET MS!ReadableSpecials /\ pc' = "replied"
    BY <1>3 DEF AwaitReply
  <2>2. QED
    BY <2>1, StdinSelect DEF StdinOK
<1>4. CASE Select
  <2>1. PICK P \in SUBSET MS!ReadableSpecials : SelectReturns(P)
    BY <1>4 DEF Select
  <2>2. pc' = "next"
    BY <1>4 DEF Select
  <2>3. QED
    BY <2>1, <2>2, StdinSelect DEF StdinOK
<1>5. CASE Reply \/ HandleClose \/ HandleNews \/ HandleStale
  <2>1. sock_queue' = MS!QueueAfter(Sock) /\ UNCHANGED <<typed, eof>> /\ pc' # "fgets"
    BY <1>5 DEF Reply, HandleClose, HandleNews, HandleStale, HandleSocket, kernelVars, lineVars
  <2>2. QED
    BY <2>1, StdinQueueAfter DEF StdinOK, LineWaits
<1>6. CASE NoNext
  <2>1. Stdin \in MS!AllFds
    BY DEF Stdin, MS!AllFds
  <2>2. QED
    BY <1>6, <2>1 DEF NoNext, MS!EmptyQueue, StdinOK
<1>7. CASE HandleStdin
  <2>1. sock_queue[Stdin] # "none" /\ sock_queue'[Stdin] = "none"
    BY <1>7, StdinPopped DEF HandleStdin
  <2>2. LineWaits'
    BY <1>7, <2>1 DEF HandleStdin, kernelVars, StdinOK, LineWaits
  <2>3. sock_queue' \in [MS!AllFds -> MS!FdTypes \cup {"none"}]
    BY <1>7, StdinQueueAfter DEF HandleStdin
  <2>4. QED
    BY <2>1, <2>2, <2>3 DEF StdinOK
<1>8. CASE BadLine \/ BlankLine \/ Exit \/ Command
  <2>1. sock_queue' = sock_queue /\ sock_queue[Stdin] = "none" /\ (pc' = "fgets" => last' = "bad")
    BY <1>8 DEF BadLine, BlankLine, Exit, Command, Fgets, StdinOK
  <2>2. QED
    BY <2>1 DEF StdinOK
<1>9. CASE UNCHANGED vars
  BY <1>9 DEF vars, kernelVars, socketVars, StdinOK, LineWaits
<1>10. QED
  BY <1>1, <1>2, <1>3, <1>4, <1>5, <1>6, <1>7, <1>8, <1>9 DEF Next, Main

\* For any keyboard or pipe: main() waits in fgets(), deaf to the server, only after a line that was
\* empty or invalid (client.cpp:128-144); a line that select() has reported is still there.
THEOREM WaitsOnlyAfterBadLine == Spec => []BlockedOnlyByBadLine
<1>1. StdinOK => BlockedOnlyByBadLine
  BY DEF StdinOK, BlockedOnlyByBadLine, Blocked, LineWaits
<1>2. QED
  BY <1>1, StdinInit, StdinStep, PTL DEF Spec

-----------------------------------------------------------------------------
(***************************************************************************)
(* The type invariant.  The client parses what it gets in its loop as      *)
(* news without a look at its type: that nothing else comes there is a     *)
(* fact about the order of what the server sends and of what is taken.     *)
(***************************************************************************)

Queue  == packet_queue[Sock]
Kernel == up[Conn]

\* Only the first packet is no news, and it is taken before the loop.
NewsBehind ==
  /\ heard = <<>> => Queue = <<>> /\ Kernel = <<>>
  /\ \A i \in 1..Len(Queue) : i > 1 \/ InLoop => Queue[i] \in News
  /\ \A i \in 1..Len(Kernel) : i > 1 \/ Queue # <<>> \/ InLoop => Kernel[i] \in News

\* Lines are counted where they are: typed, in stdio's buffer, or returned.
CountsOK ==
  /\ typed \in Seq({"exit", "bad", "blank", "command"})
  /\ stdio \in Seq({"exit", "bad", "blank", "command"})
  /\ handled \in Nat /\ handled + Len(stdio) + Len(typed) <= MaxLines
  /\ partials \in 0..MaxPartials /\ eof \in BOOLEAN
  /\ pc \in {"connect", "auth", "reply", "replied", "select", "next", "fgets", "ended", "dead", "spins"}

TypeInv == Inv /\ StdinOK /\ NewsBehind /\ CountsOK

LEMMA CountsInit == Init => NewsBehind /\ CountsOK
<1>1. Init => NewsBehind
  BY DEF Init, NewsBehind, Queue, Kernel
<1>2. Init => CountsOK
  <2>1. \A S : <<>> \in Seq(S)
    BY EmptySeq
  <2>2. Len(<<>>) = 0 /\ MaxLines \in Nat /\ MaxPartials \in Nat
    BY BoundsAssumption, EmptySeq
  <2>3. Init => handled \in Nat /\ handled + Len(stdio) + Len(typed) <= MaxLines
    BY <2>2 DEF Init
  <2>4. Init => partials \in 0..MaxPartials
    BY <2>2 DEF Init
  <2>5. QED
    BY <2>1, <2>3, <2>4 DEF Init, CountsOK
<1>3. QED
  BY <1>1, <1>2

LEMMA CountsStep ==
  ASSUME CountsOK, [Next]_vars
  PROVE  CountsOK'
<1> DEFINE AllLines == {"exit", "bad", "blank", "command"}
<1>1. CASE \E line \in LineKinds : TypeLine(line)
  <2>1. PICK line \in LineKinds : TypeLine(line)
    BY <1>1
  <2>2. line \in AllLines
    BY LinesAssumption
  <2>3. typed' \in Seq(AllLines) /\ Len(typed') = Len(typed) + 1
    BY <2>1, <2>2 DEF TypeLine, CountsOK
  <2>4. UNCHANGED <<stdio, handled, partials, eof, pc>> /\ handled + Len(stdio) + Len(typed) < MaxLines
    BY <2>1 DEF TypeLine, envFrame
  <2>5. Len(stdio) \in Nat /\ Len(typed) \in Nat /\ MaxLines \in Nat
    BY LenProperties, BoundsAssumption DEF CountsOK
  <2>6. handled' + Len(stdio') + Len(typed') <= MaxLines
    BY <2>3, <2>4, <2>5 DEF CountsOK
  <2>7. QED
    BY <2>3, <2>4, <2>6 DEF CountsOK
<1>2. CASE ServerReplies \/ ServerSendsNews \/ ServerCloses \/ CloseStdin
  <2>1. UNCHANGED <<typed, stdio, handled, partials, pc>> /\ (eof' = eof \/ eof' = TRUE)
    BY <1>2 DEF ServerReplies, ServerSendsNews, ServerSends, ServerCloses, CloseStdin, envFrame
  <2>2. QED
    BY <2>1 DEF CountsOK
<1>3. CASE \/ Connect \/ Authenticate \/ Reply \/ NoReply \/ SelectSkipped \/ NoNext \/ HandleStdin
           \/ EndOfFile \/ HandleClose \/ HandleNews \/ HandleStale
  <2>1. /\ UNCHANGED <<typed, stdio, handled, partials, eof>>
        /\ pc' \in {"auth", "reply", "select", "next", "fgets", "ended", "dead", "spins"}
    BY <1>3 DEF Connect, Authenticate, Reply, NoReply, SelectSkipped, NoNext, HandleStdin, EndOfFile,
                HandleClose, HandleNews, HandleStale, HandleSocket, kernelVars, lineVars, loopFrame
  <2>2. QED
    BY <2>1 DEF CountsOK
<1>4. ASSUME NEW P, SelectReturns(P), pc' \in {"replied", "next"}
      PROVE  CountsOK'
  <2>1. UNCHANGED <<typed, stdio, handled, eof>> /\ partials' \in {partials, partials + 1}
        /\ partials' <= MaxPartials
    BY <1>4, BoundsAssumption DEF SelectReturns, lineVars, CountsOK
  <2>2. partials' \in 0..MaxPartials
    BY <2>1, BoundsAssumption DEF CountsOK
  <2>3. QED
    BY <1>4, <2>1, <2>2 DEF CountsOK
<1>5. CASE AwaitReply \/ Select
  BY <1>4, <1>5 DEF AwaitReply, Select
<1>6. ASSUME NEW line, Fgets(line)
      PROVE  /\ typed' \in Seq(AllLines) /\ stdio' \in Seq(AllLines) /\ handled' \in Nat
             /\ handled' + Len(stdio') + Len(typed') <= MaxLines
             /\ UNCHANGED <<partials, eof>>
  <2>1. typed \in Seq(AllLines) /\ stdio \in Seq(AllLines) /\ handled \in Nat
        /\ Len(typed) \in Nat /\ Len(stdio) \in Nat /\ MaxLines \in Nat
        /\ handled + Len(stdio) + Len(typed) <= MaxLines
    BY LenProperties, BoundsAssumption DEF CountsOK
  <2>2. handled' = handled + 1 /\ UNCHANGED <<partials, eof>>
    BY <1>6 DEF Fgets
  <2>3. CASE stdio # <<>> /\ stdio' = Tail(stdio) /\ UNCHANGED typed
    <3>1. Tail(stdio) \in Seq(AllLines) /\ Len(Tail(stdio)) = Len(stdio) - 1
      BY <2>1, <2>3
    <3>2. QED
      BY <2>1, <2>2, <2>3, <3>1
  <2>4. CASE /\ stdio = <<>> /\ typed # <<>>
             /\ \E k \in IF Burst THEN 1..Len(typed) ELSE {1} :
                  stdio' = SubSeq(typed, 2, k) /\ typed' = SubSeq(typed, k + 1, Len(typed))
    <3>1. Len(typed) >= 1 /\ Len(stdio) = 0
      BY <2>1, <2>4, EmptySeq
    <3>2. PICK k \in 1..Len(typed) :
            stdio' = SubSeq(typed, 2, k) /\ typed' = SubSeq(typed, k + 1, Len(typed))
      BY <2>1, <2>4, <3>1
    <3>3. \A i \in 1..Len(typed) : typed[i] \in AllLines
      BY <2>1, ElementOfSeq
    <3>4. stdio' \in Seq(AllLines) /\ Len(stdio') = k - 1
      <4>1. \A i \in 2..k : typed[i] \in AllLines
        BY <2>1, <3>2, <3>3
      <4>2. QED
        BY <2>1, <3>2, <4>1, SubSeqProperties
    <3>5. typed' \in Seq(AllLines) /\ Len(typed') = Len(typed) - k
      <4>1. \A i \in (k + 1)..Len(typed) : typed[i] \in AllLines
        BY <2>1, <3>2, <3>3
      <4>2. QED
        BY <2>1, <3>2, <4>1, SubSeqProperties
    <3>6. handled' + Len(stdio') + Len(typed') = handled + Len(typed)
      <4>1. handled' = handled + 1 /\ Len(stdio') = k - 1 /\ Len(typed') = Len(typed) - k
        BY <2>2, <3>4, <3>5
      <4>2. handled \in Nat /\ k \in Nat /\ Len(typed) \in Nat
        BY <2>1, <3>2
      <4>3. QED
        BY ONLY <4>1, <4>2
    <3>7. handled' + Len(stdio') + Len(typed') <= MaxLines /\ handled' \in Nat
      BY <2>1, <2>2, <3>1, <3>6
    <3>8. QED
      BY <2>2, <3>4, <3>5, <3>7
  <2>5. QED
    BY <1>6, <2>3, <2>4 DEF Fgets
<1>7. CASE BadLine \/ BlankLine \/ Exit \/ Command
  <2>1. (\E line : Fgets(line)) /\ pc' \in {"fgets", "dead", "ended", "next"}
    BY <1>7 DEF BadLine, AfterBadLine, BlankLine, Exit, Command
  <2>2. QED
    BY <1>6, <2>1 DEF CountsOK
<1>8. CASE UNCHANGED vars
  BY <1>8 DEF vars, kernelVars, CountsOK
<1>9. QED
  BY <1>1, <1>2, <1>3, <1>5, <1>7, <1>8 DEF Next, Environment, Main

\* What recv() moves keeps its order: the first packet stays the first.
LEMMA NewsBehindRecv ==
  ASSUME StreamsOK, NewsBehind, NEW P, SelectReturns(P), InLoop' = InLoop
  PROVE  NewsBehind'
<1>1. PICK k \in 0..Len(up[Conn]) :
           /\ up' = [c \in {Conn} |-> SubSeq(up[Conn], k + 1, Len(up[Conn]))]
           /\ \/ packet_queue' = [fd \in {Sock} |-> packet_queue[Sock] \o SubSeq(up[Conn], 1, k)]
              \/ up[Conn] = <<>> /\ packet_queue' = [fd \in {Sock} |-> <<>>]
  BY RecvMoves
<1>2. /\ Queue \in Seq(Sent) /\ Len(Queue) \in Nat
      /\ Kernel \in Seq(Sent) /\ Len(Kernel) \in Nat
      /\ k \in Nat /\ k <= Len(Kernel)
  BY <1>1, LenProperties DEF StreamsOK, Queue, Kernel
<1>3. heard' = heard
  BY DEF SelectReturns
<1>4. /\ Kernel' = SubSeq(Kernel, k + 1, Len(Kernel))
      /\ Len(Kernel') = Len(Kernel) - k
      /\ \A i \in 1..Len(Kernel') : Kernel'[i] = Kernel[k + i]
  <2>1. Kernel' = SubSeq(Kernel, k + 1, Len(Kernel))
    BY <1>1 DEF Kernel
  <2>2. QED
    BY <1>2, <2>1
<1>5. CASE Queue' = Queue \o SubSeq(Kernel, 1, k)
  <2>1. /\ Len(Queue') = Len(Queue) + k
        /\ \A i \in 1..Len(Queue) : Queue'[i] = Queue[i]
        /\ \A i \in 1..k : Queue'[Len(Queue) + i] = Kernel[i]
    BY <1>2, <1>5
  <2>2. heard = <<>> => Queue' = <<>> /\ Kernel' = <<>>
    BY <1>2, <1>4, <1>5 DEF NewsBehind
  <2>3. ASSUME NEW i \in 1..Len(Queue'), i > 1 \/ InLoop
        PROVE  Queue'[i] \in News
    <3>1. CASE i <= Len(Queue)
      BY <1>2, <2>1, <2>3, <3>1 DEF NewsBehind
    <3>2. CASE i > Len(Queue)
      <4>1. i - Len(Queue) \in 1..k /\ Queue'[i] = Kernel[i - Len(Queue)]
        BY <1>2, <2>1, <3>2
      <4>2. i - Len(Queue) > 1 \/ Queue # <<>> \/ InLoop
        BY <1>2, <2>3, <3>2
      <4>3. QED
        BY <1>2, <4>1, <4>2 DEF NewsBehind
    <3>3. QED
      BY <1>2, <2>1, <3>1, <3>2
  <2>4. ASSUME NEW i \in 1..Len(Kernel'), i > 1 \/ Queue' # <<>> \/ InLoop
        PROVE  Kernel'[i] \in News
    <3>1. k + i \in 1..Len(Kernel) /\ Kernel'[i] = Kernel[k + i]
      BY <1>2, <1>4
    <3>2. CASE k = 0
      <4>1. Queue' = Queue
        BY <1>2, <1>5, <3>2
      <4>2. QED
        BY <1>2, <2>4, <3>1, <3>2, <4>1 DEF NewsBehind
    <3>3. CASE k > 0
      BY <1>2, <3>1, <3>3 DEF NewsBehind
    <3>4. QED
      BY <1>2, <3>2, <3>3
  <2>5. QED
    BY <1>3, <2>2, <2>3, <2>4 DEF NewsBehind
<1>6. CASE Kernel = <<>> /\ Queue' = <<>>
  <2>1. Kernel' = <<>>
    BY <1>2, <1>4, <1>6
  <2>2. QED
    BY <1>6, <2>1 DEF NewsBehind
<1>7. QED
  BY <1>1, <1>5, <1>6 DEF Queue, Kernel

LEMMA NewsBehindEnvironment ==
  ASSUME Inv, NewsBehind, Environment
  PROVE  NewsBehind'
<1>1. /\ Queue \in Seq(Sent) /\ Len(Queue) \in Nat
      /\ Kernel \in Seq(Sent) /\ Len(Kernel) \in Nat /\ heard \in Seq(Heard)
  BY LenProperties DEF Inv, StreamsOK, Queue, Kernel
<1>2. ASSUME NEW packet \in Packets, ServerSends(packet)
      PROVE  /\ Queue' = Queue /\ InLoop' = InLoop /\ heard' # <<>>
             /\ Len(Kernel') = Len(Kernel) + 1
             /\ \A i \in 1..Len(Kernel) : Kernel'[i] = Kernel[i]
             /\ Kernel'[Len(Kernel) + 1] = packet
  <2>1. Kernel' = Append(Kernel, packet)
    BY <1>2 DEF ServerSends, Kernel, Inv, StreamsOK
  <2>2. heard' # <<>>
    BY <1>1, <1>2 DEF ServerSends
  <2>3. Queue' = Queue /\ InLoop' = InLoop
    BY <1>2 DEF ServerSends, envFrame, socketVars, Queue, InLoop
  <2>4. QED
    BY <1>1, <2>1, <2>2, <2>3
<1>3. CASE ServerReplies
  <2>1. PICK t \in {"AUTH", "AUTH_DUPLICATE"} : heard = <<>> /\ ServerSends([type |-> t])
    BY <1>3 DEF ServerReplies
  <2>2. [type |-> t] \in Packets
    BY DEF Packets
  <2>3. Queue = <<>> /\ Kernel = <<>> /\ ~InLoop
    BY <2>1 DEF NewsBehind, Inv, StagesOK, Greeted
  <2>4. Queue' = <<>> /\ Len(Kernel') = 1 /\ ~InLoop' /\ heard' # <<>>
    BY <1>1, <1>2, <2>1, <2>2, <2>3
  <2>5. QED
    BY <2>4 DEF NewsBehind
<1>4. CASE ServerSendsNews
  <2>1. Len(heard) \in 1..MaxNews
    BY <1>4, BoundsAssumption DEF ServerSendsNews, Inv, StreamsOK
  <2>2. [type |-> "NEWS", n |-> Len(heard)] \in News
    BY <2>1 DEF News
  <2>3. [type |-> "NEWS", n |-> Len(heard)] \in Packets
    BY <2>2 DEF Packets
  <2>4. ServerSends([type |-> "NEWS", n |-> Len(heard)])
    BY <1>4 DEF ServerSendsNews
  <2>5. /\ Queue' = Queue /\ InLoop' = InLoop /\ heard' # <<>>
        /\ Len(Kernel') = Len(Kernel) + 1
        /\ \A i \in 1..Len(Kernel) : Kernel'[i] = Kernel[i]
        /\ Kernel'[Len(Kernel) + 1] \in News
    BY <1>2, <2>2, <2>3, <2>4
  <2>6. \A i \in 1..Len(Kernel') : i \in 1..Len(Kernel) \/ i = Len(Kernel) + 1
    BY <1>1, <2>5
  <2>7. QED
    BY <2>5, <2>6 DEF NewsBehind
<1>5. CASE ServerCloses
  <2>1. Queue' = Queue /\ InLoop' = InLoop
    BY <1>5 DEF ServerCloses, envFrame, socketVars, Queue, InLoop
  <2>2. Kernel' = Kernel \/ Kernel' = <<>>
    BY <1>5 DEF ServerCloses, Inv, StreamsOK, Kernel
  <2>3. heard' = Append(heard, "END") /\ "END" \in Heard
    BY <1>5 DEF ServerCloses, Heard
  <2>4. heard' # <<>>
    BY <1>1, <2>3
  <2>5. QED
    BY <2>1, <2>2, <2>4 DEF NewsBehind
<1>6. CASE CloseStdin \/ \E line \in LineKinds : TypeLine(line)
  BY <1>6 DEF CloseStdin, TypeLine, envFrame, socketVars, NewsBehind, Queue, Kernel, InLoop
<1>7. QED
  BY <1>3, <1>4, <1>5, <1>6 DEF Environment

LEMMA NewsBehindMain ==
  ASSUME Inv, NewsBehind, Main
  PROVE  NewsBehind'
<1>1. /\ Queue \in Seq(Sent) /\ Len(Queue) \in Nat
      /\ Kernel \in Seq(Sent) /\ Len(Kernel) \in Nat
  BY LenProperties DEF Inv, StreamsOK, Queue, Kernel
<1>2. InLoop => heard # <<>>
  BY DEF Inv, StagesOK, Greeted
<1>3. CASE AwaitReply
  <2>1. SelectReturns({}) /\ InLoop' = InLoop
    BY <1>3 DEF AwaitReply, InLoop
  <2>2. QED
    BY <2>1, NewsBehindRecv DEF Inv
<1>4. CASE Select
  <2>1. (\E P : SelectReturns(P)) /\ InLoop' = InLoop
    BY <1>4 DEF Select, InLoop
  <2>2. QED
    BY <2>1, NewsBehindRecv DEF Inv
<1>5. CASE Reply \/ HandleNews
  <2>1. /\ UNCHANGED <<up, heard>> /\ TakePacket /\ Queue # <<>>
    BY <1>5 DEF Reply, HandleNews, HandleSocket, kernelVars, MS!PacketReady, Queue
  <2>2. Queue' = Tail(Queue) /\ Kernel' = Kernel
    BY <2>1 DEF TakePacket, Queue, Kernel, Inv, StreamsOK
  <2>3. Len(Queue') = Len(Queue) - 1 /\ \A i \in 1..Len(Queue') : Queue'[i] = Queue[i + 1]
    BY <1>1, <2>1, <2>2
  <2>4. \A i \in 1..Len(Queue') : Queue'[i] \in News
    <3> SUFFICES ASSUME NEW i \in 1..Len(Queue')
                 PROVE  Queue'[i] \in News
      OBVIOUS
    <3>1. i + 1 \in 1..Len(Queue) /\ i + 1 > 1
      BY <1>1, <2>3
    <3>2. QED
      BY <2>3, <3>1 DEF NewsBehind
  <2>5. \A i \in 1..Len(Kernel') : Kernel'[i] \in News
    BY <2>1, <2>2 DEF NewsBehind
  <2>6. heard' # <<>>
    BY <2>1 DEF NewsBehind
  <2>7. QED
    BY <2>4, <2>5, <2>6 DEF NewsBehind
<1>6. CASE Exit \/ HandleClose
  <2>1. MS!CloseAll /\ UNCHANGED <<up, heard>> /\ InLoop
    BY <1>6 DEF Exit, Fgets, HandleClose, HandleSocket, InLoop
  <2>2. Queue' = <<>> /\ Kernel' = Kernel
    BY <2>1 DEF MS!CloseAll, Queue, Kernel
  <2>3. QED
    BY <1>2, <2>1, <2>2 DEF NewsBehind
<1>7. CASE \/ Connect \/ Authenticate \/ NoReply \/ SelectSkipped \/ NoNext \/ HandleStdin
           \/ BadLine \/ BlankLine \/ EndOfFile \/ Command \/ HandleStale
  <2>1. UNCHANGED <<up, packet_queue, heard>>
    BY <1>7 DEF Connect, Authenticate, NoReply, SelectSkipped, NoNext, HandleStdin, BadLine, BlankLine,
                EndOfFile, Command, HandleStale, HandleSocket, Fgets, kernelVars, socketVars, loopFrame
  <2>2. InLoop' => InLoop
    BY <1>7 DEF Connect, Authenticate, NoReply, SelectSkipped, NoNext, HandleStdin, BadLine, BlankLine,
                EndOfFile, Command, HandleStale, HandleSocket, Fgets, AfterBadLine, InLoop
  <2>3. QED
    BY <2>1, <2>2 DEF NewsBehind, Queue, Kernel
<1>8. QED
  BY <1>3, <1>4, <1>5, <1>6, <1>7 DEF Main

LEMMA TypeInvImplies ==
  ASSUME TypeInv
  PROVE  TypeOK
<1>1. /\ link[Conn] \in {"none", "open", "hup", "shut"}
      /\ tcp_sockets[Sock] \in {Conn, NoConn}
  BY DEF TypeInv, Inv, StreamsOK
<1>2. Sent \subseteq Packets /\ News \subseteq Packets
  BY DEF Sent, Packets
<1>3. \A s \in Seq(Sent) : s \in Seq(Packets)
  <2> SUFFICES ASSUME NEW s \in Seq(Sent)
               PROVE  s \in Seq(Packets)
    OBVIOUS
  <2>1. s \in [1..Len(s) -> Sent] /\ Len(s) \in Nat
    BY SeqDef, LenProperties
  <2>2. QED
    BY <1>2, <2>1, SeqDef
<1>4. up[Conn] \in Seq(Packets) /\ packet_queue[Sock] \in Seq(Packets)
  BY <1>3 DEF TypeInv, Inv, StreamsOK
<1>5. InLoop => packet_queue[Sock] \in Seq(News)
  <2> SUFFICES ASSUME InLoop
               PROVE  Queue \in Seq(News)
    BY DEF Queue
  <2>1. Queue \in Seq(Packets)
    BY <1>4 DEF Queue
  <2>2. Queue \in [1..Len(Queue) -> Packets] /\ Len(Queue) \in Nat
    BY <2>1, SeqDef, LenProperties
  <2>3. \A i \in 1..Len(Queue) : Queue[i] \in News
    BY DEF TypeInv, NewsBehind
  <2>4. Queue \in [1..Len(Queue) -> News]
    BY <2>2, <2>3
  <2>5. QED
    BY <2>2, <2>4, SeqDef
<1>6. packet_queue[Sock] \in Seq(IF InLoop THEN News ELSE Packets)
  BY <1>4, <1>5
<1>7. handled \in 0..MaxLines
  <2>1. Len(stdio) \in Nat /\ Len(typed) \in Nat /\ MaxLines \in Nat
    BY LenProperties, BoundsAssumption DEF TypeInv, CountsOK
  <2>2. QED
    BY <2>1 DEF TypeInv, CountsOK
<1>8. sock_queue \in [MS!AllFds -> MS!FdTypes \cup {"none"}]
  BY DEF TypeInv, StdinOK
<1>9. eof \in BOOLEAN
  BY DEF TypeInv, CountsOK
<1>10. partials \in 0..MaxPartials
  BY DEF TypeInv, CountsOK
<1>11. pc \in {"connect", "auth", "reply", "replied", "select", "next", "fgets", "ended", "dead", "spins"}
  BY DEF TypeInv, CountsOK
<1>12. QED
  BY <1>1, <1>4, <1>6, <1>7, <1>8, <1>9, <1>10, <1>11 DEF TypeOK

LEMMA TypeInvStep == TypeInv /\ [Next]_vars => TypeInv'
<1> SUFFICES ASSUME TypeInv, [Next]_vars
             PROVE  TypeInv'
  OBVIOUS
<1>1. Inv' /\ StdinOK' /\ CountsOK'
  BY InvStep, StdinStep, CountsStep DEF TypeInv
<1>2. NewsBehind'
  <2>1. CASE UNCHANGED vars
    BY <2>1 DEF vars, kernelVars, socketVars, TypeInv, NewsBehind, Queue, Kernel, InLoop
  <2>2. QED
    BY <2>1, NewsBehindEnvironment, NewsBehindMain DEF Next, TypeInv
<1>3. QED
  BY <1>1, <1>2 DEF TypeInv

\* The types, with the fact behind parse_subscriber_news(): whatever is cut where, and however the
\* reply and news share a recv(), the loop of main() takes nothing but news from its queue.
THEOREM OnlyNewsInLoop == Spec => []TypeOK
<1>1. Init => TypeInv
  BY InvInit, StdinInit, CountsInit DEF TypeInv
<1>2. QED
  BY <1>1, TypeInvStep, TypeInvImplies, PTL DEF Spec

-----------------------------------------------------------------------------
(***************************************************************************)
(* One return of select(), seen from the connection: it is not read, its   *)
(* end is found, or one recv() completes k packets.                        *)
(***************************************************************************)
NotRead ==
  /\ UNCHANGED <<tcp_sockets, link, Queue, Kernel, partials>>
  /\ sock_queue'[Sock] = "none"

ReadEnd ==
  /\ tcp_sockets[Sock] = Conn /\ link[Conn] = "hup" /\ Kernel = <<>>
  /\ tcp_sockets'[Sock] = NoConn /\ link'[Conn] = "shut" /\ Queue' = <<>> /\ Kernel' = <<>>
  /\ sock_queue'[Sock] = "SOCK_CLOSE" /\ partials' = partials

ReadPart(k) ==
  /\ tcp_sockets[Sock] = Conn /\ UNCHANGED <<tcp_sockets, link>>
  /\ Queue' = Queue \o SubSeq(Kernel, 1, k) /\ Kernel' = SubSeq(Kernel, k + 1, Len(Kernel))
  /\ sock_queue'[Sock] \in MS!FdTypes
  /\ k > 0 \/ Queue # <<>> => sock_queue'[Sock] = "SOCK_TCP"
  /\ partials' = partials + IF k = 0 THEN 1 ELSE 0

LEMMA OneRead ==
  ASSUME TypeInv, NEW P \in SUBSET MS!ReadableSpecials, SelectReturns(P)
  PROVE  \/ NotRead /\ P # {}
         \/ ReadEnd
         \/ \E k \in 0..Len(Kernel) : ReadPart(k)
<1>1. PICK R \in SUBSET MS!ReadableFds : MS!SelectReturns(R, P)
  BY DEF SelectReturns
<1>2. PICK n \in MS!ReadCounts(R), uninit \in MS!FdTypes :
        /\ sock_queue' = [fd \in MS!AllFds |->
             IF fd \in R \cup P THEN MS!FdType(fd, R \cup P, n, uninit) ELSE "none"]
        /\ up' = [c \in {Conn} |->
             IF \E fd \in R : tcp_sockets[fd] = c
             THEN LET k == n[CHOOSE fd \in R : tcp_sockets[fd] = c]
                  IN  SubSeq(up[c], k + 1, Len(up[c]))
             ELSE up[c]]
        /\ packet_queue' = [fd \in {Sock} |->
             IF fd \notin R THEN packet_queue[fd]
             ELSE IF MS!AtEnd(fd) THEN <<>>
             ELSE packet_queue[fd] \o SubSeq(up[tcp_sockets[fd]], 1, n[fd])]
  BY <1>1 DEF MS!SelectReturns, MS!FdTypes
<1>3. /\ R \cup P # {} /\ MS!Close({fd \in R : MS!AtEnd(fd)})
  BY <1>1 DEF MS!SelectReturns
<1>4. /\ Sock \in MS!AllFds /\ Sock \notin MS!ReadableSpecials /\ Sock # MS!Stdin
      /\ Sock # MS!Udp /\ Sock # MS!Listen
  BY DEF MS!AllFds, MS!ReadableSpecials, Sock, MS!Stdin, MS!Udp, MS!Listen
<1>5. R \subseteq {Sock}
      /\ \A fd \in R : tcp_sockets[fd] = Conn /\ (up[Conn] # <<>> \/ link[Conn] = "hup")
  BY DEF MS!ReadableFds, MS!Open, TypeInv, Inv, StreamsOK
<1>6. /\ up \in [{Conn} -> Seq(Sent)] /\ packet_queue \in [{Sock} -> Seq(Sent)]
      /\ tcp_sockets \in [{Sock} -> {Conn, NoConn}] /\ Conn # NoConn
      /\ link \in [{Conn} -> {"none", "open", "hup", "shut"}]
      /\ Kernel \in Seq(Sent) /\ Len(Kernel) \in Nat
      /\ Queue \in Seq(Sent) /\ Len(Queue) \in Nat /\ partials \in Nat
  BY LenProperties, BoundsAssumption DEF TypeInv, Inv, StreamsOK, Kernel, Queue, CountsOK
<1>7. /\ tcp_sockets' = [fd \in {Sock} |-> IF fd \in R /\ MS!AtEnd(fd) THEN NoConn ELSE tcp_sockets[fd]]
      /\ link' = [c \in {Conn} |-> IF \E fd \in R : MS!AtEnd(fd) /\ tcp_sockets[fd] = c THEN "shut"
                                   ELSE link[c]]
  BY <1>3 DEF MS!Close
<1>8. partials' = partials + IF sock_queue'[Sock] # "none" /\ <<up, tcp_sockets>>' = <<up, tcp_sockets>>
                             THEN 1 ELSE 0
  BY DEF SelectReturns
<1>9. CASE Sock \notin R
  <2>1. R = {}
    BY <1>5, <1>9
  <2>2. P # {}
    BY <1>3, <2>1
  <2>3. sock_queue'[Sock] = "none"
    BY <1>2, <1>4, <2>1
  <2>4. tcp_sockets' = tcp_sockets /\ link' = link
    BY <1>6, <1>7, <2>1
  <2>5. Queue' = Queue /\ Kernel' = Kernel
    BY <1>2, <2>1 DEF Queue, Kernel
  <2>6. partials' = partials
    BY <1>6, <1>8, <2>3
  <2>7. QED
    BY <2>2, <2>3, <2>4, <2>5, <2>6 DEF NotRead
<1>10. CASE Sock \in R
  <2>1. R = {Sock} /\ tcp_sockets[Sock] = Conn /\ (CHOOSE fd \in R : tcp_sockets[fd] = Conn) = Sock
    BY <1>5, <1>10
  <2>2. MS!AtEnd(Sock) <=> Kernel = <<>>
    BY <2>1 DEF MS!AtEnd, Kernel
  <2>3. sock_queue'[Sock] = MS!FdType(Sock, R \cup P, n, uninit)
    BY <1>2, <1>4, <2>1
  <2>4. Kernel' = SubSeq(Kernel, n[Sock] + 1, Len(Kernel))
    BY <1>2, <2>1 DEF Kernel
  <2>5. Queue' = IF MS!AtEnd(Sock) THEN <<>> ELSE Queue \o SubSeq(Kernel, 1, n[Sock])
    BY <1>2, <2>1 DEF Queue, Kernel
  <2>6. n[Sock] \in 0..Len(Kernel)
    <3>1. n[Sock] \in 0..(MaxNews + 1) /\ n[Sock] <= Len(up[Conn])
      BY <1>2, <2>1 DEF MS!ReadCounts
    <3>2. QED
      BY <1>6, <3>1, BoundsAssumption DEF Kernel
  <2>7. MS!Classify(Sock) = IF MS!AtEnd(Sock) THEN "SOCK_CLOSE" ELSE "SOCK_TCP"
    BY DEF MS!Classify
  <2>8. CASE Kernel = <<>>
    <3>1. sock_queue'[Sock] = "SOCK_CLOSE"
      BY <2>2, <2>3, <2>7, <2>8 DEF MS!FdType
    <3>2. link[Conn] = "hup"
      BY <1>5, <1>10, <2>8 DEF Kernel
    <3>3. tcp_sockets'[Sock] = NoConn /\ link'[Conn] = "shut" /\ tcp_sockets' # tcp_sockets
      BY <1>6, <1>7, <2>1, <2>2, <2>8
    <3>4. Queue' = <<>> /\ Kernel' = <<>>
      <4>1. n[Sock] = 0 /\ Len(Kernel) = 0
        BY <2>6, <2>8, EmptySeq
      <4>2. QED
        BY <1>6, <2>2, <2>4, <2>5, <2>8, <4>1
    <3>5. partials' = partials
      BY <1>6, <1>8, <3>3
    <3>6. QED
      BY <2>1, <2>8, <3>1, <3>2, <3>3, <3>4, <3>5 DEF ReadEnd
  <2>9. CASE Kernel # <<>>
    <3>1. tcp_sockets' = tcp_sockets /\ link' = link
      BY <1>6, <1>7, <2>1, <2>2, <2>9
    <3>2. Queue' = Queue \o SubSeq(Kernel, 1, n[Sock])
      BY <2>2, <2>5, <2>9
    <3>3. sock_queue'[Sock] \in MS!FdTypes
      <4>1. \A g : MS!Classify(g) \in MS!FdTypes
        BY DEF MS!Classify, MS!FdTypes
      <4>2. QED
        BY <1>2, <2>3, <4>1 DEF MS!FdType
    <3>4. n[Sock] > 0 \/ Queue # <<>> => sock_queue'[Sock] = "SOCK_TCP"
      BY <2>2, <2>3, <2>6, <2>7, <2>9 DEF MS!FdType, Queue
    <3>5. partials' = partials + IF n[Sock] = 0 THEN 1 ELSE 0
      <4>1. sock_queue'[Sock] # "none"
        BY <3>3 DEF MS!FdTypes
      <4>2. up' = up <=> Kernel' = Kernel
        BY <1>2, <1>6, <2>1 DEF Kernel
      <4>3. Kernel' = Kernel <=> n[Sock] = 0
        <5>1. Len(Kernel') = Len(Kernel) - n[Sock]
          BY <1>6, <2>4, <2>6
        <5>2. n[Sock] = 0 => Kernel' = Kernel
          BY <1>6, <2>4
        <5>3. QED
          BY <1>6, <2>6, <5>1, <5>2
      <4>4. QED
        BY <1>8, <3>1, <4>1, <4>2, <4>3
    <3>6. ReadPart(n[Sock])
      BY <2>1, <2>4, <3>1, <3>2, <3>3, <3>4, <3>5 DEF ReadPart
    <3>7. QED
      BY <2>6, <3>6
  <2>10. QED
    BY <2>8, <2>9
<1>11. QED
  BY <1>9, <1>10

-----------------------------------------------------------------------------
(***************************************************************************)
(* What is printed: news are numbered in the order in which they were      *)
(* sent, and the place of each one in the buffer or in the kernel is       *)
(* counted from the last one printed.                                      *)
(***************************************************************************)
Entries == [n : 0..MaxNews, fresh : BOOLEAN]

\* What was taken from the stream: nothing before the loop, then the reply and the news printed.
Taken == IF InLoop THEN Cardinality(Fresh) + 1 ELSE 0

NumbersOK ==
  /\ ~InLoop => printed = <<>>
  /\ \A i \in 1..Len(Queue) : Queue[i] \in News => Queue[i].n = Taken + i - 1
  /\ \A i \in 1..Len(Kernel) : Kernel[i] \in News => Kernel[i].n = Taken + Len(Queue) + i - 1
  /\ link[Conn] \in {"none", "open"} => Taken + Len(Queue) + Len(Kernel) = Len(heard)

\* The entry of a part of a packet may have any type; it stands for a line that may be printed.
Odd == IF sock_queue[Sock] \in {"none", "SOCK_TCP", "SOCK_CLOSE"} THEN 0 ELSE 1

PrintInv ==
  /\ printed \in Seq(Entries)
  /\ pc \in {"connect", "auth", "reply"} => sock_queue[Sock] = "none"
  /\ buffer.type = "NEWS" => printed # <<>> /\ printed[Len(printed)].n = buffer.n
  /\ Len(printed) - Cardinality(Fresh) + Odd <= partials
  /\ PrintedInOrder
  /\ ~Over => NumbersOK

LEMMA FreshFinite ==
  ASSUME printed \in Seq(Entries)
  PROVE  IsFiniteSet(Fresh) /\ Cardinality(Fresh) \in Nat /\ Len(printed) \in Nat
         /\ Fresh \subseteq 1..Len(printed)
<1>1. Len(printed) \in Nat /\ DOMAIN printed = 1..Len(printed)
  BY LenProperties
<1>2. Fresh \subseteq 1..Len(printed)
  BY <1>1 DEF Fresh
<1>3. IsFiniteSet(1..Len(printed))
  BY <1>1, FS_Interval
<1>4. IsFiniteSet(Fresh)
  BY <1>2, <1>3, FS_Subset
<1>5. QED
  BY <1>1, <1>2, <1>4, FS_CardinalityType

\* A line more is printed.
LEMMA PrintsOne ==
  ASSUME printed \in Seq(Entries), NEW entry \in Entries, printed' = Append(printed, entry)
  PROVE  /\ printed' \in Seq(Entries) /\ Len(printed') = Len(printed) + 1
         /\ \A i \in 1..Len(printed) : printed'[i] = printed[i]
         /\ printed'[Len(printed) + 1] = entry
         /\ Fresh' = IF entry.fresh THEN Fresh \cup {Len(printed) + 1} ELSE Fresh
         /\ Cardinality(Fresh') = Cardinality(Fresh) + IF entry.fresh THEN 1 ELSE 0
<1>1. /\ IsFiniteSet(Fresh) /\ Cardinality(Fresh) \in Nat /\ Len(printed) \in Nat
      /\ Fresh \subseteq 1..Len(printed)
  BY FreshFinite
<1>2. /\ printed' \in Seq(Entries) /\ Len(printed') = Len(printed) + 1
      /\ \A i \in 1..Len(printed) : printed'[i] = printed[i]
      /\ printed'[Len(printed) + 1] = entry
  BY AppendProperties
<1>3. DOMAIN printed = 1..Len(printed) /\ DOMAIN printed' = 1..(Len(printed) + 1)
  BY <1>2, LenProperties
<1>4. Len(printed) + 1 \notin 1..Len(printed)
      /\ 1..(Len(printed) + 1) = 1..Len(printed) \cup {Len(printed) + 1}
  BY <1>1
<1>5. entry.fresh \in BOOLEAN
  BY DEF Entries
<1>6. Fresh' = IF entry.fresh THEN Fresh \cup {Len(printed) + 1} ELSE Fresh
  <2> SUFFICES \A i : i \in Fresh' <=> i \in Fresh \/ (i = Len(printed) + 1 /\ entry.fresh)
    OBVIOUS
  <2>1. \A i : i \in Fresh' <=> i \in 1..(Len(printed) + 1) /\ printed'[i].fresh
    BY <1>3 DEF Fresh
  <2>2. \A i : i \in Fresh <=> i \in 1..Len(printed) /\ printed[i].fresh
    BY <1>3 DEF Fresh
  <2>3. \A i : i \in 1..(Len(printed) + 1) <=> i \in 1..Len(printed) \/ i = Len(printed) + 1
    BY <1>4
  <2>4. QED
    BY <1>2, <1>4, <2>1, <2>2, <2>3
<1>7. Cardinality(Fresh') = Cardinality(Fresh) + IF entry.fresh THEN 1 ELSE 0
  <2>1. CASE entry.fresh
    <3>1. Len(printed) + 1 \notin Fresh
      BY <1>1, <1>4
    <3>2. Cardinality(Fresh \cup {Len(printed) + 1}) = Cardinality(Fresh) + 1
      BY <1>1, <3>1, FS_AddElement
    <3>3. QED
      BY <1>6, <2>1, <3>2
  <2>2. CASE ~entry.fresh
    BY <1>1, <1>6, <2>2
  <2>3. QED
    BY <2>1, <2>2
<1>8. QED
  BY <1>2, <1>6, <1>7

LEMMA PrintInit == Init => PrintInv
<1> SUFFICES ASSUME Init
             PROVE  PrintInv
  OBVIOUS
<1>1. Sock \in MS!AllFds
  BY DEF MS!AllFds
<1>2. /\ printed = <<>> /\ heard = <<>> /\ Queue = <<>> /\ Kernel = <<>> /\ sock_queue[Sock] = "none"
      /\ buffer.type = "NONE" /\ partials = 0 /\ pc = "connect"
  BY <1>1 DEF Init, Queue, Kernel, MS!EmptyQueue
<1>3. Len(printed) = 0 /\ Len(heard) = 0 /\ Len(Queue) = 0 /\ Len(Kernel) = 0 /\ DOMAIN printed = {}
      /\ printed \in Seq(Entries)
  BY <1>2, EmptySeq
<1>4. Fresh = {} /\ Cardinality(Fresh) = 0
  BY <1>3, FS_EmptySet DEF Fresh
<1>5. PrintedInOrder
  BY <1>2, <1>3, <1>4 DEF PrintedInOrder
<1>6. NumbersOK
  BY <1>2, <1>3 DEF NumbersOK, Taken, InLoop
<1>7. QED
  BY <1>2, <1>3, <1>4, <1>5, <1>6 DEF PrintInv, Odd

\* Steps that neither print nor move packets.
LEMMA PrintFrame ==
  ASSUME TypeInv, PrintInv, UNCHANGED <<printed, partials>>,
         sock_queue'[Sock] \in {sock_queue[Sock], "none"},
         pc' \in {"connect", "auth", "reply"} => pc \in {"connect", "auth", "reply"},
         buffer' = buffer \/ buffer'.type # "NEWS"
  PROVE  /\ printed' \in Seq(Entries)
         /\ pc' \in {"connect", "auth", "reply"} => sock_queue'[Sock] = "none"
         /\ buffer'.type = "NEWS" => printed' # <<>> /\ printed'[Len(printed')].n = buffer'.n
         /\ Len(printed') - Cardinality(Fresh') + Odd' <= partials'
         /\ PrintedInOrder'
<1>1. Fresh' = Fresh
  BY DEF Fresh
<1>2. PrintedInOrder'
  BY <1>1 DEF PrintInv, PrintedInOrder
<1>3. IsFiniteSet(Fresh) /\ Cardinality(Fresh) \in Nat /\ Len(printed) \in Nat
  BY FreshFinite DEF PrintInv
<1>4. Odd' \in {Odd, 0} /\ Odd \in {0, 1}
  BY DEF Odd
<1>5. Len(printed') - Cardinality(Fresh') + Odd' <= partials'
  <2>1. Len(printed) - Cardinality(Fresh) + Odd <= partials /\ partials \in Nat
    BY BoundsAssumption DEF PrintInv, TypeInv, CountsOK
  <2>2. QED
    BY <1>1, <1>3, <1>4, <2>1
<1>6. pc' \in {"connect", "auth", "reply"} => sock_queue'[Sock] = "none"
  BY DEF PrintInv
<1>7. QED
  BY <1>2, <1>5, <1>6 DEF PrintInv

LEMMA PrintEnvironment ==
  ASSUME TypeInv, PrintInv, Environment
  PROVE  PrintInv'
<1>1. /\ Queue \in Seq(Sent) /\ Len(Queue) \in Nat
      /\ Kernel \in Seq(Sent) /\ Len(Kernel) \in Nat /\ heard \in Seq(Heard) /\ Len(heard) \in Nat
  BY LenProperties DEF TypeInv, Inv, StreamsOK, Queue, Kernel
<1>2. ~Over /\ UNCHANGED <<socketVars, pc, printed, buffer, partials>> /\ Queue' = Queue
  BY DEF Environment, ServerReplies, ServerSendsNews, ServerSends, ServerCloses, TypeLine,
         CloseStdin, envFrame, socketVars, Queue
<1>3. /\ printed' \in Seq(Entries)
      /\ pc' \in {"connect", "auth", "reply"} => sock_queue'[Sock] = "none"
      /\ buffer'.type = "NEWS" => printed' # <<>> /\ printed'[Len(printed')].n = buffer'.n
      /\ Len(printed') - Cardinality(Fresh') + Odd' <= partials'
      /\ PrintedInOrder'
  BY <1>2, PrintFrame DEF socketVars
<1>4. NumbersOK /\ Taken' = Taken /\ InLoop' = InLoop /\ Taken \in Nat
  <2>1. Cardinality(Fresh) \in Nat /\ Fresh' = Fresh
    BY <1>2, FreshFinite DEF PrintInv, Fresh
  <2>2. QED
    BY <1>2, <2>1 DEF PrintInv, Taken, InLoop
<1>5. ASSUME NEW packet \in Packets, ServerSends(packet),
             packet \in News => packet.n = Len(heard)
      PROVE  NumbersOK'
  <2>1. /\ link[Conn] = "open" /\ link' = link /\ Len(heard') = Len(heard) + 1
    BY <1>1, <1>5 DEF ServerSends
  <2>2. Kernel' = Append(Kernel, packet)
    BY <1>5 DEF ServerSends, Kernel, TypeInv, Inv, StreamsOK
  <2>3. /\ Len(Kernel') = Len(Kernel) + 1
        /\ \A i \in 1..Len(Kernel') : \/ i \in 1..Len(Kernel) /\ Kernel'[i] = Kernel[i]
                                      \/ i = Len(Kernel) + 1 /\ Kernel'[i] = packet
    BY <1>1, <2>2
  <2>4. Taken + Len(Queue) + Len(Kernel) = Len(heard)
    BY <1>4, <2>1 DEF NumbersOK
  <2>5. \A i \in 1..Len(Kernel') : Kernel'[i] \in News => Kernel'[i].n = Taken + Len(Queue) + i - 1
    <3> SUFFICES ASSUME NEW i \in 1..Len(Kernel'), Kernel'[i] \in News
                 PROVE  Kernel'[i].n = Taken + Len(Queue) + i - 1
      OBVIOUS
    <3>1. CASE i \in 1..Len(Kernel) /\ Kernel'[i] = Kernel[i]
      BY <1>4, <3>1 DEF NumbersOK
    <3>2. CASE i = Len(Kernel) + 1 /\ Kernel'[i] = packet
      <4>1. packet.n = Taken + Len(Queue) + Len(Kernel)
        BY <1>5, <2>4, <3>2
      <4>2. QED
        BY <1>1, <1>4, <3>2, <4>1
    <3>3. QED
      BY <2>3, <3>1, <3>2
  <2>6. Taken + Len(Queue) + Len(Kernel') = Len(heard')
    <3>1. Len(Kernel') = Len(Kernel) + 1 /\ Len(heard') = Len(heard) + 1
      BY <2>1, <2>3
    <3>2. Taken \in Nat /\ Len(Queue) \in Nat /\ Len(Kernel) \in Nat
      BY <1>1, <1>4
    <3>3. QED
      BY <2>4, <3>1, <3>2
  <2>7. QED
    BY <1>2, <1>4, <2>5, <2>6 DEF NumbersOK
<1>6. CASE ServerReplies
  <2>1. PICK t \in {"AUTH", "AUTH_DUPLICATE"} : heard = <<>> /\ ServerSends([type |-> t])
    BY <1>6 DEF ServerReplies
  <2>2. [type |-> t] \in Packets /\ [type |-> t] \notin News
    <3>1. [type |-> t].type # "NEWS"
      OBVIOUS
    <3>2. QED
      BY <3>1 DEF Packets, News
  <2>3. NumbersOK'
    BY <1>5, <2>1, <2>2
  <2>4. QED
    BY <1>3, <2>3 DEF PrintInv
<1>7. CASE ServerSendsNews
  <2>1. Len(heard) \in 1..MaxNews
    BY <1>7, BoundsAssumption DEF ServerSendsNews, TypeInv, Inv, StreamsOK
  <2>2. [type |-> "NEWS", n |-> Len(heard)] \in Packets
    BY <2>1 DEF Packets, News
  <2>3. NumbersOK'
    BY <1>5, <1>7, <2>2 DEF ServerSendsNews
  <2>4. QED
    BY <1>3, <2>3 DEF PrintInv
<1>8. CASE ServerCloses
  <2>1. link'[Conn] = "hup"
    BY <1>8 DEF ServerCloses, TypeInv, Inv, StreamsOK
  <2>2. Kernel' = Kernel \/ (Kernel' = <<>> /\ Len(Kernel') = 0)
    BY <1>8, EmptySeq DEF ServerCloses, TypeInv, Inv, StreamsOK, Kernel
  <2>3. NumbersOK'
    BY <1>2, <1>4, <2>1, <2>2 DEF NumbersOK
  <2>4. QED
    BY <1>3, <2>3 DEF PrintInv
<1>9. CASE CloseStdin \/ \E line \in LineKinds : TypeLine(line)
  <2>1. UNCHANGED <<link, heard, up>>
    BY <1>9 DEF CloseStdin, TypeLine
  <2>2. NumbersOK'
    BY <1>2, <1>4, <2>1 DEF NumbersOK, Kernel
  <2>3. QED
    BY <1>3, <2>2 DEF PrintInv
<1>10. QED
  BY <1>6, <1>7, <1>8, <1>9 DEF Environment

\* One return of select().
LEMMA PrintSelect ==
  ASSUME TypeInv, PrintInv, NEW P \in SUBSET MS!ReadableSpecials, SelectReturns(P),
         ~Over, sock_queue[Sock] = "none", InLoop' = InLoop, pc' \in {"replied", "next"}
  PROVE  PrintInv'
<1>1. /\ Queue \in Seq(Sent) /\ Len(Queue) \in Nat /\ Kernel \in Seq(Sent) /\ Len(Kernel) \in Nat
      /\ partials \in Nat
  BY LenProperties, BoundsAssumption DEF TypeInv, Inv, StreamsOK, Queue, Kernel, CountsOK
<1>2. UNCHANGED <<heard, printed, buffer>> /\ Fresh' = Fresh
  BY DEF SelectReturns, Fresh
<1>3. IsFiniteSet(Fresh) /\ Cardinality(Fresh) \in Nat /\ Len(printed) \in Nat
  BY FreshFinite DEF PrintInv
<1>4. NumbersOK /\ Taken' = Taken /\ Taken \in Nat /\ Len(printed) - Cardinality(Fresh) <= partials
  BY <1>1, <1>2, <1>3 DEF PrintInv, Taken, Odd
<1>5. ASSUME partials' \in Nat, partials + Odd' <= partials', NumbersOK'
      PROVE  PrintInv'
  <2>1. partials' \in Nat /\ partials <= partials'
    BY <1>1, <1>5 DEF Odd
  <2>2. PrintedInOrder'
    BY <1>1, <1>2, <1>3, <2>1 DEF PrintInv, PrintedInOrder
  <2>3. Len(printed') - Cardinality(Fresh') + Odd' <= partials'
    BY <1>1, <1>2, <1>3, <1>4, <1>5 DEF Odd
  <2>4. QED
    BY <1>2, <1>5, <2>2, <2>3 DEF PrintInv
<1>6. CASE NotRead /\ P # {}
  <2>1. NumbersOK'
    BY <1>2, <1>4, <1>6 DEF NotRead, NumbersOK
  <2>2. Odd' = 0 /\ partials' = partials
    BY <1>6 DEF NotRead, Odd
  <2>3. QED
    BY <1>1, <1>5, <2>1, <2>2
<1>7. CASE ReadEnd
  <2>1. Len(Queue') = 0 /\ Len(Kernel') = 0
    BY <1>7, EmptySeq DEF ReadEnd
  <2>2. NumbersOK'
    BY <1>2, <1>4, <1>7, <2>1 DEF ReadEnd, NumbersOK
  <2>3. Odd' = 0 /\ partials' = partials
    BY <1>7 DEF ReadEnd, Odd
  <2>4. QED
    BY <1>1, <1>5, <2>2, <2>3
<1>8. CASE \E k \in 0..Len(Kernel) : ReadPart(k)
  <2>1. PICK k \in 0..Len(Kernel) : ReadPart(k)
    BY <1>8
  <2>2. /\ Len(Queue') = Len(Queue) + k
        /\ \A i \in 1..Len(Queue) : Queue'[i] = Queue[i]
        /\ \A i \in 1..k : Queue'[Len(Queue) + i] = Kernel[i]
    BY <1>1, <2>1 DEF ReadPart
  <2>3. Len(Kernel') = Len(Kernel) - k /\ \A i \in 1..Len(Kernel') : Kernel'[i] = Kernel[k + i]
    BY <1>1, <2>1 DEF ReadPart
  <2>4. ASSUME NEW i \in 1..Len(Queue'), Queue'[i] \in News
        PROVE  Queue'[i].n = Taken + i - 1
    <3>1. CASE i <= Len(Queue)
      BY <1>1, <1>4, <2>2, <2>4, <3>1 DEF NumbersOK
    <3>2. CASE i > Len(Queue)
      <4>1. i - Len(Queue) \in 1..k /\ Queue'[i] = Kernel[i - Len(Queue)]
        BY <1>1, <2>2, <3>2
      <4>2. i - Len(Queue) \in 1..Len(Kernel)
        BY <1>1, <4>1
      <4>3. Queue'[i].n = Taken + Len(Queue) + (i - Len(Queue)) - 1
        BY <1>4, <2>4, <4>1, <4>2 DEF NumbersOK
      <4>4. QED
        BY <1>1, <1>4, <4>3
    <3>3. QED
      BY <1>1, <2>2, <3>1, <3>2
  <2>5. ASSUME NEW i \in 1..Len(Kernel'), Kernel'[i] \in News
        PROVE  Kernel'[i].n = Taken + Len(Queue') + i - 1
    <3>1. k + i \in 1..Len(Kernel) /\ Kernel'[i] = Kernel[k + i]
      BY <1>1, <2>3
    <3>2. Kernel'[i].n = Taken + Len(Queue) + (k + i) - 1
      BY <1>4, <2>5, <3>1 DEF NumbersOK
    <3>3. QED
      BY <1>1, <1>4, <2>2, <3>2
  <2>6. Taken + Len(Queue') + Len(Kernel') = Taken + Len(Queue) + Len(Kernel)
    BY <1>1, <1>4, <2>2, <2>3
  <2>7. link' = link
    BY <2>1 DEF ReadPart
  <2>8. NumbersOK'
    BY <1>2, <1>4, <2>4, <2>5, <2>6, <2>7 DEF NumbersOK
  <2>9. partials' \in Nat /\ partials + Odd' <= partials'
    <3>1. CASE k = 0
      BY <1>1, <2>1, <3>1 DEF ReadPart, Odd
    <3>2. CASE k > 0
      BY <1>1, <2>1, <3>2 DEF ReadPart, Odd
    <3>3. QED
      BY <2>1, <3>1, <3>2
  <2>10. QED
    BY <1>5, <2>8, <2>9
<1>9. QED
  BY <1>6, <1>7, <1>8, OneRead

\* Before the loop the first packet is the reply.
LEMMA FirstIsReply ==
  ASSUME TypeInv, PrintInv, ~Over, ~InLoop, Queue # <<>>
  PROVE  Head(Queue) \in Sent \ News
<1>1. Queue \in Seq(Sent) /\ Len(Queue) \in Nat /\ 1 \in 1..Len(Queue) /\ Head(Queue) = Queue[1]
      /\ Queue[1] \in Sent
  BY LenProperties DEF TypeInv, Inv, StreamsOK, Queue
<1>2. Queue[1] \in News => Queue[1].n = 0
  BY <1>1 DEF PrintInv, NumbersOK, Taken
<1>3. Queue[1] \in News => Queue[1].n \in 1..MaxNews
  BY DEF News
<1>4. QED
  BY <1>1, <1>2, <1>3, BoundsAssumption

\* write_packet() takes the first packet of the stream.
LEMMA NumbersTake ==
  ASSUME TypeInv, PrintInv, ~Over, Queue # <<>>, TakePacket,
         UNCHANGED <<link, up, heard>>, InLoop', Taken' = Taken + 1
  PROVE  NumbersOK'
<1>1. /\ Queue \in Seq(Sent) /\ Len(Queue) \in Nat /\ Kernel \in Seq(Sent) /\ Len(Kernel) \in Nat
  BY LenProperties DEF TypeInv, Inv, StreamsOK, Queue, Kernel
<1>2. NumbersOK /\ Taken \in Nat
  BY FreshFinite DEF PrintInv, Taken
<1>3. Queue' = Tail(Queue) /\ Kernel' = Kernel
  BY DEF TakePacket, Queue, Kernel, TypeInv, Inv, StreamsOK
<1>4. Len(Queue') = Len(Queue) - 1 /\ \A i \in 1..Len(Queue') : Queue'[i] = Queue[i + 1]
  BY <1>1, <1>3
<1>5. ASSUME NEW t, t = Taken', NEW i \in 1..Len(Queue'), Queue'[i] \in News
      PROVE  Queue'[i].n = t + i - 1
  <2>1. i + 1 \in 1..Len(Queue) /\ Queue'[i] = Queue[i + 1]
    BY <1>1, <1>4
  <2>2. Queue'[i].n = Taken + (i + 1) - 1
    BY <1>2, <1>5, <2>1 DEF NumbersOK
  <2>3. t = Taken + 1
    BY <1>5
  <2>4. QED
    BY <1>1, <1>2, <2>2, <2>3
<1>6. ASSUME NEW t, t = Taken'
      PROVE  t + Len(Queue') = Taken + Len(Queue)
  <2>1. t = Taken + 1
    BY <1>6
  <2>2. QED
    BY <1>1, <1>2, <1>4, <2>1
<1>7. \A i \in 1..Len(Kernel') : Kernel'[i] \in News => Kernel'[i].n = Taken' + Len(Queue') + i - 1
  BY <1>2, <1>3, <1>6 DEF NumbersOK
<1>8. link'[Conn] \in {"none", "open"} => Taken' + Len(Queue') + Len(Kernel') = Len(heard')
  BY <1>2, <1>3, <1>6 DEF NumbersOK
<1>9. QED
  BY <1>5, <1>7, <1>8 DEF NumbersOK

\* Steps that neither take nor print.
LEMMA NumbersFrame ==
  ASSUME PrintInv, ~Over,
         UNCHANGED <<link, up, packet_queue, heard, printed>>, InLoop' = InLoop
  PROVE  NumbersOK'
<1>1. UNCHANGED <<Queue, Kernel, Fresh, Taken>>
  BY DEF Queue, Kernel, Fresh, Taken
<1>2. QED
  BY <1>1 DEF PrintInv, NumbersOK

\* What HandleNews and HandleStale have in common.
LEMMA SocketEntry ==
  ASSUME TypeInv, HandleSocket
  PROVE  /\ sock_queue'[Sock] \in {sock_queue[Sock], "none"}
         /\ ~Closed /\ ~MS!PacketReady(Sock) => Odd = 1 /\ sock_queue'[Sock] = "none"
<1>1. sock_queue \in [MS!AllFds -> MS!FdTypes \cup {"none"}] /\ Sock \in MS!AllFds
  BY DEF TypeInv, StdinOK, MS!AllFds
<1>2. MS!NextFd(Sock) /\ sock_queue' = MS!QueueAfter(Sock)
  BY DEF HandleSocket
<1>3. sock_queue'[Sock] \in {sock_queue[Sock], "none"}
  BY <1>1, <1>2 DEF MS!QueueAfter
<1>4. ASSUME ~MS!PacketReady(Sock)
      PROVE  /\ MS!IsLeast(Sock, MS!Queued) /\ sock_queue[Sock] \notin {"SOCK_TCP", "none"}
  BY <1>2, <1>4 DEF MS!NextFd, MS!IsLeast, MS!Returnable, MS!Queued
<1>5. QED
  BY <1>1, <1>2, <1>3, <1>4 DEF MS!QueueAfter, Closed, Odd

LEMMA PrintNews ==
  ASSUME TypeInv, PrintInv, HandleNews
  PROVE  PrintInv'
<1> DEFINE first == Head(Queue)
           entry == [n |-> first.n, fresh |-> TRUE]
<1>1. /\ Queue # <<>> /\ buffer' = first /\ printed' = Append(printed, entry) /\ TakePacket
      /\ UNCHANGED <<link, up, heard, partials>> /\ pc = "next" /\ pc' = "next"
      /\ sock_queue'[Sock] \in {sock_queue[Sock], "none"}
  BY SocketEntry DEF HandleNews, HandleSocket, MS!PacketReady, Queue
<1>2. ~Over /\ InLoop /\ InLoop'
  BY <1>1 DEF Over, InLoop
<1>3. Queue \in Seq(Sent) /\ 1 \in 1..Len(Queue) /\ first = Queue[1]
  BY <1>1, LenProperties DEF TypeInv, Inv, StreamsOK, Queue
<1>4. /\ IsFiniteSet(Fresh) /\ Cardinality(Fresh) \in Nat /\ Len(printed) \in Nat
      /\ Fresh \subseteq 1..Len(printed) /\ partials \in Nat
  BY FreshFinite, BoundsAssumption DEF PrintInv, TypeInv, CountsOK
<1>5. first \in News /\ first.n = Cardinality(Fresh) + 1
  <2>1. first \in News
    BY <1>2, <1>3 DEF TypeInv, NewsBehind
  <2>2. first.n = Taken + 1 - 1
    BY <1>2, <1>3, <2>1 DEF PrintInv, NumbersOK
  <2>3. QED
    BY <1>2, <1>4, <2>1, <2>2 DEF Taken
<1>6. entry \in Entries /\ first.n \in 1..MaxNews /\ entry.fresh /\ entry.n = first.n
  BY <1>5, BoundsAssumption DEF News, Entries
<1> HIDE DEF entry, first
<1>7. /\ printed' \in Seq(Entries) /\ Len(printed') = Len(printed) + 1
      /\ \A i \in 1..Len(printed) : printed'[i] = printed[i]
      /\ printed'[Len(printed) + 1] = entry
      /\ Fresh' = Fresh \cup {Len(printed) + 1}
      /\ Cardinality(Fresh') = Cardinality(Fresh) + 1
  BY <1>1, <1>6, PrintsOne DEF PrintInv
<1>8. Taken' = Taken + 1
  BY <1>2, <1>4, <1>7 DEF Taken
<1>9. NumbersOK'
  BY <1>1, <1>2, <1>8, NumbersTake
<1>10. PrintedInOrder'
  <2>1. ASSUME NEW i \in Fresh'
        PROVE  printed'[i].n = Cardinality({j \in Fresh' : j <= i})
    <3>1. CASE i \in Fresh
      <4>1. i \in 1..Len(printed) /\ printed'[i].n = printed[i].n
        BY <1>4, <1>7, <3>1
      <4>2. {j \in Fresh' : j <= i} = {j \in Fresh : j <= i}
        BY <1>4, <1>7, <4>1
      <4>3. QED
        BY <3>1, <4>1, <4>2 DEF PrintInv, PrintedInOrder
    <3>2. CASE i = Len(printed) + 1
      <4>1. \A j \in Fresh' : j <= i
        BY <1>4, <1>7, <3>2
      <4>2. {j \in Fresh' : j <= i} = Fresh'
        BY <4>1
      <4>3. printed'[i].n = Cardinality(Fresh) + 1
        BY <1>5, <1>6, <1>7, <3>2
      <4>4. QED
        BY <1>7, <4>2, <4>3
    <3>3. QED
      BY <1>7, <3>1, <3>2
  <2>2. Len(printed') - Cardinality(Fresh') <= partials'
    BY <1>1, <1>4, <1>7 DEF PrintInv, PrintedInOrder
  <2>3. ASSUME NEW i \in DOMAIN printed', ~printed'[i].fresh /\ printed'[i].n # 0
        PROVE  i > 1 /\ printed'[i - 1].n = printed'[i].n
    <3>1. i \in 1..(Len(printed) + 1) /\ DOMAIN printed = 1..Len(printed)
      BY <1>7, LenProperties DEF PrintInv
    <3>2. i # Len(printed) + 1
      BY <1>6, <1>7, <2>3
    <3>3. i \in 1..Len(printed) /\ (i > 1 => i - 1 \in 1..Len(printed))
      BY <1>4, <3>1, <3>2
    <3>4. QED
      BY <1>7, <2>3, <3>1, <3>3 DEF PrintInv, PrintedInOrder
  <2>4. QED
    BY <2>1, <2>2, <2>3 DEF PrintedInOrder
<1>11. Len(printed') - Cardinality(Fresh') + Odd' <= partials'
  BY <1>1, <1>4, <1>7 DEF PrintInv, Odd
<1>12. printed' # <<>> /\ printed'[Len(printed')].n = buffer'.n
  BY <1>1, <1>4, <1>6, <1>7, EmptySeq
<1>13. QED
  BY <1>1, <1>7, <1>9, <1>10, <1>11, <1>12 DEF PrintInv

LEMMA PrintStale ==
  ASSUME TypeInv, PrintInv, HandleStale
  PROVE  PrintInv'
<1> DEFINE entry == [n |-> IF buffer.type = "NEWS" THEN buffer.n ELSE 0, fresh |-> FALSE]
<1>1. /\ UNCHANGED <<link, tcp_sockets, packet_queue, buffer, up, partials, heard>> /\ pc = "next"
      /\ Odd = 1 /\ sock_queue'[Sock] = "none"
      /\ \/ printed' = Append(printed, entry) /\ pc' = "next"
         \/ printed' = printed /\ pc' = "dead"
  BY SocketEntry DEF HandleStale, HandleSocket
<1>2. ~Over /\ InLoop /\ (pc' = "next" => InLoop') /\ (pc' = "dead" => Over')
  BY <1>1 DEF Over, InLoop
<1>3. /\ IsFiniteSet(Fresh) /\ Cardinality(Fresh) \in Nat /\ Len(printed) \in Nat
      /\ Fresh \subseteq 1..Len(printed) /\ partials \in Nat
  BY FreshFinite, BoundsAssumption DEF PrintInv, TypeInv, CountsOK
<1>4. CASE printed' = printed /\ pc' = "dead"
  BY <1>1, <1>2, <1>4, PrintFrame DEF PrintInv
<1>5. CASE printed' = Append(printed, entry) /\ pc' = "next"
  <2>1. buffer.type = "NEWS" => Len(printed) \in 1..Len(printed) /\ entry.n = printed[Len(printed)].n
    BY <1>3, EmptySeq DEF PrintInv
  <2>2. entry \in Entries /\ ~entry.fresh /\ (entry.n # 0 => buffer.type = "NEWS")
        /\ (buffer.type = "NEWS" => entry.n = buffer.n)
    <3>1. buffer.type = "NEWS" => printed[Len(printed)].n \in 0..MaxNews
      <4>1. \A i \in 1..Len(printed) : printed[i] \in Entries
        BY ElementOfSeq DEF PrintInv
      <4>2. QED
        BY <2>1, <4>1 DEF Entries
    <3>2. QED
      BY <2>1, <3>1, BoundsAssumption DEF Entries
  <2> HIDE DEF entry
  <2>3. /\ printed' \in Seq(Entries) /\ Len(printed') = Len(printed) + 1
        /\ \A i \in 1..Len(printed) : printed'[i] = printed[i]
        /\ printed'[Len(printed) + 1] = entry
        /\ Fresh' = Fresh /\ Cardinality(Fresh') = Cardinality(Fresh)
    BY <1>3, <1>5, <2>2, PrintsOne DEF PrintInv
  <2>4. NumbersOK'
    <3>1. UNCHANGED <<Queue, Kernel, Taken>> /\ InLoop'
      BY <1>1, <1>2, <1>5, <2>3 DEF Queue, Kernel, Taken
    <3>2. QED
      BY <1>1, <1>2, <3>1 DEF PrintInv, NumbersOK
  <2>5. Len(printed') - Cardinality(Fresh') + Odd' <= partials'
    BY <1>1, <1>3, <2>3 DEF PrintInv, Odd
  <2>6. PrintedInOrder'
    <3>1. \A i \in Fresh' : printed'[i].n = Cardinality({j \in Fresh' : j <= i})
      BY <1>3, <2>3 DEF PrintInv, PrintedInOrder
    <3>2. Len(printed') - Cardinality(Fresh') <= partials'
      BY <1>1, <1>3, <2>3 DEF PrintInv
    <3>3. ASSUME NEW i \in DOMAIN printed', ~printed'[i].fresh /\ printed'[i].n # 0
          PROVE  i > 1 /\ printed'[i - 1].n = printed'[i].n
      <4>1. i \in 1..(Len(printed) + 1) /\ DOMAIN printed = 1..Len(printed)
        BY <2>3, LenProperties DEF PrintInv
      <4>2. CASE i = Len(printed) + 1
        <5>1. buffer.type = "NEWS"
          BY <2>2, <2>3, <3>3, <4>2
        <5>2. Len(printed) \in 1..Len(printed) /\ entry.n = printed[Len(printed)].n
          BY <2>1, <5>1
        <5>3. i - 1 = Len(printed) /\ i > 1
          BY <1>3, <4>2, <5>2
        <5>4. QED
          BY <2>3, <4>2, <5>2, <5>3
      <4>3. CASE i # Len(printed) + 1
        <5>1. i \in 1..Len(printed) /\ (i > 1 => i - 1 \in 1..Len(printed))
          BY <1>3, <4>1, <4>3
        <5>2. QED
          BY <2>3, <3>3, <4>1, <5>1 DEF PrintInv, PrintedInOrder
      <4>4. QED
        BY <4>2, <4>3
    <3>4. QED
      BY <3>1, <3>2, <3>3 DEF PrintedInOrder
  <2>7. buffer'.type = "NEWS" => printed' # <<>> /\ printed'[Len(printed')].n = buffer'.n
    BY <1>1, <1>3, <2>2, <2>3, EmptySeq
  <2>8. QED
    BY <1>1, <1>5, <2>3, <2>4, <2>5, <2>6, <2>7 DEF PrintInv
<1>6. QED
  BY <1>1, <1>4, <1>5

LEMMA PrintMain ==
  ASSUME TypeInv, PrintInv, Main
  PROVE  PrintInv'
<1>1. sock_queue \in [MS!AllFds -> MS!FdTypes \cup {"none"}] /\ Sock \in MS!AllFds
  BY DEF TypeInv, StdinOK, MS!AllFds
<1>2. ASSUME NEW fd, sock_queue' = MS!QueueAfter(fd)
      PROVE  sock_queue'[Sock] \in {sock_queue[Sock], "none"}
  BY <1>1, <1>2 DEF MS!QueueAfter
<1>3. CASE Connect
  <2>1. /\ UNCHANGED <<up, packet_queue, sock_queue, heard, partials, printed, buffer>> /\ pc = "connect"
        /\ pc' \in {"auth", "dead"} /\ (pc' = "auth" => link[Conn] = "none")
    BY <1>3 DEF Connect, lineVars, TypeInv, Inv, StagesOK
  <2>2. ~Over' => NumbersOK'
    <3>1. pc' = "auth" => UNCHANGED <<Queue, Kernel, Fresh, Taken>>
      BY <2>1 DEF Queue, Kernel, Fresh, Taken, InLoop
    <3>2. ~Over /\ ~InLoop /\ (pc' = "auth" => ~InLoop') /\ (pc' = "dead" => Over')
      BY <2>1 DEF Over, InLoop
    <3>3. QED
      BY <2>1, <3>1, <3>2 DEF PrintInv, NumbersOK
  <2>3. QED
    BY <2>1, <2>2, PrintFrame DEF PrintInv
<1>4. CASE Authenticate
  <2>1. /\ UNCHANGED <<link, up, packet_queue, sock_queue, heard, partials, printed>> /\ pc = "auth"
        /\ pc' \in {"reply", "dead"} /\ buffer' = [type |-> "AUTH"]
    BY <1>4 DEF Authenticate, kernelVars, socketVars
  <2>2. ~Over' => NumbersOK'
    BY <2>1, NumbersFrame DEF Over, InLoop
  <2>3. QED
    BY <2>1, <2>2, PrintFrame DEF PrintInv
<1>5. CASE AwaitReply
  <2>1. pc = "reply" /\ pc' = "replied" /\ SelectReturns({}) /\ sock_queue[Sock] = "none"
    BY <1>5 DEF AwaitReply, PrintInv
  <2>2. QED
    BY <2>1, PrintSelect DEF Over, InLoop
<1>6. CASE Select
  <2>1. PICK P \in SUBSET MS!ReadableSpecials : SelectReturns(P)
    BY <1>6 DEF Select
  <2>2. pc = "select" /\ pc' = "next" /\ sock_queue[Sock] = "none"
    BY <1>1, <1>6 DEF Select, MS!Queued
  <2>3. QED
    BY <2>1, <2>2, PrintSelect DEF Over, InLoop
<1>7. CASE Reply
  <2>1. /\ pc = "replied" /\ Queue # <<>> /\ UNCHANGED <<link, up, heard, partials, printed>>
        /\ sock_queue'[Sock] \in {sock_queue[Sock], "none"} /\ TakePacket
        /\ pc' \in {"select", "ended"} /\ buffer' = Head(Queue)
    BY <1>2, <1>7 DEF Reply, kernelVars, MS!PacketReady, Queue
  <2>2. ~Over /\ ~InLoop
    BY <2>1 DEF Over, InLoop
  <2>3. buffer'.type # "NEWS"
    BY <2>1, <2>2, FirstIsReply DEF Sent, Packets
  <2>4. ~Over' => NumbersOK'
    <3>1. CASE pc' = "select"
      <4>1. printed = <<>> /\ DOMAIN printed = {} /\ InLoop'
        BY <2>2, <3>1, EmptySeq DEF PrintInv, NumbersOK, InLoop
      <4>2. Fresh = {} /\ Fresh' = Fresh /\ Cardinality(Fresh) = 0
        BY <2>1, <4>1, FS_EmptySet DEF Fresh
      <4>3. Taken' = 1 /\ Taken = 0
        BY <2>2, <4>1, <4>2 DEF Taken
      <4>4. QED
        BY <2>1, <2>2, <4>1, <4>3, NumbersTake
    <3>2. QED
      BY <2>1, <3>1 DEF Over
  <2>5. QED
    BY <2>1, <2>3, <2>4, PrintFrame DEF PrintInv
<1>8. CASE NoReply \/ EndOfFile
  <2>1. UNCHANGED <<printed, partials, sock_queue, buffer>> /\ pc' \in {"dead", "ended", "spins"}
    BY <1>8 DEF NoReply, EndOfFile, kernelVars, socketVars, loopFrame
  <2>2. Over'
    BY <2>1 DEF Over
  <2>3. QED
    BY <2>1, <2>2, PrintFrame DEF PrintInv
<1>9. CASE SelectSkipped \/ NoNext \/ HandleStdin
  <2>1. UNCHANGED <<link, up, packet_queue, heard, printed, partials, buffer>>
        /\ pc \in {"select", "next"} /\ pc' \in {"select", "next", "fgets"}
    BY <1>9 DEF SelectSkipped, NoNext, HandleStdin, kernelVars, socketVars, loopFrame
  <2>2. sock_queue'[Sock] \in {sock_queue[Sock], "none"}
    BY <1>1, <1>2, <1>9 DEF SelectSkipped, NoNext, HandleStdin, socketVars, MS!EmptyQueue
  <2>3. NumbersOK'
    BY <2>1, NumbersFrame DEF Over, InLoop
  <2>4. QED
    BY <2>1, <2>2, <2>3, PrintFrame DEF PrintInv
<1>10. CASE BadLine \/ Command
  <2>1. UNCHANGED <<link, up, packet_queue, sock_queue, heard, printed, partials>>
        /\ pc = "fgets" /\ pc' \in {"fgets", "next", "dead"} /\ buffer'.type # "NEWS"
    BY <1>10 DEF BadLine, AfterBadLine, Command, Fgets
  <2>2. ~Over' => NumbersOK'
    BY <2>1, NumbersFrame DEF Over, InLoop
  <2>3. QED
    BY <2>1, <2>2, PrintFrame DEF PrintInv
<1>11. CASE BlankLine \/ Exit \/ HandleClose
  <2>1. UNCHANGED <<printed, partials, buffer>> /\ pc' \in {"dead", "ended"}
        /\ sock_queue'[Sock] \in {sock_queue[Sock], "none"}
    BY <1>2, <1>11 DEF BlankLine, Exit, HandleClose, HandleSocket, Fgets
  <2>2. Over'
    BY <2>1 DEF Over
  <2>3. QED
    BY <2>1, <2>2, PrintFrame DEF PrintInv
<1>12. QED
  BY <1>3, <1>4, <1>5, <1>6, <1>7, <1>8, <1>9, <1>10, <1>11, PrintNews, PrintStale DEF Main

-----------------------------------------------------------------------------
(***************************************************************************)
(* How the client ends.                                                    *)
(***************************************************************************)
Refused == heard # <<>> /\ heard[1] = "AUTH_DUPLICATE"
Left    == heard # <<>> /\ heard[Len(heard)] = "END"

\* While whole packets arrive, the entry of the connection tells its end from a packet.
EntryOK ==
  /\ partials = 0 => sock_queue[Sock] \in {"none", "SOCK_TCP", "SOCK_CLOSE"}
  /\ partials = 0 /\ sock_queue[Sock] = "SOCK_CLOSE" => tcp_sockets[Sock] = NoConn
  /\ partials = 0 /\ pc = "replied" => tcp_sockets[Sock] = NoConn \/ Queue # <<>>

\* The connection is closed only after the server has closed its end.
EndOK ==
  /\ tcp_sockets[Sock] = NoConn => link[Conn] \in {"none", "shut"}
  /\ link[Conn] = "hup" => Left
  /\ tcp_sockets[Sock] = NoConn => pc = "connect" \/ Over \/ Left

\* A refusal that is on its way or in the buffer was sent.
RefusedOK ==
  /\ \A i \in 1..Len(Queue) : Queue[i].type = "AUTH_DUPLICATE" => Refused
  /\ \A i \in 1..Len(Kernel) : Kernel[i].type = "AUTH_DUPLICATE" => Refused

ReasonInv == EntryOK /\ EndOK /\ RefusedOK /\ EndsForAReason

LEMMA ReasonInit == Init => ReasonInv
<1>1. Sock \in MS!AllFds
  BY DEF MS!AllFds
<1>2. ASSUME Init
      PROVE  Queue = <<>> /\ Kernel = <<>> /\ Len(Queue) = 0 /\ Len(Kernel) = 0
             /\ sock_queue[Sock] = "none"
  BY <1>1, <1>2, EmptySeq DEF Init, Queue, Kernel, MS!EmptyQueue
<1> SUFFICES ASSUME Init
             PROVE  ReasonInv
  OBVIOUS
<1>3. RefusedOK
  BY <1>2 DEF RefusedOK
<1>4. EntryOK
  BY <1>2 DEF Init, EntryOK
<1>5. EndOK /\ EndsForAReason
  BY DEF Init, EndOK, EndsForAReason
<1>6. QED
  BY <1>3, <1>4, <1>5 DEF ReasonInv

\* What the server sends is heard, and it sends nothing behind its end.
LEMMA ReasonEnvironment ==
  ASSUME TypeInv, PrintInv, ReasonInv, Environment
  PROVE  ReasonInv'
<1>1. /\ Queue \in Seq(Sent) /\ Len(Queue) \in Nat
      /\ Kernel \in Seq(Sent) /\ Len(Kernel) \in Nat /\ heard \in Seq(Heard)
  BY LenProperties DEF TypeInv, Inv, StreamsOK, Queue, Kernel
<1>2. ~Over /\ UNCHANGED <<socketVars, pc, last, partials>> /\ Queue' = Queue
  BY DEF Environment, ServerReplies, ServerSendsNews, ServerSends, ServerCloses, TypeLine,
         CloseStdin, envFrame, socketVars, Queue
<1>3. EntryOK' /\ EndsForAReason' /\ ~Over'
  BY <1>2 DEF ReasonInv, EntryOK, socketVars, EndsForAReason, Over
<1>4. ASSUME NEW t \in Heard, heard' = Append(heard, t)
      PROVE  /\ Refused => Refused'
             /\ heard = <<>> /\ t = "AUTH_DUPLICATE" => Refused'
             /\ t = "END" => Left'
  <2>1. /\ heard' # <<>> /\ heard'[Len(heard')] = t
        /\ heard = <<>> => heard'[1] = t
        /\ heard # <<>> => heard'[1] = heard[1]
    BY <1>1, <1>4
  <2>2. QED
    BY <2>1 DEF Refused, Left
<1>5. ASSUME NEW packet \in Packets, ServerSends(packet),
             packet.type = "AUTH_DUPLICATE" => heard = <<>>
      PROVE  EndOK' /\ RefusedOK'
  <2>1. link[Conn] = "open" /\ UNCHANGED <<link, tcp_sockets>> /\ heard' = Append(heard, packet.type)
    BY <1>5 DEF ServerSends, envFrame, socketVars
  <2>2. packet.type \in Heard
    BY DEF Packets, News, Heard
  <2>3. EndOK'
    BY <2>1 DEF ReasonInv, EndOK
  <2>4. Kernel' = Append(Kernel, packet)
    BY <1>5 DEF ServerSends, Kernel, TypeInv, Inv, StreamsOK
  <2>5. (Refused => Refused') /\ (packet.type = "AUTH_DUPLICATE" => Refused')
    BY <1>4, <1>5, <2>1, <2>2
  <2>6. \A i \in 1..Len(Kernel') : (i \in 1..Len(Kernel) /\ Kernel'[i] = Kernel[i]) \/ Kernel'[i] = packet
    BY <1>1, <2>4
  <2>7. RefusedOK'
    BY <1>2, <2>5, <2>6 DEF ReasonInv, RefusedOK
  <2>8. QED
    BY <2>3, <2>7
<1>6. CASE ServerReplies
  <2>1. PICK t \in {"AUTH", "AUTH_DUPLICATE"} : heard = <<>> /\ ServerSends([type |-> t])
    BY <1>6 DEF ServerReplies
  <2>2. [type |-> t] \in Packets
    BY DEF Packets
  <2>3. QED
    BY <1>3, <1>5, <2>1, <2>2 DEF ReasonInv
<1>7. CASE ServerSendsNews
  <2>1. Len(heard) \in 1..MaxNews
    BY <1>7, BoundsAssumption DEF ServerSendsNews, TypeInv, Inv, StreamsOK
  <2>2. [type |-> "NEWS", n |-> Len(heard)] \in Packets
    BY <2>1 DEF Packets, News
  <2>3. QED
    BY <1>3, <1>5, <1>7, <2>2 DEF ReasonInv, ServerSendsNews
<1>8. CASE ServerCloses
  <2>1. link[Conn] = "open" /\ tcp_sockets' = tcp_sockets /\ heard' = Append(heard, "END")
    BY <1>8 DEF ServerCloses, envFrame, socketVars
  <2>2. (Refused => Refused') /\ Left'
    BY <1>4, <2>1 DEF Heard
  <2>3. EndOK'
    BY <2>1, <2>2 DEF ReasonInv, EndOK
  <2>4. Kernel' = Kernel \/ Kernel' = <<>>
    BY <1>8 DEF ServerCloses, TypeInv, Inv, StreamsOK, Kernel
  <2>5. RefusedOK'
    <3>1. Len(<<>>) = 0
      BY EmptySeq
    <3>2. QED
      BY <1>2, <2>2, <2>4, <3>1 DEF ReasonInv, RefusedOK
  <2>6. QED
    BY <1>3, <2>3, <2>5 DEF ReasonInv
<1>9. CASE CloseStdin \/ \E line \in LineKinds : TypeLine(line)
  <2>1. UNCHANGED <<link, tcp_sockets, heard, up, pc>>
    BY <1>9 DEF CloseStdin, TypeLine, envFrame, socketVars
  <2>2. Kernel' = Kernel
    BY <2>1 DEF Kernel
  <2>3. QED
    BY <1>2, <1>3, <2>1, <2>2 DEF ReasonInv, EndOK, Over, RefusedOK, Refused, Left
<1>10. QED
  BY <1>6, <1>7, <1>8, <1>9 DEF Environment

\* One return of select().
LEMMA ReasonSelect ==
  ASSUME TypeInv, PrintInv, ReasonInv, NEW P \in SUBSET MS!ReadableSpecials, SelectReturns(P),
         ~Over, pc # "connect",
         (pc' = "replied" /\ P = {}) \/ pc' = "next"
  PROVE  ReasonInv'
<1>1. /\ Queue \in Seq(Sent) /\ Len(Queue) \in Nat /\ Kernel \in Seq(Sent) /\ Len(Kernel) \in Nat
      /\ partials \in Nat
  BY LenProperties, BoundsAssumption DEF TypeInv, Inv, StreamsOK, Queue, Kernel, CountsOK
<1>2. UNCHANGED <<heard, last, eof>> /\ Refused' = Refused /\ Left' = Left
  BY DEF SelectReturns, lineVars, Refused, Left
<1>3. EndsForAReason'
  BY DEF EndsForAReason
<1>4. Conn # NoConn /\ ~Over'
  BY BoundsAssumption DEF Over
<1>5. CASE NotRead /\ P # {}
  <2>1. EntryOK'
    BY <1>5 DEF NotRead, EntryOK
  <2>2. EndOK' /\ RefusedOK'
    BY <1>2, <1>5 DEF NotRead, ReasonInv, EndOK, RefusedOK
  <2>3. QED
    BY <1>3, <2>1, <2>2 DEF ReasonInv
<1>6. CASE ReadEnd
  <2>1. EntryOK'
    BY <1>6 DEF ReadEnd, EntryOK
  <2>2. EndOK'
    BY <1>2, <1>6 DEF ReadEnd, ReasonInv, EndOK
  <2>3. Len(Queue') = 0 /\ Len(Kernel') = 0
    BY <1>6, EmptySeq DEF ReadEnd
  <2>4. RefusedOK'
    BY <2>3 DEF RefusedOK
  <2>5. QED
    BY <1>3, <2>1, <2>2, <2>4 DEF ReasonInv
<1>7. CASE \E k \in 0..Len(Kernel) : ReadPart(k)
  <2>1. PICK k \in 0..Len(Kernel) : ReadPart(k)
    BY <1>7
  <2>2. /\ Len(Queue') = Len(Queue) + k
        /\ \A i \in 1..Len(Queue) : Queue'[i] = Queue[i]
        /\ \A i \in 1..k : Queue'[Len(Queue) + i] = Kernel[i]
    BY <1>1, <2>1 DEF ReadPart
  <2>3. Len(Kernel') = Len(Kernel) - k /\ \A i \in 1..Len(Kernel') : Kernel'[i] = Kernel[k + i]
    BY <1>1, <2>1 DEF ReadPart
  <2>4. ASSUME NEW i \in 1..Len(Queue'), Queue'[i].type = "AUTH_DUPLICATE"
        PROVE  Refused
    <3>1. CASE i <= Len(Queue)
      BY <1>1, <2>2, <2>4, <3>1 DEF ReasonInv, RefusedOK
    <3>2. CASE i > Len(Queue)
      <4>1. i - Len(Queue) \in 1..k /\ Queue'[i] = Kernel[i - Len(Queue)]
        BY <1>1, <2>2, <3>2
      <4>2. i - Len(Queue) \in 1..Len(Kernel)
        BY <1>1, <4>1
      <4>3. QED
        BY <2>4, <4>1, <4>2 DEF ReasonInv, RefusedOK
    <3>3. QED
      BY <1>1, <2>2, <3>1, <3>2
  <2>5. ASSUME NEW i \in 1..Len(Kernel'), Kernel'[i].type = "AUTH_DUPLICATE"
        PROVE  Refused
    <3>1. k + i \in 1..Len(Kernel) /\ Kernel'[i] = Kernel[k + i]
      BY <1>1, <2>3
    <3>2. QED
      BY <2>5, <3>1 DEF ReasonInv, RefusedOK
  <2>6. RefusedOK'
    BY <1>2, <2>4, <2>5 DEF RefusedOK
  <2>7. EndOK'
    BY <1>2, <1>4, <2>1 DEF ReadPart, ReasonInv, EndOK
  <2>8. ASSUME partials' = 0
        PROVE  partials = 0 /\ k > 0 /\ sock_queue'[Sock] = "SOCK_TCP" /\ Queue' # <<>>
    <3>1. partials = 0 /\ k > 0
      BY <1>1, <2>1, <2>8 DEF ReadPart
    <3>2. Len(Queue') > 0
      BY <1>1, <2>2, <3>1
    <3>3. Queue' # <<>>
      BY <3>2, EmptySeq
    <3>4. QED
      BY <2>1, <3>1, <3>3 DEF ReadPart
  <2>9. EntryOK'
    BY <2>8 DEF EntryOK
  <2>10. QED
    BY <1>3, <2>6, <2>7, <2>9 DEF ReasonInv
<1>8. QED
  BY <1>5, <1>6, <1>7, OneRead

LEMMA ReasonMain ==
  ASSUME TypeInv, PrintInv, ReasonInv, Main
  PROVE  ReasonInv'
<1>1. /\ Queue \in Seq(Sent) /\ Len(Queue) \in Nat /\ Kernel \in Seq(Sent) /\ Len(Kernel) \in Nat
  BY LenProperties DEF TypeInv, Inv, StreamsOK, Queue, Kernel
<1>2. /\ sock_queue \in [MS!AllFds -> MS!FdTypes \cup {"none"}] /\ Sock \in MS!AllFds
      /\ tcp_sockets \in [{Sock} -> {Conn, NoConn}] /\ Conn # NoConn
      /\ link \in [{Conn} -> {"none", "open", "hup", "shut"}]
  BY BoundsAssumption DEF TypeInv, StdinOK, MS!AllFds, Inv, StreamsOK
<1>3. ASSUME NEW fd, sock_queue' = MS!QueueAfter(fd)
      PROVE  sock_queue'[Sock] \in {sock_queue[Sock], "none"}
  BY <1>2, <1>3 DEF MS!QueueAfter
\* send() fails only after the server has closed its end.
<1>4. ASSUME SendFails, ~Over, pc # "connect"
      PROVE  Left
  BY <1>4 DEF SendFails, MS!MayFail, ReasonInv, EndOK
\* The frame of the steps that neither read nor close.
<1>5. ASSUME UNCHANGED <<tcp_sockets, link, Queue, Kernel, heard, partials>>,
             sock_queue'[Sock] \in {sock_queue[Sock], "none"},
             ~Over, pc # "connect", pc' # "replied"
      PROVE  EntryOK' /\ EndOK' /\ RefusedOK'
  <2>1. Refused' = Refused /\ Left' = Left
    BY <1>5 DEF Refused, Left
  <2>2. EndOK' /\ RefusedOK'
    BY <1>5, <2>1 DEF ReasonInv, EndOK, RefusedOK
  <2>3. EntryOK'
    BY <1>5 DEF ReasonInv, EntryOK
  <2>4. QED
    BY <2>2, <2>3
<1>6. CASE Connect
  <2>1. /\ UNCHANGED <<up, packet_queue, sock_queue, heard, last, partials>> /\ pc = "connect"
        /\ link[Conn] = "none" /\ sock_queue[Sock] = "none" /\ link[Conn] # "hup"
    BY <1>6 DEF Connect, lineVars, TypeInv, Inv, StagesOK, PrintInv
  <2>2. UNCHANGED <<Queue, Kernel, Refused, Left>>
    BY <2>1 DEF Queue, Kernel, Refused, Left
  <2>3. RefusedOK'
    BY <2>2 DEF ReasonInv, RefusedOK
  <2>4. CASE pc' = "auth" /\ link' = [link EXCEPT ![Conn] = "open"]
             /\ tcp_sockets' = [tcp_sockets EXCEPT ![Sock] = Conn]
    <3>1. link'[Conn] = "open" /\ tcp_sockets'[Sock] = Conn
      BY <1>2, <2>4
    <3>2. EntryOK' /\ EndOK' /\ EndsForAReason'
      BY <1>2, <2>1, <2>4, <3>1 DEF EntryOK, EndOK, EndsForAReason
    <3>3. QED
      BY <2>3, <3>2 DEF ReasonInv
  <2>5. CASE pc' = "dead" /\ UNCHANGED <<link, tcp_sockets>>
    <3>1. EntryOK' /\ EndOK' /\ EndsForAReason'
      BY <2>1, <2>5 DEF EntryOK, EndOK, EndsForAReason, Over, ReasonInv
    <3>2. QED
      BY <2>3, <3>1 DEF ReasonInv
  <2>6. QED
    BY <1>6, <2>4, <2>5 DEF Connect
<1>7. CASE Authenticate
  <2>1. /\ UNCHANGED <<kernelVars, socketVars, last, partials, heard>> /\ pc = "auth"
        /\ (pc' = "reply" \/ (pc' = "dead" /\ SendFails))
    BY <1>7 DEF Authenticate
  <2>2. EntryOK' /\ EndOK' /\ RefusedOK'
    BY <1>5, <2>1 DEF kernelVars, socketVars, Queue, Kernel, Over
  <2>3. SendFails => Left'
    BY <1>4, <2>1 DEF Over, Left
  <2>4. EndsForAReason'
    BY <2>1, <2>3 DEF EndsForAReason, Left
  <2>5. QED
    BY <2>2, <2>4 DEF ReasonInv
<1>8. CASE AwaitReply
  BY <1>8, ReasonSelect DEF AwaitReply, Over
<1>9. CASE Reply
  <2>1. /\ pc = "replied" /\ Queue # <<>> /\ UNCHANGED <<link, up, tcp_sockets, last, partials, heard>>
        /\ sock_queue' = MS!QueueAfter(Sock) /\ TakePacket
        /\ pc' \in {"select", "ended"} /\ (pc' = "ended" => Head(Queue).type # "AUTH")
        /\ tcp_sockets[Sock] # NoConn
    BY <1>9 DEF Reply, kernelVars, MS!PacketReady, MS!Open, Queue, Accepted
  <2>2. Queue' = Tail(Queue) /\ Kernel' = Kernel
    BY <2>1 DEF TakePacket, Queue, Kernel, TypeInv, Inv, StreamsOK
  <2>3. Len(Queue') = Len(Queue) - 1 /\ \A i \in 1..Len(Queue') : Queue'[i] = Queue[i + 1]
    BY <1>1, <2>1, <2>2
  <2>4. Refused' = Refused /\ Left' = Left
    BY <2>1 DEF Refused, Left
  <2>5. RefusedOK'
    <3>1. \A i \in 1..Len(Queue') : i + 1 \in 1..Len(Queue)
      BY <1>1, <2>3
    <3>2. QED
      BY <2>2, <2>3, <2>4, <3>1 DEF ReasonInv, RefusedOK
  <2>6. EntryOK'
    BY <1>3, <2>1 DEF ReasonInv, EntryOK
  <2>7. EndOK'
    BY <2>1, <2>4 DEF ReasonInv, EndOK
  <2>8. pc' = "ended" => Refused
    <3>1. 1 \in 1..Len(Queue) /\ Head(Queue) = Queue[1]
      BY <1>1, <2>1
    <3>2. Head(Queue) \in Sent \ News
      BY <2>1, FirstIsReply DEF Over, InLoop
    <3>3. pc' = "ended" => Queue[1].type = "AUTH_DUPLICATE"
      BY <2>1, <3>1, <3>2 DEF Sent, Packets
    <3>4. QED
      BY <3>1, <3>3 DEF ReasonInv, RefusedOK
  <2>9. EndsForAReason'
    BY <2>1, <2>4, <2>8 DEF EndsForAReason, Refused
  <2>10. QED
    BY <2>5, <2>6, <2>7, <2>9 DEF ReasonInv
<1>10. CASE NoReply
  <2>1. /\ UNCHANGED <<kernelVars, socketVars, last, partials, heard>> /\ pc = "replied"
        /\ ~MS!PacketReady(Sock)
        /\ pc' = IF MS!NoNextFd \/ tcp_sockets[Sock] = NoConn THEN "dead" ELSE "ended"
    BY <1>10 DEF NoReply
  <2>2. EntryOK' /\ EndOK' /\ RefusedOK'
    BY <1>5, <2>1 DEF kernelVars, socketVars, Queue, Kernel, Over
  <2>3. partials = 0 => tcp_sockets[Sock] = NoConn
    BY <2>1 DEF ReasonInv, EntryOK, MS!PacketReady, MS!Open, Queue
  <2>4. tcp_sockets[Sock] = NoConn => Left /\ pc' = "dead"
    BY <2>1 DEF ReasonInv, EndOK, Over
  <2>5. EndsForAReason'
    BY <2>1, <2>3, <2>4 DEF EndsForAReason, Left
  <2>6. QED
    BY <2>2, <2>5 DEF ReasonInv
<1>11. CASE Select
  <2>1. PICK P \in SUBSET MS!ReadableSpecials : SelectReturns(P)
    BY <1>11 DEF Select
  <2>2. QED
    BY <1>11, <2>1, ReasonSelect DEF Select, Over
<1>12. CASE SelectSkipped \/ NoNext \/ HandleStdin \/ BadLine
  <2>1. UNCHANGED <<tcp_sockets, link, up, packet_queue, heard, partials>>
        /\ pc \in {"select", "next", "fgets"} /\ pc' \in {"select", "next", "fgets"}
    BY <1>12 DEF SelectSkipped, NoNext, HandleStdin, BadLine, AfterBadLine, Fgets, kernelVars, socketVars,
                 loopFrame
  <2>2. sock_queue'[Sock] \in {sock_queue[Sock], "none"}
    BY <1>2, <1>3, <1>12 DEF SelectSkipped, NoNext, HandleStdin, BadLine, Fgets, socketVars, MS!EmptyQueue
  <2>3. EntryOK' /\ EndOK' /\ RefusedOK'
    BY <1>5, <2>1, <2>2 DEF Queue, Kernel, Over
  <2>4. EndsForAReason'
    BY <2>1 DEF EndsForAReason
  <2>5. QED
    BY <2>3, <2>4 DEF ReasonInv
<1>13. CASE BlankLine
  <2>1. UNCHANGED <<tcp_sockets, link, up, packet_queue, heard, partials, sock_queue>>
        /\ pc = "fgets" /\ pc' = "dead" /\ last' = "blank"
    BY <1>13 DEF BlankLine, Fgets
  <2>2. EntryOK' /\ EndOK' /\ RefusedOK'
    BY <1>5, <2>1 DEF Queue, Kernel, Over
  <2>3. EndsForAReason'
    BY <2>1 DEF EndsForAReason
  <2>4. QED
    BY <2>2, <2>3 DEF ReasonInv
<1>14. CASE EndOfFile
  <2>1. UNCHANGED <<tcp_sockets, link, up, packet_queue, heard, partials, sock_queue, eof>>
        /\ pc = "fgets" /\ pc' = "spins" /\ eof
    BY <1>14 DEF EndOfFile, kernelVars, socketVars, loopFrame
  <2>2. EntryOK' /\ EndOK' /\ RefusedOK'
    BY <1>5, <2>1 DEF Queue, Kernel, Over
  <2>3. EndsForAReason'
    BY <2>1 DEF EndsForAReason
  <2>4. QED
    BY <2>2, <2>3 DEF ReasonInv
<1>15. CASE Command
  <2>1. /\ UNCHANGED <<tcp_sockets, link, up, packet_queue, heard, partials, sock_queue>> /\ pc = "fgets"
        /\ (pc' = "next" \/ (pc' = "dead" /\ SendFails))
    BY <1>15 DEF Command, Fgets
  <2>2. EntryOK' /\ EndOK' /\ RefusedOK'
    BY <1>5, <2>1 DEF Queue, Kernel, Over
  <2>3. SendFails => Left'
    BY <1>4, <2>1 DEF Over, Left
  <2>4. EndsForAReason'
    BY <2>1, <2>3 DEF EndsForAReason, Left
  <2>5. QED
    BY <2>2, <2>4 DEF ReasonInv
\* The connection is closed with the process.
<1>16. CASE Exit \/ HandleClose
  <2>1. /\ MS!CloseAll /\ UNCHANGED <<up, heard, partials>> /\ pc' = "ended"
        /\ sock_queue'[Sock] \in {sock_queue[Sock], "none"}
    BY <1>3, <1>16 DEF Exit, HandleClose, HandleSocket, Fgets
  <2>2. Queue' = <<>> /\ Len(Queue') = 0 /\ Kernel' = Kernel /\ tcp_sockets'[Sock] = NoConn
        /\ link' = [c \in {Conn} |-> IF \E fd \in {Sock} : tcp_sockets[fd] = c THEN "shut" ELSE link[c]]
    BY <2>1, EmptySeq DEF MS!CloseAll, MS!Close, Queue, Kernel
  <2>3. Refused' = Refused /\ Left' = Left
    BY <2>1 DEF Refused, Left
  <2>4. RefusedOK'
    BY <2>2, <2>3 DEF ReasonInv, RefusedOK
  <2>5. EntryOK'
    BY <2>1, <2>2 DEF ReasonInv, EntryOK
  <2>6. EndOK'
    BY <1>2, <2>1, <2>2, <2>3 DEF ReasonInv, EndOK, Over
  <2>7. EndsForAReason'
    <3>1. CASE Exit
      BY <2>1, <3>1 DEF Exit, Fgets, EndsForAReason
    <3>2. CASE HandleClose
      <4>1. sock_queue[Sock] = "SOCK_CLOSE" /\ pc = "next"
        BY <3>2 DEF HandleClose, HandleSocket, Closed
      <4>2. partials = 0 => Left
        BY <4>1 DEF ReasonInv, EntryOK, EndOK, Over
      <4>3. QED
        BY <2>1, <2>3, <4>2 DEF EndsForAReason, Left
    <3>3. QED
      BY <1>16, <3>1, <3>2
  <2>8. QED
    BY <2>4, <2>5, <2>6, <2>7 DEF ReasonInv
<1>17. CASE HandleNews
  <2>1. /\ pc = "next" /\ Queue # <<>> /\ UNCHANGED <<link, up, tcp_sockets, last, partials, heard>>
        /\ sock_queue' = MS!QueueAfter(Sock) /\ TakePacket /\ pc' = "next"
    BY <1>17 DEF HandleNews, HandleSocket, MS!PacketReady, Queue, lineVars
  <2>2. Queue' = Tail(Queue) /\ Kernel' = Kernel
    BY <2>1 DEF TakePacket, Queue, Kernel, TypeInv, Inv, StreamsOK
  <2>3. Len(Queue') = Len(Queue) - 1 /\ \A i \in 1..Len(Queue') : Queue'[i] = Queue[i + 1]
    BY <1>1, <2>1, <2>2
  <2>4. Refused' = Refused /\ Left' = Left
    BY <2>1 DEF Refused, Left
  <2>5. RefusedOK'
    <3>1. \A i \in 1..Len(Queue') : i + 1 \in 1..Len(Queue)
      BY <1>1, <2>3
    <3>2. QED
      BY <2>2, <2>3, <2>4, <3>1 DEF ReasonInv, RefusedOK
  <2>6. EntryOK'
    BY <1>3, <2>1 DEF ReasonInv, EntryOK
  <2>7. EndOK'
    BY <2>1, <2>4 DEF ReasonInv, EndOK, Over
  <2>8. EndsForAReason'
    BY <2>1 DEF EndsForAReason
  <2>9. QED
    BY <2>5, <2>6, <2>7, <2>8 DEF ReasonInv
\* A line for a part of a packet is printed only after a read that completed none.
<1>18. CASE HandleStale
  <2>1. /\ UNCHANGED <<tcp_sockets, link, up, packet_queue, heard, partials>> /\ pc = "next"
        /\ pc' \in {"next", "dead"} /\ Odd = 1 /\ sock_queue'[Sock] = "none"
    BY <1>18, SocketEntry DEF HandleStale, HandleSocket
  <2>2. EntryOK' /\ EndOK' /\ RefusedOK'
    BY <1>5, <2>1 DEF Queue, Kernel, Over
  <2>3. partials # 0
    BY <2>1 DEF Odd, ReasonInv, EntryOK
  <2>4. EndsForAReason'
    BY <2>1, <2>3 DEF EndsForAReason
  <2>5. QED
    BY <2>2, <2>4 DEF ReasonInv
<1>19. QED
  BY <1>6, <1>7, <1>8, <1>9, <1>10, <1>11, <1>12, <1>13, <1>14, <1>15, <1>16, <1>17, <1>18 DEF Main

\* All the invariants of the client are inductive together.
ClientInv == TypeInv /\ PrintInv /\ ReasonInv

LEMMA ClientInit == Init => ClientInv
  BY InvInit, StdinInit, CountsInit, PrintInit, ReasonInit DEF ClientInv, TypeInv

LEMMA ClientStep == ClientInv /\ [Next]_vars => ClientInv'
<1> SUFFICES ASSUME ClientInv, [Next]_vars
             PROVE  ClientInv'
  OBVIOUS
<1>1. TypeInv'
  BY TypeInvStep DEF ClientInv
<1>2. CASE Environment
  BY <1>1, <1>2, PrintEnvironment, ReasonEnvironment DEF ClientInv
<1>3. CASE Main
  BY <1>1, <1>3, PrintMain, ReasonMain DEF ClientInv
<1>4. CASE UNCHANGED vars
  <2>1. UNCHANGED <<link, up, tcp_sockets, packet_queue, sock_queue, pc, buffer, printed, last, partials,
                    heard, eof>>
    BY <1>4 DEF vars, kernelVars, socketVars
  <2>2. UNCHANGED <<Queue, Kernel, Fresh, Taken, Odd, Refused, Left, Over, InLoop>>
    BY <2>1 DEF Queue, Kernel, Fresh, Taken, Odd, Refused, Left, Over, InLoop
  <2>3. PrintInv'
    BY <2>1, <2>2 DEF ClientInv, PrintInv, NumbersOK, PrintedInOrder
  <2>4. ReasonInv'
    BY <2>1, <2>2 DEF ClientInv, ReasonInv, EntryOK, EndOK, RefusedOK, EndsForAReason
  <2>5. QED
    BY <1>1, <2>3, <2>4 DEF ClientInv
<1>5. QED
  BY <1>2, <1>3, <1>4 DEF Next

\* For any news, lines and cuts of the stream: the news that come are printed in the order in which
\* the server sent them, once each (client.cpp:147-168); every other line printed is for a part of a
\* packet, and repeats the news before it or is none.
THEOREM PrintedCorrect == Spec => []PrintedInOrder
<1>1. ClientInv => PrintedInOrder
  BY DEF ClientInv, PrintInv
<1>2. QED
  BY <1>1, ClientInit, ClientStep, PTL DEF Spec

\* For any server, keyboard and reads of whole packets: the client ends because it was told to, was
\* refused, or was left by the server, and dies only of a blank line or of the server's end
\* (client.cpp:70-168); it never takes what is left in its buffer for a refusal or an end.
THEOREM EndsCorrect == Spec => []EndsForAReason
<1>1. ClientInv => EndsForAReason
  BY DEF ClientInv, ReasonInv
<1>2. QED
  BY <1>1, ClientInit, ClientStep, PTL DEF Spec

=============================================================================
