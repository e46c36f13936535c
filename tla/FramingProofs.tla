--------------------------- MODULE FramingProofs ---------------------------
(***************************************************************************)
(* Proofs about the decoder of BufferedTcpSocket, for bytes of any base,   *)
(* any maximal length, any buffer of recv() and any packets.               *)
(***************************************************************************)
EXTENDS Framing, SequenceTheorems, TLAPS, DigitProofs

\* Cutting a sequence of bytes in two.
LEMMA TakeDropProperties ==
  ASSUME NEW s \in Seq(Nat), NEW n \in 0..Len(s)
  PROVE  /\ Take(s, n) \in Seq(Nat) /\ Len(Take(s, n)) = n
         /\ Drop(s, n) \in Seq(Nat) /\ Len(Drop(s, n)) = Len(s) - n
<1>1. Len(s) \in Nat /\ \A i \in 1..Len(s) : s[i] \in Nat
  BY LenProperties, ElementOfSeq
<1>2. Take(s, n) \in Seq(Nat) /\ Len(Take(s, n)) = n
  <2>1. \A i \in 1..n : s[i] \in Nat
    BY <1>1
  <2>2. QED
    BY <1>1, <2>1, SubSeqProperties DEF Take
<1>3. Drop(s, n) \in Seq(Nat) /\ Len(Drop(s, n)) = Len(s) - n
  <2>1. \A i \in (n + 1)..Len(s) : s[i] \in Nat
    BY <1>1
  <2>2. QED
    BY <1>1, <2>1, SubSeqProperties DEF Drop
<1>4. QED
  BY <1>2, <1>3

\* What send() writes are bytes.
LEMMA EncodeType ==
  ASSUME NEW n \in Nat
  PROVE  Encode(n) \in Seq(Nat)
<1>1. Base \in Nat /\ Base > 0 /\ Base * Base \in Nat /\ Base * Base > 0
  BY FramingAssumption
<1>2. Base * Base * Base \in Nat /\ Base * Base * Base > 0
  BY <1>1
<1>3. \A b \in Nat \ {0} : (n \div b) \in Nat /\ n % Base \in Nat
  BY <1>1
<1>4. \A m \in Nat : m % Base \in Nat
  BY <1>1
<1>5. /\ (n \div (Base * Base * Base)) % Base \in Nat
      /\ (n \div (Base * Base)) % Base \in Nat
      /\ (n \div Base) % Base \in Nat
      /\ n % Base \in Nat
  BY <1>1, <1>2, <1>3, <1>4
<1>6. QED
  BY <1>5 DEF Encode

\* A packet is made of bytes.
LEMMA PayloadType ==
  ASSUME NEW i \in Nat, NEW len \in Nat
  PROVE  Payload(i, len) \in Seq(Nat)
<1>1. \A j \in 1..len : Base + 100 * i + j \in Nat
  BY FramingAssumption
<1>2. Payload(i, len) \in [1..len -> Nat]
  BY <1>1 DEF Payload
<1>3. QED
  BY <1>2, SeqDef

\* A complete header stands for a number.
LEMMA DecodeType ==
  ASSUME NEW bytes \in Seq(Nat), Len(bytes) = HeaderLen
  PROVE  Decode(bytes) \in Nat
<1>1. \A i \in 1..4 : bytes[i] \in Nat
  BY ElementOfSeq DEF HeaderLen
<1>2. bytes[1] \in Nat /\ bytes[2] \in Nat /\ bytes[3] \in Nat /\ bytes[4] \in Nat
  BY <1>1
<1>3. Base \in Nat
  BY FramingAssumption
<1>4. \A high, low \in Nat : high * Base + low \in Nat
  BY <1>3
<1>5. bytes[1] * Base + bytes[2] \in Nat
  BY <1>2, <1>4
<1>6. (bytes[1] * Base + bytes[2]) * Base + bytes[3] \in Nat
  BY <1>2, <1>4, <1>5
<1>7. QED
  BY <1>2, <1>4, <1>6 DEF Decode

\* read_size() takes no more bytes than there are, nor than the header lacks.
LEMMA HeaderProperties ==
  ASSUME TypeOK, DecoderBounded, ~size_read
  PROVE  /\ HeaderBytes \in 0..Len(buf)
         /\ Header \in Seq(Nat) /\ Len(Header) <= HeaderLen
         /\ HeaderDone => Decode(Header) \in Nat
         /\ HeaderBytes < Len(buf) => HeaderDone
<1>1. /\ Len(buf) \in Nat /\ Len(size_bytes) \in Nat
      /\ Len(size_bytes) < HeaderLen
  BY LenProperties DEF TypeOK, DataTypeOK, DecoderBounded
<1>2. HeaderBytes \in 0..Len(buf) /\ HeaderBytes <= HeaderLen - Len(size_bytes)
  BY <1>1 DEF HeaderBytes, Smaller, HeaderLen
<1>3. Take(buf, HeaderBytes) \in Seq(Nat) /\ Len(Take(buf, HeaderBytes)) = HeaderBytes
  BY <1>2, TakeDropProperties DEF TypeOK, DataTypeOK
<1>4. Header \in Seq(Nat) /\ Len(Header) = Len(size_bytes) + HeaderBytes
  BY <1>3, ConcatProperties DEF Header, TypeOK, DataTypeOK
<1>5. HeaderDone => Decode(Header) \in Nat
  BY <1>4, DecodeType DEF HeaderDone
<1>6. HeaderBytes < Len(buf) => HeaderBytes = HeaderLen - Len(size_bytes)
  BY <1>1 DEF HeaderBytes, Smaller, HeaderLen
<1>7. QED
  BY <1>1, <1>2, <1>4, <1>5, <1>6 DEF HeaderDone, HeaderLen

\* The arithmetic of the balance.
LEMMA Balance ==
  ASSUME NEW copied \in Nat, NEW n \in Nat, NEW left \in Nat, NEW size \in Nat,
         copied + left = size, n <= left
  PROVE  left - n \in Nat /\ (copied + n) + (left - n) = size
OBVIOUS

\* A header that is not complete is shorter.
LEMMA ShorterHeader ==
  ASSUME NEW n \in Nat, n <= HeaderLen, n # HeaderLen
  PROVE  n < HeaderLen
BY DEF HeaderLen

\* The data of the decoder after read_current_packet() has copied the bytes it can.
LEMMA BytesCopied ==
  ASSUME NEW bytes \in Seq(Nat), NEW size \in Nat,
         NEW before \in Seq(Nat), NEW left \in Nat, Len(before) + left = size
  PROVE  LET n == Copied(bytes, left)
         IN  /\ Drop(bytes, n) \in Seq(Nat)
             /\ before \o Take(bytes, n) \in Seq(Nat)
             /\ left - n \in Nat
             /\ Len(before \o Take(bytes, n)) + (left - n) = size
<1> DEFINE n == Copied(bytes, left)
<1>1. Len(bytes) \in Nat /\ Len(before) \in Nat
  BY LenProperties
<1>2. n \in 0..Len(bytes) /\ n <= left
  BY <1>1 DEF Copied, Smaller
<1>3. n \in Nat
  BY <1>1, <1>2
<1> HIDE DEF n
<1>4. /\ Take(bytes, n) \in Seq(Nat) /\ Len(Take(bytes, n)) = n
      /\ Drop(bytes, n) \in Seq(Nat)
  BY <1>2, TakeDropProperties
<1>5. /\ before \o Take(bytes, n) \in Seq(Nat)
      /\ Len(before \o Take(bytes, n)) = Len(before) + n
  BY <1>4, ConcatProperties
<1>6. left - n \in Nat /\ (Len(before) + n) + (left - n) = size
  <2> DEFINE copied == Len(before)
  <2>1. copied \in Nat /\ copied + left = size /\ n <= left
    BY <1>1, <1>2
  <2> HIDE DEF copied
  <2>2. left - n \in Nat /\ (copied + n) + (left - n) = size
    BY <1>3, <2>1, Balance
  <2>3. QED
    BY <2>2 DEF copied
<1>7. QED
  BY <1>4, <1>5, <1>6 DEF n

\* The end of read_current_packet() keeps the decoder's balance: what it copies is no longer
\* expected.
LEMMA ReadBytesKeepsBalance ==
  ASSUME TypeOK,
         NEW bytes \in Seq(Nat), NEW header \in Seq(Nat), NEW size \in Nat,
         NEW before \in Seq(Nat), NEW left \in Nat,
         Len(before) + left = size, size <= MaxPacket,
         ReadBytes(bytes, header, size, before, left),
         UNCHANGED <<sent, wire, closed, result, received>>
  PROVE  TypeOK' /\ DecoderBounded'
<1> DEFINE n == Copied(bytes, left)
<1>1. /\ buf' = Drop(bytes, n) /\ buffer_size' = size /\ expected_size' = left - n
      /\ current_buffer' = before \o Take(bytes, n)
  BY DEF ReadBytes
<1>2. \/ /\ packet_queue' = Append(packet_queue, current_buffer')
         /\ size_bytes' = <<>> /\ size_read' = FALSE
      \/ /\ packet_queue' = packet_queue
         /\ size_bytes' = header /\ size_read' = TRUE
  BY DEF ReadBytes, NextHeader
<1>3. /\ buf' \in Seq(Nat) /\ current_buffer' \in Seq(Nat) /\ expected_size' \in Nat
      /\ Len(current_buffer') + expected_size' = buffer_size'
  BY <1>1, BytesCopied
<1>4. packet_queue' \in Seq(Seq(Nat)) /\ size_bytes' \in Seq(Nat)
  <2>1. packet_queue \in Seq(Seq(Nat))
    BY DEF TypeOK, DataTypeOK
  <2>2. Append(packet_queue, current_buffer') \in Seq(Seq(Nat))
    BY <1>3, <2>1, AppendProperties
  <2>3. \A S : <<>> \in Seq(S)
    BY EmptySeq
  <2>4. packet_queue' = Append(packet_queue, current_buffer') \/ packet_queue' = packet_queue
    BY <1>2
  <2>5. size_bytes' = <<>> \/ size_bytes' = header
    BY <1>2
  <2>6. packet_queue' \in Seq(Seq(Nat))
    BY <2>1, <2>2, <2>4, Zenon
  <2>7. size_bytes' \in Seq(Nat)
    BY <2>3, <2>5, Zenon
  <2>8. QED
    BY <2>6, <2>7
<1>5. TypeOK'
  <2>1. DataTypeOK'
    BY <1>1, <1>3, <1>4 DEF TypeOK, DataTypeOK
  <2>2. QED
    BY <1>2, <2>1 DEF TypeOK
<1>6. DecoderBounded'
  <2>1. size_bytes' = <<>> => Len(size_bytes') < HeaderLen
    BY DEF HeaderLen
  <2>2. buffer_size' <= MaxPacket
    BY <1>1
  <2>3. QED
    BY <1>2, <1>3, <2>1, <2>2 DEF DecoderBounded
<1>7. QED
  BY <1>5, <1>6

\* Every step keeps the types and the balance.
LEMMA DecoderStep ==
  ASSUME TypeOK, DecoderBounded, [Next]_vars
  PROVE  TypeOK' /\ DecoderBounded'
<1>1. CASE \/ CloseConnection \/ (\E len \in Lengths : SendDies(len)) \/ RecvFails
          \/ UNCHANGED vars
  <2>1. TypeOK'
    BY <1>1 DEF CloseConnection, SendDies, RecvFails, vars, decoder, TypeOK, DataTypeOK
  <2>2. DecoderBounded'
    BY <1>1 DEF CloseConnection, SendDies, RecvFails, vars, decoder, DecoderBounded
  <2>3. QED
    BY <2>1, <2>2
<1>2. ASSUME NEW len \in Lengths, Send(len)
      PROVE  TypeOK' /\ DecoderBounded'
  <2> DEFINE packet == Payload(Len(sent) + 1, len)
  <2>1. len \in Nat
    BY FramingAssumption
  <2>2. Len(sent) + 1 \in Nat
    BY LenProperties DEF TypeOK, DataTypeOK
  <2>3. packet \in Seq(Nat) /\ Encode(len) \in Seq(Nat)
    BY <2>1, <2>2, PayloadType, EncodeType
  <2>4. sent' = Append(sent, packet) /\ wire' = (wire \o Encode(len)) \o packet
    BY <1>2 DEF Send
  <2> HIDE DEF packet
  <2>5. wire' \in Seq(Nat)
    BY <2>3, <2>4, ConcatProperties DEF TypeOK, DataTypeOK
  <2>6. sent' \in Seq(Seq(Nat))
    BY <2>3, <2>4 DEF TypeOK, DataTypeOK
  <2>7. QED
    BY <1>2, <2>5, <2>6 DEF Send, decoder, TypeOK, DataTypeOK, DecoderBounded
<1>3. ASSUME NEW size \in 1..BufferSize, Recv(size)
      PROVE  TypeOK' /\ DecoderBounded'
  <2>1. size \in 0..Len(wire)
    BY <1>3, FramingAssumption, LenProperties DEF Recv, TypeOK, DataTypeOK
  <2>2. buf' \in Seq(Nat) /\ wire' \in Seq(Nat)
    BY <1>3, <2>1, TakeDropProperties DEF Recv, TypeOK, DataTypeOK
  <2>3. QED
    BY <1>3, <2>2 DEF Recv, decoder, TypeOK, DataTypeOK, DecoderBounded
<1>4. CASE RecvClosed
  <2>1. TypeOK'
    <3>1. DataTypeOK'
      BY <1>4 DEF RecvClosed, Reset, TypeOK, DataTypeOK
    <3>2. QED
      BY <1>4, <3>1 DEF RecvClosed, Reset, TypeOK
  <2>2. DecoderBounded'
    BY <1>4 DEF RecvClosed, Reset, DecoderBounded, HeaderLen
  <2>3. QED
    BY <2>1, <2>2
<1>5. CASE ReadPartOfHeader
  <2>1. size_bytes' \in Seq(Nat) /\ Len(size_bytes') < HeaderLen
    <3>1. Header \in Seq(Nat) /\ Len(Header) <= HeaderLen /\ Len(Header) # HeaderLen
      BY <1>5, HeaderProperties DEF ReadPartOfHeader, HeaderDone
    <3>2. Len(Header) \in Nat
      BY <3>1, LenProperties
    <3>3. Len(Header) < HeaderLen
      BY <3>1, <3>2, ShorterHeader, Zenon
    <3>4. QED
      BY <1>5, <3>1, <3>3 DEF ReadPartOfHeader
  <2>2. QED
    BY <1>5, <2>1 DEF ReadPartOfHeader, TypeOK, DataTypeOK, DecoderBounded
<1>6. CASE ReadHeader
  <2>1. Header \in Seq(Nat) /\ Decode(Header) \in Nat /\ Decode(Header) <= MaxPacket
    BY <1>6, HeaderProperties, FramingAssumption DEF ReadHeader, TooBig
  <2>2. QED
    BY <1>6, <2>1 DEF ReadHeader, TypeOK, DataTypeOK, DecoderBounded
<1>7. CASE ReadHeaderAndData
  <2>1. /\ Header \in Seq(Nat) /\ Decode(Header) \in Nat /\ Decode(Header) <= MaxPacket
        /\ HeaderBytes \in 0..Len(buf)
    BY <1>7, HeaderProperties, FramingAssumption DEF ReadHeaderAndData, TooBig
  <2>2. Drop(buf, HeaderBytes) \in Seq(Nat)
    BY <2>1, TakeDropProperties DEF TypeOK, DataTypeOK
  <2>3. <<>> \in Seq(Nat) /\ Len(<<>>) + Decode(Header) = Decode(Header)
    BY <2>1
  <2>4. QED
    BY <1>7, <2>1, <2>2, <2>3, ReadBytesKeepsBalance DEF ReadHeaderAndData
<1>8. CASE ReadData
  BY <1>8, ReadBytesKeepsBalance DEF ReadData, TypeOK, DataTypeOK, DecoderBounded
<1>9. CASE ReadTooBig
  <2>1. Decode(Header) \in Nat
    BY <1>9, HeaderProperties DEF ReadTooBig
  <2>2. TypeOK'
    <3>1. DataTypeOK'
      BY <1>9, <2>1 DEF ReadTooBig, TypeOK, DataTypeOK
    <3>2. QED
      BY <1>9, <3>1 DEF ReadTooBig, TypeOK
  <2>3. DecoderBounded'
    BY <1>9 DEF ReadTooBig, DecoderBounded, HeaderLen
  <2>4. QED
    BY <2>2, <2>3
<1>10. CASE WritePacket
  <2>1. Head(packet_queue) \in Seq(Nat) /\ Tail(packet_queue) \in Seq(Seq(Nat))
    BY <1>10, HeadTailProperties DEF WritePacket, TypeOK, DataTypeOK
  <2>2. QED
    BY <1>10, <2>1 DEF WritePacket, decoder, TypeOK, DataTypeOK, DecoderBounded
<1>11. QED
  BY <1>1, <1>2, <1>3, <1>4, <1>5, <1>6, <1>7, <1>8, <1>9, <1>10 DEF Next, Receive

\* They hold at first.
LEMMA DecoderInit == Init => TypeOK /\ DecoderBounded
<1>1. Init => TypeOK
  <2>1. Init => DataTypeOK
    BY DEF Init, DataTypeOK
  <2>2. QED
    BY <2>1 DEF Init, TypeOK
<1>2. Init => DecoderBounded
  BY DEF Init, DecoderBounded, HeaderLen
<1>3. QED
  BY <1>1, <1>2

\* The decoder never copies more bytes than it allocated, never allocates more than MAX_PACKET_SIZE
\* and always makes progress inside a header, wherever recv() cuts the stream.
THEOREM DecoderCorrect == Spec => [](TypeOK /\ DecoderBounded)
<1>1. Init => TypeOK /\ DecoderBounded
  BY DecoderInit
<1>2. TypeOK /\ DecoderBounded /\ [Next]_vars => TypeOK' /\ DecoderBounded'
  BY DecoderStep
<1>3. QED
  BY <1>1, <1>2, PTL DEF Spec

\* Every variable of the decoder keeps its type.
THEOREM DecoderTypes == Spec => []TypeOK
BY DecoderCorrect, PTL

-----------------------------------------------------------------------------
(***************************************************************************)
(* The channel: what comes out is what was sent, whole and in order,       *)
(* wherever recv() cuts the stream.                                        *)
(*                                                                         *)
(* Three parts: the header (Decode undoes Encode); the stream as frames,   *)
(* one behind the other, with a function cut that says where each ends;    *)
(* and the invariant, that the bytes of the half-read packet, those that   *)
(* recv() took and those still in the stream are together the frames of    *)
(* the packets that have not come out.                                     *)
(***************************************************************************)

\* htonl() loses nothing of a length that fits in the header.
LEMMA DecodeEncode ==
  ASSUME NEW n \in 0..(Base * Base * Base * Base - 1)
  PROVE  Decode(Encode(n)) = n
<1> DEFINE d1 == (n \div (Base * Base * Base)) % Base
           d2 == (n \div (Base * Base)) % Base
           d3 == (n \div Base) % Base
           d4 == n % Base
<1>1. Encode(n) = <<d1, d2, d3, d4>>
  BY DEF Encode
<1>2. n = ((d1 * Base + d2) * Base + d3) * Base + d4
  <2>1. Base \in Nat /\ Base > 1
    BY FramingAssumption
  <2>2. QED
    BY <2>1, FourDigits
<1> HIDE DEF d1, d2, d3, d4
<1>3. Decode(<<d1, d2, d3, d4>>) = ((d1 * Base + d2) * Base + d3) * Base + d4
  BY DEF Decode
<1>4. QED
  BY <1>1, <1>2, <1>3

-----------------------------------------------------------------------------
\* Concatenation is associative, for bytes.
LEMMA BytesAssociative ==
  \A s, t, u \in Seq(Nat) : (s \o t) \o u = s \o (t \o u)
BY ConcatAssociative, SMTT(30)

\* The same, with the equation behind a name: concatenations are met as its arguments only.
Regrouped(s, t, u) == (s \o t) \o u = s \o (t \o u)

LEMMA BytesRegrouped ==
  \A s, t, u \in Seq(Nat) : Regrouped(s, t, u)
BY BytesAssociative, Zenon DEF Regrouped

\* The same for packets.
LEMMA PacketsAssociative ==
  \A s, t, u \in Seq(Seq(Nat)) : (s \o t) \o u = s \o (t \o u)
BY ConcatAssociative, SMTT(30)

\* Appending one packet.
LEMMA AppendPacket ==
  ASSUME NEW packets \in Seq(Seq(Nat)), NEW packet \in Seq(Nat)
  PROVE  /\ <<packet>> \in Seq(Seq(Nat))
         /\ Append(packets, packet) = packets \o <<packet>>
<1>1. <<packet>> \in Seq(Seq(Nat))
  OBVIOUS
<1>2. Append(packets, packet) = packets \o <<packet>>
  <2> DEFINE S == Seq(Nat)
  <2>1. packets \in Seq(S) /\ packet \in S
    OBVIOUS
  <2> HIDE DEF S
  <2>2. QED
    BY <2>1, AppendIsConcat
<1>3. QED
  BY <1>1, <1>2

\* The first packet and the others.
LEMMA FirstAndOthers ==
  ASSUME NEW packets \in Seq(Seq(Nat)), packets # <<>>
  PROVE  /\ packets[1] \in Seq(Nat) /\ Tail(packets) \in Seq(Seq(Nat))
         /\ packets = <<packets[1]>> \o Tail(packets)
         /\ Len(Tail(packets)) = Len(packets) - 1
<1>1. 1 \in 1..Len(packets) /\ Len(packets) \in 1..Len(packets)
  BY EmptySeq
<1>2. SubSeq(packets, 1, Len(packets)) = <<packets[1]>> \o SubSeq(packets, 1 + 1, Len(packets))
  BY <1>1, SubSeqRecursiveFirst
<1>3. /\ Tail(packets) \in Seq(Seq(Nat)) /\ Tail(packets) = SubSeq(packets, 2, Len(packets))
      /\ Len(Tail(packets)) = Len(packets) - 1
  BY HeadTailProperties, TailIsSubSeq
<1>4. SubSeq(packets, 1, Len(packets)) = packets
  BY SubSeqFull
<1>5. packets[1] \in Seq(Nat)
  BY <1>1, ElementOfSeq
<1>6. QED
  BY <1>2, <1>3, <1>4, <1>5

-----------------------------------------------------------------------------
(***************************************************************************)
(* The stream as a sequence of frames.  Where the frames end is a function *)
(* cut, so that no definition has to go through the packets one by one.    *)
(***************************************************************************)
Frame(packet) == Encode(Len(packet)) \o packet

\* cut[i] is the number of bytes in the first i frames.
IsCut(cut, s, packets) ==
  /\ cut \in [0..Len(packets) -> 0..Len(s)]
  /\ cut[0] = 0 /\ cut[Len(packets)] = Len(s)
  /\ \A i, j \in 0..Len(packets) : i <= j => cut[i] <= cut[j]
  /\ \A i \in 1..Len(packets) :
       /\ cut[i] = cut[i - 1] + Len(Frame(packets[i]))
       /\ \A j \in 1..Len(Frame(packets[i])) : s[cut[i - 1] + j] = Frame(packets[i])[j]

Framed(s, packets) == \E cut : IsCut(cut, s, packets)

\* A frame is a header and the packet.
LEMMA FrameType ==
  ASSUME NEW packet \in Seq(Nat)
  PROVE  /\ Encode(Len(packet)) \in Seq(Nat) /\ Len(Encode(Len(packet))) = HeaderLen
         /\ Frame(packet) \in Seq(Nat) /\ Len(Frame(packet)) = HeaderLen + Len(packet)
<1>1. Len(packet) \in Nat
  BY LenProperties
<1>2. Encode(Len(packet)) \in Seq(Nat)
  BY <1>1, EncodeType
<1>3. Len(Encode(Len(packet))) = HeaderLen
  BY DEF Encode, HeaderLen
<1>4. QED
  BY <1>2, <1>3, ConcatProperties DEF Frame

\* An empty stream holds no frame, and only it.
LEMMA FramedEmpty ==
  /\ Framed(<<>>, <<>>)
  /\ \A s \in Seq(Nat) : Framed(s, <<>>) => s = <<>>
<1>1. Framed(<<>>, <<>>)
  <2> DEFINE cut == [i \in 0..0 |-> 0]
  <2>1. IsCut(cut, <<>>, <<>>)
    BY DEF IsCut
  <2>2. QED
    BY <2>1 DEF Framed
<1>2. ASSUME NEW s \in Seq(Nat), Framed(s, <<>>)
      PROVE  s = <<>>
  <2>1. Len(s) = 0
    BY <1>2 DEF Framed, IsCut
  <2>2. QED
    BY <2>1, EmptySeq
<1>3. QED
  BY <1>1, <1>2

\* send() adds one frame.
LEMMA FramedSend ==
  ASSUME NEW s \in Seq(Nat), NEW packets \in Seq(Seq(Nat)), NEW packet \in Seq(Nat),
         Framed(s, packets)
  PROVE  Framed(s \o Frame(packet), Append(packets, packet))
<1> DEFINE n == Len(packets)
           frame == Frame(packet)
           t == s \o frame
           more == Append(packets, packet)
<1>1. PICK cut : IsCut(cut, s, packets)
  BY DEF Framed
<1>2. /\ n \in Nat /\ Len(s) \in Nat /\ frame \in Seq(Nat) /\ Len(frame) \in Nat
      /\ \A i \in 1..n : packets[i] \in Seq(Nat)
  BY FrameType, LenProperties, ElementOfSeq
<1>3. /\ t \in Seq(Nat) /\ Len(t) = Len(s) + Len(frame)
      /\ \A i \in 1..(Len(s) + Len(frame)) :
           t[i] = IF i <= Len(s) THEN s[i] ELSE frame[i - Len(s)]
  BY <1>2, ConcatProperties
<1>4. /\ Len(more) = n + 1 /\ more[n + 1] = packet
      /\ \A i \in 1..n : more[i] = packets[i]
  BY AppendProperties
<1> DEFINE cut2 == [i \in 0..(n + 1) |-> IF i = n + 1 THEN Len(t) ELSE cut[i]]
<1>5. /\ cut \in [0..n -> 0..Len(s)] /\ cut[0] = 0 /\ cut[n] = Len(s)
      /\ \A i, j \in 0..n : i <= j => cut[i] <= cut[j]
      /\ \A i \in 1..n :
           /\ cut[i] = cut[i - 1] + Len(Frame(packets[i]))
           /\ \A j \in 1..Len(Frame(packets[i])) : s[cut[i - 1] + j] = Frame(packets[i])[j]
  BY <1>1 DEF IsCut
<1> HIDE DEF n, t, more, frame
<1>6. cut2 \in [0..(n + 1) -> 0..Len(t)]
  BY <1>2, <1>3, <1>5
<1>7. cut2[0] = 0 /\ cut2[n + 1] = Len(t)
  BY <1>2, <1>5
<1>8. \A i, j \in 0..(n + 1) : i <= j => cut2[i] <= cut2[j]
  BY <1>2, <1>3, <1>5
<1>9. ASSUME NEW i \in 1..(n + 1)
      PROVE  /\ cut2[i] = cut2[i - 1] + Len(Frame(more[i]))
             /\ \A j \in 1..Len(Frame(more[i])) : t[cut2[i - 1] + j] = Frame(more[i])[j]
  <2>1. CASE i = n + 1
    <3>1. cut2[i] = Len(t) /\ cut2[i - 1] = Len(s) /\ more[i] = packet
      BY <1>2, <1>4, <1>5, <2>1
    <3>2. ASSUME NEW j \in 1..Len(frame)
          PROVE  t[Len(s) + j] = frame[j]
      <4>1. Len(s) + j \in 1..(Len(s) + Len(frame)) /\ ~(Len(s) + j <= Len(s)) /\ (Len(s) + j) - Len(s) = j
        BY <1>2
      <4>2. QED
        BY <1>3, <4>1
    <3>3. QED
      BY <1>3, <3>1, <3>2 DEF frame
  <2>2. CASE i # n + 1
    <3>1. i \in 1..n /\ i \in 0..n /\ i - 1 \in 0..n
      BY <1>2, <2>2
    <3>2. cut2[i] = cut[i] /\ cut2[i - 1] = cut[i - 1] /\ more[i] = packets[i]
      BY <1>2, <1>4, <3>1
    <3>3. /\ cut[i] = cut[i - 1] + Len(Frame(packets[i]))
          /\ \A j \in 1..Len(Frame(packets[i])) : s[cut[i - 1] + j] = Frame(packets[i])[j]
      BY <1>5, <3>1
    <3>4. Len(Frame(packets[i])) \in Nat
      BY <1>2, <3>1, FrameType, LenProperties
    <3>5. cut[i] \in 0..Len(s) /\ cut[i - 1] \in 0..Len(s)
      BY <1>5, <3>1
    <3>6. ASSUME NEW j \in 1..Len(Frame(packets[i]))
          PROVE  t[cut[i - 1] + j] = s[cut[i - 1] + j]
      <4>1. cut[i - 1] + j \in 1..(Len(s) + Len(frame)) /\ cut[i - 1] + j <= Len(s)
        <5> DEFINE a == cut[i - 1]
                   b == cut[i]
                   l == Len(Frame(packets[i]))
        <5>1. a \in Int /\ b \in Int /\ l \in Nat /\ b = a + l /\ a >= 0 /\ b <= Len(s) /\ j \in 1..l
          BY <1>2, <3>3, <3>4, <3>5
        <5> HIDE DEF a, b, l
        <5>2. a + j \in 1..(Len(s) + Len(frame)) /\ a + j <= Len(s)
          BY <1>2, <5>1
        <5>3. QED
          BY <5>2 DEF a
      <4>2. QED
        BY <1>3, <4>1
    <3>7. QED
      BY <3>2, <3>3, <3>6
  <2>3. QED
    BY <2>1, <2>2
<1> HIDE DEF cut2
<1>10. IsCut(cut2, t, more)
  BY <1>4, <1>6, <1>7, <1>8, <1>9 DEF IsCut
<1>11. QED
  BY <1>10 DEF Framed, t, more, frame

\* A stream that holds a frame begins with it; the rest of the stream are the others.
LEMMA FramedFirst ==
  ASSUME NEW s \in Seq(Nat), NEW packets \in Seq(Seq(Nat)), packets # <<>>,
         Framed(s, packets)
  PROVE  \E r \in Seq(Nat) : s = Frame(packets[1]) \o r /\ Framed(r, Tail(packets))
<1> DEFINE n == Len(packets)
           frame == Frame(packets[1])
           k == Len(frame)
           r == SubSeq(s, k + 1, Len(s))
           others == Tail(packets)
<1>1. PICK cut : IsCut(cut, s, packets)
  BY DEF Framed
<1>2. /\ n \in Nat /\ n >= 1 /\ Len(s) \in Nat
      /\ \A i \in 1..n : packets[i] \in Seq(Nat)
      /\ \A i \in 1..Len(s) : s[i] \in Nat
  BY LenProperties, ElementOfSeq, EmptySeq
<1>3. frame \in Seq(Nat) /\ k \in Nat
  <2>1. packets[1] \in Seq(Nat)
    BY <1>2
  <2>2. QED
    BY <2>1, FrameType, LenProperties
<1>4. /\ cut \in [0..n -> 0..Len(s)] /\ cut[0] = 0 /\ cut[n] = Len(s)
      /\ \A i, j \in 0..n : i <= j => cut[i] <= cut[j]
      /\ \A i \in 1..n :
           /\ cut[i] = cut[i - 1] + Len(Frame(packets[i]))
           /\ \A j \in 1..Len(Frame(packets[i])) : s[cut[i - 1] + j] = Frame(packets[i])[j]
  BY <1>1 DEF IsCut
<1>5. /\ others \in Seq(Seq(Nat)) /\ Len(others) = n - 1
      /\ \A i \in 1..(n - 1) : others[i] = packets[i + 1]
  BY HeadTailProperties
<1> HIDE DEF n, frame, others
<1>6. cut[1] = k /\ k <= Len(s) /\ \A j \in 1..k : s[j] = frame[j]
  <2>1. 1 \in 1..n /\ 1 \in 0..n /\ 1 - 1 = 0
    BY <1>2
  <2>2. cut[1] = 0 + k /\ \A j \in 1..k : s[0 + j] = frame[j]
    BY <1>4, <2>1 DEF frame
  <2>3. cut[1] \in 0..Len(s)
    BY <1>4, <2>1
  <2>4. QED
    BY <1>2, <1>3, <2>2, <2>3
<1> HIDE DEF k
<1>7. /\ r \in Seq(Nat) /\ Len(r) = Len(s) - k
      /\ \A i \in 1..(Len(s) - k) : r[i] = s[k + i]
  <2>1. \A i \in (k + 1)..Len(s) : s[i] \in Nat
    BY <1>2, <1>3
  <2>2. QED
    BY <1>2, <1>3, <1>6, <2>1, SubSeqProperties
<1> HIDE DEF r
<1>8. s = frame \o r
  <2>1. /\ frame \o r \in Seq(Nat) /\ Len(frame \o r) = Len(s)
        /\ \A i \in 1..Len(s) : (frame \o r)[i] = IF i <= k THEN frame[i] ELSE r[i - k]
    <3>1. /\ frame \o r \in Seq(Nat)
          /\ Len(frame \o r) = Len(frame) + Len(r)
          /\ \A i \in 1..(Len(frame) + Len(r)) :
               (frame \o r)[i] = IF i <= Len(frame) THEN frame[i] ELSE r[i - Len(frame)]
      BY <1>3, <1>7, ConcatProperties
    <3>2. Len(frame) = k /\ k + Len(r) = Len(s)
      BY <1>2, <1>3, <1>7 DEF k
    <3>3. QED
      BY <3>1, <3>2
  <2>2. \A i \in 1..Len(s) : (frame \o r)[i] = s[i]
    BY <1>2, <1>3, <1>6, <1>7, <2>1, SMTT(30)
  <2>3. QED
    BY <2>1, <2>2, SeqEqual
<1> DEFINE cut2 == [i \in 0..(n - 1) |-> cut[i + 1] - k]
<1>9. cut2 \in [0..(n - 1) -> 0..Len(r)]
  <2> SUFFICES ASSUME NEW i \in 0..(n - 1)
               PROVE  cut[i + 1] - k \in 0..Len(r)
    OBVIOUS
  <2>1. i + 1 \in 0..n /\ 1 \in 0..n /\ 1 <= i + 1
    BY <1>2
  <2>2. cut[i + 1] \in 0..Len(s) /\ cut[1] <= cut[i + 1]
    BY <1>4, <2>1
  <2>3. QED
    BY <1>2, <1>3, <1>6, <1>7, <2>2
<1>10. cut2[0] = 0 /\ cut2[n - 1] = Len(r)
  <2>1. 0 \in 0..(n - 1) /\ n - 1 \in 0..(n - 1) /\ (n - 1) + 1 = n /\ 0 + 1 = 1
    BY <1>2
  <2>2. cut2[0] = cut[1] - k /\ cut2[n - 1] = cut[n] - k
    BY <2>1
  <2>3. QED
    BY <1>3, <1>4, <1>6, <1>7, <2>2
<1>11. \A i, j \in 0..(n - 1) : i <= j => cut2[i] <= cut2[j]
  <2> SUFFICES ASSUME NEW i \in 0..(n - 1), NEW j \in 0..(n - 1), i <= j
               PROVE  cut[i + 1] - k <= cut[j + 1] - k
    OBVIOUS
  <2>1. i + 1 \in 0..n /\ j + 1 \in 0..n /\ i + 1 <= j + 1
    BY <1>2
  <2>2. cut[i + 1] <= cut[j + 1] /\ cut[i + 1] \in 0..Len(s) /\ cut[j + 1] \in 0..Len(s)
    BY <1>4, <2>1
  <2>3. QED
    BY <1>2, <1>3, <2>2
<1>12. ASSUME NEW i \in 1..(n - 1)
       PROVE  /\ cut2[i] = cut2[i - 1] + Len(Frame(others[i]))
              /\ \A j \in 1..Len(Frame(others[i])) : r[cut2[i - 1] + j] = Frame(others[i])[j]
  <2> DEFINE f == Frame(packets[i + 1])
  <2>1. i + 1 \in 1..n /\ i \in 0..n /\ 1 \in 0..n /\ (i + 1) - 1 = i /\ (i - 1) + 1 = i /\ 1 <= i
    BY <1>2
  <2>2. others[i] = packets[i + 1] /\ cut2[i] = cut[i + 1] - k /\ cut2[i - 1] = cut[i] - k
    BY <1>2, <1>5, <2>1
  <2>3. /\ cut[i + 1] = cut[i] + Len(f)
        /\ \A j \in 1..Len(f) : s[cut[i] + j] = f[j]
    BY <1>4, <2>1
  <2>4. Len(f) \in Nat
    BY <1>2, <2>1, FrameType, LenProperties
  <2>5. cut[i] \in 0..Len(s) /\ cut[i + 1] \in 0..Len(s) /\ k <= cut[i]
    <3>1. cut[i] \in 0..Len(s) /\ cut[i + 1] \in 0..Len(s)
      <4>1. i + 1 \in 0..n
        BY <1>2
      <4>2. QED
        BY <1>4, <2>1, <4>1
    <3>2. cut[1] <= cut[i]
      BY <1>4, <2>1
    <3>3. QED
      BY <1>6, <3>1, <3>2
  <2> HIDE DEF f
  <2>6. ASSUME NEW j \in 1..Len(f)
        PROVE  r[cut[i] - k + j] = f[j]
    <3>1. cut[i] - k + j \in 1..(Len(s) - k) /\ k + (cut[i] - k + j) = cut[i] + j
      <4> DEFINE a == cut[i]
                 b == cut[i + 1]
                 l == Len(f)
      <4>1. /\ a \in Int /\ b \in Int /\ l \in Nat /\ k \in Nat /\ b = a + l
            /\ k <= a /\ b <= Len(s) /\ j \in 1..l
        BY <1>2, <1>3, <2>3, <2>4, <2>5
      <4> HIDE DEF a, b, l
      <4>2. a - k + j \in 1..(Len(s) - k) /\ k + (a - k + j) = a + j
        BY <1>2, <4>1
      <4>3. QED
        BY <4>2 DEF a
    <3>2. QED
      BY <1>7, <2>3, <3>1
  <2>7. QED
    <3>1. cut[i + 1] - k = (cut[i] - k) + Len(f)
      BY <1>3, <2>3, <2>4, <2>5
    <3>2. QED
      BY <2>2, <2>6, <3>1 DEF f
<1> HIDE DEF cut2
<1>13. IsCut(cut2, r, others)
  BY <1>5, <1>9, <1>10, <1>11, <1>12 DEF IsCut
<1>14. QED
  BY <1>7, <1>8, <1>13 DEF Framed, frame, others

\* The two parts of a cut make up the sequence.
LEMMA TakeDropConcat ==
  ASSUME NEW s \in Seq(Nat), NEW n \in 0..Len(s)
  PROVE  Take(s, n) \o Drop(s, n) = s
<1>1. Len(s) \in Nat /\ n \in (1 - 1)..Len(s) /\ Len(s) \in n..Len(s) /\ 1 \in 1..(Len(s) + 1)
  BY LenProperties
<1>2. SubSeq(s, 1, n) \o SubSeq(s, n + 1, Len(s)) = SubSeq(s, 1, Len(s))
  BY <1>1, ConcatAdjacentSubSeq
<1>3. QED
  BY <1>2, SubSeqFull DEF Take, Drop

\* Two ways to cut a sequence at the same place give the same parts.
LEMMA SameCut ==
  ASSUME NEW s \in Seq(Nat), NEW t \in Seq(Nat), NEW u \in Seq(Nat), NEW v \in Seq(Nat),
         s \o t = u \o v, Len(s) = Len(u)
  PROVE  s = u /\ t = v
<1>1. Len(s) \in Nat /\ Len(t) \in Nat /\ Len(u) \in Nat /\ Len(v) \in Nat
  BY LenProperties
<1>2. /\ \A i \in 1..(Len(s) + Len(t)) : (s \o t)[i] = IF i <= Len(s) THEN s[i] ELSE t[i - Len(s)]
      /\ \A i \in 1..(Len(u) + Len(v)) : (u \o v)[i] = IF i <= Len(u) THEN u[i] ELSE v[i - Len(u)]
  BY ConcatProperties
<1>3. \A i \in 1..Len(s) : s[i] = u[i]
  BY <1>1, <1>2
<1>4. s = u
  BY <1>3, SeqEqual
<1>5. s \o t = s \o v
  BY <1>4
<1>6. QED
  BY <1>4, <1>5, ConcatSimplifications

-----------------------------------------------------------------------------
(***************************************************************************)
(* The invariant: undo what the decoder has done with the packet that it   *)
(* is reading, and what is left is the frames of the packets that have not *)
(* come out yet.                                                           *)
(***************************************************************************)
Decoded == received \o packet_queue
Partial == IF size_read THEN size_bytes \o current_buffer ELSE size_bytes
Stream  == Partial \o (buf \o wire)

Fits(packet) == Len(packet) \in 0..(Base * Base * Base * Base - 1)

HeaderOK ==
  size_read => /\ Len(size_bytes) = HeaderLen /\ buffer_size = Decode(size_bytes)
               /\ expected_size = 0 => buffer_size = 0

\* rest are the packets still on their way.
OnTheWay(rest) ==
  /\ rest \in Seq(Seq(Nat)) /\ sent = Decoded \o rest
  /\ result = "none" => Framed(Stream, rest)

ChannelInv ==
  /\ TypeOK /\ DecoderBounded /\ HeaderOK
  /\ result # "none" => buf = <<>>
  /\ \A i \in 1..Len(sent) : Fits(sent[i])
  /\ \E rest : OnTheWay(rest)

\* The stream is made of bytes, what has come out of packets.
LEMMA StreamType ==
  ASSUME TypeOK
  PROVE  /\ Partial \in Seq(Nat) /\ buf \o wire \in Seq(Nat) /\ Stream \in Seq(Nat)
         /\ Decoded \in Seq(Seq(Nat))
<1>1. buf \o wire \in Seq(Nat) /\ Decoded \in Seq(Seq(Nat))
  BY ConcatProperties DEF TypeOK, DataTypeOK, Decoded
<1>2. Partial \in Seq(Nat)
  BY ConcatProperties DEF TypeOK, DataTypeOK, Partial
<1>3. QED
  BY <1>1, <1>2, ConcatProperties DEF Stream

\* The packets on their way are among those sent.
LEMMA RestFits ==
  ASSUME ChannelInv, NEW rest, OnTheWay(rest)
  PROVE  \A i \in 1..Len(rest) : Fits(rest[i])
<1>1. /\ Decoded \in Seq(Seq(Nat)) /\ rest \in Seq(Seq(Nat)) /\ sent = Decoded \o rest
      /\ Len(Decoded) \in Nat /\ Len(rest) \in Nat
  BY StreamType, LenProperties DEF ChannelInv, OnTheWay
<1>2. /\ Len(sent) = Len(Decoded) + Len(rest)
      /\ \A i \in 1..(Len(Decoded) + Len(rest)) :
           sent[i] = IF i <= Len(Decoded) THEN Decoded[i] ELSE rest[i - Len(Decoded)]
  BY <1>1, ConcatProperties
<1>3. ASSUME NEW i \in 1..Len(rest)
      PROVE  Fits(rest[i])
  <2>1. Len(Decoded) + i \in 1..(Len(Decoded) + Len(rest)) /\ (Len(Decoded) + i) - Len(Decoded) = i
        /\ ~(Len(Decoded) + i <= Len(Decoded))
    BY <1>1
  <2>2. sent[Len(Decoded) + i] = rest[i]
    BY <1>2, <2>1
  <2>3. QED
    BY <1>2, <2>1, <2>2 DEF ChannelInv
<1>4. QED
  BY <1>3

\* When the stream begins with a header and as many bytes as it says, these are the first packet.
LEMMA FirstPacket ==
  ASSUME NEW header \in Seq(Nat), Len(header) = HeaderLen,
         NEW body \in Seq(Nat), Len(body) = Decode(header), NEW tail \in Seq(Nat),
         NEW rest \in Seq(Seq(Nat)), \A i \in 1..Len(rest) : Fits(rest[i]),
         Framed((header \o body) \o tail, rest)
  PROVE  rest # <<>> /\ rest[1] = body /\ Framed(tail, Tail(rest))
<1>1. /\ header \o body \in Seq(Nat) /\ (header \o body) \o tail \in Seq(Nat)
      /\ body \o tail \in Seq(Nat)
      /\ Len((header \o body) \o tail) = (HeaderLen + Len(body)) + Len(tail)
      /\ Len(body) \in Nat /\ Len(tail) \in Nat
  <2>1. header \o body \in Seq(Nat) /\ Len(header \o body) = HeaderLen + Len(body)
    BY ConcatProperties
  <2>2. /\ (header \o body) \o tail \in Seq(Nat)
        /\ Len((header \o body) \o tail) = Len(header \o body) + Len(tail)
    BY <2>1, ConcatProperties
  <2>3. QED
    BY <2>1, <2>2, ConcatProperties, LenProperties
<1>2. rest # <<>>
  <2>1. SUFFICES ASSUME rest = <<>>
                 PROVE  FALSE
    OBVIOUS
  <2>2. (header \o body) \o tail = <<>>
    BY <1>1, <2>1, FramedEmpty
  <2>3. Len((header \o body) \o tail) = 0
    BY <2>2
  <2>4. QED
    BY <1>1, <2>3 DEF HeaderLen
<1>3. PICK r \in Seq(Nat) : (header \o body) \o tail = Frame(rest[1]) \o r /\ Framed(r, Tail(rest))
  BY <1>1, <1>2, FramedFirst
<1> DEFINE first == rest[1]
           e == Encode(Len(first))
<1>4. first \in Seq(Nat) /\ Fits(first)
  <2>1. 1 \in 1..Len(rest)
    BY <1>2, EmptySeq
  <2>2. QED
    BY <2>1, ElementOfSeq
<1>5. e \in Seq(Nat) /\ Len(e) = HeaderLen /\ Frame(first) = e \o first /\ first \o r \in Seq(Nat)
  BY <1>4, FrameType, ConcatProperties DEF Frame
<1> HIDE DEF first, e
<1>6. header \o (body \o tail) = e \o (first \o r)
  <2>1. (header \o body) \o tail = header \o (body \o tail)
    BY BytesAssociative
  <2>2. (e \o first) \o r = e \o (first \o r)
    <3>1. e \in Seq(Nat) /\ first \in Seq(Nat) /\ r \in Seq(Nat)
      BY <1>4, <1>5
    <3>2. Regrouped(e, first, r)
      BY <3>1, BytesRegrouped
    <3>3. QED
      BY <3>2 DEF Regrouped
  <2>3. (header \o body) \o tail = (e \o first) \o r
    BY <1>3, <1>5 DEF first
  <2>4. QED
    BY <2>1, <2>2, <2>3
<1>7. header = e /\ body \o tail = first \o r
  <2>1. e \in Seq(Nat) /\ first \o r \in Seq(Nat) /\ Len(header) = Len(e)
    BY <1>1, <1>5
  <2>2. body \o tail \in Seq(Nat)
    BY ConcatProperties
  <2>3. QED
    BY <1>6, <2>1, <2>2, SameCut, Zenon
<1>8. Len(body) = Len(first)
  BY <1>4, <1>7, DecodeEncode DEF e, Fits
<1>9. body = first /\ tail = r
  BY <1>4, <1>7, <1>8, SameCut
<1>10. QED
  BY <1>2, <1>3, <1>9 DEF first

\* The packets r are on their way after a step.
LEMMA AreOnTheWay ==
  ASSUME NEW r \in Seq(Seq(Nat)), sent' = Decoded' \o r, result' = "none" => Framed(Stream', r)
  PROVE  (\E rest : OnTheWay(rest))'
<1>1. Framed(Stream', r) = Framed(Stream, r)'
  BY DEF Framed, IsCut
<1>2. OnTheWay(r)'
  BY <1>1 DEF OnTheWay
<1>3. QED
  BY <1>2

\* The bytes after the two first parts of three.
LEMMA MiddleBytes ==
  ASSUME NEW h \in Seq(Nat), NEW t \in Seq(Nat), NEW w \in Seq(Nat), NEW b, b = h \o t
  PROVE  b \o w = h \o (t \o w)
BY BytesAssociative

\* A step that neither delivers nor completes a packet moves bytes inside the stream.
LEMMA SameStream ==
  ASSUME ChannelInv, TypeOK', DecoderBounded', HeaderOK',
         result # "none" => buf' = <<>>,
         Stream' = Stream, Decoded' = Decoded, UNCHANGED <<sent, result>>
  PROVE  ChannelInv'
<1>1. PICK rest : OnTheWay(rest)
  BY DEF ChannelInv
<1>2. OnTheWay(rest)'
  BY <1>1 DEF OnTheWay
<1>3. QED
  BY <1>2 DEF ChannelInv

\* The end of read_current_packet(): the bytes copied are still those of the stream, and when they
\* are all that the header announces, they are the first packet on its way.
LEMMA ReadBytesDecodes ==
  ASSUME ChannelInv, TypeOK', DecoderBounded', result = "none",
         NEW bytes \in Seq(Nat), NEW header \in Seq(Nat), NEW before \in Seq(Nat),
         NEW left \in Nat, Len(header) = HeaderLen, Len(before) + left = Decode(header),
         Stream = (header \o before) \o (bytes \o wire),
         ReadBytes(bytes, header, Decode(header), before, left),
         UNCHANGED <<sent, wire, closed, result, received>>
  PROVE  ChannelInv'
<1> DEFINE n == Copied(bytes, left)
           copied == Take(bytes, n)
           remaining == Drop(bytes, n)
           body == before \o copied
<1>1. Len(bytes) \in Nat /\ Len(before) \in Nat /\ n \in 0..Len(bytes) /\ n <= left /\ n \in Nat
  <2>1. Len(bytes) \in Nat /\ Len(before) \in Nat
    BY LenProperties
  <2>2. QED
    BY <2>1 DEF Copied, Smaller
<1>2. copied \in Seq(Nat) /\ Len(copied) = n /\ remaining \in Seq(Nat)
  BY <1>1, TakeDropProperties
<1>3. copied \o remaining = bytes
  BY <1>1, TakeDropConcat
<1>4. /\ buf' = remaining /\ buffer_size' = Decode(header) /\ expected_size' = left - n
      /\ current_buffer' = body
      /\ \/ /\ left - n = 0
            /\ packet_queue' = Append(packet_queue, body)
            /\ size_read' = FALSE /\ size_bytes' = <<>>
         \/ /\ left - n # 0
            /\ packet_queue' = packet_queue
            /\ size_read' = TRUE /\ size_bytes' = header
  BY DEF ReadBytes, Complete, NextHeader
<1> HIDE DEF n, copied, remaining, body
<1>5. wire \in Seq(Nat) /\ wire' = wire /\ bytes \o wire \in Seq(Nat) /\ remaining \o wire \in Seq(Nat)
  BY <1>2, ConcatProperties DEF ChannelInv, TypeOK, DataTypeOK
<1>6. body \in Seq(Nat) /\ Len(body) = Len(before) + n
  BY <1>2, ConcatProperties DEF body
<1>7. Stream = (header \o body) \o (remaining \o wire)
  <2>1. copied \in Seq(Nat) /\ remaining \in Seq(Nat)
    BY <1>2
  <2>2. header \o before \in Seq(Nat) /\ remaining \o wire \in Seq(Nat)
    BY <1>5, ConcatProperties
  <2>3. /\ Regrouped(copied, remaining, wire)
        /\ Regrouped(header \o before, copied, remaining \o wire)
        /\ Regrouped(header, before, copied)
    BY <1>5, <2>1, <2>2, BytesRegrouped
  <2>4. bytes \o wire = copied \o (remaining \o wire)
    BY <1>3, <2>3, Zenon DEF Regrouped
  <2>5. header \o body = (header \o before) \o copied
    BY <2>3, Zenon DEF body, Regrouped
  <2>6. QED
    BY <2>3, <2>4, <2>5, Zenon DEF Regrouped
<1>8. CASE left - n # 0
  <2>1. Stream' = Stream
    BY <1>4, <1>5, <1>7, <1>8 DEF Stream, Partial
  <2>2. HeaderOK'
    BY <1>4, <1>8 DEF HeaderOK
  <2>3. Decoded' = Decoded
    BY <1>4, <1>8 DEF Decoded
  <2>4. QED
    BY <2>1, <2>2, <2>3, SameStream
<1>9. CASE left - n = 0
  <2>1. PICK rest : OnTheWay(rest)
    BY DEF ChannelInv
  <2>2. rest \in Seq(Seq(Nat)) /\ sent = Decoded \o rest /\ Framed(Stream, rest)
    BY <2>1 DEF OnTheWay
  <2>3. \A i \in 1..Len(rest) : Fits(rest[i])
    BY <2>1, RestFits
  <2>4. Len(body) = Decode(header)
    <3>1. n = left
      BY <1>1, <1>9
    <3>2. QED
      BY <1>6, <3>1
  <2>5. rest # <<>> /\ rest[1] = body /\ Framed(remaining \o wire, Tail(rest))
    <3>1. Framed((header \o body) \o (remaining \o wire), rest)
      BY <1>7, <2>2
    <3>2. QED
      BY <1>5, <1>6, <2>2, <2>3, <2>4, <3>1, FirstPacket
  <2>6. Stream' = remaining \o wire
    <3>1. Stream' = <<>> \o (remaining \o wire)
      BY <1>4, <1>5, <1>9 DEF Stream, Partial
    <3>2. QED
      BY <1>5, <3>1, ConcatEmptySeq
  <2>7. Tail(rest) \in Seq(Seq(Nat)) /\ sent' = Decoded' \o Tail(rest)
    <3>1. received \in Seq(Seq(Nat)) /\ packet_queue \in Seq(Seq(Nat))
      BY DEF ChannelInv, TypeOK, DataTypeOK
    <3>2. Tail(rest) \in Seq(Seq(Nat)) /\ rest = <<body>> \o Tail(rest)
      BY <2>2, <2>5, FirstAndOthers
    <3>3. <<body>> \in Seq(Seq(Nat)) /\ packet_queue' = packet_queue \o <<body>>
      BY <1>4, <1>6, <1>9, <3>1, AppendPacket
    <3>4. Decoded' = Decoded \o <<body>>
      BY <3>1, <3>3, PacketsAssociative DEF Decoded
    <3>5. Decoded \in Seq(Seq(Nat))
      BY <3>1, ConcatProperties DEF Decoded
    <3>6. (Decoded \o <<body>>) \o Tail(rest) = Decoded \o (<<body>> \o Tail(rest))
      BY <3>2, <3>3, <3>5, PacketsAssociative
    <3>7. QED
      BY <2>2, <3>2, <3>4, <3>6
  <2>8. OnTheWay(Tail(rest))'
    <3>1. Framed(Stream', Tail(rest))
      BY <2>5, <2>6
    <3>2. Framed(Stream', Tail(rest)) = Framed(Stream, Tail(rest))'
      BY DEF Framed, IsCut
    <3>3. QED
      BY <2>7, <3>1, <3>2 DEF OnTheWay
  <2>9. HeaderOK'
    BY <1>4, <1>9 DEF HeaderOK
  <2>10. QED
    BY <2>8, <2>9 DEF ChannelInv
<1>10. QED
  BY <1>8, <1>9

-----------------------------------------------------------------------------
(***************************************************************************)
(* The steps.                                                              *)
(***************************************************************************)
\* At first nothing is on its way.
LEMMA ChannelInit == Init => ChannelInv
<1> SUFFICES ASSUME Init
             PROVE  ChannelInv
  OBVIOUS
<1>1. TypeOK /\ DecoderBounded
  BY DecoderInit
<1>2. HeaderOK
  BY DEF Init, HeaderOK
<1>3. Stream = <<>> /\ Decoded = <<>>
  BY DEF Init, Stream, Partial, Decoded
<1>4. OnTheWay(<<>>)
  <2>1. <<>> \in Seq(Seq(Nat)) /\ sent = Decoded \o <<>>
    BY <1>3 DEF Init
  <2>2. QED
    BY <1>3, <2>1, FramedEmpty DEF OnTheWay
<1>5. \A i \in 1..Len(sent) : Fits(sent[i])
  BY DEF Init
<1>6. QED
  BY <1>1, <1>2, <1>4, <1>5 DEF ChannelInv, Init

\* send() puts one packet behind those on their way.
LEMMA SendSends ==
  ASSUME ChannelInv, TypeOK', DecoderBounded', NEW len \in Lengths, Send(len)
  PROVE  ChannelInv'
<1> DEFINE packet == Payload(Len(sent) + 1, len)
<1>1. /\ sent' = Append(sent, packet) /\ wire' = (wire \o Encode(len)) \o packet
      /\ UNCHANGED <<closed, buf, decoder, packet_queue, result, received>>
  <2>1. wire' = wire \o Encode(len) \o packet /\ sent' = Append(sent, packet)
    BY DEF Send
  <2>2. QED
    BY <2>1 DEF Send
<1>2. len \in Nat /\ len \in 0..(Base * Base * Base * Base - 1)
  BY FramingAssumption
<1>3. /\ sent \in Seq(Seq(Nat)) /\ wire \in Seq(Nat) /\ buf \in Seq(Nat)
      /\ Len(sent) \in Nat
  BY LenProperties DEF ChannelInv, TypeOK, DataTypeOK
<1>4. packet \in Seq(Nat) /\ Len(packet) = len /\ Fits(packet)
  <2>1. packet \in Seq(Nat)
    BY <1>2, <1>3, PayloadType
  <2>2. Len(packet) = len
    BY <1>2 DEF Payload
  <2>3. QED
    BY <1>2, <2>1, <2>2 DEF Fits
<1> HIDE DEF packet
<1>5. PICK rest : OnTheWay(rest)
  BY DEF ChannelInv
<1>6. rest \in Seq(Seq(Nat)) /\ sent = Decoded \o rest /\ (result = "none" => Framed(Stream, rest))
  BY <1>5 DEF OnTheWay
<1>7. Append(rest, packet) \in Seq(Seq(Nat)) /\ sent' = Decoded \o Append(rest, packet)
  <2>1. /\ Append(rest, packet) = rest \o <<packet>> /\ Append(sent, packet) = sent \o <<packet>>
        /\ <<packet>> \in Seq(Seq(Nat)) /\ Append(rest, packet) \in Seq(Seq(Nat))
    BY <1>3, <1>4, <1>6, AppendPacket, AppendProperties
  <2>2. Decoded \in Seq(Seq(Nat))
    BY StreamType DEF ChannelInv
  <2>3. (Decoded \o rest) \o <<packet>> = Decoded \o (rest \o <<packet>>)
    BY <1>6, <2>1, <2>2, PacketsAssociative
  <2>4. QED
    BY <1>1, <1>6, <2>1, <2>3
<1>8. Stream' = Stream \o Frame(packet)
  <2>1. wire' = wire \o Frame(packet) /\ Frame(packet) \in Seq(Nat)
    <3>1. Encode(len) \in Seq(Nat)
      BY <1>2, EncodeType
    <3>2. (wire \o Encode(len)) \o packet = wire \o (Encode(len) \o packet)
      BY <1>3, <1>4, <3>1, BytesAssociative
    <3>3. QED
      BY <1>1, <1>4, <3>2, FrameType DEF Frame
  <2>2. Partial' = Partial /\ buf' = buf
    BY <1>1 DEF Partial, decoder
  <2>3. Partial \in Seq(Nat) /\ buf \o wire \in Seq(Nat)
    BY StreamType DEF ChannelInv
  <2>4. buf \o (wire \o Frame(packet)) = (buf \o wire) \o Frame(packet)
    BY <1>3, <2>1, BytesAssociative
  <2>5. Partial \o ((buf \o wire) \o Frame(packet)) = (Partial \o (buf \o wire)) \o Frame(packet)
    BY <2>1, <2>3, BytesAssociative
  <2>6. QED
    BY <2>1, <2>2, <2>4, <2>5 DEF Stream
<1>9. (\E r : OnTheWay(r))'
  <2>1. result = "none" => Framed(Stream \o Frame(packet), Append(rest, packet))
    <3>1. Stream \in Seq(Nat)
      BY StreamType DEF ChannelInv
    <3>2. QED
      BY <1>4, <1>6, <3>1, FramedSend
  <2>2. result' = "none" => Framed(Stream', Append(rest, packet))
    BY <1>1, <1>8, <2>1
  <2>3. Decoded' = Decoded
    BY <1>1 DEF Decoded
  <2>4. QED
    BY <1>7, <2>2, <2>3, AreOnTheWay
<1>10. \A i \in 1..Len(sent') : Fits(sent'[i])
  <2>1. Len(sent') = Len(sent) + 1 /\ sent'[Len(sent) + 1] = packet /\ \A i \in 1..Len(sent) : sent'[i] = sent[i]
    BY <1>1, <1>3, <1>4, AppendProperties
  <2>2. \A i \in 1..Len(sent) : Fits(sent[i])
    BY DEF ChannelInv
  <2>3. ASSUME NEW i \in 1..Len(sent')
        PROVE  Fits(sent'[i])
    <3>1. CASE i = Len(sent) + 1
      BY <1>4, <2>1, <3>1
    <3>2. CASE i # Len(sent) + 1
      <4>1. i \in 1..Len(sent)
        BY <1>3, <2>1, <3>2
      <4>2. QED
        BY <2>1, <2>2, <4>1
    <3>3. QED
      BY <3>1, <3>2
  <2>4. QED
    BY <2>3
<1>11. HeaderOK'
  BY <1>1 DEF HeaderOK, ChannelInv, decoder
<1>12. QED
  BY <1>1, <1>9, <1>10, <1>11 DEF ChannelInv, Fits

\* recv() moves bytes from the kernel to read().
LEMMA RecvKeepsStream ==
  ASSUME ChannelInv, NEW size \in 1..BufferSize, Recv(size)
  PROVE  Stream' = Stream
<1>1. wire \in Seq(Nat) /\ Len(wire) \in Nat /\ size \in 0..Len(wire)
  BY LenProperties, FramingAssumption DEF ChannelInv, TypeOK, DataTypeOK, Recv
<1>2. Take(wire, size) \in Seq(Nat) /\ Drop(wire, size) \in Seq(Nat)
  BY <1>1, TakeDropProperties
<1>3. Take(wire, size) \o Drop(wire, size) = wire
  BY <1>1, TakeDropConcat
<1>4. buf = <<>> /\ buf' = Take(wire, size) /\ wire' = Drop(wire, size) /\ Partial' = Partial
  BY DEF Recv, Idle, Partial, decoder
<1>5. buf \o wire = wire
  BY <1>1, <1>4, ConcatEmptySeq
<1>6. QED
  BY <1>3, <1>4, <1>5 DEF Stream

\* The connection ends, or the next packet is too big: no byte is looked at any more, and the
\* packets in the queue are lost with those behind them.
LEMMA EndKeepsPrefix ==
  ASSUME ChannelInv, TypeOK', DecoderBounded', size_read' = FALSE,
         packet_queue' = <<>>, result' # "none", buf' = <<>>, UNCHANGED <<sent, received>>
  PROVE  ChannelInv'
<1>1. PICK rest : OnTheWay(rest)
  BY DEF ChannelInv
<1>2. rest \in Seq(Seq(Nat)) /\ sent = (received \o packet_queue) \o rest
  BY <1>1 DEF OnTheWay, Decoded
<1>3. received \in Seq(Seq(Nat)) /\ packet_queue \in Seq(Seq(Nat))
  BY DEF ChannelInv, TypeOK, DataTypeOK
<1>4. sent = received \o (packet_queue \o rest) /\ packet_queue \o rest \in Seq(Seq(Nat))
  BY <1>2, <1>3, PacketsAssociative, ConcatProperties
<1>5. received \o <<>> = received
  BY <1>3, ConcatEmptySeq
<1>6. (\E r : OnTheWay(r))'
  <2>1. PICK lost : lost = packet_queue \o rest
    OBVIOUS
  <2>2. sent' = received' \o lost /\ lost \in Seq(Seq(Nat))
    BY <1>4, <2>1
  <2>3. Decoded' = received'
    BY <1>5 DEF Decoded
  <2>4. QED
    BY <2>2, <2>3, AreOnTheWay
<1>7. HeaderOK'
  BY DEF HeaderOK
<1>8. QED
  BY <1>6, <1>7 DEF ChannelInv, Fits

\* read_size() when the buffer ends in the header, or with it.
LEMMA HeaderTakesAll ==
  ASSUME ChannelInv, ~size_read, HeaderBytes = Len(buf)
  PROVE  Header \in Seq(Nat) /\ Stream = Header \o wire
<1>1. TypeOK /\ size_bytes \in Seq(Nat) /\ buf \in Seq(Nat) /\ wire \in Seq(Nat)
  BY DEF ChannelInv, TypeOK, DataTypeOK
<1>2. Header = size_bytes \o buf
  BY <1>1, SubSeqFull DEF Header, Take
<1>3. (size_bytes \o buf) \o wire = size_bytes \o (buf \o wire)
  BY <1>1, BytesAssociative
<1>4. size_bytes \o buf \in Seq(Nat)
  BY <1>1, ConcatProperties
<1>5. QED
  BY <1>2, <1>3, <1>4 DEF Stream, Partial

\* The buffer ends in the header: its bytes are those of the header read so far.
LEMMA ReadPartKeepsStream ==
  ASSUME ChannelInv, TypeOK', DecoderBounded', ReadPartOfHeader
  PROVE  ChannelInv'
<1>1. TypeOK /\ DecoderBounded /\ wire \in Seq(Nat) /\ (buf # <<>> => result = "none")
  BY DEF ChannelInv, TypeOK, DataTypeOK
<1>2. HeaderBytes = Len(buf)
  <2>1. HeaderBytes \in 0..Len(buf) /\ ~(HeaderBytes < Len(buf)) /\ Len(buf) \in Nat
    BY <1>1, HeaderProperties, LenProperties DEF ReadPartOfHeader, TypeOK, DataTypeOK
  <2>2. QED
    BY <2>1
<1>3. Stream = Header \o wire
  BY <1>2, HeaderTakesAll DEF ReadPartOfHeader
<1>4. <<>> \o wire = wire
  BY <1>1, ConcatEmptySeq
<1>5. Stream' = Header \o (<<>> \o wire)
  BY DEF ReadPartOfHeader, Stream, Partial
<1>6. HeaderOK' /\ Decoded' = Decoded
  BY DEF ReadPartOfHeader, HeaderOK, Decoded
<1>7. UNCHANGED <<sent, result>> /\ buf' = <<>>
  BY DEF ReadPartOfHeader
<1>8. QED
  BY <1>3, <1>4, <1>5, <1>6, <1>7, SameStream

\* The buffer ends with the header.
LEMMA ReadHeaderKeepsStream ==
  ASSUME ChannelInv, TypeOK', DecoderBounded', ReadHeader
  PROVE  ChannelInv'
<1>1. wire \in Seq(Nat)
  BY DEF ChannelInv, TypeOK, DataTypeOK
<1>2. Header \in Seq(Nat) /\ Stream = Header \o wire
  BY HeaderTakesAll DEF ReadHeader
<1>3. <<>> \o wire = wire /\ Header \o <<>> = Header
  BY <1>1, <1>2, ConcatEmptySeq
<1>4. Stream' = (Header \o <<>>) \o (<<>> \o wire)
  BY DEF ReadHeader, Stream, Partial
<1>5. HeaderOK' /\ Decoded' = Decoded
  BY DEF ReadHeader, HeaderDone, HeaderOK, Decoded
<1>6. UNCHANGED <<sent, result>> /\ buf' = <<>>
  BY DEF ReadHeader
<1>7. QED
  BY <1>2, <1>3, <1>4, <1>5, <1>6, SameStream

\* The buffer goes on behind the header.
LEMMA ReadHeaderAndDataDecodes ==
  ASSUME ChannelInv, TypeOK', DecoderBounded', ReadHeaderAndData
  PROVE  ChannelInv'
<1> DEFINE first == Take(buf, HeaderBytes)
           remaining == Drop(buf, HeaderBytes)
<1>1. /\ TypeOK /\ DecoderBounded /\ result = "none"
      /\ size_bytes \in Seq(Nat) /\ buf \in Seq(Nat) /\ wire \in Seq(Nat)
  BY DEF ChannelInv, TypeOK, DataTypeOK, ReadHeaderAndData
<1>2. /\ HeaderBytes \in 0..Len(buf) /\ Header \in Seq(Nat) /\ Len(Header) = HeaderLen
      /\ Decode(Header) \in Nat
  BY <1>1, HeaderProperties DEF ReadHeaderAndData, HeaderDone
<1>3. first \in Seq(Nat) /\ remaining \in Seq(Nat) /\ first \o remaining = buf
  BY <1>1, <1>2, TakeDropProperties, TakeDropConcat
<1>4. Header = size_bytes \o first
  BY DEF Header
<1>5. ReadBytes(remaining, Header, Decode(Header), <<>>, Decode(Header))
  BY DEF ReadHeaderAndData
<1> HIDE DEF first, remaining
<1>6. Stream = (Header \o <<>>) \o (remaining \o wire)
  <2>1. buf \o wire = first \o (remaining \o wire)
    <3>1. Regrouped(first, remaining, wire)
      BY <1>1, <1>3, BytesRegrouped
    <3>2. (first \o remaining) \o wire = first \o (remaining \o wire)
      BY <3>1 DEF Regrouped
    <3>3. QED
      BY <1>3, <3>2
  <2>2. remaining \o wire \in Seq(Nat)
    BY <1>1, <1>3, ConcatProperties
  <2>3. (size_bytes \o first) \o (remaining \o wire) = size_bytes \o (first \o (remaining \o wire))
    <3>1. Regrouped(size_bytes, first, remaining \o wire)
      BY <1>1, <1>3, <2>2, BytesRegrouped
    <3>2. QED
      BY <3>1 DEF Regrouped
  <2>4. Stream = size_bytes \o (buf \o wire)
    BY DEF Stream, Partial, ReadHeaderAndData
  <2>5. Header \o <<>> = Header
    BY <1>2, ConcatEmptySeq
  <2>6. QED
    BY <1>4, <2>1, <2>3, <2>4, <2>5
<1>7. <<>> \in Seq(Nat) /\ Len(<<>>) + Decode(Header) = Decode(Header)
  BY <1>2
<1>8. UNCHANGED <<sent, wire, closed, result, received>>
  BY DEF ReadHeaderAndData
<1>9. QED
  BY <1>1, <1>2, <1>3, <1>5, <1>6, <1>7, <1>8, ReadBytesDecodes

\* The buffer goes on with the packet that is being read.
LEMMA ReadDataDecodes ==
  ASSUME ChannelInv, TypeOK', DecoderBounded', ReadData
  PROVE  ChannelInv'
<1>1. /\ TypeOK /\ DecoderBounded /\ result = "none"
      /\ size_bytes \in Seq(Nat) /\ buf \in Seq(Nat) /\ wire \in Seq(Nat)
      /\ current_buffer \in Seq(Nat) /\ expected_size \in Nat
  BY DEF ChannelInv, TypeOK, DataTypeOK, ReadData
<1>2. /\ Len(size_bytes) = HeaderLen /\ buffer_size = Decode(size_bytes)
      /\ Len(current_buffer) + expected_size = Decode(size_bytes)
  BY <1>1 DEF ChannelInv, HeaderOK, DecoderBounded, ReadData
<1>3. Stream = (size_bytes \o current_buffer) \o (buf \o wire)
  BY DEF Stream, Partial, ReadData
<1>4. ReadBytes(buf, size_bytes, Decode(size_bytes), current_buffer, expected_size)
  BY <1>2 DEF ReadData
<1>5. UNCHANGED <<sent, wire, closed, result, received>>
  BY DEF ReadData
<1>6. QED
  BY <1>1, <1>2, <1>3, <1>4, <1>5, ReadBytesDecodes

\* write_packet() takes the first packet that has come out.
LEMMA WritePacketDelivers ==
  ASSUME ChannelInv, TypeOK', DecoderBounded', WritePacket
  PROVE  ChannelInv'
<1>1. received \in Seq(Seq(Nat)) /\ packet_queue \in Seq(Seq(Nat)) /\ packet_queue # <<>>
  BY DEF ChannelInv, TypeOK, DataTypeOK, WritePacket
<1>2. /\ packet_queue[1] \in Seq(Nat) /\ Tail(packet_queue) \in Seq(Seq(Nat))
      /\ packet_queue = <<packet_queue[1]>> \o Tail(packet_queue)
  BY <1>1, FirstAndOthers
<1>3. received' = received \o <<packet_queue[1]>> /\ <<packet_queue[1]>> \in Seq(Seq(Nat))
  <2>1. received' = Append(received, packet_queue[1])
    BY <1>1, HeadTailProperties DEF WritePacket
  <2>2. QED
    BY <1>1, <1>2, <2>1, AppendPacket
<1>4. Decoded' = Decoded
  <2>1. (received \o <<packet_queue[1]>>) \o Tail(packet_queue)
          = received \o (<<packet_queue[1]>> \o Tail(packet_queue))
    BY <1>1, <1>2, <1>3, PacketsAssociative
  <2>2. packet_queue' = Tail(packet_queue)
    BY DEF WritePacket
  <2>3. QED
    BY <1>2, <1>3, <2>1, <2>2 DEF Decoded
<1>5. Stream' = Stream /\ HeaderOK' /\ buf' = <<>> /\ UNCHANGED <<sent, result>>
  BY DEF WritePacket, Idle, Stream, Partial, HeaderOK, decoder, ChannelInv
<1>6. QED
  BY <1>4, <1>5, SameStream

\* The invariant holds after every step.
LEMMA ChannelStep == ChannelInv /\ [Next]_vars => ChannelInv'
<1> SUFFICES ASSUME ChannelInv, [Next]_vars
             PROVE  ChannelInv'
  OBVIOUS
<1>0. TypeOK' /\ DecoderBounded'
  BY DecoderStep DEF ChannelInv
<1>1. CASE CloseConnection \/ (\E len \in Lengths : SendDies(len)) \/ UNCHANGED vars
  <2>1. UNCHANGED <<sent, wire, buf, decoder, packet_queue, result, received>>
    BY <1>1 DEF CloseConnection, SendDies, vars
  <2>2. Stream' = Stream /\ Decoded' = Decoded
    BY <2>1 DEF Stream, Partial, Decoded, decoder
  <2>3. HeaderOK' /\ (result # "none" => buf' = <<>>)
    BY <2>1 DEF HeaderOK, ChannelInv, decoder
  <2>4. QED
    BY <1>0, <2>1, <2>2, <2>3, SameStream
<1>2. ASSUME NEW len \in Lengths, Send(len)
      PROVE  ChannelInv'
  BY <1>0, <1>2, SendSends
<1>3. ASSUME NEW size \in 1..BufferSize, Recv(size)
      PROVE  ChannelInv'
  <2>1. Stream' = Stream
    BY <1>3, RecvKeepsStream
  <2>2. Decoded' = Decoded /\ HeaderOK' /\ UNCHANGED <<sent, result>> /\ result = "none"
    BY <1>3 DEF Recv, Idle, Decoded, HeaderOK, ChannelInv, decoder
  <2>3. QED
    BY <1>0, <2>1, <2>2, SameStream
<1>4. CASE RecvClosed
  BY <1>0, <1>4, EndKeepsPrefix DEF RecvClosed, Reset, Idle
<1>5. CASE ReadTooBig
  BY <1>0, <1>5, EndKeepsPrefix DEF ReadTooBig
<1>6. CASE RecvFails
  <2>1. PICK rest : OnTheWay(rest)
    BY DEF ChannelInv
  <2>2. /\ UNCHANGED <<sent, wire, buf, decoder, packet_queue, received>>
        /\ buf = <<>> /\ result' # "none"
    BY <1>6 DEF RecvFails, Idle
  <2>3. Decoded' = Decoded /\ HeaderOK'
    BY <2>2 DEF Decoded, HeaderOK, ChannelInv, decoder
  <2>4. rest \in Seq(Seq(Nat)) /\ sent' = Decoded' \o rest
    BY <2>1, <2>2, <2>3 DEF OnTheWay
  <2>5. \A i \in 1..Len(sent') : Fits(sent'[i])
    BY <2>2 DEF ChannelInv
  <2>6. \E r : OnTheWay(r)'
    BY <2>2, <2>4 DEF OnTheWay
  <2>7. QED
    BY <1>0, <2>2, <2>3, <2>5, <2>6 DEF ChannelInv
<1>7. QED
  BY <1>0, <1>1, <1>2, <1>3, <1>4, <1>5, <1>6, ReadPartKeepsStream, ReadHeaderKeepsStream,
     ReadHeaderAndDataDecodes, ReadDataDecodes, WritePacketDelivers DEF Next, Receive

\* What the decoder has not let out is the frames of the packets on their way.
LEMMA ChannelInvariant == Spec => []ChannelInv
BY ChannelInit, ChannelStep, PTL DEF Spec

-----------------------------------------------------------------------------
(***************************************************************************)
(* The theorems.                                                           *)
(***************************************************************************)
\* The first packets of a sequence.
LEMMA TakeOfConcat ==
  ASSUME NEW s \in Seq(Seq(Nat)), NEW t \in Seq(Seq(Nat))
  PROVE  /\ Len(s) \in Nat /\ Len(t) \in Nat /\ Len(s \o t) = Len(s) + Len(t)
         /\ \A i \in 1..(Len(s) + Len(t)) :
              (s \o t)[i] = IF i <= Len(s) THEN s[i] ELSE t[i - Len(s)]
         /\ Take(s \o t, Len(s)) = s
<1>1. Len(s) \in Nat /\ Len(t) \in Nat
  BY LenProperties
<1>2. /\ s \o t \in Seq(Seq(Nat)) /\ Len(s \o t) = Len(s) + Len(t)
      /\ \A i \in 1..(Len(s) + Len(t)) :
           (s \o t)[i] = IF i <= Len(s) THEN s[i] ELSE t[i - Len(s)]
  BY ConcatProperties
<1>3. Take(s \o t, Len(s)) = s
  <2> DEFINE u == s \o t
  <2>1. \A i \in 1..Len(s) : u[i] = s[i]
    BY <1>1, <1>2
  <2>2. \A i \in 1..Len(s) : u[i] \in Seq(Nat)
    BY <2>1, ElementOfSeq
  <2>3. u \in Seq(Seq(Nat)) /\ Len(u) = Len(s) + Len(t)
    BY <1>2
  <2> HIDE DEF u
  <2>4. /\ Take(u, Len(s)) \in Seq(Seq(Nat)) /\ Len(Take(u, Len(s))) = Len(s)
        /\ \A i \in 1..Len(s) : Take(u, Len(s))[i] = u[i]
    <3>1. 1 \in 1..(Len(u) + 1) /\ Len(s) \in (1 - 1)..Len(u)
      BY <1>1, <2>3
    <3>2. /\ SubSeq(u, 1, Len(s)) \in Seq(Seq(Nat))
          /\ Len(SubSeq(u, 1, Len(s))) = Len(s)
          /\ \A i \in 1..Len(s) : SubSeq(u, 1, Len(s))[i] = u[i]
      BY <1>1, <2>2, <2>3, <3>1, SubSeqProperties
    <3>3. QED
      BY <3>2 DEF Take
  <2>5. Take(u, Len(s)) = s
    BY <2>1, <2>4, SeqEqual
  <2>6. QED
    BY <2>5 DEF u
<1>4. QED
  BY <1>1, <1>2, <1>3

\* Wherever recv() cuts the stream, what has come out are the first packets that were sent.
THEOREM DecodedInOrder == Spec => []DecodedIsPrefix
<1>1. ChannelInv => DecodedIsPrefix
  <2> SUFFICES ASSUME ChannelInv
               PROVE  DecodedIsPrefix
    OBVIOUS
  <2>1. PICK rest : rest \in Seq(Seq(Nat)) /\ sent = Decoded \o rest
    BY DEF ChannelInv, OnTheWay
  <2>2. Decoded \in Seq(Seq(Nat))
    BY StreamType DEF ChannelInv
  <2>3. Len(Decoded) <= Len(sent) /\ Decoded = Take(sent, Len(Decoded))
    BY <2>1, <2>2, TakeOfConcat
  <2>4. QED
    BY <2>3 DEF DecodedIsPrefix, Decoded
<1>2. QED
  BY <1>1, ChannelInvariant, PTL

\* No frame is empty.
LEMMA FramedNothing ==
  ASSUME NEW packets \in Seq(Seq(Nat)), Framed(<<>>, packets)
  PROVE  packets = <<>>
<1> SUFFICES ASSUME packets # <<>>
             PROVE  FALSE
  OBVIOUS
<1>1. <<>> \in Seq(Nat)
  OBVIOUS
<1>2. PICK r \in Seq(Nat) : <<>> = Frame(packets[1]) \o r
  BY <1>1, FramedFirst
<1>3. /\ Frame(packets[1]) \in Seq(Nat) /\ Len(packets[1]) \in Nat
      /\ Len(Frame(packets[1])) = HeaderLen + Len(packets[1])
  BY FirstAndOthers, FrameType, LenProperties
<1>4. Len(Frame(packets[1]) \o r) = Len(Frame(packets[1])) + Len(r) /\ Len(r) \in Nat
  BY <1>3, ConcatProperties, LenProperties
<1>5. Len(<<>>) = 0
  OBVIOUS
<1>6. QED
  <2>1. Len(Frame(packets[1]) \o r) = 0
    BY <1>2, <1>5, Zenon
  <2>2. QED
    BY <1>3, <1>4, <2>1 DEF HeaderLen

\* When every byte was read, no packet is on its way but an empty one at the end.
LEMMA NothingLeft ==
  ASSUME ChannelInv, wire = <<>>, Idle, NEW rest, OnTheWay(rest), rest # <<>>
  PROVE  rest[1] = <<>> /\ Len(rest) = 1
<1> DEFINE p == rest[1]
           e == Encode(Len(p))
<1>1. rest \in Seq(Seq(Nat)) /\ Framed(Stream, rest) /\ Fits(p) /\ p \in Seq(Nat)
  <2>1. rest \in Seq(Seq(Nat)) /\ Framed(Stream, rest)
    BY DEF OnTheWay, Idle
  <2>2. 1 \in 1..Len(rest)
    BY <2>1, EmptySeq
  <2>3. QED
    BY <2>1, <2>2, RestFits, ElementOfSeq
<1>2. Stream = Partial /\ Partial \in Seq(Nat)
  <2>1. Partial \in Seq(Nat)
    BY StreamType DEF ChannelInv
  <2>2. Stream = Partial \o (<<>> \o <<>>)
    BY DEF Stream, Idle
  <2>3. Partial \o (<<>> \o <<>>) = Partial
    BY <2>1, ConcatEmptySeq
  <2>4. QED
    BY <2>1, <2>2, <2>3
<1>3. PICK r \in Seq(Nat) : Partial = Frame(p) \o r /\ Framed(r, Tail(rest))
  BY <1>1, <1>2, FramedFirst
<1>4. /\ e \in Seq(Nat) /\ Len(e) = HeaderLen /\ Frame(p) = e \o p /\ p \o r \in Seq(Nat)
      /\ Len(p \o r) = Len(p) + Len(r) /\ Len(p) \in Nat /\ Len(r) \in Nat
      /\ Len(e \o (p \o r)) = HeaderLen + (Len(p) + Len(r))
  <2>1. e \in Seq(Nat) /\ Len(e) = HeaderLen /\ Frame(p) = e \o p
    BY <1>1, FrameType DEF Frame
  <2>2. p \o r \in Seq(Nat) /\ Len(p \o r) = Len(p) + Len(r)
    BY <1>1, ConcatProperties
  <2>3. Len(e \o (p \o r)) = Len(e) + Len(p \o r)
    BY <2>1, <2>2, ConcatProperties
  <2>4. QED
    BY <1>1, <2>1, <2>2, <2>3, LenProperties
<1>5. Decode(e) = Len(p)
  BY <1>1, DecodeEncode DEF Fits
<1> HIDE DEF p, e
<1>6. Partial = e \o (p \o r)
  <2>1. ASSUME NEW u \in Seq(Nat)
        PROVE  (e \o p) \o u = e \o (p \o u)
    BY <1>1, <1>4, BytesAssociative
  <2>2. QED
    BY <1>3, <1>4, <2>1
<1>7. size_read
  <2> SUFFICES ASSUME ~size_read
               PROVE  FALSE
    OBVIOUS
  <2>1. Partial = size_bytes /\ Len(size_bytes) < HeaderLen /\ Len(size_bytes) \in Nat
    BY LenProperties DEF Partial, ChannelInv, DecoderBounded, TypeOK, DataTypeOK
  <2>2. QED
    BY <1>4, <1>6, <2>1 DEF HeaderLen
<1>8. /\ size_bytes \in Seq(Nat) /\ current_buffer \in Seq(Nat) /\ Len(size_bytes) = HeaderLen
      /\ Partial = size_bytes \o current_buffer
      /\ buffer_size = Decode(size_bytes) /\ (expected_size = 0 => buffer_size = 0)
      /\ Len(current_buffer) + expected_size = buffer_size /\ expected_size \in Nat
  BY <1>7 DEF ChannelInv, TypeOK, DataTypeOK, HeaderOK, DecoderBounded, Partial
<1>9. size_bytes = e /\ current_buffer = p \o r
  BY <1>4, <1>6, <1>8, SameCut
<1>10. Len(p) = 0 /\ Len(r) = 0
  <2>1. (Len(p) + Len(r)) + expected_size = Len(p)
    BY <1>4, <1>5, <1>8, <1>9
  <2>2. Len(r) = 0 /\ expected_size = 0
    BY <1>4, <1>8, <2>1
  <2>3. QED
    BY <1>5, <1>8, <1>9, <2>2
<1>11. p = <<>> /\ r = <<>>
  BY <1>1, <1>10, EmptySeq
<1>12. Tail(rest) = <<>>
  BY <1>1, <1>3, <1>11, FirstAndOthers, FramedNothing
<1>13. Len(rest) = 1
  <2>1. Len(Tail(rest)) = 0
    <3>1. Len(<<>>) = 0
      OBVIOUS
    <3>2. QED
      BY <1>12, <3>1, Zenon
  <2>2. Len(rest) \in Nat /\ Len(Tail(rest)) = Len(rest) - 1
    BY <1>1, FirstAndOthers, LenProperties
  <2>3. QED
    BY <2>1, <2>2
<1>14. QED
  BY <1>11, <1>13 DEF p

\* When recv() has read every byte, every packet has come out, unless the last one is empty: no
\* packet stays in the decoder until the next one comes.
THEOREM DecodedCompletely == Spec => []AllDecoded
<1>1. ChannelInv => AllDecoded
  <2> SUFFICES ASSUME ChannelInv, wire = <<>>, Idle, sent # <<>>, sent[Len(sent)] # <<>>
               PROVE  Decoded = sent
    BY DEF AllDecoded, Decoded
  <2>1. PICK rest : OnTheWay(rest)
    BY DEF ChannelInv
  <2>2. rest \in Seq(Seq(Nat)) /\ sent = Decoded \o rest /\ Decoded \in Seq(Seq(Nat))
    BY <2>1, StreamType DEF OnTheWay, ChannelInv
  <2>3. rest = <<>>
    <3> SUFFICES ASSUME rest # <<>>
                 PROVE  FALSE
      OBVIOUS
    <3>1. rest[1] = <<>> /\ Len(rest) = 1
      BY <2>1, NothingLeft
    <3>2. sent[Len(sent)] = rest[1]
      <4>1. /\ Len(Decoded) \in Nat /\ Len(sent) = Len(Decoded) + 1
            /\ \A i \in 1..(Len(Decoded) + 1) :
                 sent[i] = IF i <= Len(Decoded) THEN Decoded[i] ELSE rest[i - Len(Decoded)]
        BY <2>2, <3>1, TakeOfConcat
      <4>2. /\ Len(Decoded) + 1 \in 1..(Len(Decoded) + 1) /\ ~(Len(Decoded) + 1 <= Len(Decoded))
            /\ (Len(Decoded) + 1) - Len(Decoded) = 1
        BY <4>1
      <4>3. QED
        BY <4>1, <4>2
    <3>3. QED
      BY <3>1, <3>2
  <2>4. QED
    BY <2>2, <2>3, ConcatEmptySeq
<1>2. QED
  BY <1>1, ChannelInvariant, PTL

\* send(), recv() and write_packet() implement the channel of packets: every step is that of a
\* packet given to the channel, of the next one taken from it, or none.
THEOREM ImplementsChannel == Spec => ChannelSpec
<1>1. Init => Channel!Init
  BY DEF Init, Channel!Init
<1>2. ChannelInv /\ [Next]_vars => [Channel!Next]_<<sent, received>>
  <2> SUFFICES ASSUME ChannelInv, [Next]_vars
               PROVE  [Channel!Next]_<<sent, received>>
    OBVIOUS
  <2>1. ASSUME NEW len \in Lengths, Send(len)
        PROVE  Channel!Next
    <3> DEFINE packet == Payload(Len(sent) + 1, len)
    <3>1. Len(sent) + 1 \in 1..MaxPackets
      <4>1. Len(sent) \in Nat /\ Len(sent) < MaxPackets /\ MaxPackets \in Nat
        BY <2>1, LenProperties, FramingAssumption DEF Send, ChannelInv, TypeOK, DataTypeOK
      <4>2. QED
        BY <4>1
    <3>2. packet \in Packets
      BY <3>1 DEF Packets
    <3>3. sent' = Append(sent, packet) /\ UNCHANGED received
      BY <2>1 DEF Send
    <3> HIDE DEF packet
    <3>4. QED
      BY <3>2, <3>3 DEF Channel!Next, Channel!Put
  <2>2. CASE WritePacket
    <3>1. /\ received \in Seq(Seq(Nat)) /\ packet_queue \in Seq(Seq(Nat))
          /\ packet_queue # <<>>
      BY <2>2 DEF ChannelInv, TypeOK, DataTypeOK, WritePacket
    <3>2. PICK rest : rest \in Seq(Seq(Nat)) /\ sent = (received \o packet_queue) \o rest
      BY DEF ChannelInv, OnTheWay, Decoded
    <3>3. received \o packet_queue \in Seq(Seq(Nat))
      BY <3>1, ConcatProperties
    <3>4. /\ Len(received) \in Nat /\ Len(packet_queue) \in Nat /\ Len(packet_queue) >= 1
          /\ Len(rest) \in Nat
      BY <3>1, <3>2, EmptySeq, LenProperties
    <3> DEFINE i == Len(received) + 1
    <3>5. Len(received \o packet_queue) = Len(received) + Len(packet_queue)
          /\ (received \o packet_queue)[i] = packet_queue[1]
      <4>1. /\ Len(received \o packet_queue) = Len(received) + Len(packet_queue)
            /\ \A k \in 1..(Len(received) + Len(packet_queue)) :
                 (received \o packet_queue)[k] =
                   IF k <= Len(received) THEN received[k] ELSE packet_queue[k - Len(received)]
        BY <3>1, TakeOfConcat
      <4>2. i \in 1..(Len(received) + Len(packet_queue)) /\ ~(i <= Len(received))
            /\ i - Len(received) = 1
        BY <3>4
      <4>3. QED
        BY <4>1, <4>2
    <3>6. Len(sent) = Len(received \o packet_queue) + Len(rest)
          /\ sent[i] = (received \o packet_queue)[i]
      <4> DEFINE u == received \o packet_queue
      <4>1. u \in Seq(Seq(Nat)) /\ Len(u) = Len(received) + Len(packet_queue) /\ sent = u \o rest
        BY <3>2, <3>3, <3>5
      <4> HIDE DEF u
      <4>2. /\ Len(u \o rest) = Len(u) + Len(rest)
            /\ \A k \in 1..(Len(u) + Len(rest)) :
                 (u \o rest)[k] = IF k <= Len(u) THEN u[k] ELSE rest[k - Len(u)]
        BY <3>2, <4>1, TakeOfConcat
      <4>3. i \in 1..(Len(u) + Len(rest)) /\ i <= Len(u)
        BY <3>4, <4>1
      <4>4. Len(sent) = Len(u) + Len(rest) /\ sent[i] = u[i]
        BY <4>1, <4>2, <4>3
      <4>5. QED
        BY <4>4 DEF u
    <3>7. Len(received) < Len(sent)
      BY <3>4, <3>5, <3>6
    <3>8. received' = Append(received, sent[Len(received) + 1]) /\ UNCHANGED sent
      BY <2>2, <3>1, <3>5, <3>6, HeadTailProperties DEF WritePacket
    <3>9. QED
      BY <3>7, <3>8 DEF Channel!Next, Channel!Get
  <2>3. CASE \/ CloseConnection \/ (\E len \in Lengths : SendDies(len)) \/ UNCHANGED vars
             \/ (\E size \in 1..BufferSize : Recv(size))
             \/ RecvFails \/ RecvClosed \/ ReadPartOfHeader \/ ReadHeader \/ ReadTooBig
    BY <2>3 DEF CloseConnection, SendDies, vars, Recv, RecvFails, RecvClosed, ReadPartOfHeader,
                ReadHeader, ReadTooBig
  <2>4. CASE ReadHeaderAndData \/ ReadData
    BY <2>4 DEF ReadHeaderAndData, ReadData
  <2>5. QED
    BY <2>1, <2>2, <2>3, <2>4 DEF Next, Receive
<1>3. QED
  BY <1>1, <1>2, ChannelInvariant, PTL DEF Spec, ChannelSpec, Channel!Spec

=============================================================================
