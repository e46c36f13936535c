------------------------------ MODULE Framing ------------------------------
(***************************************************************************)
(* The class BufferedTcpSocket (BufferedTcpSocket.cpp): packets, each      *)
(* behind its length in HeaderLen bytes, over a byte stream that recv()    *)
(* cuts anywhere.  One direction of a connection: the sender's send(), the *)
(* stream, the receiver's recv() and write_packet().                       *)
(*                                                                         *)
(* read() is a loop over the bytes that recv() got; an action is one       *)
(* iteration, and the bytes still to be read are in buf.                   *)
(***************************************************************************)
EXTENDS Integers, Sequences

CONSTANTS
  Base,        \* values of a byte (256)
  MaxPacket,   \* MAX_PACKET_SIZE (65536)
  BufferSize,  \* TCP_BUFFER_SIZE, as recv() uses it (4096)
  SendLimit,   \* TCP_BUFFER_SIZE, as send() uses it: below MaxPacket in the code, above it in the
               \* run, so that the receiver's own limit is met
  Lengths,     \* bound: the lengths of the packets that are sent
  MaxPackets   \* bound: packets sent

HeaderLen == 4   \* sizeof(expected_size)

ASSUME FramingAssumption ==
  /\ Base \in Nat /\ Base > 1 /\ MaxPacket \in Nat /\ BufferSize \in Nat \ {0}
  /\ SendLimit \in Nat
  /\ Lengths \subseteq 0..(Base * Base * Base * Base - 1) /\ MaxPackets \in Nat

\* htonl() and ntohl(): the length in network byte order.
Encode(n) == <<(n \div (Base * Base * Base)) % Base, (n \div (Base * Base)) % Base,
               (n \div Base) % Base, n % Base>>
Decode(bytes) == ((bytes[1] * Base + bytes[2]) * Base + bytes[3]) * Base + bytes[4]

\* A byte of a packet is told from every other by its value, which is no length's digit.
Payload(i, len) == [j \in 1..len |-> Base + 100 * i + j]
Packets == {Payload(i, len) : i \in 1..MaxPackets, len \in Lengths}

VARIABLES
  sent,             \* history: the packets sent
  wire,             \* the stream: bytes not yet taken by recv()
  closed,           \* has the sender closed the connection?
  buf,              \* read(): what is left of the bytes that recv() took
  size_bytes,       \* the header's bytes copied into expected_size; read_size_index is their number
  expected_size,    \* the bytes of the packet still expected, once the header is complete
  buffer_size,      \* the length of the packet being read
  current_buffer,   \* the bytes of it that were copied
  size_read,
  packet_queue,
  result,           \* how recv() ended when it did not go on: "CONNECTION_CLOSED", "PACKET_TOO_BIG",
                    \* or "FAILED" when ::recv() says -1
  received          \* history: the packets write_packet() has returned

decoder == <<size_bytes, expected_size, buffer_size, current_buffer, size_read>>
vars == <<sent, wire, closed, buf, decoder, packet_queue, result, received>>

Init ==
  /\ sent = <<>> /\ wire = <<>> /\ closed = FALSE
  /\ buf = <<>> /\ size_bytes = <<>> /\ expected_size = 0 /\ buffer_size = 0 /\ current_buffer = <<>>
  /\ size_read = FALSE
  /\ packet_queue = <<>> /\ result = "none" /\ received = <<>>

Smaller(m, n) == IF m < n THEN m ELSE n
Take(s, n) == SubSeq(s, 1, n)
Drop(s, n) == SubSeq(s, n + 1, Len(s))

-----------------------------------------------------------------------------
\* send(): the header and the packet in one call of ::send() on a blocking socket.
Send(len) ==
  /\ ~closed /\ Len(sent) < MaxPackets
  /\ len + HeaderLen <= SendLimit
  /\ LET packet == Payload(Len(sent) + 1, len)
     IN  /\ sent' = Append(sent, packet)
         /\ wire' = wire \o Encode(len) \o packet
  /\ UNCHANGED <<closed, buf, decoder, packet_queue, result, received>>

\* DIE(): the sender's process ends, and its connection with it.
SendDies(len) ==
  /\ ~closed /\ Len(sent) < MaxPackets
  /\ len + HeaderLen > SendLimit
  /\ closed' = TRUE
  /\ UNCHANGED <<sent, wire, buf, decoder, packet_queue, result, received>>

CloseConnection ==
  /\ ~closed
  /\ closed' = TRUE
  /\ UNCHANGED <<sent, wire, buf, decoder, packet_queue, result, received>>

\* The user calls the receiver's methods between calls of recv(), until one fails.
Idle == buf = <<>> /\ result = "none"

\* ::recv() returns any number of the bytes that wait.
Recv(size) ==
  /\ Idle
  /\ size <= Len(wire)
  /\ buf' = Take(wire, size)
  /\ wire' = Drop(wire, size)
  /\ UNCHANGED <<sent, closed, decoder, packet_queue, result, received>>

\* ::recv() says -1: a reset, which can come before bytes that were sent. Nothing is changed.
RecvFails ==
  /\ Idle /\ closed
  /\ result' = "FAILED"
  /\ UNCHANGED <<sent, wire, closed, buf, decoder, packet_queue, received>>

Reset ==
  /\ size_bytes' = <<>> /\ size_read' = FALSE
  /\ current_buffer' = IF size_read THEN <<>> ELSE current_buffer
  /\ packet_queue' = <<>>
  /\ UNCHANGED <<expected_size, buffer_size>>

RecvClosed ==
  /\ Idle /\ wire = <<>> /\ closed
  /\ Reset
  /\ result' = "CONNECTION_CLOSED"
  /\ UNCHANGED <<sent, wire, closed, buf, received>>

-----------------------------------------------------------------------------
(***************************************************************************)
(* One iteration of read(): read_current_packet(), with read_size().       *)
(***************************************************************************)

\* Mutated forms of definitions below: a second packet's header is read after what is left of the
\* first one's; the bytes copied are not limited to the packet; a packet ends only when a further
\* byte is there to be read; no length is too big.
NextHeaderKept   == size_bytes
CopiedUnlimited(bytes, left) == Len(bytes)
CompleteLate(left, rest) == left = 0 /\ rest # <<>>
TooBigNever(size) == FALSE

\* to_copy of read_current_packet(), and the test that the packet is complete.
Copied(bytes, left) == Smaller(Len(bytes), left)
Complete(left, rest) == left = 0
NextHeader == <<>>
TooBig(size) == size > MaxPacket

\* read_size(): the bytes of the header that are there.
HeaderBytes == Smaller(Len(buf), HeaderLen - Len(size_bytes))
Header      == size_bytes \o Take(buf, HeaderBytes)
HeaderDone  == Len(Header) = HeaderLen

\* The end of read_current_packet(): bytes are copied behind those of the packet read before.
ReadBytes(bytes, header, size, before, left) ==
  LET n    == Copied(bytes, left)
      rest == Drop(bytes, n)
  IN  /\ buf' = rest
      /\ buffer_size' = size
      /\ expected_size' = left - n
      /\ current_buffer' = before \o Take(bytes, n)
      /\ IF Complete(left - n, rest)
         THEN /\ packet_queue' = Append(packet_queue, current_buffer')
              /\ size_read' = FALSE /\ size_bytes' = NextHeader
         ELSE /\ packet_queue' = packet_queue
              /\ size_read' = TRUE /\ size_bytes' = header

\* The buffer ends inside the header.
ReadPartOfHeader ==
  /\ buf # <<>> /\ ~size_read /\ ~HeaderDone
  /\ buf' = <<>>
  /\ size_bytes' = Header
  /\ UNCHANGED <<sent, wire, closed, expected_size, buffer_size, current_buffer, size_read,
                 packet_queue, result, received>>

\* The header ends the buffer: the packet is left for later, even an empty one.
ReadHeader ==
  /\ buf # <<>> /\ ~size_read /\ HeaderDone
  /\ HeaderBytes = Len(buf) /\ ~TooBig(Decode(Header))
  /\ buf' = <<>>
  /\ size_bytes' = Header /\ size_read' = TRUE
  /\ expected_size' = Decode(Header) /\ buffer_size' = Decode(Header) /\ current_buffer' = <<>>
  /\ UNCHANGED <<sent, wire, closed, packet_queue, result, received>>

ReadHeaderAndData ==
  /\ buf # <<>> /\ ~size_read
  /\ HeaderBytes < Len(buf) /\ ~TooBig(Decode(Header))
  /\ ReadBytes(Drop(buf, HeaderBytes), Header, Decode(Header), <<>>, Decode(Header))
  /\ UNCHANGED <<sent, wire, closed, result, received>>

ReadData ==
  /\ buf # <<>> /\ size_read
  /\ ReadBytes(buf, size_bytes, buffer_size, current_buffer, expected_size)
  /\ UNCHANGED <<sent, wire, closed, result, received>>

\* PACKET_TOO_BIG: read() resets the decoder and leaves the rest of the buffer. size_read was set,
\* so that reset() also forgets current_buffer.
ReadTooBig ==
  /\ buf # <<>> /\ ~size_read
  /\ HeaderDone /\ TooBig(Decode(Header))
  /\ buf' = <<>>
  /\ expected_size' = Decode(Header) /\ buffer_size' = Decode(Header)
  /\ size_bytes' = <<>> /\ size_read' = FALSE /\ current_buffer' = <<>>
  /\ packet_queue' = <<>>
  /\ result' = "PACKET_TOO_BIG"
  /\ UNCHANGED <<sent, wire, closed, received>>

-----------------------------------------------------------------------------
\* packet_ready() and write_packet().
WritePacket ==
  /\ Idle /\ packet_queue # <<>>
  /\ received' = Append(received, Head(packet_queue))
  /\ packet_queue' = Tail(packet_queue)
  /\ UNCHANGED <<sent, wire, closed, buf, decoder, result>>

Receive ==
  \/ \E size \in 1..BufferSize : Recv(size)
  \/ RecvFails \/ RecvClosed
  \/ ReadPartOfHeader \/ ReadHeader \/ ReadHeaderAndData \/ ReadData \/ ReadTooBig \/ WritePacket

Next == CloseConnection \/ (\E len \in Lengths : Send(len) \/ SendDies(len)) \/ Receive

Spec == Init /\ [][Next]_vars

\* The user calls recv() while select() says there is something, and takes the packets.
FairSpec == Spec /\ WF_vars(Receive)

-----------------------------------------------------------------------------
(***************************************************************************)
(* Properties.                                                             *)
(***************************************************************************)
\* The values of the variables.
DataTypeOK ==
  /\ sent \in Seq(Seq(Nat)) /\ wire \in Seq(Nat) /\ buf \in Seq(Nat)
  /\ size_bytes \in Seq(Nat) /\ expected_size \in Nat /\ buffer_size \in Nat
  /\ current_buffer \in Seq(Nat)
  /\ packet_queue \in Seq(Seq(Nat)) /\ received \in Seq(Seq(Nat))
  /\ result \in {"none", "CONNECTION_CLOSED", "PACKET_TOO_BIG", "FAILED"}

TypeOK == DataTypeOK /\ closed \in BOOLEAN /\ size_read \in BOOLEAN

\* While a packet is being read, the bytes copied and those expected make up its length, which is
\* what new char[] was given: memcpy() writes at buffer_size - expected_size, inside the buffer.
\* While a header is being read a byte of it is missing, so that read_size() always gets on.
DecoderBounded ==
  /\ size_read  => Len(current_buffer) + expected_size = buffer_size /\ buffer_size <= MaxPacket
  /\ ~size_read => Len(size_bytes) < HeaderLen

\* Wherever recv() cuts the stream, the packets cut out of it are those that were sent, in order.
DecodedIsPrefix ==
  LET decoded == received \o packet_queue
  IN  Len(decoded) <= Len(sent) /\ decoded = Take(sent, Len(decoded))

\* When all bytes were read, every packet is there: packet_ready() is true of the next packet as
\* soon as it has been completely read (BufferedTcpSocket.h:32). The last packet must not be empty:
\* an empty one is there only when a further byte comes.
AllDecoded ==
  wire = <<>> /\ Idle /\ sent # <<>> /\ sent[Len(sent)] # <<>> =>
    received \o packet_queue = sent

\* The detailed protocol implements the channel of packets.
Channel == INSTANCE PacketChannel
ChannelSpec == Channel!Spec

\* Every packet is returned in the end, unless the connection ends before or the packet, or one
\* before it, is empty or too big.
Delivered ==
  \A i \in 1..MaxPackets :
    Len(sent) >= i /\ (\A j \in 1..i : Len(sent[j]) \in 1..MaxPacket)
      ~> Len(received) >= i \/ result # "none"

\* BufferedTcpSocket.h:32: packet_ready() "returns true if the next packet has been completely read".
\* An empty packet has been read with its header, and is not there until a further byte comes.
ReadyWhenRead == wire = <<>> /\ Idle => received \o packet_queue = sent

=============================================================================
