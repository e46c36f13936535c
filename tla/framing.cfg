\* Bytes of two values, so that the header of a packet has digits of both; a packet of 6 bytes is
\* too big for the receiver and one of 7 for send(); recv() takes at most 9 bytes, more than one packet.
SPECIFICATION FairSpec
CONSTANTS
  Base = 2
  MaxPacket = 5
  BufferSize = 9
  SendLimit = 10
  Lengths = {0, 1, 3, 6, 7}
  MaxPackets = 3
INVARIANTS
  TypeOK
  DecoderBounded
  DecodedIsPrefix
  AllDecoded
PROPERTIES
  ChannelSpec
  Delivered
CHECK_DEADLOCK FALSE
