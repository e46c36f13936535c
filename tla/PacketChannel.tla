--------------------------- MODULE PacketChannel ---------------------------
(***************************************************************************)
(* What the framing protocol promises (readme.txt, "Protocolul de          *)
(* incadrare"): the packets given to send() on one side are returned by    *)
(* write_packet() on the other, whole, in order, none twice and none       *)
(* skipped, until the connection ends.                                     *)
(***************************************************************************)
EXTENDS Integers, Sequences

CONSTANT Packets

VARIABLES
  sent,      \* every packet given to send()
  received   \* every packet returned by write_packet()

Init == sent = <<>> /\ received = <<>>

Put(packet) ==
  /\ sent' = Append(sent, packet)
  /\ UNCHANGED received

Get ==
  /\ Len(received) < Len(sent)
  /\ received' = Append(received, sent[Len(received) + 1])
  /\ UNCHANGED sent

Next == Get \/ \E packet \in Packets : Put(packet)

Spec == Init /\ [][Next]_<<sent, received>>

=============================================================================
