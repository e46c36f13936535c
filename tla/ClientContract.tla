--------------------------- MODULE ClientContract ---------------------------
(***************************************************************************)
(* What a server may count on from one run of the subscriber: it           *)
(* authenticates first and once, and gives commands only after a reply     *)
(* TYPE_AUTH (readme.txt:42-50).  This is how module Server models its     *)
(* environment; module Subscriber, the client's code, implements it.       *)
(***************************************************************************)
EXTENDS Sequences

VARIABLES
  status,  \* "none", "open", or "closed" by either end
  out,     \* what the subscriber sent while the connection was open
  heard    \* what was sent to it; "END" when the server closes its end

vars == <<status, out, heard>>

Init == status = "none" /\ out = <<>> /\ heard = <<>>

Connect == status = "none" /\ status' = "open" /\ UNCHANGED <<out, heard>>

Authenticate ==
  /\ status = "open" /\ out = <<>>
  /\ out' = <<"AUTH">>
  /\ UNCHANGED <<status, heard>>

Command ==
  /\ status = "open" /\ heard # <<>> /\ Head(heard) = "AUTH"
  /\ out' = Append(out, "COMMAND")
  /\ UNCHANGED <<status, heard>>

Hear(packet) ==
  /\ status = "open" /\ out # <<>>
  /\ (heard = <<>>) <=> (packet # "NEWS")
  /\ heard' = Append(heard, packet)
  /\ UNCHANGED <<status, out>>

Cut == status = "open" /\ status' = "closed" /\ heard' = Append(heard, "END") /\ UNCHANGED out

Leave == status # "closed" /\ status' = "closed" /\ UNCHANGED <<out, heard>>

Next ==
  \/ Connect \/ Authenticate \/ Command \/ Cut \/ Leave
  \/ \E packet \in {"AUTH", "AUTH_DUPLICATE", "NEWS"} : Hear(packet)

Spec == Init /\ [][Next]_vars

=============================================================================
