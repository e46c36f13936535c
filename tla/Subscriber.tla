----------------------------- MODULE Subscriber -----------------------------
(***************************************************************************)
(* One run of the subscriber (client.cpp): the connection and its          *)
(* authentication, then a loop over the keyboard and the connection, both  *)
(* watched by the same class MultiSocket as in the server.                 *)
(*                                                                         *)
(* stdin is read through a FILE: select() sees what is in the kernel, and  *)
(* fgets() takes its lines from stdio's own buffer first.  fgets() blocks  *)
(* when there is no line, and nothing else is handled then.                *)
(***************************************************************************)
EXTENDS Integers, Sequences, FiniteSets

CONSTANTS
  Conn,         \* the connection
  NoConn,       \* tcp_sockets has no entry
  LineKinds,    \* bound: the kinds of line typed: "bad" is empty or no command, "blank" has no word
  MaxLines,     \* bound: lines typed
  MaxNews,      \* bound: news sent by the server
  KindOf,       \* KindOf[n]: what news n holds, "STRING" or "NUMBER"
  MaxPartials,  \* bound: recv() calls that complete no packet
  Burst         \* may one read() of stdin return several lines (a pipe), or one only (a terminal)?

ASSUME LinesAssumption == LineKinds \subseteq {"exit", "bad", "blank", "command"}
ASSUME BoundsAssumption ==
  /\ {MaxLines, MaxNews, MaxPartials} \subseteq Nat /\ Burst \in BOOLEAN /\ NoConn # Conn
  /\ KindOf \in [1..MaxNews -> {"STRING", "NUMBER"}]

Sock == 5   \* the descriptor: all that matters is that it comes after Stdin

VARIABLES
  link, up,     \* as in MultiSocket; up[Conn] is what the server sent and recv() has not read
  typed,        \* lines in the terminal or the pipe
  eof,          \* stdin was closed by whoever types
  stdio,        \* lines in the buffer of the FILE stdin
  tcp_sockets, packet_queue, sock_queue,
  pc,           \* where main() is, or how it ended
  buffer,       \* main's buffer: the last packet in it
  printed,      \* news printed: [n, fresh]; n = 0 is bytes that are no news
  handled,      \* lines that fgets() has returned
  last,         \* the last of them
  partials,     \* history: recv() calls that completed no packet
  out, heard    \* history: see ClientContract

MS == INSTANCE MultiSocket WITH
  Conns <- {Conn}, Fds <- {Sock}, MaxSent <- MaxNews + 1, Fragments <- MaxPartials > 0,
  backlog <- <<>>, udp <- <<>>,
  stdin <- IF typed # <<>> THEN Head(typed) ELSE IF eof THEN "eof" ELSE "none"

Stdin == MS!Stdin

kernelVars == <<link, up, typed, eof, stdio>>
socketVars == <<tcp_sockets, packet_queue, sock_queue>>
lineVars   == <<typed, stdio, handled, last>>
vars == <<kernelVars, socketVars, pc, buffer, printed, handled, last, partials, out, heard>>

News    == [type : {"NEWS"}, n : 1..MaxNews]
Packets == News \cup [type : {"AUTH", "AUTH_DUPLICATE"}]

\* "select", "next" and "fgets": before these calls in the loop of main(). "spins": fgets()
\* returns NULL at once, for ever.
Over   == pc \in {"ended", "dead", "spins"}
InLoop == pc \in {"select", "next", "fgets"}

Init ==
  /\ link = [c \in {Conn} |-> "none"] /\ up = [c \in {Conn} |-> <<>>]
  /\ typed = <<>> /\ eof = FALSE /\ stdio = <<>>
  /\ tcp_sockets = [fd \in {Sock} |-> NoConn]
  /\ packet_queue = [fd \in {Sock} |-> <<>>]
  /\ sock_queue = MS!EmptyQueue
  /\ pc = "connect" /\ buffer = [type |-> "NONE"]
  /\ printed = <<>> /\ handled = 0 /\ last = "none" /\ partials = 0
  /\ out = <<>> /\ heard = <<>>

-----------------------------------------------------------------------------
(***************************************************************************)
(* Mutated forms of definitions below, used by the runs only.              *)
(***************************************************************************)

\* Any reply is taken for TYPE_AUTH.
AcceptedAny(packet) == TRUE
\* write_packet() leaves the packet in the queue.
TakePacketKept == packet_queue' = packet_queue
\* A bad line ends the loop.
AfterBadLineEnds == "ended"
\* The end of the connection is not told from a packet.
ClosedNever == FALSE

-----------------------------------------------------------------------------
(***************************************************************************)
(* The environment: the server, and whoever types.                         *)
(***************************************************************************)
envFrame == <<socketVars, pc, buffer, printed, handled, last, partials, out, stdio>>

ServerSends(packet) ==
  /\ link[Conn] = "open" /\ out # <<>>
  /\ up' = [up EXCEPT ![Conn] = Append(@, packet)]
  /\ heard' = Append(heard, packet.type)
  /\ UNCHANGED <<link, typed, eof, envFrame>>

ServerReplies == heard = <<>> /\ \E t \in {"AUTH", "AUTH_DUPLICATE"} : ServerSends([type |-> t])

ServerSendsNews ==
  /\ heard # <<>> /\ Head(heard) = "AUTH" /\ Len(heard) <= MaxNews
  /\ ServerSends([type |-> "NEWS", n |-> Len(heard)])

\* When the server closes with unread commands, the reset throws away what was not yet read here.
ServerCloses ==
  /\ link[Conn] = "open"
  /\ link' = [link EXCEPT ![Conn] = "hup"]
  /\ up' \in {up, [up EXCEPT ![Conn] = <<>>]}
  /\ heard' = Append(heard, "END")
  /\ UNCHANGED <<typed, eof, envFrame>>

TypeLine(line) ==
  /\ ~eof /\ handled + Len(stdio) + Len(typed) < MaxLines
  /\ typed' = Append(typed, line)
  /\ UNCHANGED <<link, up, eof, heard, envFrame>>

CloseStdin ==
  /\ ~eof /\ eof' = TRUE
  /\ UNCHANGED <<link, up, typed, heard, envFrame>>

Environment ==
  /\ ~Over
  /\ \/ ServerReplies \/ ServerSendsNews \/ ServerCloses \/ CloseStdin
     \/ \E line \in LineKinds : TypeLine(line)

-----------------------------------------------------------------------------
(***************************************************************************)
(* MultiSocket::connect(), and the authentication.                         *)
(***************************************************************************)
Connect ==
  /\ pc = "connect"
  /\ \/ /\ link' = [link EXCEPT ![Conn] = "open"]
        /\ tcp_sockets' = [tcp_sockets EXCEPT ![Sock] = Conn]
        /\ pc' = "auth"
     \/ pc' = "dead" /\ UNCHANGED <<link, tcp_sockets>>
  /\ UNCHANGED <<up, eof, lineVars, packet_queue, sock_queue, buffer, printed, partials, out, heard>>

\* What is sent reaches the server only while its end is open.
Sends(packet) == out' = IF link[Conn] = "open" THEN Append(out, packet) ELSE out

SendFails == \/ tcp_sockets[Sock] = NoConn
             \/ MS!MayFail(Conn)

Authenticate ==
  /\ pc = "auth"
  /\ \/ tcp_sockets[Sock] = Conn /\ Sends("AUTH") /\ pc' = "reply"
     \/ SendFails /\ pc' = "dead" /\ UNCHANGED out
  /\ buffer' = [type |-> "AUTH"]
  /\ UNCHANGED <<kernelVars, socketVars, printed, handled, last, partials, heard>>

\* select(): it returns at once while entries are left. Only one in MaxPartials calls may end
\* inside the first packet.
SelectReturns(P) ==
  /\ UNCHANGED <<eof, lineVars, buffer, printed, out, heard>>
  /\ \E R \in SUBSET MS!ReadableFds : MS!SelectReturns(R, P)
  /\ partials' = partials + IF sock_queue'[Sock] # "none" /\ <<up, tcp_sockets>>' = <<up, tcp_sockets>>
                            THEN 1 ELSE 0
  /\ partials' <= MaxPartials

\* stdin is not among the descriptors yet.
AwaitReply == pc = "reply" /\ SelectReturns({}) /\ pc' = "replied"

Accepted(packet) == packet.type = "AUTH"

TakePacket == packet_queue' = [packet_queue EXCEPT ![Sock] = Tail(@)]

Reply ==
  /\ pc = "replied" /\ MS!PacketReady(Sock)
  /\ LET packet == Head(packet_queue[Sock])
     IN  buffer' = packet /\ pc' = IF Accepted(packet) THEN "select" ELSE "ended"
  /\ TakePacket
  /\ sock_queue' = MS!QueueAfter(Sock)
  /\ UNCHANGED <<kernelVars, tcp_sockets, printed, handled, last, partials, out, heard>>

\* No descriptor or a closed one: recv() says -1. A part of the reply: its size is 0, TYPE_INVALID.
NoReply ==
  /\ pc = "replied" /\ ~MS!PacketReady(Sock)
  /\ pc' = IF MS!NoNextFd \/ tcp_sockets[Sock] = NoConn THEN "dead" ELSE "ended"
  /\ UNCHANGED <<kernelVars, socketVars, buffer, printed, handled, last, partials, out, heard>>

-----------------------------------------------------------------------------
(***************************************************************************)
(* The loop of main().                                                     *)
(***************************************************************************)
Select ==
  /\ pc = "select" /\ MS!Queued = {}
  /\ \E P \in SUBSET MS!ReadableSpecials : SelectReturns(P)
  /\ pc' = "next"

loopFrame == <<buffer, printed, partials, out, heard>>

SelectSkipped ==
  /\ pc = "select" /\ MS!Queued # {}
  /\ pc' = "next"
  /\ UNCHANGED <<kernelVars, socketVars, handled, last, loopFrame>>

NoNext ==
  /\ pc = "next" /\ MS!NoNextFd
  /\ sock_queue' = MS!EmptyQueue
  /\ pc' = "select"
  /\ UNCHANGED <<kernelVars, tcp_sockets, packet_queue, handled, last, loopFrame>>

HandleStdin ==
  /\ pc = "next" /\ MS!NextFd(Stdin)
  /\ sock_queue' = MS!QueueAfter(Stdin)
  /\ pc' = "fgets"
  /\ UNCHANGED <<kernelVars, tcp_sockets, packet_queue, handled, last, loopFrame>>

\* fgets() returns line: one of the FILE's buffer, or the first of those a read() brings.
Fgets(line) ==
  /\ pc = "fgets"
  /\ \/ /\ stdio # <<>> /\ line = Head(stdio)
        /\ stdio' = Tail(stdio) /\ UNCHANGED typed
     \/ /\ stdio = <<>> /\ typed # <<>> /\ line = Head(typed)
        /\ \E k \in IF Burst THEN 1..Len(typed) ELSE {1} :
             stdio' = SubSeq(typed, 2, k) /\ typed' = SubSeq(typed, k + 1, Len(typed))
  /\ handled' = handled + 1 /\ last' = line
  /\ UNCHANGED <<up, eof, sock_queue, printed, partials, heard>>

\* An empty or invalid line: `continue` leads back to fgets(), not to get_next_fd().
AfterBadLine == "fgets"

BadLine ==
  /\ Fgets("bad")
  /\ pc' = AfterBadLine /\ buffer' = [type |-> "LINE"]
  /\ UNCHANGED <<link, tcp_sockets, packet_queue, out>>

\* The line has no word: strtok() returns NULL, which strncmp() reads.
BlankLine ==
  /\ Fgets("blank")
  /\ pc' = "dead"
  /\ UNCHANGED <<link, tcp_sockets, packet_queue, buffer, out>>

EndOfFile ==
  /\ pc = "fgets" /\ stdio = <<>> /\ typed = <<>> /\ eof
  /\ pc' = "spins"
  /\ UNCHANGED <<kernelVars, socketVars, handled, last, loopFrame>>

Exit ==
  /\ Fgets("exit")
  /\ MS!CloseAll
  /\ pc' = "ended"
  /\ UNCHANGED <<buffer, out>>

Command ==
  /\ Fgets("command")
  /\ \/ tcp_sockets[Sock] = Conn /\ Sends("COMMAND") /\ pc' = "next"
     \/ SendFails /\ pc' = "dead" /\ UNCHANGED out
  /\ buffer' = [type |-> "COMMAND"]
  /\ UNCHANGED <<link, tcp_sockets, packet_queue>>

Closed == sock_queue[Sock] = "SOCK_CLOSE"

HandleSocket ==
  /\ pc = "next" /\ MS!NextFd(Sock)
  /\ sock_queue' = MS!QueueAfter(Sock)
  /\ UNCHANGED <<up, eof, lineVars, partials, out, heard>>

HandleClose ==
  /\ HandleSocket /\ Closed
  /\ MS!CloseAll
  /\ pc' = "ended"
  /\ UNCHANGED <<buffer, printed>>

HandleNews ==
  /\ HandleSocket /\ ~Closed /\ MS!PacketReady(Sock)
  /\ buffer' = Head(packet_queue[Sock])
  /\ printed' = Append(printed, [n |-> Head(packet_queue[Sock]).n, fresh |-> TRUE])
  /\ TakePacket
  /\ pc' = "next"
  /\ UNCHANGED <<link, tcp_sockets>>

\* No packet was ready: what the buffer held is parsed with the size 0 - 57, as a size_t. A
\* STRING of that size is an exception; what the buffer holds at the place of the data type after
\* the reply, or after a line, is anything.
HandleStale ==
  /\ HandleSocket /\ ~Closed /\ ~MS!PacketReady(Sock)
  /\ \/ /\ buffer.type = "NEWS" => KindOf[buffer.n] # "STRING"
        /\ printed' = Append(printed, [n     |-> IF buffer.type = "NEWS" THEN buffer.n ELSE 0,
                                       fresh |-> FALSE])
        /\ pc' = "next"
     \/ /\ buffer.type = "NEWS" => KindOf[buffer.n] = "STRING"
        /\ pc' = "dead" /\ UNCHANGED printed
  /\ UNCHANGED <<link, tcp_sockets, packet_queue, buffer>>

Main ==
  \/ Connect \/ Authenticate \/ AwaitReply \/ Reply \/ NoReply
  \/ Select \/ SelectSkipped \/ NoNext
  \/ HandleStdin \/ BadLine \/ BlankLine \/ EndOfFile \/ Exit \/ Command
  \/ HandleClose \/ HandleNews \/ HandleStale

Next == Environment \/ Main

\* The process runs; select() reports in the end what is readable, and recv() gets the rest of a
\* packet, or the end of the stream.
Fairness ==
  /\ WF_vars(Main)
  /\ SF_vars(Select /\ sock_queue'[Stdin] # "none")
  /\ SF_vars((AwaitReply \/ Select) /\ <<up, tcp_sockets>>' # <<up, tcp_sockets>>)

Spec == Init /\ [][Next]_vars /\ Fairness

-----------------------------------------------------------------------------
(***************************************************************************)
(* Properties.                                                             *)
(***************************************************************************)

\* The values of the variables; the loop of main() meets no packet but news, which it parses without
\* a look at their type.
TypeOK ==
  /\ link[Conn] \in {"none", "open", "hup", "shut"}
  /\ tcp_sockets[Sock] \in {Conn, NoConn}
  /\ up[Conn] \in Seq(Packets) /\ packet_queue[Sock] \in Seq(IF InLoop THEN News ELSE Packets)
  /\ sock_queue \in [MS!AllFds -> MS!FdTypes \cup {"none"}]
  /\ eof \in BOOLEAN /\ partials \in 0..MaxPartials /\ handled \in 0..MaxLines
  /\ pc \in {"connect", "auth", "reply", "replied", "select", "next", "fgets", "ended", "dead", "spins"}

\* The news printed when they came, by their places in what is printed.
Fresh == {i \in DOMAIN printed : printed[i].fresh}

\* News are printed in the order in which the server sent them, none twice and none left out; a
\* line printed for a part of a packet (client.cpp:160) repeats the news printed last, or is no
\* news at all, and there are no more of them than such parts.
PrintedInOrder ==
  /\ \A i \in Fresh : printed[i].n = Cardinality({j \in Fresh : j <= i})
  /\ Len(printed) - Cardinality(Fresh) <= partials
  /\ \A i \in DOMAIN printed : ~printed[i].fresh /\ printed[i].n # 0 =>
       i > 1 /\ printed[i - 1].n = printed[i].n

\* While whole packets arrive, the subscriber ends only because it was told to, was refused, or
\* was left by the server; it dies only of a blank line or of the server's end.
EndsForAReason ==
  LET left == heard # <<>> /\ (heard[1] = "AUTH_DUPLICATE" \/ heard[Len(heard)] = "END")
  IN  /\ pc = "ended" /\ partials = 0 => last = "exit" \/ left
      /\ pc = "dead" /\ partials = 0 => last = "blank" \/ left \/ link[Conn] = "none"
      /\ pc = "spins" => eof

\* main() waits in fgets(), deaf to the server.
Blocked == pc = "fgets" /\ stdio = <<>> /\ typed = <<>> /\ ~eof

\* It waits there only after a line that was empty or invalid (client.cpp:130, 143): the entry of
\* stdin in the queue stands for a line that is still to be read.
BlockedOnlyByBadLine == Blocked => last = "bad"

\* The connection, seen from outside: it is closed by either end, or with the process.
Status == IF Over \/ link[Conn] \in {"hup", "shut"} THEN "closed" ELSE link[Conn]

Contract == INSTANCE ClientContract WITH status <- Status

\* The client behaves as module Server takes its environment to.
ImplementsContract == Contract!Spec

\* News that reach the subscriber's loop are printed, unless it is over or waits in fgets() for ever.
NewsPrinted ==
  \A n \in 1..MaxNews :
    InLoop /\ Len(heard) > n ~> Cardinality(Fresh) >= n \/ Over \/ []Blocked

\* Every line typed is handled, unless it stays in stdio's buffer, where select() does not see it,
\* for ever (the lines of a pipe that one read() returned together).
LinesHandled ==
  \A n \in 1..MaxLines :
    InLoop /\ handled + Len(stdio) + Len(typed) >= n ~> handled >= n \/ Over \/ [](stdio # <<>>)

\* The subscriber ends with the server's connection, unless it waits in fgets() for ever.
EndsWithServer == link[Conn] = "hup" ~> Over \/ []Blocked

-----------------------------------------------------------------------------
(***************************************************************************)
(* What the documentation or an assertion of the repository says and the   *)
(* code does not do: each is violated (README, section 3).                 *)
(***************************************************************************)

\* readme.txt:125-130: packet_ready() is asked first, and without a packet one waits for more. main()
\* prints a line also when there was none.
PrintsOnlyPackets == Fresh = DOMAIN printed

\* client.cpp:148, DIE(n < 0, "send"): commands are only sent on a connection that MultiSocket knows.
\* stdin's entry comes before that of a connection that ended in the same batch.
CommandHasSocket ==
  pc = "fgets" /\ stdio \o typed # <<>> /\ Head(stdio \o typed) = "command" =>
    tcp_sockets[Sock] = Conn

=============================================================================
