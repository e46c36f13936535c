------------------------------- MODULE Server -------------------------------
(***************************************************************************)
(* The server (server.cpp): the loop of main() over the descriptors that   *)
(* MultiSocket hands out, the table of subscribers, the subscriptions, and *)
(* the forwarding of news.  Its environment is the subscribers, one        *)
(* connection of Conns for each run of client.cpp, the senders of          *)
(* datagrams and the operator's keyboard.                                  *)
(*                                                                         *)
(* The fields of struct subscriber are variables: state, sockfd and        *)
(* subs_queue, functions from ids.  The variables missed, audience and     *)
(* wanted are history: no guard reads them.                                *)
(***************************************************************************)
EXTENDS MultiSocket

CONSTANTS
  Ids,      \* the subscribers' ids
  EmptyId,  \* the empty string, the id a descriptor without an entry in ids_map stands for
  NoId,     \* ids_map has no entry
  IdOf,     \* IdOf[c]: the id that the subscriber of connection c was started with
  Topics,   \* the topics
  Commands, \* bound: the kinds of command the subscribers give
  Lines,    \* bound: the lines typed on the server's keyboard; "eof" is the end of stdin
  MaxNews   \* bound: datagrams published

ASSUME IdsAssumption ==
  /\ EmptyId \in Ids /\ NoId \notin Ids /\ IsFiniteSet(Ids)
  /\ IdOf \in [Conns -> Ids \ {EmptyId}]
ASSUME InputsAssumption ==
  /\ Commands \subseteq {"SUB", "SUB_SF", "UNSUB"} /\ Lines \subseteq {"exit", "other", "eof"}
  /\ MaxNews \in Nat

NotSub == -1   \* topic_map[t] has no entry for the id
NoFd   == -1   \* sockfd of new_subscriber()

AuthPackets    == [type : {"AUTH"}, id : Ids \ {EmptyId}]
CommandPackets == [type : {"SUB", "SUB_SF", "UNSUB"}, topic : Topics]
Packets == AuthPackets \cup CommandPackets

Replies == [type : {"AUTH", "AUTH_DUPLICATE"}]
News    == [type : {"NEWS"}, topic : Topics, n : 1..MaxNews]

VARIABLES
  topic_map,   \* topic_map[t][id]: 0 or 1, the sf of id's subscription to t, or NotSub
  state,       \* state[id]: "CONNECTED" or "DISCONNECTED"
  sockfd,      \* sockfd[id]: descriptor of the id's last accepted connection
  subs_queue,  \* subs_queue[id]: news stored for it
  ids_map,     \* ids_map[fd]: the id that authenticated on fd, or NoId
  down,        \* down[c]: packets written to c, in order; those written after "hup" are lost
  pc,          \* where main() is, or how it ended
  sent,        \* sent[c]: packets the subscriber of c has sent (bounded by MaxSent)
  published,   \* datagrams sent to the server (bounded by MaxNews)
  missed,      \* history: ids whose SOCK_CLOSE entry get_next_fd() has thrown away
  audience,    \* history: audience[n]: ids subscribed to news n when the server read it
  wanted       \* history: wanted[t][id]: what the last command of id on t asked for

tableVars   == <<topic_map, state, sockfd, subs_queue, ids_map>>
historyVars == <<missed, audience, wanted>>
envVars     == <<sent, published>>
vars == <<kernelVars, socketVars, tableVars, down, pc, envVars, historyVars>>

NoSubscription == [t \in Topics |-> [id \in Ids |-> NotSub]]

Init ==
  /\ link = [c \in Conns |-> "none"] /\ up = [c \in Conns |-> <<>>]
  /\ backlog = <<>> /\ udp = <<>> /\ stdin = "none"
  /\ tcp_sockets = [fd \in Fds |-> NoConn]
  /\ packet_queue = [fd \in Fds |-> <<>>]
  /\ sock_queue = EmptyQueue
  /\ topic_map = NoSubscription
  /\ state = [id \in Ids |-> "DISCONNECTED"]
  /\ sockfd = [id \in Ids |-> NoFd]
  /\ subs_queue = [id \in Ids |-> <<>>]
  /\ ids_map = [fd \in Fds |-> NoId]
  /\ down = [c \in Conns |-> <<>>]
  /\ pc = "top"
  /\ sent = [c \in Conns |-> 0] /\ published = 0
  /\ missed = {} /\ audience = [n \in 1..MaxNews |-> {}] /\ wanted = NoSubscription

\* "top": before get_next_fd(). "selected": select() has just returned inside the iteration.
\* The others are final: "exited" after the command exit, "dead" after a failed DIE or a signal,
\* "garbled" when recvfrom() reads bytes of a TCP stream (what follows is not modelled).
Running == pc \in {"top", "selected"}

-----------------------------------------------------------------------------
(***************************************************************************)
(* Mutated forms of definitions below: plausible mistakes in the code.     *)
(* Nothing uses them; the runs replace a definition by one of them to see  *)
(* that a property can fail.                                               *)
(***************************************************************************)

\* The type of the command is stored as sf.
SubscriptionStoresType(type) ==
  CASE type = "SUB" -> 0 [] type = "SUB_SF" -> 2 [] type = "UNSUB" -> NotSub
\* The entry of ids_map outlives the connection.
IdsAfterCloseKept(fd) == ids_map
\* No test for a second client with the same id.
InUseNever(id) == FALSE
\* sockfd, set once, stands for "connected".
InUseForever(id) == sockfd[id] # NoFd
\* sockfd is only set when the entry of clients is created.
SockfdAfterFirstAuth(id, fd) ==
  IF sockfd[id] # NoFd THEN sockfd ELSE [sockfd EXCEPT ![id] = fd]
\* Stored news are unloaded before the reply, or not at all.
AuthReplyLast(id) == subs_queue[id] \o <<[type |-> "AUTH"]>>
AuthReplyOnly(id) == <<[type |-> "AUTH"]>>
\* subs_queue as a stack.
StoreOnTop(queue, news) == <<news>> \o queue
\* News forwarded at once only to those who asked for them with sf.
OnlineSfOnly(t) == {id \in Ids : state[id] # "DISCONNECTED" /\ topic_map[t][id] = 1}

-----------------------------------------------------------------------------
(***************************************************************************)
(* The environment.                                                        *)
(***************************************************************************)
Send(c, packet) ==
  /\ link[c] = "open" /\ sent[c] < MaxSent
  /\ up' = [up EXCEPT ![c] = Append(@, packet)]
  /\ sent' = [sent EXCEPT ![c] = @ + 1]
  /\ UNCHANGED <<link, backlog, udp, stdin, socketVars, tableVars, down, pc, published,
                 missed, audience>>

\* client.cpp connects, and authenticates once.
Connect(c) ==
  /\ Running /\ link[c] = "none"
  /\ link' = [link EXCEPT ![c] = "open"]
  /\ backlog' = Append(backlog, c)
  /\ UNCHANGED <<up, udp, stdin, socketVars, tableVars, down, pc, envVars, historyVars>>

SendAuth(c) ==
  /\ Running /\ sent[c] = 0
  /\ Send(c, [type |-> "AUTH", id |-> IdOf[c]])
  /\ UNCHANGED wanted

\* It takes commands only once its first reply is TYPE_AUTH.
Command(c, type, t) ==
  /\ Running /\ down[c] # <<>> /\ Head(down[c]).type = "AUTH"
  /\ Send(c, [type |-> type, topic |-> t])
  /\ wanted' = [wanted EXCEPT ![t][IdOf[c]] =
       CASE type = "SUB" -> 0 [] type = "SUB_SF" -> 1 [] type = "UNSUB" -> NotSub]

\* The subscriber exits, or is killed, at any moment. What has arrived is still read (recv() gives
\* it before the end, or before the -1 of a reset).
Leave(c) ==
  /\ Running /\ link[c] = "open"
  /\ link' = [link EXCEPT ![c] = "hup"]
  /\ UNCHANGED <<backlog, up, udp, stdin, socketVars, tableVars, down, pc, envVars, historyVars>>

\* It left with news unread: its end is a reset, and what of its stream has not arrived never does.
\* A packet no part of which has arrived is one that was not sent; here a packet is lost of which
\* recv() may already have taken a part.
Reset(c) ==
  /\ Running /\ Fragments /\ link[c] = "hup" /\ up[c] # <<>>
  /\ up' = [up EXCEPT ![c] = SubSeq(@, 1, Len(@) - 1)]
  /\ UNCHANGED <<link, backlog, udp, stdin, socketVars, tableVars, down, pc, envVars, historyVars>>

Datagram(t) ==
  /\ Running /\ published < MaxNews
  /\ published' = published + 1
  /\ udp' = Append(udp, [type |-> "NEWS", topic |-> t, n |-> published + 1])
  /\ UNCHANGED <<link, backlog, up, stdin, socketVars, tableVars, down, pc, sent, historyVars>>

\* A line is typed here when select() reports it: lines that one read() of a pipe brings, and that
\* wait in stdio's buffer for the next report, are typed then.
TypeLine(line) ==
  /\ Running /\ stdin = "none"
  /\ stdin' = line
  /\ UNCHANGED <<link, backlog, up, udp, socketVars, tableVars, down, pc, envVars, historyVars>>

Environment ==
  \/ \E c \in Conns : \/ Connect(c) \/ SendAuth(c) \/ Leave(c) \/ Reset(c)
                      \/ \E type \in Commands, t \in Topics : Command(c, type, t)
  \/ \E t \in Topics : Datagram(t)
  \/ \E line \in Lines : TypeLine(line)

-----------------------------------------------------------------------------
(***************************************************************************)
(* The loop of main().                                                     *)
(***************************************************************************)
MissedBy(S) ==
  missed' = missed \cup ({ids_map[fd] : fd \in {g \in S \cap Fds : sock_queue[g] = "SOCK_CLOSE"}}
                       \ {NoId})

\* get_next_fd() has nothing: select().
Select ==
  /\ pc = "top" /\ NoNextFd
  /\ \E R \in SUBSET ReadableFds, P \in SUBSET ReadableSpecials : SelectReturns(R, P)
  /\ MissedBy(Queued)
  /\ pc' = "selected"
  /\ UNCHANGED <<tableVars, down, envVars, audience, wanted>>

\* The iteration handles fd, the descriptor that get_next_fd() returns.
Next_fd(fd) ==
  /\ Running /\ NextFd(fd)
  /\ sock_queue' = QueueAfter(fd)
  /\ MissedBy(Skipped(fd))

\* fgets() and strncmp(). At the end of stdin, which stays readable, fgets() gives lines that stdio
\* still has, or leaves buffer as it is: no value, or the last datagram, which may begin with "exit".
HandleStdin ==
  /\ Next_fd(Stdin) /\ stdin # "none"
  /\ stdin' = IF stdin = "eof" THEN "eof" ELSE "none"
  /\ \/ /\ stdin \in {"exit", "eof"} /\ CloseAll /\ pc' = "exited" /\ up' = [c \in Conns |-> <<>>]
     \/ /\ stdin # "exit" /\ pc' = "top"
        /\ UNCHANGED <<link, up, backlog, tcp_sockets, packet_queue>>
  /\ UNCHANGED <<udp, tableVars, down, envVars, audience, wanted>>

-----------------------------------------------------------------------------
(***************************************************************************)
(* News: send_news_to_subscribers().                                       *)
(***************************************************************************)
Subscribed(t) == {id \in Ids : topic_map[t][id] # NotSub}
Online(t)     == {id \in Subscribed(t) : state[id] # "DISCONNECTED"}
Stored(t)     == {id \in Subscribed(t) : state[id] = "DISCONNECTED" /\ topic_map[t][id] # 0}

Store(queue, news) == Append(queue, news)

\* send_packet_to_sub() for each id of S; a copy for each, wherever its sockfd leads.
Forward(news, S) ==
  down' = [c \in Conns |->
    LET copies == Cardinality({id \in S : sockfd[id] \in Open /\ tcp_sockets[sockfd[id]] = c})
    IN  down[c] \o [i \in 1..copies |-> news]]

SendFails(id)   == sockfd[id] \notin Open
SendMayFail(id) == sockfd[id] \in Open => MayFail(tcp_sockets[sockfd[id]])

HandleUdp ==
  /\ Next_fd(Udp) /\ udp # <<>>
  /\ udp' = Tail(udp)
  /\ LET news == Head(udp)
     IN  /\ \A id \in Online(news.topic) : ~SendFails(id)
         /\ Forward(news, Online(news.topic))
         /\ subs_queue' = [id \in Ids |->
              IF id \in Stored(news.topic) THEN Store(subs_queue[id], news) ELSE subs_queue[id]]
         /\ audience' = [audience EXCEPT ![news.n] = Subscribed(news.topic)]
  /\ pc' = "top"
  /\ UNCHANGED <<link, backlog, up, stdin, tcp_sockets, packet_queue,
                 topic_map, state, sockfd, ids_map, envVars, wanted>>

\* DIE(cnt < 0) in send_packet_to_sub(), or SIGPIPE, after some were served.
HandleUdpDies ==
  /\ Next_fd(Udp) /\ udp # <<>>
  /\ udp' = Tail(udp)
  /\ LET news == Head(udp)
     IN  /\ \E id \in Online(news.topic) :
              /\ SendMayFail(id)
              /\ \E S \in SUBSET {i \in Online(news.topic) \ {id} : ~SendFails(i)} : Forward(news, S)
         /\ audience' = [audience EXCEPT ![news.n] = Subscribed(news.topic)]
  /\ pc' = "dead"
  /\ UNCHANGED <<link, backlog, up, stdin, tcp_sockets, packet_queue, tableVars,
                 envVars, wanted>>

\* A connection's descriptor that carries the type of a datagram socket.
HandleUdpGarbled(fd) ==
  /\ Next_fd(fd) /\ fd \in Fds /\ sock_queue[fd] = "SOCK_UDP"
  /\ pc' = "garbled"
  /\ UNCHANGED <<kernelVars, tcp_sockets, packet_queue, tableVars, down, envVars, audience, wanted>>

-----------------------------------------------------------------------------
(***************************************************************************)
(* Connections: accept() and SOCK_CLOSE.                                   *)
(***************************************************************************)

\* multi.accept() blocks while no connection waits.
HandleConnect(fd) ==
  /\ Next_fd(fd) /\ sock_queue[fd] = "SOCK_CONNECT"
  /\ Accept
  /\ pc' = "top"
  /\ UNCHANGED <<link, up, udp, stdin, tableVars, down, envVars, audience, wanted>>

IdsAfterClose(fd) == [ids_map EXCEPT ![fd] = NoId]

HandleClose(fd) ==
  /\ Next_fd(fd) /\ sock_queue[fd] = "SOCK_CLOSE"
  /\ LET id == IF ids_map[fd] = NoId THEN EmptyId ELSE ids_map[fd]
     IN  state' = [state EXCEPT ![id] = "DISCONNECTED"]
  /\ ids_map' = IdsAfterClose(fd)
  /\ pc' = "top"
  /\ UNCHANGED <<kernelVars, tcp_sockets, packet_queue, topic_map, sockfd, subs_queue,
                 down, envVars, audience, wanted>>

-----------------------------------------------------------------------------
(***************************************************************************)
(* Packets of a subscriber: handle_tcp_app_recv().                         *)
(***************************************************************************)
HandleTcp(fd) ==
  /\ Next_fd(fd) /\ fd \in Fds
  /\ sock_queue[fd] \notin {"SOCK_UDP", "SOCK_CONNECT", "SOCK_CLOSE"}

\* multi.recv() says PACKET_NOT_READY.
TcpNotReady(fd) ==
  /\ HandleTcp(fd) /\ ~PacketReady(fd)
  /\ pc' = "top"
  /\ UNCHANGED <<kernelVars, tcp_sockets, packet_queue, tableVars, down, envVars, audience, wanted>>

Receive(fd, type) ==
  /\ HandleTcp(fd) /\ PacketReady(fd)
  /\ Head(packet_queue[fd]).type = type
  /\ UNCHANGED <<backlog, udp, stdin, envVars, audience, wanted>>

TakePacket(fd) == packet_queue' = [packet_queue EXCEPT ![fd] = Tail(@)]

Reply(fd, packets) == down' = [down EXCEPT ![tcp_sockets[fd]] = @ \o packets]

\* clients[auth->id].state == CLI_CONNECTED
InUse(id) == state[id] = "CONNECTED"

SockfdAfterAuth(id, fd) == [sockfd EXCEPT ![id] = fd]

\* The reply, then unload_news_queue(). It is given a copy of the subscriber, so that the queue
\* it empties is not the one in the table.
AuthReply(id) == <<[type |-> "AUTH"]>> \o subs_queue[id]

Auth(fd) ==
  /\ Receive(fd, "AUTH")
  /\ LET id == Head(packet_queue[fd]).id
     IN  /\ ~InUse(id)
         /\ state'   = [state EXCEPT ![id] = "CONNECTED"]
         /\ sockfd'  = SockfdAfterAuth(id, fd)
         /\ ids_map' = [ids_map EXCEPT ![fd] = id]
         /\ Reply(fd, AuthReply(id))
  /\ TakePacket(fd)
  /\ pc' = "top"
  /\ UNCHANGED <<link, up, tcp_sockets, topic_map, subs_queue>>

AuthDuplicate(fd) ==
  /\ Receive(fd, "AUTH")
  /\ InUse(Head(packet_queue[fd]).id)
  /\ Reply(fd, <<[type |-> "AUTH_DUPLICATE"]>>)
  /\ CloseFd(fd)
  /\ pc' = "top"
  /\ UNCHANGED tableVars

\* The reply, or a stored packet after it, is sent to a subscriber that is already gone.
AuthDies(fd) ==
  /\ Receive(fd, "AUTH")
  /\ MayFail(tcp_sockets[fd])
  /\ pc' = "dead"
  /\ UNCHANGED <<link, up, tcp_sockets, packet_queue, tableVars, down>>

\* SUB, SUB_SF and UNSUB, ignored (TYPE_NOT_AUTH) on a descriptor without an id.
Subscription(type) == CASE type = "SUB" -> 0 [] type = "SUB_SF" -> 1 [] type = "UNSUB" -> NotSub

Subscribe(fd, type) ==
  /\ Receive(fd, type)
  /\ topic_map' = IF ids_map[fd] = NoId THEN topic_map
                  ELSE [topic_map EXCEPT ![Head(packet_queue[fd]).topic][ids_map[fd]] =
                          Subscription(type)]
  /\ TakePacket(fd)
  /\ pc' = "top"
  /\ UNCHANGED <<link, up, tcp_sockets, state, sockfd, subs_queue, ids_map, down>>

\* get_next_fd() returns -1 right after select(): main() goes on with descriptor -1, and the
\* result -1 of multi.recv() is a size that DIE() finds too big.
NoDescriptor ==
  /\ pc = "selected" /\ NoNextFd
  /\ MissedBy(Queued)
  /\ sock_queue' = EmptyQueue
  /\ pc' = "dead"
  /\ UNCHANGED <<kernelVars, tcp_sockets, packet_queue, tableVars, down, envVars, audience, wanted>>

-----------------------------------------------------------------------------
Loop ==
  \/ Select \/ HandleStdin \/ HandleUdp \/ HandleUdpDies \/ NoDescriptor
  \/ \E fd \in AllFds : HandleConnect(fd)
  \/ \E fd \in Fds : \/ HandleClose(fd) \/ HandleUdpGarbled(fd)
                     \/ TcpNotReady(fd) \/ Auth(fd) \/ AuthDuplicate(fd) \/ AuthDies(fd)
                     \/ \E type \in {"SUB", "SUB_SF", "UNSUB"} : Subscribe(fd, type)

Next == Environment \/ Loop

Spec == Init /\ [][Next]_vars

\* The loop does not stop on its own, and every call of select() reports all that is readable:
\* what is left out is still on its way, and arrives.
Fairness ==
  /\ WF_vars(Loop)
  /\ \A fd \in AllFds : SF_vars(Select /\ sock_queue'[fd] # "none")

FairSpec == Spec /\ Fairness

-----------------------------------------------------------------------------
(***************************************************************************)
(* Properties.  get_next_fd() can throw away the SOCK_CLOSE entry of a     *)
(* connection that ended (missed); what the server then believes about     *)
(* that id is wrong for good, so some properties are stated for the        *)
(* behaviours in which no entry was lost, or for the other ids.            *)
(***************************************************************************)

\* The values of the variables. In particular sf is one of its three values, and the empty id is
\* never that of a descriptor: the disconnection of one that has no id disconnects nobody.
KernelTypeOK ==
  /\ link \in [Conns -> {"none", "open", "hup", "shut"}]
  /\ backlog \in Seq(Conns)
  /\ up \in [Conns -> Seq(Packets)]
  /\ udp \in Seq(News)
  /\ stdin \in {"none", "exit", "other", "eof"}

SocketTypeOK ==
  /\ tcp_sockets \in [Fds -> Conns \cup {NoConn}]
  /\ packet_queue \in [Fds -> Seq(Packets)]
  /\ sock_queue \in [AllFds -> FdTypes \cup {"none"}]

TableTypeOK ==
  /\ topic_map \in [Topics -> [Ids -> {NotSub, 0, 1}]]
  /\ state \in [Ids -> {"CONNECTED", "DISCONNECTED"}]
  /\ sockfd \in [Ids -> Fds \cup {NoFd}]
  /\ subs_queue \in [Ids -> Seq(News)]
  /\ ids_map \in [Fds -> (Ids \ {EmptyId}) \cup {NoId}]

OtherTypeOK ==
  /\ down \in [Conns -> Seq(Replies \cup News)]
  /\ pc \in {"top", "selected", "exited", "dead", "garbled"}
  /\ sent \in [Conns -> 0..MaxSent]
  /\ published \in 0..MaxNews
  /\ missed \subseteq Ids
  /\ audience \in [1..MaxNews -> SUBSET Ids]
  /\ wanted \in [Topics -> [Ids -> {NotSub, 0, 1}]]

TypeOK == KernelTypeOK /\ SocketTypeOK /\ TableTypeOK /\ OtherTypeOK

Authenticated(c) == down[c] # <<>> /\ Head(down[c]).type = "AUTH"

\* ids_map, state and sockfd are three records of the same session, written in different places
\* (process_tcp_client_packet(), the SOCK_CLOSE branch of main()): a descriptor that stands for an
\* id is the descriptor news for that id are sent to, and the id counts as connected.
SessionBound ==
  \A fd \in Fds : ids_map[fd] # NoId =>
    state[ids_map[fd]] = "CONNECTED" /\ sockfd[ids_map[fd]] = fd

\* Two connections accepted under one id are never both open on the server's side, whatever the
\* order of disconnections, reconnections and news in a batch.
OneSessionPerId ==
  \A f, g \in Open :
    /\ Authenticated(tcp_sockets[f]) /\ Authenticated(tcp_sockets[g])
    /\ IdOf[tcp_sockets[f]] = IdOf[tcp_sockets[g]]
    => f = g

\* A connected id's sockfd leads to a connection of that id or to one whose SOCK_CLOSE entry
\* waits in the queue, even when the kernel gives the closed descriptor to a new connection.
SessionLive ==
  Running => \A id \in Ids \ missed : state[id] = "CONNECTED" =>
    LET fd == sockfd[id]
    IN  /\ ids_map[fd] = id
        /\ \/ sock_queue[fd] = "SOCK_CLOSE"
           \/ fd \in Open /\ IdOf[tcp_sockets[fd]] = id

\* What a subscriber reads first is the reply to its authentication (client.cpp exits on anything
\* else), and there is no second one.
ReplyComesFirst ==
  missed = {} => \A c \in Conns : \A i \in DOMAIN down[c] : down[c][i].type # "NEWS" <=> i = 1

\* News go only to subscribers of their topic at the time the server read them: neither stored
\* news nor a stale sockfd brings them to somebody else.
NewsOnlyToSubscribers ==
  missed = {} => \A c \in Conns : \A i \in DOMAIN down[c] :
    down[c][i].type = "NEWS" => IdOf[c] \in audience[down[c][i].n]

\* On one connection news come in the order of their datagrams, each once, although some are
\* taken from the stored queue and some are forwarded at once.
NewsInOrder ==
  missed = {} => \A c \in Conns : \A i, j \in DOMAIN down[c] :
    i < j /\ down[c][i].type = "NEWS" /\ down[c][j].type = "NEWS" => down[c][i].n < down[c][j].n

\* Whatever is stored for an id has been sent on its current connection.
StoredIsForwarded ==
  missed = {} => \A fd \in Open :
    LET c == tcp_sockets[fd]
    IN  Authenticated(c) =>
          \A i \in DOMAIN subs_queue[IdOf[c]] :
            \E j \in DOMAIN down[c] : down[c][j] = subs_queue[IdOf[c]][i]

\* A whole packet in a connection's buffer has its SOCK_TCP entry in the queue. select() reports
\* only what the kernel holds, so a packet without an entry would wait for the next byte.
NoStrandedPacket ==
  \A fd \in Fds : packet_queue[fd] # <<>> => fd \in Open /\ sock_queue[fd] = "SOCK_TCP"

\* When the server has handled all that the connections of an id have sent, the subscription is
\* what its last command asked for: no command is lost with the connection that carried it.
SubscriptionsUpToDate ==
  Running => \A t \in Topics, id \in Ids :
    (/\ \A c \in Conns : IdOf[c] = id => up[c] = <<>>
     /\ \A fd \in Open : IdOf[tcp_sockets[fd]] = id => packet_queue[fd] = <<>>)
    => topic_map[t][id] = wanted[t][id]

\* News read while an authenticated subscriber's connection is open and all its commands were
\* handled are sent to it, and only once, exactly when it asked for the topic.
NewsReachesSubscribers ==
  [][udp # <<>> /\ udp' = Tail(udp) /\ pc' = "top" /\ missed = {} =>
       \A fd \in Open :
         LET c == tcp_sockets[fd]
         IN  Authenticated(c) /\ up[c] = <<>> /\ packet_queue[fd] = <<>> =>
               down'[c] = IF wanted[Head(udp).topic][IdOf[c]] = NotSub THEN down[c]
                          ELSE Append(down[c], Head(udp))]_vars

\* An id is refused only while a descriptor stands for it, on which another of its connections is
\* open, or whose SOCK_CLOSE entry waits.
DeclinedOnlyIfInUse ==
  [][\A c \in Conns :
       down[c] = <<>> /\ down'[c] = <<[type |-> "AUTH_DUPLICATE"]>> /\ IdOf[c] \notin missed =>
         \E fd \in Fds : /\ ids_map[fd] = IdOf[c]
                         /\ \/ sock_queue[fd] = "SOCK_CLOSE"
                            \/ /\ fd \in Open /\ tcp_sockets[fd] # c
                               /\ IdOf[tcp_sockets[fd]] = IdOf[c]]_vars

\* A subscriber that authenticated and waits gets its reply (client.cpp waits for nothing else).
AuthAnswered ==
  \A c \in Conns :
    link[c] = "open" /\ sent[c] > 0 ~> down[c] # <<>> \/ link[c] # "open" \/ ~Running

\* get_next_fd() has thrown away the SOCK_CLOSE entry of id, or is about to.
Lost(id) ==
  \/ id \in missed
  \/ NoNextFd /\ \E fd \in Fds : sock_queue[fd] = "SOCK_CLOSE" /\ ids_map[fd] = id

\* The end of an accepted connection is noted in the table, unless its entry was thrown away: the
\* id is free again, however many events and reconnections share the batch.
DisconnectHandled ==
  \A c \in Conns :
    link[c] = "hup" /\ Authenticated(c)
      ~> state[IdOf[c]] = "DISCONNECTED" \/ Lost(IdOf[c]) \/ ~Running

\* Every command gets its effect: none waits in a buffer for the next byte of its connection.
CommandTakesEffect ==
  \A t \in Topics, id \in Ids :
    wanted[t][id] # topic_map[t][id] ~> wanted[t][id] = topic_map[t][id] \/ ~Running

-----------------------------------------------------------------------------
(***************************************************************************)
(* What the documentation, a comment or an assertion of the repository     *)
(* says and the code does not do: each is violated (README, section 3).    *)
(***************************************************************************)

\* server.cpp:35, DIE(cnt < 0, "send to sub"): news are only sent to descriptors that MultiSocket
\* knows. The datagram of a batch is handled before the batch's SOCK_CLOSE entries.
OnlineHasSocket ==
  Running /\ NextFd(Udp) /\ udp # <<>> =>
    \A id \in Online(Head(udp).topic) : ~SendFails(id)

\* readme.txt:55-57: an authentication is refused because another client uses the id. The client
\* whose SOCK_CLOSE entry was thrown away uses it for ever.
DeclinedBecauseInUse ==
  [][\A c \in Conns :
       down[c] = <<>> /\ down'[c] = <<[type |-> "AUTH_DUPLICATE"]>> =>
         \/ \E fd \in Open : tcp_sockets[fd] # c /\ IdOf[tcp_sockets[fd]] = IdOf[c]
         \/ \E fd \in Fds : sock_queue[fd] = "SOCK_CLOSE" /\ ids_map[fd] = IdOf[c]]_vars

\* readme.txt:73-76 and server.cpp:65: on connecting, a subscriber gets the news it missed while it
\* was disconnected. Those it has received on an earlier connection are sent again.
StoredNewsOnce ==
  \A c, d \in Conns : c # d /\ IdOf[c] = IdOf[d] =>
    \A i \in DOMAIN down[c], j \in DOMAIN down[d] :
      ~(down[c][i].type = "NEWS" /\ down[c][i] = down[d][j])

\* server.cpp:101, DIE(size > sizeof(packet), "tcp packet too big"): a packet is being handled. When
\* all that select() returned is a connection with part of a packet, there is none.
DescriptorAfterSelect == pc = "selected" => ~NoNextFd

\* test.py:354, "messages from topics not subscribed to are not received": a connection gets only
\* news that its own id subscribed to. After the loss of a SOCK_CLOSE entry, the sockfd of the id
\* that left stays, and leads to whoever gets the descriptor next.
NewsOnlyToOwnId ==
  \A c \in Conns : \A i \in DOMAIN down[c] :
    down[c][i].type = "NEWS" => IdOf[c] \in audience[down[c][i].n]

\* MultiSocket.cpp:124, "If the connection closes or the packet is too big": an entry SOCK_CLOSE
\* stands for a connection that has ended. That of a connection of which part of a packet was read
\* has the type fd_type was left with: the session of an open connection is ended.
ClosedEntryIsClosed ==
  pc = "selected" => \A fd \in Fds : sock_queue[fd] = "SOCK_CLOSE" => fd \notin Open

\* readme.txt:55-59: a refused subscriber stays, and may authenticate again. The server closes the
\* connection with the refusal.
RefusedStays ==
  \A c \in Conns : down[c] = <<[type |-> "AUTH_DUPLICATE"]>> =>
    link[c] = "hup" \/ (\E fd \in Open : tcp_sockets[fd] = c) \/ ~Running

=============================================================================
