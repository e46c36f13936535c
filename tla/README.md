# A verification project for the news server

The program is a publish/subscribe service. UDP clients publish news on topics; TCP clients
(`subscriber`) authenticate with an id, subscribe to topics with or without *store and forward*
(sf), and print the news they get. One single-threaded server sits between. These modules model the
server, the client, the `select()` loop both are built on, the framing protocol of their TCP
connections and the bytes of their packets; TLC checks them on small instances and TLAPS proves
their safety properties, refinements included, for all.

## 1. The system

| part | state | operations | calls / is called by |
|---|---|---|---|
| `MultiSocket` (MultiSocket.cpp) | `read_fds`, `fdmax`, `tcp_sockets` (fd to `BufferedTcpSocket`), `sock_queue` of ready descriptors, the current descriptor and its type | `select` (with the loop that reads and classifies), `get_next_fd`, `accept`, `close`, `send`, `recv`, `connect`, `is_udp`, `is_tcp_connection`, `has_closed` | used by server and client; owns the framed sockets |
| `BufferedTcpSocket` | the partial length, the partial packet, `packet_queue` of whole packets | `send`, `recv`/`read`, `packet_ready`, `write_packet`, `reset` | called by `MultiSocket` |
| server (server.cpp) | `topic_map` (topic, id: sf), `clients` (id: `state`, `sockfd`, `subs_queue`), `ids_map` (fd: id) | one iteration of `main` per ready descriptor: keyboard, datagram, new connection, end of a connection, packet | `MultiSocket`; packets from and to the clients |
| client (client.cpp) | its socket, the command being parsed | connect, authenticate, wait for the reply, loop over keyboard and news | `MultiSocket`, `tcp_app`, `subscriber` |
| `subscriber` (news codec) | none | `get_sendable_news`, `get_news_topic`, `parse_subscriber_news`, `new_subscriber` | server, client |
| `tcp_app` (command codec) | none | `generate_tcp_auth_packet`, `generate_tcp_sub_packet`, `change_tcp_type_packet`, `get_tcp_packet_type` | server, client |
| `topic` | - | dead code: topic.cpp is not in the Makefile | - |
| `utils` | - | `DIE`, `my_pow`, `max_int` | all |
| UDP client, tests, scripts | external programs | publish datagrams, drive the binaries | - |

There is no thread and no lock. What is hard is the *order*. One `select()` returns a batch; a first
loop reads every connection of the batch, and closes those that ended; only then are the descriptors
handed out one by one, lowest first, while the handlers accept (and reuse) and close descriptors,
and queues fill. A connection can thus be closed in the kernel, forgotten in `tcp_sockets`, still
queued, and connected in `clients`, all at once. A subscriber can leave at any moment and reconnect
before the server has seen it leave. TCP cuts packets anywhere. The complete list, each at its line,
is under `hazards` in PROJECT.json.

What makes each part correct:

- `MultiSocket`: every event of a batch is handed out once, with its type; no packet stays behind.
- `BufferedTcpSocket`: the packets that come out are those that went in; the copy stays in its
  buffer.
- server: the three records of a session agree; one session per id; news go to those subscribed, in
  order, once; stored news are kept and forwarded; commands take effect.
- client: prints each news once and whole, obeys its keyboard, ends with its connection.
- codecs: what is decoded is what was encoded.

## 2. Modules

| module | models | proofs |
|---|---|---|
| `MultiSocket` | the class, as operators that are parts of actions; the kernel's side of the sockets | |
| `Server` (EXTENDS MultiSocket) | `main()` of server.cpp and its environment; the properties | `ServerProofs`, `DeliveryProofs`, `CommandProofs` |
| `MCServer` | instances of `Server` for TLC | |
| `Framing` | `BufferedTcpSocket`, byte by byte, for one direction of a connection | `FramingProofs` |
| `PacketChannel` | what the framing protocol promises, implemented by `Framing` | `FramingProofs` |
| `Broker` | what the server promises: sessions, subscriptions, deliveries, without descriptors or batches | |
| `BrokerRefinement` (EXTENDS Server) | the refinement mapping from `Server` to `Broker` | `BrokerProofs` |
| `Subscriber` (INSTANCE MultiSocket) | `main()` of client.cpp, its server and its keyboard or pipe; the properties | `SubscriberProofs` |
| `ClientContract` | what `Server` assumes of a client, implemented by `Subscriber` | |
| `MCSubscriber` | the instance of `Subscriber` for TLC | |
| `Codec` | tcp_app.cpp, subscriber.cpp, `parse_subscription_cmd()` and the server's reading of packets, in bytes | `CodecProofs` |
| `MCCodec` | the inputs of `Codec` for TLC | |
| `DigitProofs` | no code: numbers in digits, for `FramingProofs` and `CodecProofs` | itself |

**MultiSocket.** `tcp_sockets`, `packet_queue` (of each `BufferedTcpSocket`) and `sock_queue` are
the members. `sock_queue` is filled only when empty and by a loop in ascending order, so that a
function from descriptors stands for it. The kernel is `link`, `up`, `backlog`, `udp`, `stdin`. A
connection is a value of `Conns`, one per run of a client; a descriptor is a number and is reused as
the kernel does, lowest first. `SelectReturns(R, P)` is `select()` with its classifying loop: any
nonempty set of readable descriptors, each read by one `recv()` that completes some of the packets
waiting. What a `recv()` does to the bytes is `Framing`'s matter; here a stream is the sequence of
its packets, and a `recv()` that completes none is allowed when `Fragments` is TRUE. The type of
such a connection's entry is that of the entry before it or, for the first, anything (`fd_type` is
then read uninitialized). `NextFd`, `Skipped`, `QueueAfter` are `get_next_fd()`, including the
entries it throws away.

**Server.** One action is one iteration of the loop of `main()`, from `get_next_fd()` to `continue`:
`HandleStdin`, `HandleUdp`, `HandleConnect`, `HandleClose`, `TcpNotReady`, `Auth`, `AuthDuplicate`,
`Subscribe`. `Select` is apart because events of the environment happen while it waits: `pc` is
`"selected"` until the iteration it belongs to ends. A failing `send()` or `DIE` ends the process:
`HandleUdpDies`, `AuthDies`, `NoDescriptor`, and `HandleUdpGarbled` for a connection handed out as
the UDP socket (what happens then is not followed). The environment is `Connect`, `SendAuth`,
`Command`, `Leave`, `Reset`, `Datagram`, `TypeLine`: clients as client.cpp behaves seen from the
server. A client that leaves with news unread resets its connection, which can cut the end of its
stream off. A packet that is lost whole is one that was not sent; `Reset` is the loss of one of
which a part was read. At the end of stdin (`"eof"`) stdin stays readable and `fgets()` leaves
`buffer` as it is, with any value, so that `HandleStdin` may take it for `exit` or not. `missed`,
`audience` and `wanted` are history variables that no guard reads. News are numbered in order of
publication; `down[c]` is all that was written to connection `c`, also when the client was already
gone.

**Framing.** One action is one iteration of the loop of `read()`. The variables are the members;
`size_bytes` holds the bytes of `expected_size` written so far (`read_size_index` is its length). A
payload byte is told from any other by its value, so that a misplaced cut shows. `RecvFails` is a
`recv()` of -1, after which `read()` is not called.

**Broker and its refinement.** A subscriber's login, refusal, command, delivery and logout are one
step each. `SessionOf(id)` maps the server's `sockfd`, `tcp_sockets` and `state` to the connection
that serves an id, which is none as soon as the connection has ended, or when its descriptor has
passed to another client: then `sockfd` leads to a stranger. A connection ends in three steps that
nothing synchronises (the subscriber leaves, its session ends, the id is free), and `Broker` says
what is allowed in between: news end the server (`PublishDies`) but are never kept, and never sent
to someone else. `select()`, `accept()` and most of `get_next_fd()` are stutters.

**Subscriber.** `pc` is the place in `main()`: before `connect()`, the authentication, its reply,
`select()`, `get_next_fd()`, `fgets()`, or how it ended (`"ended"`, `"dead"` by `DIE` or a signal,
`"spins"` in `fgets()` at the end of stdin). stdin has three stages: lines in the terminal or pipe
(`typed`), which is all `select()` sees, lines in stdio's buffer (`stdio`), and the line returned.
With `Burst` a `read()` brings several lines. `buffer` is `main`'s array: when no packet was ready,
what it holds is parsed again (`HandleStale`). The class is the same module `MultiSocket` as in the
server, with one connection. `ClientContract` is its outer behaviour: it authenticates first and
once, and commands follow a reply. Both modules name the environment's part that the other
implements.

**Codec.** A byte is a number below `Base`; `TopicLen` and `IdLen` stand for 50 and 11. The pipeline
is whole: a line goes through `parse_subscription_cmd()`, `generate_tcp_sub_packet()`, the copy and
terminator of `process_tcp_client_packet()` and into `topics`; a datagram through
`get_sendable_news()`, `get_news_topic()`, the lookup, `parse_subscriber_news()` and into `shown`.
The client's `topic` and `news` keep their bytes from one command or news to the next. `wanted` and
`published` are the reference: what was typed and what was sent. `Short` and `Long` are a number in
two and four bytes as the UDP clients send it, `Number` and `Native` what the host reads from them.

## 3. What TLC checks

| run | instance | shows |
|---|---|---|
| `server` | 3 connections (2 of one id), 3 descriptors, 2 packets each (`SUB_SF`, `UNSUB`), 1 datagram | tables, sockets and queue agree (`SessionBound`, `SessionLive`, `OneSessionPerId`); nothing stranded (`NoStrandedPacket`); reply first, news only to subscribers; an id is refused only if in use |
| `server_pair` | 2 connections of one id, 2 topics, 3 packets each, all commands, 2 datagrams | order of news, stored news forwarded, no command lost with its connection, exact delivery at each datagram |
| `server_fragments` | 2 connections of one id, partial reads, resets inside a packet, the keyboard and its end | what survives entries of any type |
| `server_live` | 2 connections of one id, `SUB_SF` and `UNSUB`, 1 datagram, the end of stdin (any outcome of `fgets()`); fair | authentications are answered, ends of connections noticed, commands carried out |
| `subscriber` | 2 news, one of each kind, 2 lines of any kind, a pipe, 1 partial read; fair | news printed once, in order; the client ends only for a reason, and waits for the keyboard only after a bad line; it is the client `Server` assumes; news and lines are handled in the end |
| `codec` | topic field of 2 bytes, ids of 1 to 3, topics of 1 to 3, every data type | topics and sf arrive as typed; news match topics shorter than the field; what is shown is what was sent |
| `framing` | 3 packets of 0, 1, 3, 6, 7 bytes, base 2, `recv()` of at most 9 bytes | prefix, completeness, bounded copies; implements `PacketChannel`; delivers |
| `send_to_closed`, `misdelivered`, `stored_twice`, `fragment_alone`, `long_topic` | instances of the size of those above | the findings below |

`server`, `server_pair` and `server_live` also check `ImplementsBroker`. Each run is `tlc -workers 2
-config <run>.cfg M`, where M is `Framing` for `framing`, `MCSubscriber` for `subscriber`, `MCCodec`
for `codec` and `long_topic`, and `MCServer` for the others; the proofs of each module `P` of the
last column of section 2 are checked by `tlapm P.tla`.

*Bounds.* A second connection of the same id is what reconnection, duplicates and descriptor reuse
need, and a third, of another id, is what misdelivery and the skip loop of `get_next_fd()` need: one
with packets, one that ends, one that takes a freed descriptor. Two packets are one authentication
and one command; the third of `server_pair` makes a subscription to each topic, or a change of one,
possible. Two datagrams are the least that can be out of order. In `framing` a byte has two values,
so that lengths up to 7 have headers with several digits; a `recv()` of 9 bytes can span a packet
and the next header. In `subscriber` two news and two lines are enough for one to be left behind,
and one of each kind of news for both outcomes of parsing a buffer again. In `codec` a field of two
bytes has topics below, at and above its length, and Base 16 leaves room for characters that are no
type; the numbers have digits that differ, so that a swap shows, and `Port` too. `MaxSent`,
`MaxNews`, `MaxPackets`, `Lengths`, `Commands`, `Lines`, `MaxLines`, `LineKinds`, `MaxPartials`,
`Words`, `Names`, `IdWords`, `Contents` are the only bounds and are in guards or are the sets of
inputs. The keyboard touches nothing but the queue of ready descriptors and the end of the process,
so that it is left to the two smallest runs. *Symmetry*: the connections of one id, and the two
topics, are interchangeable; no run that uses symmetry checks liveness (`server_live`, `subscriber`,
`framing` use none).

*Deadlock* is not checked: the server waits in `select()` when nothing arrives, and the process
ends.

*Fairness.* `framing`: weak fairness of the receiver's steps, as `select()` returns while bytes or
the end of the stream wait, `recv()` is then called, and packets are taken until none is ready
(readme.txt, steps 3-6). `server_live`: weak fairness of the loop, which is a process that runs, and
strong fairness of `Select` for each descriptor. `select()` reports every descriptor that is ready
when it is called; the model lets it report any nonempty subset, since events may arrive just after,
so fairness says that a descriptor that stays ready is reported in the end. `subscriber`: the same
for its `main()`, its stdin and its connection. Nothing is assumed of users, subscribers and UDP
clients.

*Restrictions of the properties.* Once `get_next_fd()` has thrown away the `SOCK_CLOSE` entry of an
id, what the server believes about that id is wrong for good (finding 2). Properties that this
breaks are stated for behaviours without such a loss (`missed = {}`) or for the other ids: so are
`ReplyComesFirst`, `NewsOnlyToSubscribers`, `NewsInOrder`, `StoredIsForwarded` and
`NewsReachesSubscribers`. What happens after a loss is shown by finding 2 and by
`DeclinedBecauseInUse` (below). Only entries of connections can be lost: stdin, the datagram socket
and the listener have the lowest descriptors and are handed out first. Under `Fragments` an open
connection can be taken for closed: its id is freed and can log in again on another connection, and
its commands are ignored. `OneSessionPerId`, `StoredIsForwarded`, `SubscriptionsUpToDate`,
`NewsReachesSubscribers` and `ImplementsBroker` are therefore claimed for whole packets only
(`~Fragments`, which their theorems assume); the other invariants hold with partial reads too.
`ImplementsBroker` asks for a broker's step only until the first loss. `DeclinedOnlyIfInUse` counts
a connection as in use until its `SOCK_CLOSE` entry is handled: the subscriber may have left, and
the server has not got to that entry of its batch. The liveness of the server is stated for
behaviours in which it does not die and nothing is lost. In `subscriber`, `NewsPrinted` and
`EndsWithServer` leave out a client that waits in `fgets()` for ever, where a bad line has led it
(client.cpp:130, 143); `LinesHandled` leaves out lines that stay in stdio's buffer. Both exceptions
are what the code does; `BlockedOnlyByBadLine` bounds the first.

### Findings

1. `send_to_closed`: a datagram in the same batch as the end of a subscriber to its topic is handled
   first; the connection is already forgotten, `send` gives -1, `DIE` at server.cpp:35.
2. `misdelivered`: `get_next_fd()` pops any entry behind a drained `SOCK_TCP` one
   (MultiSocket.cpp:176-185). After the loss of its `SOCK_CLOSE` an id that left keeps its `sockfd`;
   `accept()` gives the descriptor to the next client, and `send_news_to_subscribers()`
   (server.cpp:61) sends it the news of the id that left (test.py:354: news not subscribed to are
   not received).
3. `stored_twice`: `unload_news_queue()` takes the subscriber by value (server.cpp:68); stored news
   come again at each reconnection (readme.txt:73-76).
4. `fragment_alone`: when all that `select()` returned is part of a packet, its entry can be typed
   `SOCK_TCP`, `get_next_fd()` returns -1 and `main` handles a packet of size -1; `DIE` at
   server.cpp:101.
5. `long_topic`: a topic of 50 bytes has no terminator in its datagram; `get_news_topic()` reads on
   into the data type, and unless that is 0 (INT) the topic is another one. readme.txt:68-69 gives a
   topic 50 bytes; the subscription keeps all 50.

*Divergences without a run.* Each is a property at the end of its module; TLC finds it violated when
it stands in place of the properties of the configuration named.

| property | configuration | divergence |
|---|---|---|
| `Server!DeclinedBecauseInUse` | server.cfg | After the loss of finding 2 the id stays connected for ever, and every later client of that id is refused though no other one uses it (readme.txt:55-57). |
| `Server!ClosedEntryIsClosed` | server_fragments.cfg | `fd_type` is not assigned when a `recv()` completes no packet (MultiSocket.cpp:115, 128-130). Behind a connection that ended, an open one is queued as `SOCK_CLOSE` and `main` ends its session. |
| `Server!RefusedStays` | server.cfg | A refused client should stay and may authenticate again (readme.txt:57-58); the server closes its connection with the reply (server.cpp:183). |
| `Subscriber!PrintsOnlyPackets` | subscriber.cfg | `main` of the client parses `buffer` without asking `packet_ready()` (client.cpp:160; readme.txt:125-130 says to ask). After a read inside a packet it prints a line made of the last packet. |
| `Subscriber!CommandHasSocket` | subscriber.cfg | A command typed as the server ends is handled first, as stdin is lowest in the batch; the connection is already forgotten, `send` gives -1, `DIE` at client.cpp:148. |
| `Framing!ReadyWhenRead` | framing.cfg | `read_current_packet()` returns before it queues a packet of size 0 that ends the bytes at hand (BufferedTcpSocket.cpp:50); it is ready only with a byte of the next one (BufferedTcpSocket.h:32). |

## 4. What is proved

All proofs hold for any constants that satisfy the named ASSUMEs (`ConnsAssumption`,
`FdsAssumption`, `BoundAssumption`, `IdsAssumption`, `InputsAssumption`, `FramingAssumption`,
`LinesAssumption`, `BoundsAssumption`, `SizesAssumption`): any number of connections, descriptors,
ids, topics, packets and datagrams, and `Fragments` TRUE or FALSE where no theorem says `ASSUME
~Fragments`. In `Codec` the inputs are restricted: the topic of a datagram fits in its field, since
the field is all the datagram has of it, and a value fits in the bytes that its type has (`Fits`);
words and ids have any length. TLC evaluates each assumption in a run.

### Framing

`FramingProofs`, first the buffers: `DecoderCorrect` and `DecoderTypes` (`TypeOK`,
`DecoderBounded`). The lemma `ReadBytesKeepsBalance` carries them: what is copied is no longer
expected, so copied + expected = allocated.

Then the channel, in three parts. *The header*: `DecodeEncode`, four digits give the number back
(`FourDigits` of `DigitProofs`, from the uniqueness of quotient and remainder, `DivisionUnique`).
*The stream*: a sequence of bytes is the frames of a sequence of packets (`Framed`) when there is a
function `cut` that says where each frame ends; `FirstPacket` takes the first packet off a stream
that begins with a whole one, `AppendPacket` adds one at the end. `cut` stands where a recursive
concatenation would need induction. *The invariant* (`ChannelInv`): the bytes of the packet being
read, those of `recv()` and those still in the kernel are together the frames of the packets that
have not come out. Each step of `read()` moves a boundary inside that stream (`SameStream`) or takes
its first packet off. From it follow `DecodedInOrder`, `DecodedCompletely` and `ImplementsChannel`.

### The server

`ServerProofs` begins with the base. `TypeCorrect` is inductive as it stands (`CopiesAreSeq` for
`Forward`). `SessionBoundCorrect`: in `Auth` the id is not connected, so by the invariant itself no
other descriptor is bound to it; `HandleClose`, by the same uniqueness, cannot disconnect the id of
another one. `NoStrandedPacketCorrect`: `select()` runs only when nothing is left to hand out, every
read that leaves a packet queues a `SOCK_TCP` entry, and `get_next_fd()` never pops the entry of a
ready packet.

Its second part follows a connection. It is in the backlog or on one descriptor (`ConnsInv`). What
the kernel and the buffer hold of its stream is one authentication, with its own id, and commands
once it was answered (`StreamInv`; this uses the part of the environment that `Subscriber` is proved
to implement). So a descriptor authenticates once, and the records of a session agree
(`SessionInv`): a bound descriptor serves its id or waits with a `SOCK_CLOSE` entry, and a connected
id has a bound descriptor. `SessionLiveCorrect` is a consequence, `DeclinedCorrect` a property of
the one step that refuses. `OnlyEndedConnectionsKill` bounds finding 1: while no `SOCK_CLOSE` entry
waits and none was lost, everyone that news go to has an open descriptor.

`DeliveryProofs`. A batch is handed out lowest descriptor first, so the datagram comes before any
`accept()` of the batch can reuse a descriptor (`BatchInv`): whoever `send` reaches through `sockfd`
is the id's own connection, unless the id's entry was lost. From this follow
`ReplyComesFirstCorrect`, `NewsOnlyToSubscribersCorrect` (with `audience`, at the time of each
datagram) and `NewsInOrderCorrect`: a datagram that waits is newer than all that was sent or stored
(`Numbers`). With whole packets an accepted connection stays bound (`Bound`), and what is
accepted on a descriptor closed in this batch has not authenticated yet (`ReusedInBatch`); so
`OneSessionCorrect` and `StoredIsForwardedCorrect`.

`CommandProofs`. For each session and topic, the last command on its way about that topic, or
`topic_map` when there is none, agrees with what was asked for (`Current`, `WantedInv`); for an id
without a session `topic_map` does. A connection is closed only once its last packet was read, from
the kernel and from the buffer, which `NoStrandedPacket` empties before `select()` (with whole
packets; `Reset` leaves a prefix of the stream, which `StreamInv` allows and this does not). This
gives `SubscriptionsUpToDateCorrect` and, at each datagram, `NewsReachesSubscribersCorrect`.

`BrokerProofs` is the step simulation of `Broker`. It needs all the invariants above, and that with
whole packets each entry has the right type (`Typed`) and `select()` leaves one to hand out
(`Selected`, by the least descriptor of the batch, from well-foundedness). `Selected` is also
`DescriptorAfterSelectCorrect`: with whole packets `main()` never goes on with descriptor -1, so
that finding 4 is due to partial reads alone. `SessionOf` changes in `Auth` and in the `select()`
that closes the connection; `HandleClose` finds it gone. The simulation ends with the first lost
entry, as `ImplementsBroker` does.

### The client

`SubscriberProofs`, for any number of news, lines and partial reads.

- `ClientKeepsContract` (`Subscriber` implements `ClientContract`): a step simulation, one case per
  action. The invariant (`StreamsOK`, `StagesOK`) says that a `TYPE_AUTH` in a buffer was sent by
  the server, and that the loop was reached through one; a command in the loop is then one after a
  reply.
- `WaitsOnlyAfterBadLine` (`BlockedOnlyByBadLine`): stdin's entry is queued only while a line, or
  the end of stdin, waits in the kernel, is popped when it is handed out, and nothing reads a line
  while it is queued (`StdinOK`).
- `OnlyNewsInLoop` (`TypeOK`): besides types, that the first packet alone is no news
  (`NewsBehind`). `RecvMoves` says what one `recv()` moves; the order of the stream then keeps the
  reply first until it is taken, before the loop.
- `PrintedCorrect` (`PrintedInOrder`): the number of each news in the buffer and in the kernel is
  its place counted from the last one printed (`NumbersOK`), so that the next one printed has the
  next number. A line printed for a part of a packet was an entry of another type (`Odd`) first, and
  each of those is one of the `partials`. `Fresh` is a set of places so that the library's facts
  about cardinality apply.
- `EndsCorrect` (`EndsForAReason`): with whole packets an entry `SOCK_CLOSE` means that the
  connection is closed (`EntryOK`), a closed one was left by the server (`EndOK`), and a refusal in
  the buffer was sent (`RefusedOK`).

### The codecs

`CodecProofs`, for bytes of any base, fields of any length and either order of bytes of the hosts.

- Strings: `CStringIs` says when the string at a place of memory is `w`, namely when its characters
  come first and then a 0, or the end. Every reading of a string is an instance of it: a field
  (`CStringOfField`, which gives the first characters of a word, as many as the field holds), the
  packet of a command with its terminator (`SubPacketIsRead`, `IdIsRead`), a topic in a packet of
  news, with other memory behind it (`TopicIsFound`).
- Numbers: `ShortIsRead` and `LongIsRead`, from `TwoDigits` and `FourDigits`; on a host of either
  order the two reversals cancel (`NativeSwapTwo`, `NativeSwapFour`). `SignedIsRead` adds the sign.
- Packets: `PacketFields` finds the four fields of news behind one another; `NewsIsParsed` and
  `ValueIsRead` put them together, by the data type.

The invariant (`Inv`) is the conjunction of what the run checks: with the server's map as it was
asked for, each step understands the bytes that it reads. From it `TypeCorrect`, `IdsAreUnderstood`,
`LinesAreUnderstood`, `ShortTopicsAreFound` and `NewsAreUnderstood`. `OnlyLongTopicsAreLost` is the
other side of finding 5: if every topic is shorter than its field, `TopicsMatch` holds. No
definition needs induction over data: a string or a number has a fixed number of parts, or is
compared place by place.

### Only model-checked

- Liveness of `Server`, `Framing` and `Subscriber`: out of the prover's reach.
- The findings and the other divergences of section 3, each a counterexample.

## 5. Plan

1. (done) `MultiSocket`, `Server`, `Framing`, their runs, `ServerProofs`, `FramingProofs`.
2. (done) `Subscriber` and `ClientContract`: client.cpp on the same `MultiSocket`, with liveness.
3. (done) `Codec`: commands and news in bytes against a reference.
4. (done) Liveness of the server.
5. (done) `Broker`, implemented by `Server` in behaviours without a lost entry.
6. (done) Proofs: every safety invariant and action property of `Server`, `Framing`,
   `Subscriber` and `Codec` that a passing run checks, and the refinements of `PacketChannel`,
   `Broker` and `ClientContract`.
7. (not done) A composition of several `Subscriber`s with `Server` in one state space;
   `ClientContract` stands for it now.

## 6. Not modelled

- Printed text and `print_hex`; the formatting of numbers and `my_pow` (floating point: `Codec`
  keeps hundredths, and mantissa and exponent).
- The capacity of kernel buffers, so that a blocking `send()` does not stop the server;
  `FD_SETSIZE`; failures of `socket`, `bind`, `listen`, `select`.
- Clients other than the one shipped (a second authentication on one connection, commands before the
  reply).
- Resets apart from the end of a stream: `recv()` is taken to give the bytes that arrived before it
  fails, so that a command cut off whole by a reset counts as not sent (`SubscriptionsUpToDate` and
  `CommandTakesEffect` speak of the others).
- What follows when a connection's bytes were published as a datagram (`"garbled"`): no property
  says anything of it.
- The server's stdio buffer: lines that one `read()` of a pipe brings count as typed when `select()`
  next reports stdin.
- Datagrams too short for their type; hosts whose orders of bytes differ; lines longer than
  `MAX_COMMAND_SIZE`.
- A typed topic beyond what `strncpy()` keeps of it: the reference of `Codec` (`WantedAfter`) takes
  its first bytes as what was meant.
- The byte that `buffer[strlen(buffer) - 1] = 0` writes before the array when `fgets()` returned
  nothing (client.cpp:126).
- topic.cpp, which is not compiled; the UDP client and the test scripts, which appear as the actions
  of the environment.
