------------------------------- MODULE Codec --------------------------------
(***************************************************************************)
(* What the packets carry: a line typed at a subscriber becomes a topic of *)
(* topic_map in the server (parse_subscription_cmd(), tcp_app.cpp,         *)
(* process_tcp_client_packet()); a datagram becomes a line printed by the  *)
(* subscriber (subscriber.cpp).  One subscriber, one server, the bytes in  *)
(* between.                                                                *)
(*                                                                         *)
(* A byte is a number below Base; 0 ends a C string.  The characters of    *)
(* topics and ids are bytes above the macros TYPE_* and DATA_TYPE_*.       *)
(***************************************************************************)
EXTENDS Integers, SequencesExt

CONSTANTS
  Base,          \* values of a byte
  LittleEndian,  \* the order of a number's bytes in memory, on both hosts
  TopicLen,      \* TOPIC_LEN
  IdLen,         \* CLIENT_ID_LEN
  Words,         \* bound: the words typed for a topic
  Names,         \* bound: the topics of datagrams
  IdWords,       \* bound: the ids given on the command line
  Contents,      \* bound: what is published, see Datagrams
  Port           \* the port of the sender of datagrams

DATA_TYPE_INT          == 0
DATA_TYPE_SHORT_REAL   == 1
DATA_TYPE_FLOAT        == 2
DATA_TYPE_STRING       == 3
DATA_TYPE_OTHER        == 4   \* any other data type

TYPE_AUTH           == 1
TYPE_SUB            == 2
TYPE_SUB_SF         == 3
TYPE_UNSUB          == 4
TYPE_AUTH_DUPLICATE == 5
TYPE_INVALID        == 7

Chars == (TYPE_INVALID + 1)..(Base - 1)

ASSUME SizesAssumption ==
  /\ Base \in Nat /\ Base > TYPE_INVALID + 1 /\ LittleEndian \in BOOLEAN
  /\ TopicLen \in Nat \ {0} /\ IdLen \in Nat \ {0} /\ Port \in 0..(Base * Base - 1)

\* What is published has a type and a value, which fits in the bytes that a datagram has for it:
\* <<number>> for INT, <<hundredths>> for SHORT_REAL, <<mantissa, negative exponent of ten>> for
\* FLOAT, the characters for STRING; a number has four bytes and a sign, hundredths have two.
Fits(content) ==
  LET value == content.value
      signed == value[1] < Base * Base * Base * Base /\ -value[1] < Base * Base * Base * Base
  IN  /\ content.type = DATA_TYPE_INT        => Len(value) = 1 /\ signed
      /\ content.type = DATA_TYPE_SHORT_REAL => Len(value) = 1 /\ value[1] \in 0..(Base * Base - 1)
      /\ content.type = DATA_TYPE_FLOAT      =>
           Len(value) = 2 /\ signed /\ value[2] \in 0..(Base - 1)

ASSUME InputsAssumption ==
  /\ Words \cup Names \cup IdWords \subseteq Seq(Chars) \ {<<>>}
  /\ \A name \in Names : Len(name) <= TopicLen
  /\ Contents \subseteq [type : DATA_TYPE_INT..DATA_TYPE_OTHER, value : Seq(Int)]
  /\ \A content \in Contents : Fits(content)

\* A datagram names a topic.
Datagrams == [name : Names, content : Contents]

\* A line, as strtok() cuts it; <<>> and "none" are missing words, "1" any word that begins so.
Lines == [command : {"subscribe", "unsubscribe", "other"}, topic : Words \cup {<<>>},
          sf : {"0", "1", "none"}]

VARIABLES
  id,         \* the id given on the client's command line
  inUse,      \* another client uses it
  known,      \* the id in the server's tables
  status,     \* of the client: "start", "dead", "refused" or "accepted"
  topic,      \* the client's buffer of TOPIC_LEN bytes
  topics,     \* the server's subscriptions of this client: pairs <<topic, sf>>
  wanted,     \* history: what the lines asked for, in the same form
  published,  \* history: <<d>> if the last step published datagram d, else <<>>
  delivered,  \* history: the server sent it to the client
  shown       \* the client's struct subscriber_news

vars == <<id, inUse, known, status, topic, topics, wanted, published, delivered, shown>>

\* topic is not initialised.
Init ==
  /\ id \in IdWords /\ inUse \in BOOLEAN /\ known = <<>> /\ status = "start"
  /\ topic \in [1..TopicLen -> 0..(Base - 1)]
  /\ topics = {} /\ wanted = {}
  /\ published = <<>> /\ delivered = FALSE
  /\ shown = [port |-> 0, topic |-> <<>>, data_type |-> DATA_TYPE_OTHER, value |-> <<>>]

-----------------------------------------------------------------------------
(***************************************************************************)
(* Mutated forms of definitions below, used by the runs only.              *)
(***************************************************************************)

\* change_tcp_type_packet() forgets the type.
DeclinedKept(packet) == packet
\* The packet's end is not marked: the bytes of an earlier packet follow.
TerminatorNone == <<8>>
\* No ntohs(), ntohl(), htons().
SwapNone(bytes) == bytes
\* memcpy() of the characters only: those of the last topic stay behind them.
StrncpyUnpadded(string, n) ==
  [i \in 1..n |-> IF i <= Len(string) THEN string[i] ELSE IF n = TopicLen THEN topic[i] ELSE 0]
\* The type of the command is stored as sf.
SfOfType(type) == type

-----------------------------------------------------------------------------
(***************************************************************************)
(* Memory: C strings, and numbers in the order of the host.                *)
(***************************************************************************)

\* The bytes before the first 0.
CString(bytes) ==
  LET end == SelectInSeq(bytes, LAMBDA byte : byte = 0)
  IN  IF end = 0 THEN bytes ELSE SubSeq(bytes, 1, end - 1)

\* strncpy() into n bytes: cut, or padded with 0.
Strncpy(string, n) == [i \in 1..n |-> IF i <= Len(string) THEN string[i] ELSE 0]

\* htons(), ntohs(), ntohl() on the bytes of a number.
Swap(bytes) == IF LittleEndian THEN Reverse(bytes) ELSE bytes

\* Two or four bytes as a number, the most significant one first.
Number(bytes) ==
  IF Len(bytes) = 2 THEN bytes[1] * Base + bytes[2]
  ELSE ((bytes[1] * Base + bytes[2]) * Base + bytes[3]) * Base + bytes[4]

\* The number that they are in memory: uint16_t, uint32_t.
Native(bytes) == Number(IF LittleEndian THEN Reverse(bytes) ELSE bytes)

-----------------------------------------------------------------------------
(***************************************************************************)
(* tcp_app.cpp, and how the server reads its packets.                      *)
(***************************************************************************)
AuthPacket(string)    == <<TYPE_AUTH>> \o Strncpy(string, IdLen)
SubPacket(type, field) == <<type>> \o CString(field)
Declined(packet)      == <<TYPE_AUTH_DUPLICATE>>
TypeOf(packet)        == IF Len(packet) < 1 THEN TYPE_INVALID ELSE packet[1]

\* process_tcp_client_packet(): packet[size] = 0.
Terminator == <<0>>

\* auth->id and sub->topic.
StringOf(packet) == CString(Tail(packet) \o Terminator)

\* client.cpp's main() until the reply; the reply is the packet itself, or a declined one.
Authenticate ==
  /\ status = "start"
  /\ IF Len(id) >= IdLen THEN status' = "dead" /\ UNCHANGED known
     ELSE LET reply == IF inUse THEN Declined(AuthPacket(id)) ELSE AuthPacket(id)
          IN  /\ known' = StringOf(AuthPacket(id))
              /\ status' = IF TypeOf(reply) = TYPE_AUTH THEN "accepted" ELSE "refused"
  /\ UNCHANGED <<id, inUse, topic, topics, wanted, published, delivered, shown>>

-----------------------------------------------------------------------------
(***************************************************************************)
(* Commands: parse_subscription_cmd(), generate_tcp_sub_packet().          *)
(***************************************************************************)

\* strncpy() before the third word is looked at: an incomplete line changes the buffer too.
TopicAfter(line) ==
  IF line.command = "other" \/ line.topic = <<>> THEN topic ELSE Strncpy(line.topic, TopicLen)

IsCommand(line) ==
  /\ line.command # "other" /\ line.topic # <<>>
  /\ line.command = "subscribe" => line.sf # "none"

SfSet(sf) == sf = "1"

TypeFor(line) ==
  IF line.command = "unsubscribe" THEN TYPE_UNSUB
  ELSE IF SfSet(line.sf) THEN TYPE_SUB_SF ELSE TYPE_SUB

\* The server's map after a packet.
SfOf(type) == IF type = TYPE_SUB THEN 0 ELSE 1

TopicsAfter(packet) ==
  LET t == StringOf(packet)
  IN  {pair \in topics : pair[1] # t} \cup
      {<<t, SfOf(type)>> : type \in {TypeOf(packet)} \cap {TYPE_SUB, TYPE_SUB_SF}}

\* What the user means by a line: a topic of at most TopicLen characters.
WantedAfter(line) ==
  LET len  == IF Len(line.topic) < TopicLen THEN Len(line.topic) ELSE TopicLen
      name == SubSeq(line.topic, 1, len)
  IN  {pair \in wanted : pair[1] # name} \cup
      {<<name, sf>> : sf \in IF line.command = "unsubscribe" THEN {}
                             ELSE IF line.sf = "1" THEN {1} ELSE {0}}

Command(line) ==
  /\ status = "accepted"
  /\ topic' = TopicAfter(line)
  /\ IF IsCommand(line)
     THEN topics' = TopicsAfter(SubPacket(TypeFor(line), topic')) /\ wanted' = WantedAfter(line)
     ELSE UNCHANGED <<topics, wanted>>
  /\ published' = <<>> /\ delivered' = FALSE
  /\ UNCHANGED <<id, inUse, known, status, shown>>

-----------------------------------------------------------------------------
(***************************************************************************)
(* News: from a datagram to the line a subscriber prints.                  *)
(***************************************************************************)

\* The sender: n in two or four bytes, most significant first; sign bytes are 0 and 1.
Short(n)  == <<(n \div Base) % Base, n % Base>>
Long(n)   == <<(n \div (Base * Base * Base)) % Base, (n \div (Base * Base)) % Base>> \o Short(n)
Sign(n)   == IF n < 0 THEN 1 ELSE 0
Abs(n)    == IF n < 0 THEN -n ELSE n
Signed(n) == <<Sign(n)>> \o Long(Abs(n))

Payload(content) ==
  CASE content.type = DATA_TYPE_INT        -> Signed(content.value[1])
    [] content.type = DATA_TYPE_SHORT_REAL -> Short(content.value[1])
    [] content.type = DATA_TYPE_FLOAT      -> Append(Signed(content.value[1]), content.value[2])
    [] OTHER                               -> content.value

Datagram(d) == Strncpy(d.name, TopicLen) \o <<d.content.type>> \o Payload(d.content)

\* get_sendable_news(): the port, in host order, before the datagram (the address is left out).
Sendable(datagram) == Swap(Short(Port)) \o datagram

\* get_news_topic(): a C string, in memory that goes on beyond the packet.
NewsTopic(packet, beyond) == CString(SubSeq(packet, 3, Len(packet)) \o beyond)

\* parse_subscriber_news(). An unknown data type leaves the data type and value of the last news.
ParseNews(packet) ==
  LET field == SubSeq(packet, 3, TopicLen + 2)
      type  == packet[TopicLen + 3]
      buf   == SubSeq(packet, TopicLen + 4, Len(packet))
      sign  == IF buf[1] # 0 THEN -1 ELSE 1
      Net(i, j) == Native(Swap(SubSeq(buf, i, j)))
  IN  [port      |-> Native(SubSeq(packet, 1, 2)),
       topic     |-> CString(field \o <<0>>),
       data_type |-> IF type \in DATA_TYPE_INT..DATA_TYPE_STRING THEN type ELSE shown.data_type,
       value     |-> CASE type = DATA_TYPE_INT        -> <<sign * Net(2, 5)>>
                       [] type = DATA_TYPE_SHORT_REAL -> <<Net(1, 2)>>
                       [] type = DATA_TYPE_FLOAT      -> <<sign * Net(2, 5), buf[6]>>
                       [] type = DATA_TYPE_STRING     -> buf
                       [] OTHER                       -> shown.value]

Publish(d) ==
  /\ status = "accepted"
  /\ published' = <<d>>
  /\ \E beyond \in {<<0>>, <<8, 0>>} :
       LET packet == Sendable(Datagram(d))
       IN  /\ delivered' = \E pair \in topics : pair[1] = NewsTopic(packet, beyond)
           /\ shown' = IF delivered' THEN ParseNews(packet) ELSE shown
  /\ UNCHANGED <<id, inUse, known, status, topic, topics, wanted>>

Next ==
  \/ Authenticate
  \/ \E line \in Lines : Command(line)
  \/ \E d \in Datagrams : Publish(d)

Spec == Init /\ [][Next]_vars

-----------------------------------------------------------------------------
(***************************************************************************)
(* Properties.                                                             *)
(***************************************************************************)

\* The values of the variables: in particular sf is 0 or 1, and once a command was understood the
\* client's buffer is a string that is padded with 0 up to its end.
TypeOK ==
  /\ status \in {"start", "dead", "refused", "accepted"}
  /\ topic \in [1..TopicLen -> 0..(Base - 1)]
  /\ topics # {} => /\ topic \in [1..TopicLen -> Chars \cup {0}]
                    /\ \A i, j \in 1..TopicLen : i < j /\ topic[i] = 0 => topic[j] = 0
  /\ \A pair \in topics : pair[1] \in Seq(Chars) /\ pair[2] \in {0, 1}
  /\ delivered \in BOOLEAN

\* The server knows the client by the id it was given, and the client tells the two replies apart:
\* the declined one is only its first byte (change_tcp_type_packet()).
AuthUnderstood ==
  status \in {"refused", "accepted"} => known = id /\ (status = "accepted" <=> ~inUse)

\* After any sequence of lines, complete or not, the server's map holds the topics and the sf that
\* they asked for: no byte of an earlier topic or packet, none lost, none too many.
SubscriptionsDecoded == topics = wanted

Subscribed(name) == \E pair \in wanted : pair[1] = name

\* News reach the client exactly when it is subscribed to their topic, if the topic is shorter
\* than its field or the data type, the next byte, is 0 (get_news_topic(), subscriber.cpp:56).
ShortTopicsMatch ==
  \A i \in DOMAIN published :
    Len(published[i].name) < TopicLen \/ published[i].content.type = DATA_TYPE_INT =>
      (delivered <=> Subscribed(published[i].name))

\* What is printed is what was published: the topic, the type, the value with its sign, and the
\* sender's port, whatever the order of bytes of the hosts and whatever was printed before.
ShownIsPublished ==
  delivered =>
    LET d == published[1]
    IN  /\ shown.topic = d.name /\ shown.port = Port
        /\ d.content.type # DATA_TYPE_OTHER => shown.data_type = d.content.type
                                            /\ shown.value = d.content.value

\* readme.txt:68-69 and 80-81: the topic is a string of 50 bytes. News on a topic of that length
\* do not reach its subscribers unless they hold an INT.
TopicsMatch ==
  \A i \in DOMAIN published : delivered <=> Subscribed(published[i].name)

=============================================================================
