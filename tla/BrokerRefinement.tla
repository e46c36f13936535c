-------------------------- MODULE BrokerRefinement --------------------------
(***************************************************************************)
(* Server implements Broker as long as get_next_fd() throws away no        *)
(* SOCK_CLOSE entry.                                                       *)
(***************************************************************************)
EXTENDS Server

\* The connection that sockfd leads to, if it is one of the id: a connection that ended while its
\* entry waits, or a new one on its descriptor, serves nobody.
SessionOf(id) ==
  LET fd == sockfd[id]
  IN  IF /\ state[id] = "CONNECTED" /\ fd \in Open
         /\ Authenticated(tcp_sockets[fd]) /\ IdOf[tcp_sockets[fd]] = id
      THEN tcp_sockets[fd] ELSE NoConn

Broker == INSTANCE Broker WITH
  posted       <- udp,
  subscription <- topic_map,
  online       <- {id \in Ids : state[id] = "CONNECTED"},
  session      <- [id \in Ids |-> SessionOf(id)],
  kept         <- subs_queue,
  inbox        <- down,
  gone         <- {c \in Conns : link[c] \in {"hup", "shut"}},
  alive        <- Running

\* Every step of the server (main() and its handlers), seen through the mapping, is a step of the
\* broker: who is served, refused or freed, and who gets, or has kept for it, which news, whatever
\* the order in which a batch of events is handled; and only those who left can end the server.
ImplementsBroker == Broker!Init /\ [][Broker!Next \/ missed' # {}]_(Broker!vars)

=============================================================================
