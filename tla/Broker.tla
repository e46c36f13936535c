------------------------------- MODULE Broker -------------------------------
(***************************************************************************)
(* What the server promises to its users, without descriptors, batches or  *)
(* queues of ready events: subscribers log in, change their subscriptions  *)
(* and leave; each news is delivered to, or kept for, the subscribers of   *)
(* its topic in one step.  BrokerRefinement shows that Server implements   *)
(* it until an entry of the queue is lost.                                 *)
(*                                                                         *)
(* A connection ends in three steps that nothing synchronises: the         *)
(* subscriber leaves (gone), its session ends, and only then does the id   *)
(* become free again.  In between, its news are lost, or end the server.   *)
(***************************************************************************)
EXTENDS Integers, Sequences

CONSTANTS Ids, Conns, NoConn, IdOf, Topics, News, NotSub

VARIABLES
  posted,       \* news posted and not yet published
  subscription, \* subscription[t][id]: NotSub, 0 or 1 (keep news while offline)
  online,       \* ids that count as connected
  session,      \* session[id]: the connection that serves id, or NoConn
  kept,         \* kept[id]: news kept for id
  inbox,        \* inbox[c]: what was sent to c
  gone,         \* connections one end of which is closed
  alive         \* the server runs

vars == <<posted, subscription, online, session, kept, inbox, gone, alive>>

Init ==
  /\ posted = <<>>
  /\ subscription = [t \in Topics |-> [id \in Ids |-> NotSub]]
  /\ online = {} /\ session = [id \in Ids |-> NoConn]
  /\ kept = [id \in Ids |-> <<>>] /\ inbox = [c \in Conns |-> <<>>]
  /\ gone = {} /\ alive = TRUE

\* The reply, then all that is kept; kept news stay kept.
Login(c) ==
  /\ alive /\ inbox[c] = <<>> /\ IdOf[c] \notin online
  /\ online' = online \cup {IdOf[c]}
  /\ session' = [session EXCEPT ![IdOf[c]] = c]
  /\ inbox' = [inbox EXCEPT ![c] = <<[type |-> "AUTH"]>> \o kept[IdOf[c]]]
  /\ UNCHANGED <<posted, subscription, kept, gone, alive>>

\* The id is online: the connection ends with the reply.
Refuse(c) ==
  /\ alive /\ inbox[c] = <<>> /\ IdOf[c] \in online
  /\ inbox' = [inbox EXCEPT ![c] = <<[type |-> "AUTH_DUPLICATE"]>>]
  /\ gone' = gone \cup {c}
  /\ UNCHANGED <<posted, subscription, online, session, kept, alive>>

Subscribe(id, t, sf) ==
  /\ alive /\ session[id] # NoConn
  /\ subscription' = [subscription EXCEPT ![t][id] = sf]
  /\ UNCHANGED <<posted, online, session, kept, inbox, gone, alive>>

Subscribers(t) == {id \in Ids : subscription[t][id] # NotSub}

\* News are appended to the inboxes of the sessions of S.
Deliver(news, S) ==
  inbox' = [c \in Conns |-> IF \E id \in S : session[id] = c THEN Append(inbox[c], news)
                                                             ELSE inbox[c]]

\* News reach the server, which publishes them in that order.
Post(news) ==
  /\ posted' = Append(posted, news)
  /\ UNCHANGED <<subscription, online, session, kept, inbox, gone, alive>>

\* The next posted news is published.
Take(news) ==
  /\ alive /\ posted # <<>> /\ Head(posted) = news
  /\ posted' = Tail(posted)

\* Those that are online get the news; they are kept for those offline that asked for it.
Publish(news) ==
  /\ Take(news)
  /\ \A id \in Subscribers(news.topic) \cap online : session[id] # NoConn
  /\ Deliver(news, Subscribers(news.topic) \cap online)
  /\ kept' = [id \in Ids |->
       IF id \notin online /\ subscription[news.topic][id] = 1 THEN Append(kept[id], news)
                                                               ELSE kept[id]]
  /\ UNCHANGED <<subscription, online, session, gone, alive>>

\* A subscriber's end of a connection, or a connection that was never used, closes.
Leave(c) ==
  /\ gone' = gone \cup {c}
  /\ UNCHANGED <<posted, subscription, online, session, kept, inbox, alive>>

\* The server notices the end of several connections at once.
EndSessions(S) ==
  /\ alive /\ \A id \in S : session[id] \in gone
  /\ session' = [id \in Ids |-> IF id \in S THEN NoConn ELSE session[id]]
  /\ UNCHANGED <<posted, subscription, online, kept, inbox, gone, alive>>

\* The id is free again.
Logout(id) ==
  /\ alive /\ id \in online /\ session[id] = NoConn
  /\ online' = online \ {id}
  /\ UNCHANGED <<posted, subscription, session, kept, inbox, gone, alive>>

\* News for a subscriber that has left end the server, after some others were served.
PublishDies(news) ==
  /\ Take(news)
  /\ \E id \in Subscribers(news.topic) \cap online : session[id] \in gone \cup {NoConn}
  /\ \E S \in SUBSET (Subscribers(news.topic) \cap online) : Deliver(news, S)
  /\ alive' = FALSE
  /\ UNCHANGED <<subscription, online, session, kept, gone>>

\* So does the reply to one that has left before it.
ReplyDies(c) ==
  /\ alive /\ inbox[c] = <<>> /\ c \in gone
  /\ alive' = FALSE
  /\ UNCHANGED <<posted, subscription, online, session, kept, inbox, gone>>

\* The command exit closes every connection.
Stop ==
  /\ alive /\ alive' = FALSE
  /\ session' = [id \in Ids |-> NoConn]
  /\ \E S \in SUBSET Conns : gone' = gone \cup S
  /\ UNCHANGED <<posted, subscription, online, kept, inbox>>

Next ==
  \/ \E c \in Conns : Login(c) \/ Refuse(c) \/ Leave(c) \/ ReplyDies(c)
  \/ \E id \in Ids : \/ Logout(id)
                     \/ \E t \in Topics, sf \in {NotSub, 0, 1} : Subscribe(id, t, sf)
  \/ \E news \in News : Post(news) \/ Publish(news) \/ PublishDies(news)
  \/ \E S \in SUBSET Ids : EndSessions(S)
  \/ Stop

Spec == Init /\ [][Next]_vars

=============================================================================
