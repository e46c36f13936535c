\* Three connections, two of them by one id; every packet arrives whole.
SPECIFICATION Spec
CONSTANTS
  c1 = c1
  c2 = c2
  c3 = c3
  a = a
  b = b
  empty = empty
  t1 = t1
  t2 = t2
  NoConn = NoConn
  NoId = NoId
  Conns <- MCConns
  Ids <- MCIds
  IdOf <- MCIdOf
  Topics <- MCTopics
  EmptyId <- empty
  Fds = {5, 6, 7}
  MaxSent = 2
  MaxNews = 1
  Commands = {"SUB_SF", "UNSUB"}
  Lines = {}
  Fragments = FALSE
INVARIANTS
  TypeOK
  SessionBound
  OneSessionPerId
  SessionLive
  ReplyComesFirst
  NewsOnlyToSubscribers
  NoStrandedPacket
PROPERTIES
  DeclinedOnlyIfInUse
  ImplementsBroker
SYMMETRY Symmetry
CHECK_DEADLOCK FALSE
