\* What must happen in the end: two connections of one id, with a fair loop.
SPECIFICATION FairSpec
CONSTANTS
  c1 = c1
  c2 = c2
  c3 = c3
  a = a
  b = b
  empty = empty
  t1 = t1
  t2 = t2
  NoConn = NoConn
  NoId = NoId
  Conns <- PairConns
  Ids <- PairIds
  IdOf <- PairIdOf
  Topics <- MCTopics
  EmptyId <- empty
  Fds = {5, 6}
  MaxSent = 2
  MaxNews = 1
  Commands = {"SUB_SF", "UNSUB"}
  Lines = {"eof"}
  Fragments = FALSE
PROPERTIES
  AuthAnswered
  DisconnectHandled
  CommandTakesEffect
  ImplementsBroker
CHECK_DEADLOCK FALSE
