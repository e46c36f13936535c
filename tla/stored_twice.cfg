\* Three connections of one id.
SPECIFICATION Spec
CONSTANTS
  c1 = c1
  c2 = c2
  c3 = c3
  a = a
  b = b
  empty = empty
  t1 = t1
  t2 = t2
  NoConn = NoConn
  NoId = NoId
  Conns <- MCConns
  Ids <- PairIds
  IdOf <- TripleIdOf
  Topics <- MCTopics
  EmptyId <- empty
  Fds = {5, 6}
  MaxSent = 2
  MaxNews = 1
  Commands = {"SUB_SF"}
  Lines = {}
  Fragments = FALSE
INVARIANTS
  StoredNewsOnce
CHECK_DEADLOCK FALSE
