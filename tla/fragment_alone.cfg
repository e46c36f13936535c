\* One fragment is all that select() returns.
SPECIFICATION Spec
CONSTANTS
  c1 = c1
  c2 = c2
  c3 = c3
  a = a
  b = b
  empty = empty
  t1 = t1
  t2 = t2
  NoConn = NoConn
  NoId = NoId
  Conns <- PairConns
  Ids <- PairIds
  IdOf <- PairIdOf
  Topics <- MCTopics
  EmptyId <- empty
  Fds = {5, 6}
  MaxSent = 3
  MaxNews = 2
  Commands = {"SUB", "SUB_SF", "UNSUB"}
  Lines = {}
  Fragments = TRUE
INVARIANTS
  DescriptorAfterSelect
CHECK_DEADLOCK FALSE
