\* A run of the subscriber: its server, its keyboard or pipe, and one read inside a packet.
SPECIFICATION Spec
CONSTANTS
  Conn = Conn
  NoConn = NoConn
  LineKinds = {"exit", "bad", "blank", "command"}
  MaxLines = 2
  MaxNews = 2
  KindOf <- MCKindOf
  MaxPartials = 1
  Burst = TRUE
INVARIANTS
  TypeOK
  PrintedInOrder
  EndsForAReason
  BlockedOnlyByBadLine
PROPERTIES
  ImplementsContract
  NewsPrinted
  LinesHandled
  EndsWithServer
CHECK_DEADLOCK FALSE
