\* Commands and news in bytes: a topic field of two characters, ids of at most two.
SPECIFICATION Spec
CONSTANTS
  Base = 16
  LittleEndian = TRUE
  TopicLen = 2
  IdLen = 3
  Words <- MCWords
  Names <- MCNames
  IdWords <- MCIdWords
  Contents <- MCContents
  Port = 37
INVARIANTS
  TypeOK
  AuthUnderstood
  SubscriptionsDecoded
  ShortTopicsMatch
  ShownIsPublished
CHECK_DEADLOCK FALSE
