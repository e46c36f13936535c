\* A topic as long as its field.
SPECIFICATION Spec
CONSTANTS
  Base = 16
  LittleEndian = TRUE
  TopicLen = 2
  IdLen = 3
  Words <- MCWords
  Names <- MCNames
  IdWords <- MCIdWords
  Contents <- MCContents
  Port = 37
INVARIANTS
  TopicsMatch
CHECK_DEADLOCK FALSE
