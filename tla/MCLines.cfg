CONSTANTS
  NoHandler = NoHandler
  Channel <- MCChannel
  Code <- MCCode
  KeyBufSize = 4
  NoKey = "none"
  Unit = 2
  Limit = 0
  Motion <- MCMotion
  Sums <- MCSums

SPECIFICATION LinesSpec

INVARIANTS
  TypesOK
  MotionIsConserved
PROPERTIES
  ReadInOrder
  EventsAreRead
  BytesAreRead
