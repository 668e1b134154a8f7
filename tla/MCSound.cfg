CONSTANTS
  Capacity = 3
  Cushion = 1
  Rate = 2
  Tick = 3
  Clocks <- MCClocks
  MaxWant = 4
  Sound <- MCSounds
  Silence = "silence"
  Byte = {"80", "c0", "f0", "f1", "f2", "f3", "f4", "f6", "f7", "f8", "00", "7f"}
  MIDIDELAYBUF = 3
  MIDIBUFFERS = 5
  MaxBuffered = 3

SPECIFICATION SoundSpec

INVARIANTS
  TypesOK
  PositionsAgree
  SendsWhatIsReceived

PROPERTIES
  HeardInOrder
  CallsReturn
  BytesAreSent
