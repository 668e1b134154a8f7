CONSTANTS
  Code <- MCCode
  Modifier <- MCModifier
  Repeating <- MCRepeating
  NoKey = "none"
  OsdKeyboard = "osd"
  Capacity = 1
  KeyTable <- MCKeyTable
  KeyTable1 <- MCKeyTable1
  Ports = 1
  Button = {"B", "A", "L2"}
  Joy2KeyMap <- MCJoy2KeyMap
  CONFIRM = "B"
  AuxCode <- MCAuxCode
  Pointer = {0}

SPECIFICATION Spec

INVARIANTS
  TypeOK
  RefsCountHolders
  DownOnlyIfHeld
