CONSTANTS
  Code <- MCCode
  Modifier <- MCModifier
  Repeating <- MCRepeating
  NoKey = "none"
  OsdKeyboard = "osd"
  Capacity = 1
  KeyTable <- MCKeyTable
  KeyTable1 <- MCKeyTable1
  Ports = 2
  Button = {"B", "L2"}
  Joy2KeyMap <- MCJoy2KeyMap2
  CONFIRM = "B"
  AuxCode <- MCAuxCode2
  Pointer = {0}

SPECIFICATION Spec

PROPERTY NavigationStaysOut
