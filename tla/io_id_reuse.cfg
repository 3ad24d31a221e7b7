CONSTANTS
  Slots = {s1, s2}
  Ios = {i1, i2, i3}
  NumIds = 2
  NumRecv = 3
  Faults = {}
  NoSlot = NoSlot
  NoIo = NoIo
SPECIFICATION Spec
CHECK_DEADLOCK FALSE
PROPERTY InsertFindsEmptyEntry
