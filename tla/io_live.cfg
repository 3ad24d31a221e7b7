CONSTANTS
  Slots = {s1, s2}
  Ios = {i1, i2}
  NumIds = 3
  NumRecv = 3
  Faults = {}
  NoSlot = NoSlot
  NoIo = NoIo
SPECIFICATION FairSpec
PROPERTIES
  EveryIoReturns
