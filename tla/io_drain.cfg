CONSTANTS
  Slots = {s1, s2}
  Ios = {i1, i2}
  NumIds = 4
  NumRecv = 1
  Faults = {"disconnect"}
  NoSlot = NoSlot
  NoIo = NoIo
SPECIFICATION Spec
SYMMETRY Symmetry
INVARIANT DrainedMeansComplete
CHECK_DEADLOCK FALSE
