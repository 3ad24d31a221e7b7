CONSTANTS
  Slots = {s1, s2}
  Ios = {i1, i2, i3}
  NumIds = 4
  NumRecv = 3
  Faults = {}
  NoSlot = NoSlot
  NoIo = NoIo
SPECIFICATION Spec
SYMMETRY Symmetry
INVARIANT CompletedWithOwnStatus
