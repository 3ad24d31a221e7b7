CONSTANTS
  Slots = {s1, s2}
  Ios = {i1, i2}
  NumIds = 3
  NumRecv = 1
  Faults = {"disconnect", "lamPending", "recvFail"}
  NoSlot = NoSlot
  NoIo = NoIo
SPECIFICATION Spec
SYMMETRY Symmetry
CHECK_DEADLOCK FALSE
INVARIANTS
  FreeRequestIsClean
  CompletedOnce
PROPERTY KeepsPromise
