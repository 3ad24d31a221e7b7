CONSTANTS
  Slots = {s1, s2}
  Ios = {i1, i2}
  NumIds = 3
  NumRecv = 3
  Faults = {"lamFail", "lamPending", "submitFail", "shortResponse"}
  NoSlot = NoSlot
  NoIo = NoIo
SPECIFICATION Spec
SYMMETRY Symmetry
CHECK_DEADLOCK FALSE
INVARIANTS
  TargetUsesOwnBuffer
  FreeRequestIsClean
  ResponseFindsItsRequest
  CountersBalance
