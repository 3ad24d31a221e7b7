CONSTANTS
  Slots = {s1, s2}
  Ios = {i1, i2, i3}
  NumIds = 3
  NumRecv = 3
  Faults = {}
  NoSlot = NoSlot
  NoIo = NoIo
SPECIFICATION Spec
SYMMETRY Symmetry
INVARIANTS
  TypeOK
  OneOperationPerRequest
  NotExposedAfterCompletion
  TargetUsesOwnBuffer
  FreeRequestIsClean
  ResponseFindsItsRequest
  QuietMeansDone
