CONSTANTS
  Calls = {c1, c2}
  Events = {e1}
  NumSlots = 2
  MaxCmdId = 3
  FirstCounts = {3, 4}
  AsyncEventId = 1
  NumRecv = 1
  Faults = {"prepareFail", "submitFail", "badLength", "disconnect", "late"}
  None = None
SPECIFICATION Spec
SYMMETRY Symmetry
INVARIANTS
  TypeOK
  AnswerIsOwn
  AnswerFindsWaiter
  FreeRequestIsClean
  ReceivesBalance
