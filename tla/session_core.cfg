CONSTANTS
  c1 = c1
  c2 = c2
  Controllers = {c1, c2}
  Requesters = {r1, r2}
  Uses <- MCUses
  NumReceives = 2
  NumIOQueues = 2
  MaxFailures = 1
SPECIFICATION Spec
INVARIANTS
  TypeOK
  MemorySafe
  ReceivesHaveBuffers
  NothingLeft
  GateAdmitsOne
  EnabledSawReady
PROPERTIES
  TeardownEnds
CHECK_DEADLOCK FALSE
