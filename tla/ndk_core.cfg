CONSTANTS
  Pairs = {q0, q1}
  Admin = q0
  Owner = owner
SPECIFICATION Spec
INVARIANTS
  TypeOK
  ClosesOpenObjects
  ParentsOutliveChildren
  FreedSocketLeavesNothing
  RefCountIsConnections
  ReportedOnce
PROPERTIES
  EveryCallReturns
CHECK_DEADLOCK FALSE
