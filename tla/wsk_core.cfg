CONSTANTS
  Managers = {m1, m2}
  Callers = {c1}
  MaxSockets = 1
SPECIFICATION Spec
INVARIANTS
  TypeOK
  RegistrationPaired
  ReadyWhenUsed
  HeldWhileWaiting
PROPERTIES
  EveryCallReturns
CHECK_DEADLOCK FALSE
