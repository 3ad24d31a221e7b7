CONSTANTS
  Calls = {c1, c2}
  Events = {e1}
  NumSlots = 3
  MaxCmdId = 3
  FirstCounts = {3}
  AsyncEventId = 1
  NumRecv = 2
  Faults = {}
  None = None
SPECIFICATION FairSpec
PROPERTY EveryCallSucceeds
