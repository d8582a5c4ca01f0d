SPECIFICATION Spec
CONSTANTS
  MaxId = 1
  Requests = {1, 2}
  Jobs = {3, 4}
  Urls = {u1, u2}
  Bodies = {b1}
  Slots = 1
  MaxQueued = 1
  MaxForced = 0
  MaxReplaces = 1
  MaxFaults = 0
  MaxCrashes = 0
  None = None
INVARIANTS ManifestOfItsText
CHECK_DEADLOCK FALSE
