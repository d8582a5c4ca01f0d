SPECIFICATION Spec
CONSTANTS
  MaxId = 1
  Requests = {1}
  Jobs = {3}
  Urls = {u1}
  Bodies = {b1}
  Slots = 1
  MaxQueued = 1
  MaxForced = 0
  MaxReplaces = 0
  MaxFaults = 0
  MaxCrashes = 1
  None = None
INVARIANTS EveryClaimIsWorked
CHECK_DEADLOCK FALSE
