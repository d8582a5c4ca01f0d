SPECIFICATION Spec
CONSTANTS
  Docs = {d1, d2}
  Captures = {d2}
  Jobs = {1, 2, 3}
  MaxConcurrent = 1
  MaxQueued = 1
  MaxAttempts = 1
  MaxGen = 2
  MaxRetries = 1
  Forces = {FALSE, TRUE}
  SummaryFaults = 1
  Requests = {r1, r2}
  Sizes = {0, 1, 2}
  Unsized = Unsized
  Ceiling = 2
  Budget = 3
  MaxUpload = 1
  MaxParse = 1
  Numbered <- MCNumbered
  Named <- MCNamed
  Asks = {"report", "filename"}
  Free = Free
  MaxCrashes = 1
INVARIANTS SlotsAndQueue  BytesBounded
PROPERTIES HolderSettles NeverOverwritten EveryUploadAnswered
CHECK_DEADLOCK FALSE
