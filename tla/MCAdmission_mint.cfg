SPECIFICATION Spec
CONSTANTS
  Requests = {r1, r2}
  Sizes = {1}
  Unsized = Unsized
  Ceiling = 1
  Budget = 2
  MaxUpload = 1
  MaxParse = 2
  Numbered <- MCNumbered
  Named <- MCNamed
  Asks = {"DOC-001", "counter"}
  Free = Free
PROPERTIES NeverOverwritten
CHECK_DEADLOCK FALSE
