SPECIFICATION Spec
CONSTANTS
  Pages = {1}
  Looks <- MCLooks
  Requests <- MCRequests
  MaxTables = 1
  MaxParses = 2
  None = None
INVARIANTS RegionOfItsModel
CHECK_DEADLOCK FALSE
