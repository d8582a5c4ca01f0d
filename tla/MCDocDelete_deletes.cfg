SPECIFICATION FairSpec
CONSTANTS
  general = general
  legal = legal
  flat = flat
  archive = archive
  Typed <- MCTyped
  General = general
  Flat = flat
  Moved = archive
  Nowhere = Nowhere
  Absent = Absent
  Empty = Empty
  Record = Record
  Torn = Torn
  Unknown = Unknown
  Bases <- MCBases
  Expired = {0}
  MaxGen = 2
  MaxDeletes = 2
  FaultySteps = {"set_aside", "stale", "commit", "clear", "sweep", "write_row",
    "start_worker", "fail_row"}
  MaxFaults = 1
  MaxCrashes = 2
INVARIANTS Kept Gone RestIsClean
PROPERTIES RetentionKeepsFresh Answered
