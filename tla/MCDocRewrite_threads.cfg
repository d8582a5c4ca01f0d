SPECIFICATION FairSpec
CONSTANTS
  MaxGen = 2
  Bases = {"parse", Absent}
  Channels = {"sync", "raw", "defer"}
  FaultySteps = {"persist", "stash", "unstash_mv", "fail_clear", "fail_row"}
  MaxFaults = 3
  MaxCrashes = 0
  Absent = Absent
  NoFile = NoFile
  Unknown = Unknown
INVARIANTS AckedStays OneFailureRecord
PROPERTIES NeverOlder Answered ThreadEnds
