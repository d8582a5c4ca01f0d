SPECIFICATION Spec
CONSTANTS
  MaxGen = 1
  Bases = {"parse"}
  Channels = {"sync", "raw"}
  FaultySteps = {"stash", "persist"}
  MaxFaults = 1
  MaxCrashes = 2
  Absent = Absent
  NoFile = NoFile
  Unknown = Unknown
INVARIANTS CrashSafe WholeWhenClean TextMatches RestIsClean IInv
PROPERTIES RefinesAtomic
