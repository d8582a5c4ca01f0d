SPECIFICATION Spec
CONSTANTS
  MaxGen = 1
  Bases = {"done"}
  Channels = {"sync"}
  FaultySteps = {"stage_copy"}
  MaxFaults = 1
  MaxCrashes = 1
  Absent = Absent
  NoFile = NoFile
  Unknown = Unknown
INVARIANTS CrashSafe
