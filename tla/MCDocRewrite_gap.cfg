SPECIFICATION Spec
CONSTANTS
  MaxGen = 2
  Bases = {Absent}
  Channels = {"defer"}
  FaultySteps = {"write_row"}
  MaxFaults = 1
  MaxCrashes = 0
  Absent = Absent
  NoFile = NoFile
  Unknown = Unknown
INVARIANTS AckedStays
