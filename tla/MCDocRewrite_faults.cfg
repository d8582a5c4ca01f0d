SPECIFICATION Spec
CONSTANTS
  MaxGen = 2
  Bases = {"done"}
  Channels = {"sync", "raw"}
  FaultySteps = {"settle", "touch", "drop", "fold", "unmark", "record", "text", "forget",
    "remove", "unstash_mv", "stash", "clear", "read_row", "read_text", "stage_text",
    "stage_row", "stage_move", "write_texts", "write_sections", "write_source",
    "write_text_index", "write_manifest", "write_row", "persist", "fail_clear",
    "fail_row"}
  MaxFaults = 1
  MaxCrashes = 1
  Absent = Absent
  NoFile = NoFile
  Unknown = Unknown
INVARIANTS CrashSafe OneVersion TextMatches
PROPERTIES MarkerOutlivesBackup
