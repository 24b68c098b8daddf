CONSTANTS
  WORD = 16
  Size = 5
  DriveFound = TRUE
  Slots = 2
  Files <- MCFiles
  Absent = {"NONE"}
  Texts = {"hello"}
  Foreign = {"raw"}
  NoCall = NoCall
  Results = {0, 20}
SPECIFICATION StorageSpec
INVARIANT ReadsOnlyFiles
