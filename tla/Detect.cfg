CONSTANTS
  Space = " "
  ModelLength = 4
  Device <- MCDevice
  Garbage <- MCGarbage
SPECIFICATION FairSpec
INVARIANTS TypeOK TableListsDrives DiskFoundByName
PROPERTIES DetectionEnds
CHECK_DEADLOCK FALSE
