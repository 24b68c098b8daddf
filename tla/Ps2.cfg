CONSTANTS
  VGA_WIDTH = 6
  VGA_HEIGHT = 3
  Codes = {30, 146}
  MaxKeys = 3
  Packets <- MCPackets
  MaxPackets = 3
  BootCommand = 101
  Prompt = TRUE
  Timely = TRUE
SPECIFICATION FairSpec
INVARIANTS TypeOK HandlersReadOwnByte InterruptsEnded
PROPERTIES PointingSpec InitEnds InputTaken
CHECK_DEADLOCK FALSE
