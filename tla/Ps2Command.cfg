CONSTANTS
  VGA_WIDTH = 6
  VGA_HEIGHT = 3
  Codes = {30, 146}
  MaxKeys = 1
  Packets <- MCPackets
  MaxPackets = 0
  BootCommand = 101
  Prompt = TRUE
  Timely = TRUE
SPECIFICATION Spec
INVARIANT CommandByteKept
CHECK_DEADLOCK FALSE
