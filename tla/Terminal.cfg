CONSTANTS
  VGA_WIDTH = 3
  VGA_HEIGHT = 2
  Chars = {"a", "b"}
  Blank = " "
  MaxPrinted = 7
  MouseOn = TRUE
  MouseText = {0, 2}
SPECIFICATION Spec
INVARIANTS TypeOK CursorInBounds ScreenShowsTail
CHECK_DEADLOCK FALSE
