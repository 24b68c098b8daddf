CONSTANTS
  Scancodes <- MCScancodes
  Reads = {"char"}
  MaxBytes = 3
SPECIFICATION Spec
INVARIANT BlockingCharacterRead
CHECK_DEADLOCK FALSE
