CONSTANTS
  Chars <- MCChars
  NUL = 0
  BUFFER_SIZE = 3
  MaxTyped = 6
  hello <- MChello
  help <- MChelp
  echo <- MCecho
  read <- MCread
  Scancodes <- MCScancodes
  Reads = {"char"}
  MaxBytes = 5
SPECIFICATION FairConsole
INVARIANTS TypeOK OneArgumentAwaited LineAsTyped
PROPERTIES LineShellSpec EnterAnswered
CHECK_DEADLOCK FALSE
