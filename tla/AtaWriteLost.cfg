CONSTANTS
  WORD = 8
  Size = 2
  Data = {a,b}
  Drives = {0}
  g_ide_devices <- MCDevices
  Lbas = {0, 1, 7}
  Counts = {1, 2}
  ErrorBits <- MCErrorBits
  Leftover = {0, 1}
  NoCall = NoCall
  NoData = NoData
SPECIFICATION Spec
INVARIANT WriteOnPlatters
