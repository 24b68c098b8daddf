CONSTANTS
  WORD = 8
  Size = 2
  Data = {a, b}
  Drives = {0, 1, 255}
  g_ide_devices <- MCDevices
  Lbas = {0, 1, 7}
  Counts = {1, 2}
  ErrorBits <- MCErrorBits
  Leftover = {0, 1, 7}
  NoCall = NoCall
  NoData = NoData
SPECIFICATION FairSpec
INVARIANTS TypeOK ProtocolKept
PROPERTIES WritesStayInRange BlockDeviceSpec CallsReturn
