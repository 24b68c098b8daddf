CONSTANTS
  Spread = 20
  WORD = 65536
  Accesses <- MCAccesses
  Segments <- MCSegments
  StubTables <- MCStubTables
  Interruptions <- MCInterruptions
  Files <- MCFiles
  Memories <- MCMemories
  Formats <- MCFormats
  Numbers <- MCNumbers
  Ints <- MCInts
SPECIFICATION Spec
INVARIANTS CommandReachesDrive SegmentsDecode InterruptsReachHandlers FilePrinted
  FormatShown NumbersSpelled StringsBehaveAsTexts FrameSeenAndRestored
CHECK_DEADLOCK FALSE
