CONSTANTS
  MaxUint64 = 15
  MaxInt = 7
  MaxAlloc = 7
  BufferSize = 7
  NoCommand = NoCommand
  MaxFrames = 2
  SocketSize = 3
  Frame <- MCFrames
  ConfigFile <- MCConfigFiles
SPECIFICATION FairSpec
INVARIANTS
  AcceptedConfigIsUsed
PROPERTIES
  ImplementsFraming
  QuietEnds
  ReadsEnd
