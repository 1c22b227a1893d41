SPECIFICATION Spec
CONSTANTS
  NestingLimit = 2
  NumberSize = 4
  IntMax = 120
  FieldsNumber = 3
  MsgSize = 14
  JsonSizeMod = 16
  SizeMod = 64
  ProtocolSize = 2
  HostSize = 3
  SockaddrSize = 9
  PortMod = 64
  MaxPieces = 6
  MaxLiteral = 5
  MaxNumber = 5
  MaxUrl = 6
  MaxAddr = 8
  MaxLine = 5
  MaxBuffer = 24
INVARIANT ReadsJson
INVARIANT PrintsJson
INVARIANT WireFaithful
INVARIANT FormatsFaithful
