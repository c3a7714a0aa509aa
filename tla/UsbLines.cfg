CONSTANTS
  USB_MSG_MAXLEN = 5
  USB_BUFFER_SIZE = 4
  Bytes <- MCBytes
  LF = "LF"
  CR = "CR"
  COLON = ":"
  NUL = "NUL"
  Packets <- MCPackets
  ReplyLengths = {1, 4}
SPECIFICATION Spec
INVARIANTS
  TypeOK
  InterruptedLineHidesRest
PROPERTIES
  LinesAreTheStream
  LoopEnds
