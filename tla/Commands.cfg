CONSTANTS
  NumOutputs = 2
  BRAIN_OUTPUT = 0
  Lines <- MCLines
  NumberOf <- Numbers
  Ones = {"1", "12"}
  Zeros = {"0"}
  UINT32_MAX = 131071
  DefaultHoldoff <- MCHoldoff
  NoLine <- MCNoLine
SPECIFICATION CommandsSpec
INVARIANTS
  CommandsTypeOK
  HoldoffsReadBack
PROPERTY OnlyAcknowledgedLinesAct
