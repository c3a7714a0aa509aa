CONSTANTS
  NumOutputs = 4
  BRAIN_OUTPUT = 1
  OUT_5V = 3
  MaxBurst = 2
SPECIFICATION Spec
INVARIANTS
  TypeOK
  ResetSweeps
  StatLedMeansInhibited
PROPERTIES
  KeepsContract
  OnlyStaleCheckDefeatsInhibit
  OutputsSwitchForCause
  ResetDelivers
