CONSTANTS
  TempPeriod = 3
  FAN_THRESHOLD = 40
  Temperatures = {0, 1464, 1465, 1488, 1489}
SPECIFICATION Spec
INVARIANTS
  TypeOK
  NoPressReportedTwice
  FanKeepsUp
PROPERTIES
  PressLostOnlyInGapOrByReset
  FanSwitchesForCause
