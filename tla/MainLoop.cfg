CONSTANTS
  Period = 50
  DelayMs = 20
  DeinitMs = 2
  AckMs = 1
  SlowPeriod = 20
  BeepMs = 150
  LoopTurns = 75
  Slack = 2
  PollMs = 1
  RoundMs = 1
SPECIFICATION Spec
INVARIANTS
  TypeOK
  HealthyBoardIsFed
  StartUpIsDark
PROPERTIES
  HeldBusEndsInReset
  StartUpEnds
