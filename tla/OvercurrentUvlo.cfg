CONSTANTS
  NumHigh = 2
  NumPairs = 0
  SlowPeriod = 2
  UvloStep = 20
  U16 = 65536
  LoadVectors <- NoLoads
  HostOutputs = {}
  BatteryCurrents = {0}
  BatteryVoltages = {20392}
  RegCurrents = {0}
  HostHoldoffs = {65532}
  DefaultHoldoff <- ShortestHoldoffs
SPECIFICATION MCSpec
PROPERTY FlatBatteryStopsBoard
