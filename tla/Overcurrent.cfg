CONSTANTS
  NumHigh = 1
  NumPairs = 1
  SlowPeriod = 3
  UvloStep = 3
  U16 = 7
  LoadVectors <- MCLoads
  HostOutputs = {2, 3}
  BatteryCurrents = {0, 65435, 3001}
  BatteryVoltages = {20392, 20400}
  RegCurrents = {0, 2001}
  HostHoldoffs = {2, 5}
  DefaultHoldoff <- ShortestHoldoffs
SPECIFICATION MCSpec
INVARIANT TypeOK
PROPERTIES
  NoGlitchTrip
  NoLastingOverload
  NoGlitchShutdown
  OverdrawStopsBoard
  FlatBatteryStopsBoard
