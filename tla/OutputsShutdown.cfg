CONSTANTS
  NumOutputs = 4
  BRAIN_OUTPUT = 1
  OUT_5V = 3
  MaxBurst = 2
SPECIFICATION Spec
INVARIANT ShutdownPreventsReenabling
