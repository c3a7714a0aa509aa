CONSTANTS
  Frequencies = {0, 440, 20000}
  Durations = {0, 1, 2}
  StartDuration = 2
  MaxCommands = 4
SPECIFICATION Spec
INVARIANTS
  TypeOK
  NoStuckTone
PROPERTY EventuallyQuiet
