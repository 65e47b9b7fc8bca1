SPECIFICATION Spec
CONSTANTS
  MaxStarts = 2
  MaxSignals = 1
PROPERTIES
  InterruptEndsProcess
CHECK_DEADLOCK FALSE
