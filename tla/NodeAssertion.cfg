SPECIFICATION Spec
CONSTANTS
  MaxStarts = 2
  MaxSignals = 1
INVARIANTS
  MessagesFindNodeRunning
CHECK_DEADLOCK FALSE
