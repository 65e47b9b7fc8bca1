SPECIFICATION Spec
CONSTANTS
  MaxStarts = 3
  MaxSignals = 2
INVARIANTS
  TypeOK
  OneHandle
  ServerHasDatabases
  EraseFindsNothingOpen
  RunningNodeHearsInterrupts
  PanicNeedsAnInterruptOrAStart
PROPERTIES
  StopLeavesNothingOpen
  RestartCompletes
  FirstInterruptEndsProcess
CHECK_DEADLOCK FALSE
