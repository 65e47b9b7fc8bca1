SPECIFICATION Spec
CONSTANTS
  Stakes <- MCStakes
  PKIDBytes <- MCPKIDBytes
  Amounts = {0, 1}
  MaxHeight = 2
  MaxTouched = 1
INVARIANTS
  LockedStakeIsServed
CHECK_DEADLOCK FALSE
