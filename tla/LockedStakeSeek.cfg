SPECIFICATION Spec
CONSTANTS
  Stakes <- MCStakes
  PKIDBytes <- MCPKIDBytes
  Amounts = {0, 1}
  MaxHeight = 2
  MaxTouched = 2
INVARIANTS
  TypeOK
  SeekFindsNewest
CHECK_DEADLOCK FALSE
