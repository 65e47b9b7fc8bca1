SPECIFICATION Spec
CONSTANTS
  k1 = k1
  k2 = k2
  None = None
  Intents <- MCIntents
  Options <- MCOptions
  Rates = {0, 2}
  Offsets = {0, 1}
  MinFeeRate = 1
  DefaultOffset = 3
  ForkHeight = 2
  MaxTip = 3
INVARIANTS
  TypeOK
  OptionsAreHonoured
  ParseReturnsIntent
  RejectedOnlyIfTheChainMoved
CHECK_DEADLOCK FALSE
