SPECIFICATION Spec
CONSTANTS
  k1 = k1
  k2 = k2
  Keys <- MCKeys
  Validators <- MCValidators
  Start <- MCStart
  GenesisOutputs <- MCGenesisOutputs
  Epochs = {1, 2}
  Threshold = 1
  Fee = 1
  Amounts = {3}
  Rewards = {1}
  SwapRecords = {"before"}
  Royalties <- MCRoyalties
  MaxBalance = 12
  MaxTxns = 2
INVARIANTS
  InputsSubtract
CHECK_DEADLOCK FALSE
