SPECIFICATION Spec
CONSTANTS
  k1 = k1
  k2 = k2
  Keys <- MCKeys
  Validators <- MCValidators
  Start <- MCStart
  GenesisOutputs <- MCGenesisOutputs
  Epochs = {1, 2}
  Threshold = 1
  Fee = 1
  Amounts = {3}
  Rewards = {1}
  SwapRecords = {"before", "after"}
  Royalties <- MCRoyalties
  MaxBalance = 12
  MaxTxns = 2
INVARIANTS
  TypeOK
  OperationsReconcile
CHECK_DEADLOCK FALSE
