SPECIFICATION APISpec
CONSTANTS
  d1 = d1
  d2 = d2
  NoEvent = NoEvent
  NoRequest = NoRequest
  Accounts <- MCAccounts
  AccountType <- MCTypes
  SyncType = "hypersync"
  Amounts = {0, 1}
  MaxHeight = 3
  MaxTouched = 1
  Views = {TRUE}
  Faults = {}
INVARIANTS
  APITypeOK
  ClientReconciles
  BalanceIsOfOnePage
  OnlyGenesisOutlives
CHECK_DEADLOCK FALSE
