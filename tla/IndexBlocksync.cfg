SPECIFICATION Spec
CONSTANTS
  d1 = d1
  d2 = d2
  c1 = c1
  c2 = c2
  v1 = v1
  NoEvent = NoEvent
  Accounts <- SwapAccounts
  AccountType <- SwapTypes
  SyncType = "blocksync"
  Amounts = {0, 1, 2}
  MaxHeight = 2
  MaxTouched = 1
  Views = {TRUE}
  Faults = {}
PROPERTIES
  ImplementsBook
CHECK_DEADLOCK FALSE
