SPECIFICATION Spec
CONSTANTS
  d1 = d1
  d2 = d2
  c1 = c1
  c2 = c2
  v1 = v1
  NoEvent = NoEvent
  Accounts <- FaultAccounts
  AccountType <- FaultTypes
  SyncType = "hypersync-archival"
  Amounts = {0, 1}
  MaxHeight = 2
  MaxTouched = 1
  Views = {TRUE, FALSE}
  Faults = {"flush", "erase"}
INVARIANTS
  TypeOK
  LookupsAreExact
  GiftsReconcile
PROPERTIES
  AnswersAreFinal
CHECK_DEADLOCK FALSE
