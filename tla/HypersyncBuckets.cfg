SPECIFICATION Spec
CONSTANTS
  Totals <- MCTotals
  SnapHeights <- MCSnapHeights
INVARIANTS
  TypeOK
  GiftsMatchRecords
  PlacedByDivision
  SharesAreBounded
CHECK_DEADLOCK FALSE
