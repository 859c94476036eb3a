CONSTANTS
  Stocks <- MCStocks
  TopN = 1
  Needed = 1
  QuoteAge = 1
  SnapshotAge = 0
  DayLength = 3
  LastMoment = 5
  Night = 2
  Markets <- MCMarkets
  Workers = {a, b}
  MaxLapses = 1
  None = None
SPECIFICATION TurnoverSpec
CHECK_DEADLOCK FALSE
SYMMETRY Symmetric
INVARIANTS
  NoneIsPromotedBySilence
  AllowedIsNearTop
PROPERTIES
  SnapshotsInOrder
