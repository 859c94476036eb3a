CONSTANTS
  StopMult = 1
  Buffer = 0
  Multiple <- MCMultiple
  MinScore = 4
  MinorLen = 1
  ConfirmWindow = 4
  MaxSwings = 1
  Candles <- MCCandles
  Atrs <- MCAtrs
  Offsets <- MCOffsets
  Tests <- MCTests
  Required = 11
  FirstSpan = 3
  LastSpan = 14
  MaxTrades = 1
SPECIFICATION BacktestSpec
CHECK_DEADLOCK FALSE
INVARIANTS
  StopProtects
PROPERTIES
  BacktestMatchesLive
  TrailTightens
