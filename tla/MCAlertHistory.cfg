CONSTANTS
  a1 = a1
  a2 = a2
  s1 = s1
  s2 = s2
  u1 = u1
  Alerts <- MCAlerts
  Results <- MCResults
  NoEntry = NoEntry
  Exited = "EXITED"
  Savers <- MCSavers
  Markers <- MCMarkers
  Cap = 2
  MaxTries = 2
  MaxRows = 1
SPECIFICATION HistorySpec
PROPERTIES
  SavesAreAtomic
