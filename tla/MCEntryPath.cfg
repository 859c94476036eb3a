CONSTANTS
  s1 = s1
  c1 = c1
  w1 = w1
  Symbols <- MCSymbols
  Calls <- MCCalls
  Watches <- MCWatches
  SymbolOf <- MCSymbolOf
  Limit = 2
  Outcomes <- MCOutcomes
  MaxCrashes = 1
  Nothing = Nothing
SPECIFICATION FairSpec
INVARIANTS
  EnteredOnce
  LimitHolds
PROPERTIES
  ImplementsWatchOnce
  NoSilentLoss
  WatchesSettle
