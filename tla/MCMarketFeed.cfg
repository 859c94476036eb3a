CONSTANTS
  a = a
  Symbols <- MCSymbols
  Active <- MCActive
  MaxTokens = 2
  MaxRequests = 1
  MaxInputs = 2
  MaxRetries = 1
  Slots = {1}
SPECIFICATION FairSpec
INVARIANTS
  TicksTakenOnce
  ReportedIsSubscribed
PROPERTIES
  RequestsEnd
  FeedRecovers
  DeadFeedIsReported
