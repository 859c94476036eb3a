CONSTANTS
  Prices <- MCPrices
  StopDistance = 2
  TargetDistance = 6
  TrailDistance = 2
  CostDistance = 2
  AddStep = 2
  MaxAdds = 1
  LadderPrice <- MCLadderPrice
  Settings <- MCSettings
  Brokers <- MCBrokers
  Capacity = 2
  MaxTicks = 3
  MaxFailures = 1
  MaxCrashes = 1
SPECIFICATION FairSpec
CHECK_DEADLOCK FALSE
INVARIANTS
  StopBelowPrice
PROPERTIES
  StopTightens
  QueueDrains
  OverflowBlocks
