\* Orchestrator: two exchanges, queues of two, three states.  Candles: a history of six
\* minutes and three more.  The other bounds are at their definitions in MCTrading.
\* The run stops where the bounds are met.
SPECIFICATION TradingSpec
CONSTANTS
  Exchanges = {"gate", "mexc"}
  Configs <- MCConfigs
  Prices = {0, 2}
  QueueLen = 2
  PendingLen = 3
  MaxStates = 3
  Readings <- MCReadings
  GlobalMids = {1000, 1005, 1020}
  MaxUpdates = 5
  Shapes <- MCShapes
  WindowMinutes = {1, 2}
  FetchLimit = 6
  Lookback = 3
  MinObs = 2
  MaxMinutes = 9
  MaxObs = 2
  GridConfigs <- MCGridConfigs
  Markets <- MCMarkets
  Drifts <- MCDrifts
  CurveValues = {0, 500, 1000}
  Balances <- MCBalances
  Mids = {1, 2}
  MinUsd = 50
  LossPct = 10
  DrawPct = 15
  MaxDays = 1
  MaxSeen = 4
  FillLimit = 2
  FirstHour = 2
  MaxTime = 4
  MaxTrades = 4
  MaxRestarts = 1
  Snapshots <- MCSnapshots
  OrderSets <- MCOrderSets
  MaxWsRetries = 1
  MaxFills = 3
  ABMids = {100, 101}
  ABGrids <- MCABGrids
  MaxTicks = 3
  Shots <- MCShots
  ReplayGrids <- MCReplayGrids
  BookSide = 3
  WarmupLen = 2
  PageLen = 2
  LastMinute = 4
  Capital <- MCCapital
INVARIANTS
  MidAmongResponders
  BeliefFollows
  NeverTighterThanEither
  WindowHoldsEachOnce
  
  
  CrashLeansOnBids
  BreakerIsExact
  MissedShareTheInstant
  MatchingIsFair
  FairComparison
  EveryCandleOnce
  
PROPERTIES
  IntakeGoesForward
  
CHECK_DEADLOCK FALSE
