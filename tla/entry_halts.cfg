SPECIFICATION FairSpec
CONSTANTS
  Lane = {"kol_hunter_rotation"}
  AutoReset = TRUE
  MaxCanaryBudget = 3
  MaxTrades = 4
  MaxLosers = 1
  MaxOpen = 2
  MaxLoss = 1
  MaxWin = 0
  MaxClosed = 4
  MaxRestarts = 1
  MinSamples = 1
INVARIANTS TypeOK ExhaustedLaneHalted LossBounded StreakBounded CountersSurviveRestart
PROPERTIES StreakHalts HaltIsLifted
