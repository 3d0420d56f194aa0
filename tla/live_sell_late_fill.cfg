SPECIFICATION FairSpec
CONSTANTS
  Order <- MCOrder
  UseUltra = TRUE
  UseJito = TRUE
  MaxRetries = 1
  Max429Retries = 1
  Bought = 3
  RetryCount = 1
  MaxSales = 1
INVARIANT SellsOnlyRequested
CHECK_DEADLOCK FALSE
