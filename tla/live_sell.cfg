SPECIFICATION FairSpec
CONSTANTS
  Order <- MCOrder
  UseUltra = TRUE
  UseJito = TRUE
  MaxRetries = 2
  Max429Retries = 1
  Bought = 3
  RetryCount = 1
  MaxSales = 1
INVARIANTS TypeOK SoldIsNotOverstated TipDeductedWasPaid
PROPERTIES OrdersKeepPromise SaleEnds
CHECK_DEADLOCK FALSE
