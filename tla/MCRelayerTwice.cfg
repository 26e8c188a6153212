SPECIFICATION RelayerSpec
CONSTANTS
  alice = alice
  order1 = order1
  order2 = order2
  NoWork = NoWork
  NoWaiter = NoWaiter
  Waiter = {"worker"}
  Payment <- MCSale
  Sale <- MCSale
  Merchant = {alice}
  Debtor = {alice}
  MaxPerMerchant = 1
  MAX_BACKOFF = 1
  MinSale = 1
  MaxAttempts = 2
  MaxDebt = 2
  MaxRestarts = 0
INVARIANT SaleAppliedOnce
