SPECIFICATION CheckoutSpec
CONSTANTS
  alice = alice
  cart1 = cart1
  cart2 = cart2
  NoEvent = NoEvent
  NoWaiter = NoWaiter
  NoCart = NoCart
  Cart = {cart1, cart2}
  event1 = event1
  PriceOf <- MCPriceOf
  AmountOf <- MCAmountOf
  BorrowerOf <- MCBorrowerOf
  CartOf <- MCCartOf
  Env <- MCEnv
  DECIMALS = 2
  TOLERANCE = 1
  MaxTicks = 1
  Config = {"full"}
  Event = {event1}
  MaxDeliveries = 2
  MaxRestarts = 0
  STORE_TTL = 0
  DEDUP_TTL = 1
  Payment = {event1}
  Debtor = {alice}
  Waiter = {"h1"}
  MaxDebt = 1
CHECK_DEADLOCK FALSE
PROPERTY FailedSettlementIsRetried
