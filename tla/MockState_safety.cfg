SPECIFICATION Spec
CONSTANTS
  Addresses = {a1, a2}
  Provider = a1
  PoolIds = {"reward", "holding", "liquidity"}
  FirstHolding = 20
  FirstLiquidity = 35
  FirstPoints = 3
  Inflation = 1
  ShareDivisor = 10
  SlashPeriod = 1
  DoubleSignPeriod = 2
  OrderAmounts = {20}
  DepositAmounts = {5, 20}
  Percents = {50, 150}
  MaxBatch = 2
  MaxAmount = 30
  MaxEntries = 2
  MaxHeight = 2
INVARIANTS
  TypeOK
  PointsAddUp
  EventsBelongToBlock
PROPERTIES
  WithdrawalsArePaid
  SharesKeepTheirValue
  BurnsAreCovered
  DepositsMoveFunds
