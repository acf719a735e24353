CONSTANTS
  Fees <- MCFees
  Cap = 4
  MaxPushes = 4
INIT PoolInit
NEXT PoolNext
CONSTRAINT StateBound
INVARIANT DrainInFeeOrder
