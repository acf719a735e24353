CONSTANTS
  Fees <- MCFees
  Cap = 4
  MaxPushes = 6
INIT PoolInit
NEXT PoolNext
CONSTRAINT StateBound
INVARIANT PoolTypeOK
