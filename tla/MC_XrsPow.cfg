CONSTANTS
  TickMs = 400
  SlowMs = 4000
  FastMs = 3000
  Window = 2
  TargetMin = 26
  TargetMax = 31
  BaseTarget = 31
  HashBytes <- MCHashBytes
  MaxSlot = 26
  MaxBlocks = 3
INIT PowInit
NEXT PowNext
CONSTRAINT StateBound
INVARIANT PowTypeOK
