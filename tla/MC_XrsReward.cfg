CONSTANTS
  BaseReward = 342500000
  CheckpointInterval = 1000
  MaxSlot = 65000

SPECIFICATION Spec
INVARIANT RewardFollowsHalving
