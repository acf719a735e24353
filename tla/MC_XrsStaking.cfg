CONSTANTS
  o1 = o1
  NoAccount = NoAccount
  Owners <- MCOwners
  MinStake = 4
  Amounts = {1, 4, 5}
  TotalStakes = {20, 100}
  ApyPct = 7
  Year = 1
  MaxTime = 4
  MaxAmount = 12
  MaxRep = 120
  ClockAvailable = TRUE
  t = t
  p1 = p1
  p2 = p2
  x1 = x1
  Treasury = t
  Pubkeys <- MCPubkeys
  Outsiders <- MCOutsiders
  StakeAmounts <- MCStakeAmounts
  TreasuryStake = 1
  MinTotal = 5
  MaxTotalStake = 6
INIT StakeLegInit
NEXT StakeLegNext
CONSTRAINT StateBound
INVARIANT StakingTypeOK
INVARIANT VoteQuorumsIntersect
