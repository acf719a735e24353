CONSTANTS
  t = t  v = v  a1 = a1  m1 = m1  m2 = m2  m3 = m3  s1 = s1
  Treasury = t
  Validator = v
  Pubkeys <- MCPubkeys
  Miners <- MCMiners
  Sigs <- MCSigs
  TxTo <- MCTxTo
  ValidSigs <- MCValidSigs
  Hashes <- MCHashes
  Slots <- MCSlots
  AirdropAmounts <- MCAirdropAmounts
  Unit = 2
  TreasuryInit = 10
  TreasuryStake = 10
  BaseReward = 4
  MinerStake = 2
  AirdropCap = 6
  TxAmount = 2
  TxFee = 1
  CheckpointInterval = 2
  FinalitySlots = 2
  ProposerMin = 4
  StartupStake = 4
  PoolCap = 1
  LocalAlpha = FALSE
  SignatureBytes = 64
  IOFailures = FALSE
  MaxSlot = 3
  MaxLog = 2
  MaxRestarts = 1
  MaxTotalStake = 17
  MaxApplied = 1

SPECIFICATION FairSpec
CONSTRAINT StateBound

INVARIANT EligibleProposer
INVARIANT NodeTypeOK
 
