CONSTANTS
  t = t  a1 = a1  m1 = m1  m2 = m2  s1 = s1  s2 = s2  h1 = h1  h2 = h2
  Treasury = t
  Pubkeys <- MCPubkeys
  Miners <- MCMiners
  Sigs <- MCSigs
  TxTo <- MCTxTo
  ValidSigs <- MCValidSigs
  Hashes <- MCHashes
  Slots <- MCSlots
  AirdropAmounts <- MCAirdropAmounts
  Unit = 2
  TreasuryInit = 9
  TreasuryStake = 10
  BaseReward = 4
  MinerStake = 2
  AirdropCap = 6
  TxAmount = 2
  TxFee = 1
  CheckpointInterval = 2
  FinalitySlots = 2
  SignatureBytes = 64
  IOFailures = TRUE
  MaxLog = 2
  MaxRestarts = 1
  MaxTotalStake = 13
  MaxApplied = 1

INIT LedgerInit
NEXT LedgerNext
CONSTRAINT StateBound

INVARIANT TypeOK
INVARIANT Conservation
PROPERTY AccountsRefined
