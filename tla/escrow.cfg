SPECIFICATION FairSpec
CONSTANTS
  alice = alice
  bob = bob
  user = user
  pool = pool
  hot = hot
  NoEscrow = NoEscrow
  GroupSize = 3
  Validators <- TwoValidators
  Accounts <- FourAccounts
  Funds <- UserFunds
  Recipient <- BobToPool
  ActiveParticipants <- AliceThenNobody
  MinAmount = 2
  MaxAmount = 6
  MaxEscrowsPerEpoch = 2
  MaxSettlementNonce = 5
  DevshardPruningMax = 1
  MaxEscrows = 3
  MaxEpoch = 4
  BlocksPerEpoch = 3
  SlotChoices <- UnevenSlots
  Amounts <- AskedAmounts
  Settlements <- SomeSettlements
  GrantSets <- HotGrant
INVARIANTS Solvent TypeOK QuotaKept StatsMatchSettlements
PROPERTIES SettleableNeverPruned EveryEscrowReleased
