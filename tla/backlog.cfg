SPECIFICATION Spec
CONSTANTS
  alice = alice
  bob = bob
  user = user
  pool = pool
  hot = hot
  NoEscrow = NoEscrow
  GroupSize = 3
  Validators <- TwoValidators
  Accounts <- FourAccounts
  Funds <- UserFunds
  Recipient <- BobToPool
  ActiveParticipants <- AliceThenNobody
  MinAmount = 2
  MaxAmount = 6
  MaxEscrowsPerEpoch = 3
  MaxSettlementNonce = 5
  DevshardPruningMax = 1
  MaxEscrows = 3
  MaxEpoch = 4
  BlocksPerEpoch = 1
  SlotChoices <- UnevenSlots
  Amounts <- AskedAmounts
  Settlements <- SomeSettlements
  GrantSets <- HotGrant
INVARIANTS NothingLeftBehind
