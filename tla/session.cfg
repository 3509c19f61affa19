SPECIFICATION Spec
CONSTANTS
  alice = alice
  bob = bob
  carol = carol
  warm = warm
  home = home
  away = away
  NoKey = NoKey
  NoRecord = NoRecord
  Modulus = 16
  NumSlots = 2
  SlotToAddress <- OneEach
  Keys <- ColdKeys
  EscrowID = home
  EscrowAmount = 5
  CreateDevshardFee = 1
  FeePerNonce = 1
  TokenPrice = 1
  VoteThreshold = 0
  InferenceSealGraceNonces = 1
  InferenceSealGraceSeconds = 2
  AutoSealEveryNNonces = 1
  MaxNonce = 4
  TxTypes = {"start", "confirm", "finish", "validate", "vote", "timeout", "finalize"}
  StartInputs <- MoneyStarts
  FinishInputs <- MoneyFinishes
  ConfirmTimes <- MoneyTimes
  EscrowIDs <- OneEscrow
  TimeoutVotes <- MoneyVotes
  ApplyModes = {"strict"}
  Grants <- NoGrants
INVARIANTS TypeOK EscrowConserved CostMatchesRecords SettlementIsComplete FeesMatchNonces FinalizationOnTime StatsWithinAssignment HonestSettlementPays
PROPERTIES SettlementIsFinal RecordsOnlyAdvance
CHECK_DEADLOCK FALSE
