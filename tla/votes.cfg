SPECIFICATION Spec
CONSTANTS
  alice = alice
  bob = bob
  carol = carol
  warm = warm
  home = home
  away = away
  NoKey = NoKey
  NoRecord = NoRecord
  Modulus = 16
  NumSlots = 4
  SlotToAddress <- ThreeOwners
  Keys <- VoterKeys
  EscrowID = home
  EscrowAmount = 4
  CreateDevshardFee = 0
  FeePerNonce = 0
  TokenPrice = 1
  VoteThreshold = 2
  InferenceSealGraceNonces = 1
  InferenceSealGraceSeconds = 2
  AutoSealEveryNNonces = 1
  MaxNonce = 2
  TxTypes = {"start", "confirm", "finish", "validate", "vote"}
  StartInputs <- MoneyStarts
  FinishInputs <- VoteFinishes
  ConfirmTimes <- MoneyTimes
  EscrowIDs <- OneEscrow
  TimeoutVotes <- NoVotes
  ApplyModes = {"strict"}
  Grants <- NoGrants
INVARIANTS EscrowConserved CostMatchesRecords DecisionsBacked
PROPERTIES RecordsOnlyAdvance
CHECK_DEADLOCK FALSE
