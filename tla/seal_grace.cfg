SPECIFICATION Spec
CONSTANTS
  alice = alice
  bob = bob
  carol = carol
  warm = warm
  home = home
  away = away
  NoKey = NoKey
  NoRecord = NoRecord
  Modulus = 16
  NumSlots = 1
  SlotToAddress <- OneSlot
  Keys <- AliceOnly
  EscrowID = home
  EscrowAmount = 10
  CreateDevshardFee = 0
  FeePerNonce = 0
  TokenPrice = 1
  VoteThreshold = 0
  InferenceSealGraceNonces = 1
  InferenceSealGraceSeconds = 2
  AutoSealEveryNNonces = 1
  MaxNonce = 4
  TxTypes = {"start", "confirm", "finish", "timeout"}
  StartInputs <- MoneyStarts
  FinishInputs <- VoteFinishes
  ConfirmTimes <- SealTimes
  EscrowIDs <- OneEscrow
  TimeoutVotes <- MoneyVotes
  ApplyModes = {"strict"}
  Grants <- NoGrants
PROPERTIES FinishedWaitsForGrace
CHECK_DEADLOCK FALSE
