SPECIFICATION Spec
CONSTANTS
  alice = alice
  bob = bob
  carol = carol
  warm = warm
  home = home
  away = away
  NoKey = NoKey
  NoRecord = NoRecord
  Modulus = 16
  NumSlots = 3
  SlotToAddress <- TwoOwners
  Keys <- WarmKeys
  EscrowID = home
  EscrowAmount = 4
  CreateDevshardFee = 0
  FeePerNonce = 1
  TokenPrice = 1
  VoteThreshold = 1
  InferenceSealGraceNonces = 1
  InferenceSealGraceSeconds = 2
  AutoSealEveryNNonces = 1
  MaxNonce = 3
  TxTypes = {"start", "confirm", "finish", "validate", "timeout", "reveal", "empty"}
  StartInputs <- MoneyStarts
  FinishInputs <- WideFinishes
  ConfirmTimes <- MoneyTimes
  EscrowIDs <- TwoEscrows
  TimeoutVotes <- ShortVotes
  ApplyModes = {"besteffort"}
  Grants <- SomeGrants
INVARIANTS EscrowConserved
PROPERTIES BindingsAreStable
CHECK_DEADLOCK FALSE
