SPECIFICATION Spec
CONSTANTS
  alice = alice
  bob = bob
  warm = warm
  home = home
  primary = primary
  standby = standby
  t1 = t1
  t2 = t2
  NoKey = NoKey
  NoRecord = NoRecord
  NoThread = NoThread
  NoState = NoState
  NoRow = NoRow
  NoRoot = NoRoot
  Modulus = 16
  NumSlots = 1
  SlotToAddress <- OneSlot
  Keys <- SomeKeys
  EscrowID = home
  EscrowAmount = 6
  CreateDevshardFee = 0
  FeePerNonce = 1
  TokenPrice = 1
  VoteThreshold = 0
  InferenceSealGraceNonces = 5
  InferenceSealGraceSeconds = 5
  AutoSealEveryNNonces = 1
  MaxNonce = 3
  Grants <- Revocable
  Instances = {primary, standby}
  Threads = {t1, t2}
  HostOf <- OneThreadEach
  Self = alice
  Kinds = {"request"}
  TxLists <- BindAndSettle
  ChainMaxNonce = 4
  PersistMaxAttempts = 1
INVARIANTS SignedIsDurable
SYMMETRY Exchange
