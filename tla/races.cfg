SPECIFICATION FairSpec
CONSTANTS
  alice = alice
  bob = bob
  warm = warm
  home = home
  primary = primary
  standby = standby
  t1 = t1
  t2 = t2
  NoKey = NoKey
  NoRecord = NoRecord
  NoThread = NoThread
  NoState = NoState
  NoRow = NoRow
  NoRoot = NoRoot
  Modulus = 16
  NumSlots = 2
  SlotToAddress <- OneEach
  Keys <- SomeKeys
  EscrowID = home
  EscrowAmount = 6
  CreateDevshardFee = 0
  FeePerNonce = 1
  TokenPrice = 1
  VoteThreshold = 0
  InferenceSealGraceNonces = 5
  InferenceSealGraceSeconds = 5
  AutoSealEveryNNonces = 1
  MaxNonce = 2
  Grants <- Revocable
  Instances = {primary}
  Threads = {t1, t2}
  HostOf <- TwoThreads
  Self = alice
  Kinds = {"request", "recovered", "catchup"}
  TxLists <- StartAndBind
  ChainMaxNonce = 4
  PersistMaxAttempts = 2
INVARIANTS NoForkDetected FinalizedByQuorum ReplyCoversRequest MemoryFollowsJournal
PROPERTIES JournalIsAppendOnly RequestsEnd
