---------------------------- MODULE DevshardEscrow ----------------------------
(***************************************************************************)
(* Devshard escrows on chain: CreateDevshardEscrow, SettleDevshardEscrow   *)
(* and the devshard pruner of x/inference/keeper.  A transaction is atomic *)
(* and one that fails changes nothing.  The variables hold the devshard    *)
(* part of the module account only.  The bank refuses to overdraw an       *)
(* account; here the module account may go below zero, and TypeOK says     *)
(* that no payment ever needs the refusal.                                 *)
(***************************************************************************)
EXTENDS SettlementRules

CONSTANTS
  GroupSize,            \* slots per escrow
  Validators,           \* the participants that may own slots
  Accounts,             \* bank accounts: creators and payment recipients
  Funds,                \* account -> coins at the start
  Recipient,            \* validator -> account its payments go to (claim recipient)
  ActiveParticipants,   \* epoch -> validators in the active set of the epoch
  MinAmount, MaxAmount, MaxEscrowsPerEpoch,
  MaxSettlementNonce,   \* params.MaxNonce
  DevshardPruningMax,
  NoEscrow

CONSTANTS               \* inputs and bounds
  MaxEscrows,           \* bound: escrow ids are 1 .. MaxEscrows
  MaxEpoch,             \* bound: the last epoch reached
  BlocksPerEpoch,       \* passes of the pruner that an epoch has at least
  SlotChoices,          \* outcomes of the weighted slot sampling
  Amounts,              \* amounts a creator asks for
  Settlements,          \* settlement messages
  GrantSets             \* sets of <<warm key, validator>> authz grants

DevshardPruningThreshold == 2
GroupSlots == 0 .. GroupSize - 1
EscrowIds == 1 .. MaxEscrows
Epochs == 1 .. MaxEpoch

ASSUME ChainAssumption ==
  /\ {MinAmount, MaxAmount, MaxEscrowsPerEpoch, MaxSettlementNonce,
      MaxEscrows, BlocksPerEpoch} \subseteq Nat
  /\ {GroupSize, MaxEpoch, DevshardPruningMax} \subseteq Nat \ {0}
  /\ IsFiniteSet(Validators) /\ IsFiniteSet(Accounts)
  /\ Funds \in [Accounts -> Nat]
  /\ Recipient \in [Validators -> Accounts]
  /\ ActiveParticipants \in [Epochs -> SUBSET Validators]
  /\ SlotChoices \subseteq [GroupSlots -> Validators]
  /\ Amounts \subseteq Nat

HostStats == [slot : Nat, missed : Nat, invalid : Nat, cost : Nat]

ASSUME SettlementAssumption ==
  \A m \in Settlements : /\ m.hostStats \in Seq(HostStats)
                         /\ m.fees \in Nat /\ m.nonce \in Nat

DevshardEscrows ==
  [creator : Accounts, amount : Nat, slots : [GroupSlots -> Validators],
   epoch : Epochs, settled : BOOLEAN]

ASSUME NoEscrowAssumption == NoEscrow \notin DevshardEscrows

DevshardHostEpochStats == [missed : Nat, invalid : Nat, cost : Nat, escrowCount : Nat]
NoStats == [missed |-> 0, invalid |-> 0, cost |-> 0, escrowCount |-> 0]

VARIABLES
  epoch,        \* the effective epoch index
  blocks,       \* passes of the pruner in this epoch, up to BlocksPerEpoch
  bank,         \* account -> coins
  module,       \* coins of the module account that escrows put there
  owed,         \* validator -> CoinBalance credited by settlements
  dust,         \* history: coins pruning left in the module account
  escrows,      \* id -> escrow
  counter,      \* DevshardEscrowCounter
  epochCount,   \* DevshardEscrowEpochCount
  stats,        \* DevshardHostEpochStatsMap
  lastPruned    \* PruningState.DevshardPrunedEpoch

vars == <<epoch, blocks, bank, module, owed, dust, escrows, counter, epochCount,
          stats, lastPruned>>

Init ==
  /\ epoch = 1 /\ blocks = 0
  /\ bank = Funds
  /\ module = 0 /\ dust = 0
  /\ owed = [v \in Validators |-> 0]
  /\ escrows = [i \in EscrowIds |-> NoEscrow]
  /\ counter = 0
  /\ epochCount = [e \in Epochs |-> 0]
  /\ stats = [e \in Epochs |-> [v \in Validators |-> NoStats]]
  /\ lastPruned = 0

Stored == {i \in EscrowIds : escrows[i] # NoEscrow}
Open == {i \in Stored : ~escrows[i].settled}

-----------------------------------------------------------------------------
\* Mutation of WithinQuota: off by one.
OverQuota == epochCount[epoch] <= MaxEscrowsPerEpoch

WithinQuota == epochCount[epoch] < MaxEscrowsPerEpoch

\* Mutation of CanLock: the transfer is not refused.
LockUnchecked(creator, amount) == TRUE

\* The bank moves the amount to the module account or refuses.
CanLock(creator, amount) == bank[creator] >= amount

CreateDevshardEscrow(creator, amount, slots) ==
  /\ counter < MaxEscrows
  /\ amount >= MinAmount /\ amount <= MaxAmount
  /\ WithinQuota
  /\ CanLock(creator, amount)
  /\ bank' = [bank EXCEPT ![creator] = @ - amount]
  /\ module' = module + amount
  /\ counter' = counter + 1
  /\ escrows' = [escrows EXCEPT ![counter + 1] =
                   [creator |-> creator, amount |-> amount, slots |-> slots,
                    epoch |-> epoch, settled |-> FALSE]]
  /\ epochCount' = [epochCount EXCEPT ![epoch] = @ + 1]
  /\ UNCHANGED <<epoch, blocks, owed, dust, stats, lastPruned>>

-----------------------------------------------------------------------------
\* Each signature is for another slot and recovers to the slot's validator or a
\* warm key of it, and there are enough of them.
QuorumSigned(escrow, m, g) ==
  /\ \A i, j \in DOMAIN m.signatures :
       m.signatures[i].slot = m.signatures[j].slot => i = j
  /\ \A i \in DOMAIN m.signatures :
       LET sig == m.signatures[i]
       IN  /\ sig.slot \in GroupSlots
           /\ \/ sig.key = escrow.slots[sig.slot]
              \/ <<sig.key, escrow.slots[sig.slot]>> \in g
  /\ Len(m.signatures) >= DevshardQuorumFor(GroupSize)

\* Mutation of VerifyDevshardSettlement: the settled flag is not looked at.
VerifySettledOrNot(escrow, m, g) ==
  /\ m.settler = escrow.creator
  /\ m.nonce <= MaxSettlementNonce
  /\ QuorumSigned(escrow, m, g)
  /\ Payable(m.hostStats, m.fees, m.nonce, GroupSize, escrow.amount)

\* A version outside the approved list, and a state root that is not the hash
\* of the message, are messages that the signatures do not cover.
VerifyDevshardSettlement(escrow, m, g) ==
  /\ ~escrow.settled
  /\ m.settler = escrow.creator
  /\ m.nonce <= MaxSettlementNonce
  /\ QuorumSigned(escrow, m, g)
  /\ Payable(m.hostStats, m.fees, m.nonce, GroupSize, escrow.amount)

InWindow(e) == epoch >= e /\ epoch <= e + 1

Payouts(escrow, m) ==
  [v \in Validators |-> PayoutOf(m.hostStats, m.fees, escrow.slots, v)]

\* Validators of the escrow's epoch, while it is current, are credited; the
\* others are paid out at once.
Credited(escrow) == IF epoch = escrow.epoch THEN ActiveParticipants[epoch] ELSE {}

\* f with its values outside S set to zero.
Only(f, S) == [x \in DOMAIN f |-> IF x \in S THEN f[x] ELSE 0]

\* What each account receives when the validators in S are paid f.
Received(f, S) ==
  [a \in Accounts |-> SumOf(Only(f, {v \in S : Recipient[v] = a}))]

\* The entries of the message that belong to a validator.
EntriesOf(escrow, m, v) ==
  {i \in DOMAIN m.hostStats : escrow.slots[m.hostStats[i].slot] = v}

SumEntries(m, S, field) ==
  SumOf(Only([i \in DOMAIN m.hostStats |-> m.hostStats[i][field]], S))

\* Mutation of CountsEscrow: each slot counts.
CountsSlots(mine) == Cardinality(mine)

\* A validator with several slots is counted as one escrow.
CountsEscrow(mine) == IF mine = {} THEN 0 ELSE 1

\* UpdateDevshardHostEpochStats over all entries.
AddStats(old, escrow, m) ==
  [v \in Validators |->
     LET mine == EntriesOf(escrow, m, v)
     IN  [missed |-> old[v].missed + SumEntries(m, mine, "missed"),
          invalid |-> old[v].invalid + SumEntries(m, mine, "invalid"),
          cost |-> old[v].cost + SumEntries(m, mine, "cost"),
          escrowCount |-> old[v].escrowCount + CountsEscrow(mine)]]

SettleDevshardEscrow(id, m, g) ==
  LET escrow == escrows[id]
      payouts == Payouts(escrow, m)
      direct == Validators \ Credited(escrow)
      refund == escrow.amount - SumOf(payouts)
  IN  /\ id \in Stored
      /\ VerifyDevshardSettlement(escrow, m, g)
      /\ InWindow(escrow.epoch)
      /\ SumOf(payouts) <= escrow.amount
      /\ owed' = [v \in Validators |->
                    owed[v] + (IF v \in Credited(escrow) THEN payouts[v] ELSE 0)]
      /\ bank' = [a \in Accounts |-> bank[a] + Received(payouts, direct)[a]
                                     + (IF a = escrow.creator THEN refund ELSE 0)]
      /\ module' = module - SumOf(Only(payouts, direct)) - refund
      /\ stats' = [stats EXCEPT ![escrow.epoch] = AddStats(@, escrow, m)]
      /\ escrows' = [escrows EXCEPT ![id].settled = TRUE]
      /\ UNCHANGED <<epoch, blocks, dust, counter, epochCount, lastPruned>>

-----------------------------------------------------------------------------
(***************************************************************************)
(* EndBlock prunes the epochs from the one after the last completed one to *)
(* the current epoch less the threshold.  DevshardEscrowsByEpoch is the    *)
(* set of stored escrows by their epoch.  Keeper.Prune returns at the      *)
(* first pruner that errs, and EndBlock logs the error: a block in which   *)
(* another pruner errs before the devshard pruner is a stuttering step.    *)
(***************************************************************************)
ByEpoch(e) == {i \in Stored : escrows[i].epoch = e}

\* Mutation of EpochsToPrune: the threshold is one epoch.
PruneNextEpoch == {e \in Epochs : lastPruned < e /\ e <= epoch - 1}

\* Mutation of EpochsToPrune: off by one.
PruneOneLess == {e \in Epochs : lastPruned < e /\ e < epoch - DevshardPruningThreshold}

\* getEpochsToPrune: an end below zero is zero, which is before every epoch.
EpochsToPrune == {e \in Epochs : lastPruned < e /\ e <= epoch - DevshardPruningThreshold}

\* PruneEpoch takes the first DevshardPruningMax escrows of the epoch.
PrunedNow(e) == {i \in ByEpoch(e) : Cardinality({j \in ByEpoch(e) : j < i}) < DevshardPruningMax}

\* An epoch is complete when a pass finds nothing in it.
Completed(e) == ByEpoch(e) = {}

\* distributeUnsettledEscrow: each slot gets an equal share.
Shares(escrow) ==
  [v \in Validators |->
     (escrow.amount \div GroupSize) * Cardinality({x \in GroupSlots : escrow.slots[x] = v})]

\* What the validators get for the escrows in ids.
Distributed(ids) ==
  [v \in Validators |-> SumOf([i \in ids \cap Open |-> Shares(escrows[i])[v]])]

\* What the division of the escrows in ids among their slots leaves over.
Remainders(ids) == SumOf([i \in ids \cap Open |-> escrows[i].amount % GroupSize])

\* Validators in `unpaid' cannot be paid: the recipient does not resolve, or
\* the bank refuses the transfer.  That is logged, and the escrow is removed.
EndBlock(unpaid) ==
  LET gone == UNION {PrunedNow(e) : e \in EpochsToPrune}
      done == {e \in EpochsToPrune : Completed(e)}
      paid == Validators \ unpaid
      total == SumOf(Only(Distributed(gone), paid))
  IN  /\ blocks' = IF blocks < BlocksPerEpoch THEN blocks + 1 ELSE blocks
      /\ bank' = [a \in Accounts |-> bank[a] + Received(Distributed(gone), paid)[a]]
      /\ module' = module - total
      /\ dust' = dust + Remainders(gone) + SumOf(Only(Distributed(gone), unpaid))
      /\ escrows' = [i \in EscrowIds |-> IF i \in gone THEN NoEscrow ELSE escrows[i]]
      /\ epochCount' = [e \in Epochs |-> IF e \in done THEN 0 ELSE epochCount[e]]
      /\ stats' = [e \in Epochs |-> IF e \in done THEN [v \in Validators |-> NoStats]
                                    ELSE stats[e]]
      /\ lastPruned' = IF done = {} THEN lastPruned
                       ELSE CHOOSE e \in done : \A f \in done : f <= e
      /\ UNCHANGED <<epoch, owed, counter>>

\* The next epoch becomes effective at the end of a block, after pruning.
NextEpoch ==
  /\ epoch < MaxEpoch
  /\ blocks >= BlocksPerEpoch
  /\ epoch' = epoch + 1
  /\ blocks' = 0
  /\ UNCHANGED <<bank, module, owed, dust, escrows, counter, epochCount, stats, lastPruned>>

Next ==
  \/ \E c \in Accounts, a \in Amounts, s \in SlotChoices : CreateDevshardEscrow(c, a, s)
  \/ \E id \in EscrowIds, m \in Settlements, g \in GrantSets : SettleDevshardEscrow(id, m, g)
  \/ \E unpaid \in SUBSET Validators : EndBlock(unpaid)
  \/ NextEpoch

Spec == Init /\ [][Next]_vars

\* EndBlock would change something, and it has done so.
EndBlockDue == blocks < BlocksPerEpoch \/ EpochsToPrune # {}
EndBlockDone ==
  \/ blocks' > blocks
  \/ lastPruned' # lastPruned
  \/ \E i \in Stored : escrows'[i] = NoEscrow

NextEpochDue == epoch < MaxEpoch /\ blocks >= BlocksPerEpoch

\* Blocks in which the devshard pruner runs come for ever, and epochs follow one
\* another.  This is weak fairness of EndBlock (for some `unpaid') and of NextEpoch.
FairSpec ==
  /\ Spec
  /\ []<>~EndBlockDue \/ []<><<EndBlockDone>>_vars
  /\ []<>~NextEpochDue \/ []<><<epoch' # epoch>>_vars

-----------------------------------------------------------------------------
(* Properties. *)

\* No account is overdrawn, in particular the module account by a payout, a
\* refund or a distribution.
TypeOK ==
  /\ epoch \in Epochs /\ blocks \in Nat
  /\ bank \in [Accounts -> Nat] /\ module \in Nat
  /\ owed \in [Validators -> Nat] /\ dust \in Nat
  /\ escrows \in [EscrowIds -> DevshardEscrows \cup {NoEscrow}]
  /\ counter \in 0 .. MaxEscrows
  /\ epochCount \in [Epochs -> Nat]
  /\ stats \in [Epochs -> [Validators -> DevshardHostEpochStats]]
  /\ lastPruned \in Nat

OpenAmount(i) ==
  IF escrows[i] = NoEscrow THEN 0 ELSE IF escrows[i].settled THEN 0 ELSE escrows[i].amount

\* The module account holds exactly the open escrows, what settlements credited
\* to validators, the remainders of pruned escrows and the shares whose payment
\* failed: no escrow is paid out twice, by two settlements or by a settlement and
\* the pruner, and no slot's share of a pruned escrow is forgotten
\* (distributeUnsettledEscrow).
Solvent ==
  module = SumOf([i \in EscrowIds |-> OpenAmount(i)]) + SumOf(owed) + dust

\* An epoch never has more escrows than MaxEscrowsPerEpoch: the counter that
\* CreateDevshardEscrow compares never falls behind the escrows it counts.
QuotaKept == \A e \in Epochs : Cardinality(ByEpoch(e)) <= MaxEscrowsPerEpoch

\* The pruner never takes an escrow that its creator could still settle.
SettleableNeverPruned ==
  [][\A i \in Stored : InWindow(escrows[i].epoch) => escrows'[i] # NoEscrow]_vars

\* Host statistics of an epoch report no more cost than the settled escrows of
\* the epoch were worth, and count no escrow twice for one validator, as long
\* as the escrows are there to compare with.
StatsMatchSettlements ==
  \A e \in Epochs : epoch < e + DevshardPruningThreshold =>
    LET settled == ByEpoch(e) \ Open
    IN  /\ SumOf([v \in Validators |-> stats[e][v].cost])
             <= SumOf([i \in settled |-> escrows[i].amount])
        /\ \A v \in Validators :
             stats[e][v].escrowCount <=
               Cardinality({i \in settled : \E x \in GroupSlots : escrows[i].slots[x] = v})

\* Money does not stay locked as long as the passes of an epoch suffice for the
\* escrows of one: an escrow is settled, or pruned once its epoch is old enough
\* (the last epochs of the bounded run are never old enough).
EveryEscrowReleased ==
  \A i \in EscrowIds :
    i \in Open /\ escrows[i].epoch + DevshardPruningThreshold <= MaxEpoch ~> i \notin Open

-----------------------------------------------------------------------------
(* What the repository says of the pruner and the code does not do. *)

\* update-v0.2.4/README.md, pruning improvements: a given number of items is
\* pruned each block until all items are pruned.  The epochs up to the pruner's
\* progress marker, which it never visits again, have no escrows left.
NothingLeftBehind == \A e \in Epochs : e <= lastPruned => ByEpoch(e) = {}
=============================================================================
