--------------------------- MODULE SettlementRules ---------------------------
(***************************************************************************)
(* The arithmetic of a devshard settlement on chain:                       *)
(* src/inference-chain/x/inference/keeper/devshard_settlement.go and       *)
(* msg_server_settle_devshard_escrow.go.  HostStats is the sequence of the *)
(* message's entries [slot, missed, invalid, cost].  Machine integers are  *)
(* unbounded here: every addition of the code reports a carry as an error, *)
(* and the sums are compared with the escrow amount afterwards.            *)
(***************************************************************************)
EXTENDS Sums, Sequences

DevshardQuorumFor(n) == (2 * n) \div 3 + 1

\* Mutation of devshardAssignedUpperBoundForSlot: full rounds only.
FullRoundsOnly(nonce, n, slot) ==
  LET first == IF slot = 0 THEN n ELSE slot
  IN  IF nonce < first THEN 0 ELSE (nonce - first) \div n

\* How many of the inference ids 1 .. nonce are routed to the slot.  Nonce 0 is
\* never used, so slot 0 has its first inference at nonce n.
devshardAssignedUpperBoundForSlot(nonce, n, slot) ==
  LET first == IF slot = 0 THEN n ELSE slot
  IN  IF nonce < first THEN 0 ELSE 1 + (nonce - first) \div n

\* No slot has two entries, and each entry's counts fit the inferences that its
\* slot can have been assigned.
StatsPlausible(hostStats, nonce, n) ==
  /\ \A i, j \in DOMAIN hostStats : hostStats[i].slot = hostStats[j].slot => i = j
  /\ \A i \in DOMAIN hostStats :
       LET hs == hostStats[i]
           assigned == devshardAssignedUpperBoundForSlot(nonce, n, hs.slot)
       IN  /\ hs.slot \in 0 .. n - 1
           /\ hs.missed <= assigned
           /\ hs.invalid <= assigned - hs.missed

TotalCost(hostStats) == SumOf([i \in DOMAIN hostStats |-> hostStats[i].cost])

\* Mutation of FeeShare: the division remainder goes to nobody.
EqualFeeShare(fees, n, i) == fees \div n

\* The fees of the i-th entry: an equal share, and the remainder one coin each
\* to the first entries.
FeeShare(fees, n, i) == fees \div n + (IF i <= fees % n THEN 1 ELSE 0)

\* What a validator is paid: the cost and the fee share of each of its slots.
PayoutOf(hostStats, fees, slots, addr) ==
  SumOf([i \in DOMAIN hostStats |->
           IF slots[hostStats[i].slot] # addr THEN 0
           ELSE hostStats[i].cost + FeeShare(fees, Cardinality(DOMAIN slots), i)])

\* Every coin of the remainder found an entry.
RemainderAllocated(hostStats, fees, n) == fees % n <= Len(hostStats)

\* The part of VerifyDevshardSettlement and SettleDevshardEscrow that depends
\* on the session's outcome only: what an honest settlement must satisfy.
Payable(hostStats, fees, nonce, n, amount) ==
  /\ StatsPlausible(hostStats, nonce, n)
  /\ TotalCost(hostStats) + fees <= amount
  /\ RemainderAllocated(hostStats, fees, n)
=============================================================================
