-------------------------- MODULE DevshardSettlement --------------------------
(***************************************************************************)
(* A session and the chain that settles it: the payload that BuildSettlement *)
(* makes of a state in the settlement phase, judged by the rules of         *)
(* VerifyDevshardSettlement and SettleDevshardEscrow.                       *)
(***************************************************************************)
EXTENDS DevshardState, SettlementRules

\* HostStats of the payload, in slot order: NewStateMachine made an entry for
\* every slot of the group.
SettlementStats(s) ==
  [k \in 1 .. NumSlots |->
     [slot |-> k - 1, missed |-> s.missed[k - 1], invalid |-> s.invalid[k - 1],
      cost |-> s.cost[k - 1]]]

Owners == {SlotToAddress[x] : x \in Slots}

ChainPayouts(s) ==
  [a \in Owners |-> PayoutOf(SettlementStats(s), s.fees, SlotToAddress, a)]

\* At every committed nonce the host statistics fit the number of inferences
\* the chain believes the slots were assigned, whatever timed out, was
\* invalidated, or was both challenged and drained.
StatsWithinAssignment ==
  StatsPlausible(SettlementStats(snap), snap.latestNonce, NumSlots)

\* The chain accepts the payload of a session that reached settlement, pays
\* out every fee coin, and refunds exactly the session's final balance.
HonestSettlementPays ==
  snap.phase = "settlement" =>
    /\ Payable(SettlementStats(snap), snap.fees, snap.latestNonce, NumSlots, EscrowAmount)
    /\ EscrowAmount - SumOf(ChainPayouts(snap)) = snap.balance
=============================================================================
