--------------------------- MODULE MCDevshardEscrow ---------------------------
(* Instances of DevshardEscrow for TLC. *)
EXTENDS DevshardEscrow

CONSTANTS alice, bob, user, pool, hot

TwoValidators == {alice, bob}
FourAccounts == {alice, bob, user, pool}
UserFunds == [a \in FourAccounts |-> IF a = user THEN 17 ELSE 0]

\* Bob's payments go to another account.
BobToPool == [v \in TwoValidators |-> IF v = bob THEN pool ELSE v]

\* Alice is active in the first epochs only.
AliceThenNobody == [e \in 1 .. MaxEpoch |-> IF e <= 2 THEN {alice} ELSE {}]

\* Alice has two of the three slots.
UnevenSlots == {[x \in 0 .. 2 |-> IF x < 2 THEN alice ELSE bob]}

Entry(x, m, i, c) == [slot |-> x, missed |-> m, invalid |-> i, cost |-> c]
Sig(x, k) == [slot |-> x, key |-> k]
AllSign == <<Sig(0, alice), Sig(1, hot), Sig(2, bob)>>
AllStats == <<Entry(0, 0, 0, 1), Entry(1, 1, 0, 0), Entry(2, 0, 1, 2)>>

Msg(n, f, h, g) ==
  [settler |-> user, nonce |-> n, fees |-> f, hostStats |-> h, signatures |-> g]

\* The honest message; one with a slot missing, whose fee share is refunded;
\* then messages the chain refuses: too much, implausible, a slot signed
\* twice, a slot reported twice.
SomeSettlements ==
  {Msg(3, 2, AllStats, AllSign),
   Msg(3, 1, <<Entry(2, 0, 0, 0)>>, AllSign),
   Msg(3, 3, AllStats, AllSign),
   Msg(2, 2, <<Entry(0, 0, 1, 1)>>, AllSign),
   Msg(3, 2, AllStats, <<Sig(0, alice), Sig(0, alice), Sig(2, bob)>>),
   Msg(3, 0, <<Entry(2, 0, 0, 2), Entry(2, 0, 0, 2)>>, AllSign)}

HotGrant == {{<<hot, alice>>}}
AskedAmounts == {5, 6, 9}
=============================================================================
