--------------------------- MODULE MCDevshardState ---------------------------
(* Instances of DevshardState for TLC. *)
EXTENDS DevshardState

CONSTANTS alice, bob, carol, warm, home, away

\* Slots 0 and 1 belong to one validator, slot 2 to another.
TwoOwners == [x \in 0 .. 2 |-> IF x < 2 THEN alice ELSE bob]

\* One slot each.
OneEach == [x \in 0 .. 1 |-> IF x = 0 THEN alice ELSE bob]

NoGrants == {{}}

ColdKeys == {alice, bob}
OneEscrow == {home}
MoneyStarts == {<<1, 1>>}
MoneyFinishes == {<<0, 1>>, <<2, 1>>}
MoneyTimes == {1}

Vote(x, a, k) == [slot |-> x, accept |-> a, key |-> k]
MoneyVotes == {<<Vote(0, TRUE, alice)>>}

\* Two slots for alice, one each for bob and carol.
ThreeOwners == [x \in 0 .. 3 |-> CASE x = 1 -> bob [] x = 3 -> carol [] OTHER -> alice]
VoterKeys == {alice, bob, carol}
VoteFinishes == {<<1, 0>>}
NoVotes == {}

\* The second pair overflows the modulus of 16.
WideFinishes == {<<1, 1>>, <<15, 1>>}

\* Alice replaces its warm key: the first grant is revoked, carol is granted.
SomeGrants == {{<<warm, alice>>}, {<<carol, alice>>}}
WarmKeys == {alice, bob, carol, warm}
TwoEscrows == {home, away}
ShortVotes == {<<Vote(0, TRUE, warm), Vote(2, FALSE, bob)>>, <<Vote(0, TRUE, warm), Vote(3, TRUE, bob)>>,
               <<Vote(2, TRUE, bob), Vote(0, TRUE, warm)>>}

\* Confirmation times around a grace period of two seconds.
SealTimes == {1, 3}

\* A group of one slot: the clock looks at the last three inferences.
OneSlot == [x \in {0} |-> alice]
AliceOnly == {alice}
=============================================================================
