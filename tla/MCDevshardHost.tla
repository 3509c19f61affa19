---------------------------- MODULE MCDevshardHost ----------------------------
(* Instances of DevshardHost for TLC. *)
EXTENDS DevshardHost, TLC

CONSTANTS alice, bob, warm, home, primary, standby, t1, t2

OneSlot == [x \in {0} |-> alice]
OneEach == [x \in 0 .. 1 |-> IF x = 0 THEN bob ELSE alice]
SomeKeys == {alice, bob, warm}

\* Mainnet grants alice's warm key, or has revoked it.
Revocable == {{<<warm, alice>>}, {}}

OneThreadEach == [t \in {t1, t2} |-> IF t = t1 THEN primary ELSE standby]

\* The two instances, each with its thread, can be exchanged.
Exchange ==
  {f \in Permutations({primary, standby, t1, t2}) :
     /\ {f[primary], f[standby]} = {primary, standby}
     /\ f[t1] = t1 <=> f[primary] = primary
     /\ {f[t1], f[t2]} = {t1, t2}}

TwoThreads == [t \in {t1, t2} |-> primary]

Start(n) == [type |-> "start", id |-> n, inputLength |-> 1, maxTokens |-> 1]
ConfirmBy(k) == [type |-> "confirm", id |-> 1, key |-> k, confirmedAt |-> 1]
Finalize == [type |-> "finalize"]

\* A timeout of inference 1 by the vote of the executor's own slot.
TimeoutBy(x, k, accept) ==
  [type |-> "timeout", id |-> 1, reason |-> "refused",
   votes |-> <<[slot |-> x, accept |-> accept, key |-> k]>>]

\* The warm key is bound at nonce 2.  The session settles at nonce 3, or already
\* at nonce 2, with the diff that binds the key.
BindAndSettle ==
  <<{<<Start(1)>>, <<Start(1), Finalize>>}, {<<ConfirmBy(warm), Finalize>>}, {<<>>}>>

\* Two nonces for two threads.  Nonce 2 binds the warm key, or is a start past
\* the active cap, or has a root with the binding of a timeout that was left out.
StartAndBind ==
  <<{<<Start(1)>>}, {<<ConfirmBy(warm)>>, <<Start(2)>>, <<TimeoutBy(1, warm, FALSE)>>}>>

\* A timeout is decided while the session is finalizing.
TimeoutWhileFinalizing ==
  <<{<<Start(1)>>}, {<<Finalize>>}, {<<TimeoutBy(0, alice, TRUE)>>}>>
=============================================================================
