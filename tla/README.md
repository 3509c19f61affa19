# Verification of the devshard escrow protocol

Gonka is a proof-of-compute chain for AI inference. This directory models the part
of it that moves a user's coins for off-chain inference: a *devshard* session locks
an escrow on chain, spends it off chain through diffs that a group of hosts sign,
and settles the result on chain. The models are TLA+ modules; TLC checks them on
small instances and TLAPS proves the main results for every value of the constants.

Contents: [system](#the-system), [modules](#modules), [runs](#runs),
[bounds](#bounds), [fairness](#fairness), [proofs](#proofs),
[findings](#where-code-and-documents-disagree), [not modelled](#what-is-not-modelled),
[plan](#plan).

## The system

| Part | Source | State here |
| --- | --- | --- |
| Session state machine | `devshard/state/machine.go` | `DevshardState` |
| Sealing, state clock, settlement drain | `devshard/state/seal.go` | `DevshardState` |
| Checked arithmetic | `devshard/state/machine.go` (`safeMul`, `safeAdd`, `tokenCost`) | `SafeMath` |
| Settlement payload | `devshard/state/settlement.go` | `DevshardSettlement` |
| Escrow creation, settlement, statistics on chain | `inference-chain/x/inference/keeper/*devshard*` | `DevshardEscrow`, `SettlementRules` |
| Pruner | `inference-chain/x/inference/keeper/pruning.go`, `devshard_pruning.go` | `DevshardEscrow` |
| Devshard host, diff journal, session recovery | `devshard/host`, `storage`, `cmd/devshardd/session` | `DevshardHost` |
| User session, gossip, transport | `devshard/user`, `gossip`, `transport` | `composeDiffLocked` in `DevshardHost`; the rest is planned |
| Epoch settlement, claims, collateral, vesting, BLS, bridge, PoC, maintenance | `inference-chain/x/*` | not modelled yet |
| API node: broker, transaction manager, PoC workers | `decentralized-api` | not modelled yet |
| Proxies, routers, version manager | `proxy`, `edge-api`, `versioned` | no protocol state |

`PROJECT.json` lists every part with its files and the reason where it is left out.

How the parts interact. A creator calls `CreateDevshardEscrow`: coins go from the bank
account to the module account, a group of slots is sampled by weight, and one validator
may own several slots. The user of the session then sequences *diffs*. A diff has a
nonce and a list of transactions (start, confirm, finish, validation, vote, timeout,
finalize). Every host applies it to its copy of the `EscrowState` and signs the new
state root. Inference `id` is the nonce of the diff that starts it and is executed by
slot `id mod NumSlots`. Each nonce costs a fee; a start reserves the largest possible
cost; a finish charges the actual cost and returns the surplus. Old records are sealed
into an accumulator. A finalize transaction opens a phase of `NumSlots` nonces, after
which the live records are drained by default rules and the state can be settled. The
settlement payload with more than two thirds of the slots' signatures goes to
`SettleDevshardEscrow`, which checks it, credits or pays the validators and refunds the
creator. An escrow nobody settles is distributed by the pruner two epochs later.

## Modules

**`SafeMath`** is the checked uint64 arithmetic over an arbitrary `Modulus` (2^64 in the
build). **`Sums`** defines a sum as the cardinality of a set of coins, so that no
recursion is needed and the provers can reason about it.

**`DevshardState`** is the session. The Go struct `EscrowState` is one record `st`.
Each transaction handler (`applyStartInference`, `applyConfirmStart`,
`applyFinishInference`, `applyValidation`, `applyValidationVote`, `applyTimeout`,
`applyFinalizeRound`) is an operator that returns whether it succeeded and the state it
leaves. A handler that fails after it verified a signature leaves the warm-key binding
that `ResolveWarmKey` made, as the code does. The actions drive one replica:

| Action | Code |
| --- | --- |
| `BeginDiff` | entry of `applyCore` or `localBestEffortLocked`, snapshot taken |
| `ApplyTx` | one transaction accepted |
| `SkipTx` | a failing transaction that best-effort application leaves out |
| `RejectDiff` | rollback: failure in strict mode, failing start, unpaid fee, wrong root, trial application |
| `EndDiff` | fee, nonce, finalization deadline, automatic sealing |
| `DrainOne`, `DrainFails` | one iteration of `drainLiveIntoSealedAccLocked`, or its storage error |
| `InjectWarmKeys` | bindings restored by replay |

`snap` is the committed state and the one a rollback restores. Grants on mainnet are an
input of each verification, so they can change between any two transactions. The code
holds a lock over a whole diff; the steps inside it are separate because the properties
must hold at each of them. Abstractions: a signature is the key it recovers to; hashes
do not collide, so the accumulator is the sealed part of the records; messages are
records of small fields.

**`SettlementRules`** has the arithmetic of the settlement message on chain (quorum,
assignment bound per slot, fee shares with remainder). **`DevshardSettlement`** composes
the session with these rules: it builds the payload from the session's state and lets
the chain judge it.

**`DevshardEscrow`** is the chain side: `CreateDevshardEscrow`, `SettleDevshardEscrow`
and, in `EndBlock`, the pruner; `NextEpoch` moves the epoch. A transaction is atomic, so
each message is one action. `owed` is what settlements credited to `CoinBalance`;
`dust` is a history variable, the coins pruning could not hand out. The bank's refusal
to overdraw the module account is left out on purpose, so that `TypeOK` shows that it is
never needed. `dust` is added up from the remainders of the shares and the payments that
failed, not from what left the module account, so `Solvent` compares two sums. Three
simplifications: the set of validators whose payment fails is chosen once per block, not
per escrow; the reset of `CoinBalance` at the end of an epoch (`SettleAccounts`) is not
there, so `owed` accumulates; and `EndBlock` is a block in which the devshard pruner runs.
`Keeper.Prune` calls one pruner after the other and returns at the first that errs, so the devshard
pruner, the ninth, can miss a block. Such a block changes nothing here and is a
stuttering step.

**`DevshardHost`** is one participant's host: several instances of the process over ONE
store, as in the high-availability setup. It takes the operators of `DevshardState`
(`SM == INSTANCE DevshardState`) and applies a whole diff at a time: `Compose` is the
gateway's `composeDiffLocked`, `ApplyDiff` and `applyCore` are strict application. `mem`
is each instance's state machine, `journal`, `sigs` and `lastFinalized` are the tables of
the store, `lock` is each instance's `h.mu`. A thread serves one request of one of four
entry points (`HandleRequest`, `ApplyRecoveredDiffs`, `ApplyCatchUpDiffs`,
`ChallengeReceipt`); its steps are cut exactly where the code gives up the mutex or calls
the store:

| Action | Code |
| --- | --- |
| `Receive`, `SkipDiff`, `RefuseOverLimit` | entry, a diff already applied, `checkDiffNonceLimitLocked` |
| `ValidateDiff` | `applyAndPersist` up to the append: a trial application |
| `Persist`, `PersistForks`, `PersistFails`, `Retry`, `Cancel` | `AppendDiffWithRetryUnlocked` and `CommitValidated`; a failed append may have written its row |
| `FindGap`, `ReadGap`, `ReadFails`, `ResumeGap`, `ApplyDurable`, `GapClosed` | `applyAndPersistReconciling` and `applyDurableRecordLocked` |
| `SignState`, `Withhold`, `GossipSig` | `signIfAccepted`, `AccumulateGossipSig`, `checkFinalization` |
| `Crash`, `Recover` | the process ends at any step; `recoverStoredSession` replays the journal |

A state root is the state without its nonces, as in `hash.go`. Grants on mainnet are an
input of every application. A signature is the root it covers. Writes of signatures
succeed as a whole or not at all.

**`MC...`** modules give the constants small values for TLC.

## Runs

| Run | What it shows |
| --- | --- |
| `session` | Session and chain together: two slots, four nonces, every order of start, confirm, finish, validation, vote, timeout, rollback, finalize, drain. Coins are conserved at each step (`EscrowConserved`), host costs match the records (`CostMatchesRecords`), fees match nonces (`FeesMatchNonces`), the finalization deadline is met exactly (`FinalizationOnTime`), nothing is reserved once settled (`SettlementIsComplete`), records only move forward (`RecordsOnlyAdvance`). The payload of every reachable settlement state passes the checks of the chain, pays every fee coin and refunds exactly the final balance (`HonestSettlementPays`); host statistics fit the bound of the chain at every nonce (`StatsWithinAssignment`); diffs after settlement change nothing that is paid out (`SettlementIsFinal`). |
| `votes` | Three owners of four slots judge two inferences that are open at the same time: each owner counts once with the weight of all its slots, in whatever order validations and votes come (`DecisionsBacked`). |
| `warm` | Best-effort application with failing transactions while mainnet revokes one grant and gives another: coins stay conserved, and a committed binding stays (`BindingsAreStable`). |
| `escrow` | Three escrows over four epochs: the module account holds exactly what it owes (`Solvent`), the quota holds, statistics match the settled escrows, the pruner never takes an escrow that can still be settled (`SettleableNeverPruned`). Every escrow is settled or pruned in the end (`EveryEscrowReleased`), as long as the passes of an epoch keep up with its quota; run `backlog` shows the other case. |
| `replicas` | A primary and a standby over one store, in a session that binds a warm key and settles; appends fail or report failure after writing, the drain cannot be written, either instance crashes at any step, the grant of the key is revoked. Each memory is what the journal says for its nonce, or that with the keys of the next row after a replay that failed halfway (`MemoryFollowsJournal`); a fork is reported only from such a memory, so never because of a lost answer, a crash or the other instance (`ForkMeansHalfReplay`). The journal can be replayed to its end without any grant (`JournalReplays`), and an answered request is in memory (`ReplyCoversRequest`). |
| `races` | Two requests in one instance, over a session that does not settle, interleaved wherever the mutex is free: memory never goes back and no row is rewritten (`JournalIsAppendOnly`), an answered request is in memory (`ReplyCoversRequest`), a finalized nonce has a quorum over one root (`FinalizedByQuorum`). Under fair threads every request ends (`RequestsEnd`): the loop of `applyAndPersistReconciling` terminates and nobody waits for the mutex for ever. |

The replay that fails halfway is where the host departs from its documents. With the
bounds of `replicas` three properties that hold in `races`, or that one would expect of
the host, fail for this one reason: `NoForkDetected` (run `fork`), `SignedIsDurable` (run
`signed`), and `FinalizedByQuorum`, since a signature over the wrong root counts as one
of the quorum. `races` has no settling row, so nothing there can fail halfway, and what
it shows is about interleavings only.

Six more runs end in a violation on purpose, see
[below](#where-code-and-documents-disagree).

## Bounds

| Bound | Value | Why it is enough |
| --- | --- | --- |
| `NumSlots` | 1 to 4 | 4 slots give one owner two slots and still three owners, so owner weight and slot count differ; `seal_grace` needs only one. |
| `MaxNonce` | 2 to 4 | With two slots the deadline is two nonces after finalize: one nonce to start, one to finalize, two to reach settlement, or one diff after settlement. `votes` has two nonces: both inferences can be open before the first vote, and a diff takes any number of votes. |
| `EscrowAmount` | 4 to 10 | Small enough that a start or a fee is refused for lack of balance, large enough for two inferences. |
| `Modulus` | 16 | Token counts of 15 overflow it. |
| Confirmation times | 1 or {1, 3} | Below and at the grace period of two seconds. |
| Finish inputs | below and above the reservation | The cap and the surplus both occur. |
| Host: nonces | 2 in `races`, 3 in the others | Two nonces make a gap of one row; with one slot, three bind a key, settle, and leave a row whose delivery makes the settling row part of a gap. |
| Host: instances and threads | 2 and 2, one each; or 1 and 2 | A stale standby needs two instances, a lost race two threads of one. |
| Host: kinds of request | three in `races`, one in `replicas` | `challenge` is left out: its steps are those of a recovered request whose signature is withheld and that is not cancelled. |
| `PersistMaxAttempts` | 1 or 2 (4 in the build) | One retry shows the backoff; giving up does not depend on how many came before. |
| `ChainMaxNonce` | 4 | With one or two slots it caps active work at nonce 2 or 1, so refusals happen. |
| Host: transactions | one or a few lists per nonce | A warm key bound by a confirmation, a start past the cap, a timeout that is left out but whose verification binds. |
| Escrows, epochs | 3, 4 | Two escrows in one epoch (the quota) and one in the next; four epochs let the pruner reach two of them. `backlog` allows three escrows in an epoch. |
| Pruner | one escrow per epoch and pass, 3 passes per epoch (1 in `backlog`) | In `escrow` the passes of an epoch cover the quota, and one pass does not; in `backlog` they do not cover it. |

The settlement messages offered on chain are an honest one, one with a slot missing,
and four the chain must refuse (too much, implausible counts, a slot signed twice, a
slot reported twice). Session runs set `CHECK_DEADLOCK FALSE`: a session ends, and no
diff is opened past `MaxNonce`; the code has such a limit too. A host never stops, so
deadlock is checked there. The two-instance runs use the exchange of the instances
together with their threads as symmetry: they check no liveness, and the instances of one
participant have the same code, store and key. There is no other symmetry, since the
owners differ by their slots.

## Fairness

`escrow` assumes weak fairness of `EndBlock` and of `NextEpoch`, written out with the
state predicates `EndBlockDue` and `NextEpochDue`. The chain executes `EndBlock` in every
block, and the epoch advances by block height, so both happen for ever whatever users do.
Fairness of `EndBlock` includes that the pruners before the devshard pruner do not fail in
all blocks of an epoch; the bound of three passes per epoch is for the blocks in which it
runs. No fairness is assumed of creators or settlers.

`races` assumes that a thread inside a request which can go on again and again does go
on: goroutines are scheduled, backoff timers fire, store calls return (with a result or an
error), and `sync.Mutex` hands the lock to a starving waiter. This is strong fairness of
the thread's steps, written out with the state predicate `CanGoOn`. Nothing is assumed of
the gateway, of recovery or of the outcome of a store call.

## Proofs

`SafeMathProofs` proves for every modulus that `safeAdd`, `safeMul` and `tokenCost`
return the exact result when they report success and report failure exactly when the
true result does not fit (`SafeAddExact`, `SafeMulExact`, `TokenCostExact`). `SumsProofs`
proves what the others need of sums: a sum is a natural number, and changing one entry
changes the sum by the difference.

`DevshardStateProofs` proves `Spec => []TypeOK` (`TypeCorrect`), `Spec =>
[]EscrowConserved` (`Conservation`) and `Spec => []CostMatchesRecords`
(`CostAccounting`), for every group, price, fee, threshold, bound and set of inputs that
satisfies the assumptions of `DevshardState`. These assumptions say what the
constructor's configuration guarantees: a nonempty group, natural amounts that fit the
word, a creation fee the escrow covers, inputs that fit the word.

The inductive invariant (`InvariantHolds`) says of both `st` and `snap` that they are
typed, conserve the escrow and match costs to records. It needs `snap` because a
rollback makes it the working state. It needs all three parts together: the host's cost
is debited on an invalidation, and only the match with the records shows that the debit
does not go below zero, where the code clamps and a coin would appear. The argument has
one lemma per handler, which shows that the handler preserves the invariant of the state
whether it succeeds or fails, and one step per action.

Only model-checked: the votes, sealing, deadline and finality properties, everything
about the chain side and the host, and the composition. Liveness (`EveryEscrowReleased`,
`RequestsEnd`) is outside what TLAPS 1.4.5 proves.

## Where code and documents disagree

| Run | Document | Code |
| --- | --- | --- |
| `failed_tx` | comment in `machine.go`: a failed transaction leaves the state unchanged | a warm key bound while verifying the signature stays, and is part of the root |
| `standby_limit` | `docs/release-0.2.14-v4.md`: a stale standby heals itself from the store when a diff skips ahead | `HandleRequest` checks the nonce limit first, by the phase in memory, and refuses a diff that the replayed state would accept |
| `backlog` | `update-v0.2.4/README.md`: pruning takes a number of items each block until all items are pruned | `Prune` marks an empty epoch complete although an earlier one still has escrows; these are never visited again |
| `seal_grace` | `docs/inference-lifecycle.md`: a finished inference is sealed when enough nonces have passed since `MsgFinishInference` | `autoSealLocked` counts from the start, so a late finish and the seal can be one diff, and nobody can validate the inference |
| `signed` | `docs/high-availability-architecture.md`: a persist failure leaves memory unchanged, never ahead of the store | the key injected for a row that could not be applied stays in memory, and the next request signs and stores the root with it for the old nonce |
| `fork` | `docs/high-availability-architecture.md`: `diff_fork_detected` means real divergence | a durable row whose replay fails (the drain cannot write) leaves its injected warm key in memory at the old nonce; the same diff then has an empty warm-key delta and is reported as a fork of its own row |

How far the backlog is from the configurations in the repository: a pass takes up to
100 escrows of an epoch (`DevshardPruningMax`). The default quota is 100 per epoch, which
one pass covers; the upgrade v0.2.13 sets it to 500 000. With the 2 000 blocks per epoch
of `prod_genesis_overrides.json` the passes take at most 200 000 escrows of an epoch
before the next one is reached; with the 17 280 of `genesis.json`, 1 728 000. An epoch
whose removal errs is passed over in the same way. The escrows left behind can not be
settled either, because their settlement window is over.

Seen while modelling, and not the subject of a run: `CommitValidated` says that any
mutation of the state machine advances the nonce, which the injected key contradicts;
`docs/inference-lifecycle.md` also lets terminal records wait for the clock gate, which
`autoSealLocked` skips for them; `proposals/inference/implementation.md` splits unsettled
escrows among unique validators, where `distributeUnsettledEscrow` pays a share per slot.

## What is not modelled

Cryptography is ideal. Slot sampling is an arbitrary choice from `SlotChoices`. The
validation sampling (`state/validation.go`) and reward formulas use hashes and decimals.
`SealInference` is called by tests only. The counters that a settlement adds to the
current-epoch statistics of a participant
(`AggregateDevshardHostStatsIntoCurrentEpochStats`) and the participant status they
imply belong to the epoch settlement, which is planned. Of the host, the mempool, receipts,
execution and validation jobs and the availability switch are left out; snapshots too,
which the host writes and its recovery does not read. The chain's `max_nonce` is constant
during a session. Logging, events, metrics,
storage formats and transport are left out.

## Plan

1. `DevshardProtocol`: the user as sequencer with its pending list, hosts as replicas of
   `DevshardState`, lost and repeated gossip, signature collection. Properties: a quorum
   signs one root per nonce; liveness of finalization under fair delivery.
2. An abstract `EscrowLedger`, refined by `DevshardState` and by `DevshardEscrow`.
3. `EpochSettlement`: `SettleAccounts` and the epoch switch, interleaved with devshard
   settlements that are credited in between.
4. Proofs for the chain side (`Solvent`) and for `DecisionsBacked`,
   `FeesMatchNonces`, `FinalizationOnTime`, `RecordsOnlyAdvance`, `SettlementIsFinal`; for
   the host, that strict application with the stored bindings does not depend on grants,
   and from it `JournalReplays` and `MemoryFollowsJournal`.
5. Collateral, stream vesting, BLS key generation and threshold signing, bridge, broker
   and transaction manager.
