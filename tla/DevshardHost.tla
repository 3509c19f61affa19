----------------------------- MODULE DevshardHost -----------------------------
(***************************************************************************)
(* A devshard host and its journal: src/devshard/host (HandleRequest,      *)
(* applyAndPersist, reconcile.go, signature accumulation), the diff journal *)
(* of src/devshard/storage and the recovery of a session by replay.        *)
(*                                                                         *)
(* One participant runs several instances of the host over ONE shared      *)
(* store.  Each instance keeps the session in memory under a mutex, h.mu,  *)
(* and serves requests in threads; a thread gives the mutex up while it    *)
(* backs off from a failed append and while it reads a gap from the store. *)
(* The gateway is the only sequencer of diffs.                             *)
(***************************************************************************)
EXTENDS Naturals, Sequences, FiniteSets
LOCAL INSTANCE SequencesExt

CONSTANTS                     \* the session, as in DevshardState
  Modulus, NumSlots, SlotToAddress, Keys, NoKey, NoRecord, EscrowID, EscrowAmount,
  CreateDevshardFee, FeePerNonce, TokenPrice, VoteThreshold,
  InferenceSealGraceNonces, InferenceSealGraceSeconds, AutoSealEveryNNonces,
  MaxNonce, Grants

CONSTANTS
  Instances,                  \* processes of this participant over one store
  Threads,                    \* request handlers
  HostOf,                     \* the instance a thread runs in
  Self,                       \* this participant's validator address
  Kinds,                      \* entry points in use, see Kind below
  TxLists,                    \* nonce -> candidate lists of the gateway
  ChainMaxNonce,              \* max_nonce of the chain, 0 for none
  PersistMaxAttempts,         \* DefaultPersistMaxAttempts
  NoThread, NoState, NoRow, NoRoot

\* HandleRequest, ApplyRecoveredDiffs, ApplyCatchUpDiffs, ChallengeReceipt.
Kind == {"request", "recovered", "catchup", "challenge"}

ASSUME HostAssumption ==
  /\ HostOf \in [Threads -> Instances]
  /\ NoThread \notin Threads
  /\ Kinds \subseteq Kind
  /\ DOMAIN TxLists = 1 .. MaxNonce
  /\ ChainMaxNonce \in Nat
  /\ PersistMaxAttempts \in Nat \ {0}

VARIABLES
  diffs,           \* what the gateway has sequenced: diffs[n] has nonce n
  gw,              \* the gateway's state machine
  journal,         \* the shared diffs table: nonce -> row
  sigs,            \* the shared signatures table: nonce -> slot -> signed root
  lastFinalized,   \* sessions.last_finalized
  mem,             \* the instances' state machines
  up,              \* the instances that hold the session in memory
  lock,            \* the holder of an instance's h.mu
  req,             \* the request a thread is serving
  forked           \* history: diff_fork_detected was raised

vars == <<diffs, gw, journal, sigs, lastFinalized, mem, up, lock, req, forked>>

SM == INSTANCE DevshardState WITH
  TxTypes <- {}, StartInputs <- {}, FinishInputs <- {}, ConfirmTimes <- {},
  EscrowIDs <- {}, TimeoutVotes <- {}, ApplyModes <- {},
  st <- gw, snap <- gw, mode <- "idle", startSeen <- FALSE

-----------------------------------------------------------------------------
(* Diffs as a whole: the state machine's entry points. *)

\* What ComputeStateRoot commits to: not the nonces.
Root(s) == [s EXCEPT !.latestNonce = 0, !.finalizeNonce = 0]

\* At most one MsgStartInference, whose id is the nonce of the diff.
WellFormed(txs, nonce) ==
  \A i, j \in DOMAIN txs :
    txs[i].type = "start" /\ txs[j].type = "start" => i = j /\ txs[i].id = nonce

\* Fee, nonce, sealing and the settlement drain, once the txs are applied.
CloseDiff(s) ==
  LET n == SM!endDiff(s)
  IN  IF n.phase = "settlement" /\ s.phase = "finalizing"
      THEN FoldLeft(SM!drainOne, n, SetToSortSeq(SM!Live(n), <))
      ELSE n

\* applyCore: every transaction must succeed.
applyCore(s, nonce, txs, g) ==
  LET r == FoldLeft(LAMBDA acc, m : IF acc.ok THEN SM!applyTx(acc.st, m, g) ELSE acc,
                    SM!Ok(s), txs)
  IN  IF /\ nonce = s.latestNonce + 1
         /\ WellFormed(txs, nonce)
         /\ r.ok
         /\ SM!CanPayFee(r.st)
      THEN SM!Ok(CloseDiff(r.st))
      ELSE SM!Fail(s)

\* ApplyDiff and ValidateDiff: the result must have the root the user signed.
ApplyDiff(s, d, g) ==
  LET r == applyCore(s, d.nonce, d.txs, g)
  IN  IF r.ok /\ Root(r.st) = d.postStateRoot THEN r ELSE SM!Fail(s)

\* localBestEffortLocked: failing transactions are left out, and the warm keys
\* that their verification bound stay.
BestEffort(s, txs, g) ==
  FoldLeft(LAMBDA acc, m :
             LET r == SM!applyTx(acc.st, m, g)
             IN  [st |-> r.st,
                  applied |-> IF r.ok THEN Append(acc.applied, m) ELSE acc.applied,
                  ok |-> acc.ok /\ (r.ok \/ m.type # "start")],
           [st |-> s, applied |-> <<>>, ok |-> TRUE], txs)

\* ComputeWarmKeyDelta
WarmKeyDelta(before, after) ==
  [x \in SM!Slots |-> IF after.warmKeys[x] = before.warmKeys[x] THEN NoKey ELSE after.warmKeys[x]]

\* Mutation of Inject: the stored bindings are not restored.
InjectNothing(s, delta) == s

\* InjectWarmKeys: existing bindings are kept.
Inject(s, delta) ==
  [s EXCEPT !.warmKeys = [x \in SM!Slots |->
     IF delta[x] = NoKey THEN s.warmKeys[x] ELSE SM!InjectWarmKey(s, x, delta[x]).warmKeys[x]]]

\* Draining writes a row of every record to the store, outside of ValidateDiff.
WritesRows(before, after) ==
  before.phase # "settlement" /\ after.phase = "settlement"
    /\ SM!Sealed(after) # SM!Sealed(before)

FinalizeNonceReserve == NumSlots + 1

\* For a chain maximum that is set.
MaxActiveNonce ==
  IF ChainMaxNonce <= FinalizeNonceReserve THEN 0 ELSE ChainMaxNonce - FinalizeNonceReserve

DiffHasActiveCompletionWork(d) ==
  \E i \in DOMAIN d.txs : d.txs[i].type \in {"start", "timeout", "validate", "vote"}

\* checkDiffNonceLimitLocked
WithinNonceLimit(s, d) ==
  \/ d.nonce <= s.latestNonce
  \/ ChainMaxNonce = 0
  \/ /\ d.nonce <= ChainMaxNonce
     /\ s.phase = "active" /\ DiffHasActiveCompletionWork(d) => d.nonce <= MaxActiveNonce

-----------------------------------------------------------------------------
(* The store. *)

Row(d, before, after) ==
  [diff |-> d, stateHash |-> Root(after), warmKeyDelta |-> WarmKeyDelta(before, after)]

\* GetSessionMeta's LatestNonce.
DurableNonces == {n \in 1 .. MaxNonce : journal[n] # NoRow}
LatestDurable ==
  CHOOSE n \in {0} \cup DurableNonces : \A m \in DurableNonces : m <= n

\* Mutation of IsFork: an identical row that is already there is a conflict.
ConflictOnReplay(row) == journal[row.diff.nonce] # NoRow

\* checkDiffReplayIdentity: the row at the nonce is another one.
IsFork(row) == journal[row.diff.nonce] \notin {NoRow, row}

\* A new row is written; an identical one that is already there is left alone.
AppendDiff(row) == ~IsFork(row) /\ journal' = [journal EXCEPT ![row.diff.nonce] = row]

\* GetDiffs: the rows there are, in nonce order.
GetDiffs(from, to) ==
  LET ns == SetToSortSeq({n \in DurableNonces : from <= n /\ n <= to}, <)
  IN  [i \in DOMAIN ns |-> journal[ns[i]]]

\* recoverStoredSession: every row is replayed on a new state machine, by
\* ApplyLocal, which does not look at post_state_root.
ReplayRow(acc, row, g) ==
  LET r == applyCore(Inject(acc.st, row.warmKeyDelta), row.diff.nonce, row.diff.txs, g)
  IN  IF acc.ok /\ r.ok /\ Root(r.st) = row.stateHash THEN r ELSE SM!Fail(acc.st)

Replay(upto, g) ==
  FoldLeft(LAMBDA acc, row : ReplayRow(acc, row, g), SM!Ok(SM!NewStateMachine), GetDiffs(1, upto))

OwnSlots == {x \in SM!Slots : SlotToAddress[x] = Self}
Quorum == (2 * NumSlots) \div 3 + 1

\* AddSignature for some slots, then checkFinalization.
StoreSignature(n, slots, root) ==
  LET new == [x \in SM!Slots |-> IF x \in slots THEN root ELSE sigs[n][x]]
  IN  /\ sigs' = [sigs EXCEPT ![n] = new]
      /\ lastFinalized' = IF /\ Cardinality({x \in SM!Slots : new[x] # NoRoot}) >= Quorum
                             /\ n > lastFinalized
                          THEN n ELSE lastFinalized

-----------------------------------------------------------------------------
(***************************************************************************)
(* A request in service.  `pc' is where its thread is:                     *)
(*   idle     no request                                                   *)
(*   run      holds h.mu, about to look at diff `next'                     *)
(*   persist  holds h.mu, about to append the validated diff               *)
(*   backoff  gave h.mu up between two attempts to append                  *)
(*   gap      gave h.mu up to read the rows that memory lacks              *)
(*   read     has read them, waits for h.mu                                *)
(*   replay   holds h.mu, applies the rows read                            *)
(*   sign     holds h.mu, about to sign after a recovered diff             *)
(***************************************************************************)
IdleRequest ==
  [pc |-> "idle", kind |-> "request", next |-> 1, last |-> 0, attempt |-> 1,
   row |-> NoRow, post |-> NoState, rows |-> <<>>]

Init ==
  /\ diffs = <<>>
  /\ gw = SM!NewStateMachine
  /\ journal = [n \in 1 .. MaxNonce |-> NoRow]
  /\ sigs = [n \in 1 .. MaxNonce |-> [x \in SM!Slots |-> NoRoot]]
  /\ lastFinalized = 0
  /\ mem = [h \in Instances |-> SM!NewStateMachine]
  /\ up = Instances
  /\ lock = [h \in Instances |-> NoThread]
  /\ req = [t \in Threads |-> IdleRequest]
  /\ forked = FALSE

\* composeDiffLocked: the candidates are applied best-effort, and the diff
\* carries those that applied and the root they lead to.
Compose(txs, g) ==
  LET r == BestEffort(gw, txs, g)
      n == gw.latestNonce + 1
  IN  /\ WellFormed(txs, n)
      /\ r.ok
      /\ SM!CanPayFee(r.st)
      /\ gw' = CloseDiff(r.st)
      /\ diffs' = Append(diffs, [nonce |-> n, txs |-> r.applied, postStateRoot |-> Root(gw')])
      /\ UNCHANGED <<journal, sigs, lastFinalized, mem, up, lock, req, forked>>

Store == <<journal, sigs, lastFinalized>>
Gateway == <<diffs, gw>>

At(t, pc) == req[t].pc = pc
Free(t) == lock[HostOf[t]] = NoThread
Mem(t) == mem[HostOf[t]]
Incoming(t) == diffs[req[t].next]
HasNext(t) == req[t].next <= req[t].last

Goto(t, r) == req' = [req EXCEPT ![t] = r]
Acquire(t) == lock' = [lock EXCEPT ![HostOf[t]] = t]
Release(t) == lock' = [lock EXCEPT ![HostOf[t]] = NoThread]

\* On to the next diff of the request.
Advance(r) == [r EXCEPT !.pc = "run", !.next = @ + 1, !.attempt = 1,
                        !.row = NoRow, !.post = NoState, !.rows = <<>>]

\* A diff is in memory: ApplyRecoveredDiffs signs after each one.
DiffDone(r) == IF r.kind = "recovered" THEN [Advance(r) EXCEPT !.pc = "sign"] ELSE Advance(r)

\* Mutation of GiveUp: every entry point ignores errors.
IgnoreErrors(t) == Goto(t, Advance(req[t])) /\ Acquire(t)

\* An error ends the request; ApplyCatchUpDiffs ignores it and goes on.
GiveUp(t) ==
  IF req[t].kind = "catchup"
  THEN Goto(t, Advance(req[t])) /\ Acquire(t)
  ELSE Goto(t, IdleRequest) /\ Release(t)

\* A request brings the diffs from..to of the gateway's sequence, or none.
Receive(t, k, from, to) ==
  /\ At(t, "idle") /\ HostOf[t] \in up /\ Free(t)
  /\ Acquire(t)
  /\ Goto(t, [IdleRequest EXCEPT !.pc = "run", !.kind = k, !.next = from, !.last = to])
  /\ UNCHANGED <<Gateway, Store, mem, up, forked>>

\* HandleRequest checks the limit before it looks for a gap.
RefuseOverLimit(t) ==
  /\ At(t, "run") /\ HasNext(t)
  /\ req[t].kind = "request" \/ Incoming(t).nonce = Mem(t).latestNonce + 1
  /\ ~WithinNonceLimit(Mem(t), Incoming(t))
  /\ GiveUp(t)
  /\ UNCHANGED <<Gateway, Store, mem, up, forked>>

SkipDiff(t) ==
  /\ At(t, "run") /\ HasNext(t)
  /\ Incoming(t).nonce <= Mem(t).latestNonce
  /\ Goto(t, DiffDone(req[t]))
  /\ UNCHANGED <<Gateway, Store, mem, up, lock, forked>>

\* applyAndPersist up to the append: a trial application on a copy.
ValidateDiff(t, g) ==
  LET d == Incoming(t)
      r == ApplyDiff(Mem(t), d, g)
  IN  /\ At(t, "run") /\ HasNext(t)
      /\ d.nonce = Mem(t).latestNonce + 1
      /\ WithinNonceLimit(Mem(t), d)
      /\ IF r.ok
         THEN /\ Goto(t, [req[t] EXCEPT !.pc = "persist", !.post = r.st,
                                        !.row = Row(d, Mem(t), r.st)])
              /\ UNCHANGED lock
         ELSE GiveUp(t)
      /\ UNCHANGED <<Gateway, Store, mem, up, forked>>

\* Mutation of CommitValidated: the nonce is not compared.
InstallAlways(t) == mem' = [mem EXCEPT ![HostOf[t]] = req[t].post]

\* CommitValidated: the trial's result is installed unless the nonce moved on.
CommitValidated(t) ==
  mem' = IF Mem(t).latestNonce + 1 = req[t].row.diff.nonce
         THEN [mem EXCEPT ![HostOf[t]] = req[t].post] ELSE mem

Persist(t) ==
  /\ At(t, "persist")
  /\ AppendDiff(req[t].row)
  /\ CommitValidated(t)
  /\ Goto(t, DiffDone(req[t]))
  /\ UNCHANGED <<Gateway, sigs, lastFinalized, up, lock, forked>>

\* ErrDiffFork is not retried.
PersistForks(t) ==
  /\ At(t, "persist")
  /\ IsFork(req[t].row)
  /\ forked' = TRUE
  /\ GiveUp(t)
  /\ UNCHANGED <<Gateway, Store, mem, up>>

\* Mutation of PersistFails: memory is committed although the append failed.
CommitOnFailure(t) ==
  /\ At(t, "persist")
  /\ CommitValidated(t)
  /\ GiveUp(t)
  /\ UNCHANGED <<Gateway, Store, up, forked>>

\* The store reports an error; the row may have been written all the same.
PersistFails(t) ==
  /\ At(t, "persist")
  /\ UNCHANGED journal \/ AppendDiff(req[t].row)
  /\ IF req[t].attempt < PersistMaxAttempts
     THEN Goto(t, [req[t] EXCEPT !.pc = "backoff", !.attempt = @ + 1]) /\ Release(t)
     ELSE GiveUp(t)
  /\ UNCHANGED <<Gateway, sigs, lastFinalized, mem, up, forked>>

Retry(t) ==
  /\ At(t, "backoff") /\ Free(t)
  /\ Acquire(t)
  /\ Goto(t, [req[t] EXCEPT !.pc = "persist"])
  /\ UNCHANGED <<Gateway, Store, mem, up, forked>>

\* The caller went away before an attempt or during a backoff; the other two
\* entry points do not pass their caller's context on.
Cancel(t) ==
  /\ At(t, "persist") \/ (At(t, "backoff") /\ Free(t))
  /\ req[t].kind \in {"request", "recovered"}
  /\ GiveUp(t)
  /\ UNCHANGED <<Gateway, Store, mem, up, forked>>

\* applyAndPersistReconciling: memory lacks the nonces before the diff's.
FindGap(t) ==
  /\ At(t, "run") /\ HasNext(t)
  /\ Incoming(t).nonce > Mem(t).latestNonce + 1
  /\ req[t].kind = "request" => WithinNonceLimit(Mem(t), Incoming(t))
  /\ Goto(t, [req[t] EXCEPT !.pc = "gap"])
  /\ Release(t)
  /\ UNCHANGED <<Gateway, Store, mem, up, forked>>

\* The read starts at the nonce that memory had when the mutex was released;
\* rows from before are harmless, they are filtered out on return.
ReadGap(t) ==
  /\ At(t, "gap")
  /\ Goto(t, [req[t] EXCEPT !.pc = "read", !.rows = GetDiffs(1, Incoming(t).nonce - 1)])
  /\ UNCHANGED <<Gateway, Store, mem, up, lock, forked>>

ReadFails(t) ==
  /\ At(t, "gap") /\ Free(t)
  /\ GiveUp(t)
  /\ UNCHANGED <<Gateway, Store, mem, up, forked>>

filterDiffRecordsFrom(rows, from) == SelectSeq(rows, LAMBDA r : r.diff.nonce >= from)

\* Mutation of durableRangeComplete: a hole in the rows is not noticed.
RangeUnchecked(rows, from, to) == TRUE

durableRangeComplete(rows, from, to) ==
  /\ Len(rows) = to + 1 - from
  /\ \A i \in DOMAIN rows : rows[i].diff.nonce = from + i - 1

\* Back under the mutex: memory may have moved, or the rows may not suffice.
ResumeGap(t) ==
  LET from == Mem(t).latestNonce + 1
      rows == filterDiffRecordsFrom(req[t].rows, from)
  IN  /\ At(t, "read") /\ Free(t)
      /\ IF Incoming(t).nonce <= from
         THEN Goto(t, [req[t] EXCEPT !.pc = "run", !.rows = <<>>]) /\ Acquire(t)
         ELSE IF durableRangeComplete(rows, from, Incoming(t).nonce - 1)
         THEN Goto(t, [req[t] EXCEPT !.pc = "replay", !.rows = rows]) /\ Acquire(t)
         ELSE GiveUp(t)
      /\ UNCHANGED <<Gateway, Store, mem, up, forked>>

\* applyDurableRecordLocked.  The warm keys are injected first, and they stay
\* when ApplyDiff fails.  `written' is whether the store took the drained rows.
ApplyDurable(t, g, written) ==
  LET row == Head(req[t].rows)
      s == Inject(Mem(t), row.warmKeyDelta)
      r == ApplyDiff(s, row.diff, g)
      allowed == WithinNonceLimit(Mem(t), row.diff)
      ok == allowed /\ r.ok /\ (WritesRows(s, r.st) => written)
  IN  /\ At(t, "replay") /\ req[t].rows # <<>>
      /\ mem' = [mem EXCEPT ![HostOf[t]] = IF ok THEN r.st ELSE IF allowed THEN s ELSE @]
      /\ IF ok /\ Root(r.st) = row.stateHash
         THEN Goto(t, [req[t] EXCEPT !.rows = Tail(@)]) /\ UNCHANGED lock
         ELSE GiveUp(t)
      /\ UNCHANGED <<Gateway, Store, up, forked>>

\* The gap is closed; the loop looks at the incoming diff again.
GapClosed(t) ==
  /\ At(t, "replay") /\ req[t].rows = <<>>
  /\ Goto(t, [req[t] EXCEPT !.pc = "run"])
  /\ UNCHANGED <<Gateway, Store, mem, up, lock, forked>>

EndOfDiffs(t) == At(t, "run") /\ ~HasNext(t)

\* After a signature (or without one) the request goes on or ends.
Continue(t) ==
  IF At(t, "sign") THEN Goto(t, [req[t] EXCEPT !.pc = "run"]) /\ UNCHANGED lock
  ELSE Goto(t, IdleRequest) /\ Release(t)

\* signIfAccepted: the current state is signed, whatever the request brought.
SignState(t) ==
  LET n == Mem(t).latestNonce
  IN  /\ At(t, "sign") \/ (EndOfDiffs(t) /\ req[t].kind = "request")
      /\ IF n = 0 THEN UNCHANGED <<sigs, lastFinalized>>
         ELSE StoreSignature(n, OwnSlots, Root(Mem(t)))
      /\ Continue(t)
      /\ UNCHANGED <<Gateway, journal, mem, up, forked>>

\* The acceptance checker withholds the signature, or none is due.
Withhold(t) ==
  /\ At(t, "sign") \/ EndOfDiffs(t)
  /\ Continue(t)
  /\ UNCHANGED <<Gateway, Store, mem, up, forked>>

\* Mutation of GossipSig: the signed root is not compared with the row's.
GossipUnchecked(h, n, x) ==
  /\ h \in up /\ lock[h] = NoThread
  /\ journal[n] # NoRow
  /\ StoreSignature(n, SM!SlotsOfOwner(x), Root(gw))
  /\ UNCHANGED <<Gateway, journal, mem, up, lock, req, forked>>

\* AccumulateGossipSig: another validator's signature counts only if it is
\* over the state hash of the stored row.
GossipSig(h, n, x) ==
  /\ h \in up /\ lock[h] = NoThread
  /\ journal[n] # NoRow
  /\ StoreSignature(n, SM!SlotsOfOwner(x), journal[n].stateHash)
  /\ UNCHANGED <<Gateway, journal, mem, up, lock, req, forked>>

\* The process dies with all its threads.
Crash(h) ==
  /\ h \in up
  /\ up' = up \ {h}
  /\ mem' = [mem EXCEPT ![h] = SM!NewStateMachine]
  /\ lock' = [lock EXCEPT ![h] = NoThread]
  /\ req' = [t \in Threads |-> IF HostOf[t] = h THEN IdleRequest ELSE req[t]]
  /\ UNCHANGED <<Gateway, Store, forked>>

\* A session that cannot be replayed is skipped and stays out of memory.
Recover(h, g) ==
  /\ h \notin up
  /\ Replay(LatestDurable, g).ok
  /\ up' = up \cup {h}
  /\ mem' = [mem EXCEPT ![h] = Replay(LatestDurable, g).st]
  /\ UNCHANGED <<Gateway, Store, lock, req, forked>>

\* Steps of a thread once it has a request.
Serve(t) ==
  \/ RefuseOverLimit(t) \/ SkipDiff(t) \/ (\E g \in Grants : ValidateDiff(t, g))
  \/ Persist(t) \/ PersistForks(t) \/ PersistFails(t) \/ Retry(t) \/ Cancel(t)
  \/ FindGap(t) \/ ReadGap(t) \/ ReadFails(t) \/ ResumeGap(t)
  \/ (\E g \in Grants, w \in BOOLEAN : ApplyDurable(t, g, w))
  \/ GapClosed(t) \/ SignState(t) \/ Withhold(t)

Next ==
  \/ gw.latestNonce < MaxNonce
       /\ \E txs \in TxLists[gw.latestNonce + 1], g \in Grants : Compose(txs, g)
  \/ \E t \in Threads, k \in Kinds, to \in 0 .. Len(diffs) :
       \E from \in {1} \cup 1 .. to : Receive(t, k, from, to)
  \/ \E t \in Threads : Serve(t)
  \/ \E h \in Instances, n \in 1 .. MaxNonce, x \in SM!Slots \ OwnSlots : GossipSig(h, n, x)
  \/ \E h \in Instances : Crash(h)
  \/ \E h \in Instances, g \in Grants : Recover(h, g)

Spec == Init /\ [][Next]_vars

\* A thread inside a request waits only for h.mu.
CanGoOn(t) == ~At(t, "idle") /\ (req[t].pc \in {"backoff", "read"} => Free(t))

\* A thread that can go on again and again does go on: goroutines are scheduled,
\* timers fire, store calls return, and sync.Mutex does not starve a waiter.
\* This is strong fairness of Serve(t), every step of which changes req[t].
FairSpec ==
  Spec /\ \A t \in Threads : []<>CanGoOn(t) => []<><<req'[t] # req[t]>>_vars

-----------------------------------------------------------------------------
(* Properties. *)

\* The root that the journal leads to at nonce n.
RootAt(n) == IF n = 0 THEN Root(SM!NewStateMachine) ELSE journal[n].stateHash

\* What a replay leaves behind that fails after InjectWarmKeys: the state before
\* the row, with the warm keys of the row.
HalfReplayed(h) ==
  LET n == mem[h].latestNonce
  IN  /\ n + 1 \in DurableNonces
      /\ Root(mem[h]) = Inject(RootAt(n), journal[n + 1].warmKeyDelta)

\* An instance holds what the shared journal leads to at its nonce, whichever
\* instance wrote the rows, however appends failed and were retried, and however
\* mainnet's grants changed in between.  The one exception is a replay that
\* failed halfway: then memory has the warm keys of the next row, and no more,
\* ahead of the journal (applyDurableRecordLocked).
MemoryFollowsJournal ==
  \A h \in up :
    /\ 1 .. mem[h].latestNonce \subseteq DurableNonces
    /\ Root(mem[h]) = RootAt(mem[h].latestNonce) \/ HalfReplayed(h)

\* A fork is reported only by an instance whose replay failed halfway: a row that
\* a failed append wrote all the same, or that the other instance wrote under
\* other grants, is taken for a duplicate (checkDiffReplayIdentity).
ForkMeansHalfReplay ==
  [][\A t \in Threads :
       PersistForks(t) => Root(Mem(t)) # RootAt(Mem(t).latestNonce)]_vars

\* The journal can always be replayed to its end, with every stored state hash
\* reproduced, even if all the grants it relied on were revoked: no session is
\* skipped as corrupt by RecoverSessions.
JournalReplays ==
  /\ DurableNonces = 1 .. LatestDurable
  /\ \A g \in Grants : Replay(LatestDurable, g).ok

\* A finalized nonce has signatures of a quorum of slots over the one root
\* that the journal has for it (checkFinalization counts slots, not roots), as
\* long as no replay fails halfway and its root is signed, see SignedIsDurable.
FinalizedByQuorum ==
  lastFinalized > 0 =>
    /\ journal[lastFinalized] # NoRow
    /\ Cardinality({x \in SM!Slots : sigs[lastFinalized][x] = journal[lastFinalized].stateHash})
         >= Quorum

\* docs/high-availability-architecture.md, operator signals: diff_fork_detected
\* stays 0 as long as only the gateway's diffs are written.  It holds of racing
\* threads and fails after a replay that failed halfway.
NoForkDetected == ~forked

\* A request that is answered without an error has all its diffs in memory,
\* also when another thread or the journal supplied them.
ReplyCoversRequest ==
  \A t \in Threads :
    EndOfDiffs(t) /\ req[t].kind # "catchup" => req[t].last <= Mem(t).latestNonce

\* A row of the journal is never rewritten, and what an instance has in memory
\* never goes back to an earlier nonce while it is up.
JournalIsAppendOnly ==
  [][/\ \A n \in DurableNonces : journal'[n] = journal[n]
     /\ \A h \in up \cap up' : mem'[h].latestNonce >= mem[h].latestNonce]_vars

\* Every request ends: the loop of applyAndPersistReconciling terminates and
\* no thread waits for h.mu for ever.
RequestsEnd == \A t \in Threads : ~At(t, "idle") ~> At(t, "idle")

-----------------------------------------------------------------------------
(* What the repository says of the host and the code does not do. *)

\* docs/high-availability-architecture.md, persist-first: when the store fails,
\* it may be ahead of memory, and memory is never ahead of it.  Hence every
\* signature this participant stores is over the root that the journal has for
\* the nonce, and recovery reaches what was signed.
SignedIsDurable ==
  \A n \in 1 .. MaxNonce, x \in OwnSlots :
    sigs[n][x] # NoRoot => journal[n] # NoRow /\ sigs[n][x] = journal[n].stateHash

\* docs/release-0.2.14-v4.md, stale standby self-heals: a request that skips
\* ahead of memory is refused for its nonce only if the state that the journal
\* holds would refuse it too.
StandbySelfHeals ==
  [][\A t \in Threads :
       /\ RefuseOverLimit(t)
       /\ 1 .. Incoming(t).nonce - 1 \subseteq DurableNonces
       => \A g \in Grants :
            ~WithinNonceLimit(Replay(Incoming(t).nonce - 1, g).st, Incoming(t))]_vars
=============================================================================
