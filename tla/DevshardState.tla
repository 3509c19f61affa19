---------------------------- MODULE DevshardState ----------------------------
(***************************************************************************)
(* The devshard session state machine: src/devshard/state/machine.go and   *)
(* seal.go.  A session spends one on-chain escrow on inferences.  The user *)
(* sequences signed diffs; every replica applies them to an EscrowState.   *)
(*                                                                         *)
(* The state is one record, and every transaction handler is an operator   *)
(* on it, so that a module with several replicas applies the same code to  *)
(* each.  This module drives ONE replica: a diff is opened, its            *)
(* transactions are applied one after the other, and it is committed or    *)
(* rolled back, as applyCore and localBestEffortLocked do.                 *)
(***************************************************************************)
EXTENDS SafeMath, Sums, Sequences

CONSTANTS
  NumSlots,                   \* len(state.Group); slot ids are 0 .. NumSlots-1
  SlotToAddress,              \* slot id -> validator (cold) address
  Keys,                       \* what a signature can recover to
  NoKey,                      \* no warm key bound
  NoRecord,                   \* no inference with this id was started
  EscrowID,                   \* this session's escrow id
  EscrowAmount,               \* coins locked on chain for the session
  CreateDevshardFee, FeePerNonce, TokenPrice, VoteThreshold,
  InferenceSealGraceNonces, InferenceSealGraceSeconds, AutoSealEveryNNonces

CONSTANTS                     \* the inputs a run offers, and its bound
  MaxNonce,                   \* bound: no diff is opened past this nonce
  TxTypes,                    \* the transaction types in use
  StartInputs,                \* pairs <<InputLength, MaxTokens>>
  FinishInputs,               \* pairs <<InputTokens, OutputTokens>>
  ConfirmTimes,               \* values of ConfirmedAt
  EscrowIDs,                  \* escrow ids a host message may carry
  TimeoutVotes,               \* vote lists of a MsgTimeoutInference
  ApplyModes,                 \* subset of {"strict", "besteffort"}
  Grants                      \* sets of <<warm key, cold address>> authz grants

Slots == 0 .. NumSlots - 1
SlotInputs == 0 .. NumSlots   \* NumSlots itself is a slot not in the group

ASSUME ConfigAssumption ==
  /\ NumSlots \in Nat \ {0}
  /\ SlotToAddress \in [Slots -> Keys]
  /\ NoKey \notin Keys
  /\ {EscrowAmount, CreateDevshardFee, FeePerNonce, TokenPrice} \subseteq Nat
  /\ CreateDevshardFee <= EscrowAmount
  /\ EscrowAmount < Modulus /\ TokenPrice < Modulus
  /\ {VoteThreshold, InferenceSealGraceNonces, InferenceSealGraceSeconds} \subseteq Nat
  /\ AutoSealEveryNNonces \in Nat \ {0}

ASSUME InputAssumption ==
  /\ MaxNonce \in Nat
  /\ StartInputs \subseteq Uint \X Uint /\ FinishInputs \subseteq Uint \X Uint
  /\ ConfirmTimes \subseteq Int
  /\ TimeoutVotes \subseteq Seq([slot : SlotInputs, accept : BOOLEAN, key : Keys])
  /\ ApplyModes \subseteq {"strict", "besteffort"}
  /\ Grants \subseteq SUBSET (Keys \X Keys)

Statuses == {"pending", "started", "finished", "challenged",
             "validated", "invalidated", "timedout"}
Phases == {"active", "finalizing", "settlement"}

InferenceRecord ==
  [status : Statuses, executorSlot : Slots, reservedCost : Nat, actualCost : Nat,
   confirmedAt : Int, votesValid : Nat, votesInvalid : Nat, validatedBy : SUBSET Slots]

ASSUME NoRecordAssumption == NoRecord \notin InferenceRecord

Ids == 1 .. MaxNonce          \* an inference id is the nonce of its diff

(***************************************************************************)
(* EscrowState.  `inferences' holds every record of the session and        *)
(* `sealedNonces' the nonce at which it was sealed, 0 while it is live.    *)
(* SealedAcc is a hash chain over <<seal nonce, id, record>> in ascending  *)
(* order, so the sealed part of the two functions determines it, and two   *)
(* replicas have the same accumulator only if they agree on that part.     *)
(* committedEntries is a serialised copy of the live records, rewritten    *)
(* before each use.                                                        *)
(***************************************************************************)
EscrowState ==
  [balance : Nat, fees : Nat, phase : Phases, finalizeNonce : Nat, latestNonce : Nat,
   inferences : [Ids -> InferenceRecord \cup {NoRecord}], sealedNonces : [Ids -> Nat],
   missed : [Slots -> Nat], invalid : [Slots -> Nat], cost : [Slots -> Nat],
   warmKeys : [Slots -> Keys \cup {NoKey}]]

\* NewStateMachine: the creation fee is charged up front.
NewStateMachine ==
  [balance |-> EscrowAmount - CreateDevshardFee, fees |-> CreateDevshardFee,
   phase |-> "active", finalizeNonce |-> 0, latestNonce |-> 0,
   inferences |-> [i \in Ids |-> NoRecord], sealedNonces |-> [i \in Ids |-> 0],
   missed |-> [x \in Slots |-> 0], invalid |-> [x \in Slots |-> 0],
   cost |-> [x \in Slots |-> 0], warmKeys |-> [x \in Slots |-> NoKey]]

-----------------------------------------------------------------------------
(* Signatures and warm keys. *)

SlotsOfOwner(x) == {y \in Slots : SlotToAddress[y] = SlotToAddress[x]}
Weight(x) == Cardinality(SlotsOfOwner(x))

\* ResolveWarmKey accepts a key that the slot is bound to or, when it is not
\* bound yet, one that mainnet has a grant for.
Accepts(s, x, key, g) ==
  \/ key = SlotToAddress[x]
  \/ IF s.warmKeys[x] # NoKey THEN s.warmKeys[x] = key
                              ELSE <<key, SlotToAddress[x]>> \in g

\* ... and on the first success it stores the binding in the state.
BoundKey(s, x, key, g) ==
  IF /\ key # SlotToAddress[x]
     /\ s.warmKeys[x] = NoKey
     /\ <<key, SlotToAddress[x]>> \in g
  THEN key
  ELSE s.warmKeys[x]

Bind(s, x, key, g) == [s EXCEPT !.warmKeys[x] = BoundKey(s, x, key, g)]

\* Mutation of InjectWarmKey: an existing binding is overwritten.
InjectOverwrites(s, x, key) == [s EXCEPT !.warmKeys[x] = key]

InjectWarmKey(s, x, key) ==
  IF s.warmKeys[x] = NoKey THEN [s EXCEPT !.warmKeys[x] = key] ELSE s

-----------------------------------------------------------------------------
(***************************************************************************)
(* The transaction handlers.  A handler returns whether it succeeded and   *)
(* the state it leaves: a handler that fails after verifying a signature   *)
(* leaves the warm-key binding that the verification made.                 *)
(***************************************************************************)
Ok(s) == [ok |-> TRUE, st |-> s]
Fail(s) == [ok |-> FALSE, st |-> s]

Started(s) == {i \in Ids : s.inferences[i] # NoRecord}

\* Mutation of Live: a sealed record stays in the live map.
NeverRemoved(s) == {i \in Started(s) : TRUE}

Live(s) == {i \in Started(s) : s.sealedNonces[i] = 0}

HasStatus(s, id, S) == id \in Live(s) /\ s.inferences[id].status \in S

SetRecord(s, id, rec) == [s EXCEPT !.inferences[id] = rec]

executorOf(id) == id % NumSlots

isDuplicateInferenceID(s, id) == id \in Started(s)

NewRecord(id, reserved) ==
  [status |-> "pending", executorSlot |-> executorOf(id), reservedCost |-> reserved,
   actualCost |-> 0, confirmedAt |-> 0, votesValid |-> 0, votesInvalid |-> 0,
   validatedBy |-> {}]

applyStartInference(s, m) ==
  LET reserved == tokenCost(m.inputLength, m.maxTokens, TokenPrice)
  IN  IF \/ s.phase # "active"
         \/ isDuplicateInferenceID(s, m.id)
         \/ ~reserved.ok
         \/ s.balance < reserved.val
      THEN Fail(s)
      ELSE Ok([SetRecord(s, m.id, NewRecord(m.id, reserved.val))
                 EXCEPT !.balance = @ - reserved.val])

applyConfirmStart(s, m, g) ==
  IF ~HasStatus(s, m.id, {"pending"}) THEN Fail(s)
  ELSE LET rec == s.inferences[m.id]
           b == Bind(s, rec.executorSlot, m.key, g)
       IN  IF ~Accepts(s, rec.executorSlot, m.key, g) THEN Fail(s)
           ELSE Ok(SetRecord(b, m.id, [rec EXCEPT !.status = "started",
                                                  !.confirmedAt = m.confirmedAt]))

\* Mutation of Finish: the surplus is not released.
FinishKeepingSurplus(s, id, actual) ==
  LET rec == s.inferences[id]
  IN  [SetRecord(s, id, [rec EXCEPT !.status = "finished", !.actualCost = actual])
         EXCEPT !.cost[rec.executorSlot] = @ + actual]

\* Mutation of Finish: the host is credited the reservation.
FinishAtReserved(s, id, actual) ==
  LET rec == s.inferences[id]
  IN  [SetRecord(s, id, [rec EXCEPT !.status = "finished", !.actualCost = actual])
         EXCEPT !.cost[rec.executorSlot] = @ + rec.reservedCost]

\* Started -> Finished: the executor earns the actual cost, capped by the
\* reservation, and the surplus returns to the balance.
Finish(s, id, actual) ==
  LET rec == s.inferences[id]
  IN  [SetRecord(s, id, [rec EXCEPT !.status = "finished", !.actualCost = actual])
         EXCEPT !.balance = @ + (rec.reservedCost - actual),
                !.cost[rec.executorSlot] = @ + actual]

applyFinishInference(s, m, g) ==
  IF \/ ~HasStatus(s, m.id, {"started"})
     \/ m.executorSlot # s.inferences[m.id].executorSlot
  THEN Fail(s)
  ELSE LET cost == tokenCost(m.inputTokens, m.outputTokens, TokenPrice)
           reserved == s.inferences[m.id].reservedCost
           b == Bind(s, m.executorSlot, m.key, g)
       IN  IF \/ ~Accepts(s, m.executorSlot, m.key, g)
              \/ m.escrow # EscrowID
              \/ ~cost.ok
           THEN Fail(b)
           ELSE Ok(Finish(b, m.id, IF cost.val > reserved THEN reserved ELSE cost.val))

\* Mutation of addressHasValidated: only the signing slot is looked up.
OwnSlotOnly(rec, x) == x \in rec.validatedBy

addressHasValidated(rec, x) == SlotsOfOwner(x) \cap rec.validatedBy # {}

\* What a validation does to the record: its slot is marked, and its owner's
\* weight is counted only while the record is Finished.
CountValidation(rec, m) ==
  LET marked == [rec EXCEPT !.validatedBy = @ \cup {m.slot}]
  IN  IF rec.status # "finished" THEN marked
      ELSE IF m.valid THEN [marked EXCEPT !.votesValid = @ + Weight(m.slot)]
      ELSE [marked EXCEPT !.votesInvalid = @ + Weight(m.slot), !.status = "challenged"]

\* Mutation of applyValidation: a record drained by the settlement is found again.
ValidateDrained(s, m, g) ==
  IF /\ s.phase = "settlement" /\ m.slot \in Slots
     /\ m.id \in Started(s) /\ s.inferences[m.id].status = "finished"
  THEN Ok(SetRecord(s, m.id, CountValidation(s.inferences[m.id], m)))
  ELSE Fail(s)

applyValidation(s, m, g) ==
  IF \/ m.id \notin Live(s)
     \/ m.slot \notin Slots
     \/ m.slot = s.inferences[m.id].executorSlot
  THEN Fail(s)
  ELSE IF addressHasValidated(s.inferences[m.id], m.slot) THEN Ok(s)
  ELSE IF ~HasStatus(s, m.id, {"finished", "challenged", "validated", "invalidated"})
       THEN Fail(s)
  ELSE LET b == Bind(s, m.slot, m.key, g)
       IN  IF ~Accepts(s, m.slot, m.key, g) \/ m.escrow # EscrowID THEN Fail(b)
           ELSE Ok(SetRecord(b, m.id, CountValidation(s.inferences[m.id], m)))

\* What a challenge vote does to the record.
CountVote(rec, m) ==
  LET marked == [rec EXCEPT !.validatedBy = @ \cup SlotsOfOwner(m.slot)]
  IN  IF m.valid THEN [marked EXCEPT !.votesValid = @ + Weight(m.slot)]
                 ELSE [marked EXCEPT !.votesInvalid = @ + Weight(m.slot)]

\* Mutation of Invalidate: the user is refunded and the executor keeps the cost.
RefundWithoutDebit(s, id, rec) ==
  [SetRecord(s, id, [rec EXCEPT !.status = "invalidated"])
     EXCEPT !.invalid[rec.executorSlot] = @ + 1, !.balance = @ + rec.actualCost]

\* Mutation of Invalidate: the verdict is recorded and no money moves.
VerdictOnly(s, id, rec) ==
  [SetRecord(s, id, [rec EXCEPT !.status = "invalidated"])
     EXCEPT !.invalid[rec.executorSlot] = @ + 1]

\* Mutation of Invalidate: the refunded record forgets what it had reserved.
RefundClearsReservation(s, id, rec) ==
  [SetRecord(s, id, [rec EXCEPT !.status = "invalidated", !.reservedCost = 0])
     EXCEPT !.invalid[rec.executorSlot] = @ + 1,
            !.cost[rec.executorSlot] = @ - rec.actualCost,
            !.balance = @ + rec.actualCost]

\* Challenged -> Invalidated: the executor loses the cost (clamped at 0 as in
\* the code) and the user gets it back.
Invalidate(s, id, rec) ==
  [SetRecord(s, id, [rec EXCEPT !.status = "invalidated"])
     EXCEPT !.invalid[rec.executorSlot] = @ + 1,
            !.cost[rec.executorSlot] = IF @ < rec.actualCost THEN 0
                                       ELSE @ - rec.actualCost,
            !.balance = @ + rec.actualCost]

ResolveVote(s, id, rec) ==
  IF rec.votesInvalid > VoteThreshold THEN Invalidate(s, id, rec)
  ELSE IF rec.votesValid > VoteThreshold
       THEN SetRecord(s, id, [rec EXCEPT !.status = "validated"])
  ELSE SetRecord(s, id, rec)

applyValidationVote(s, m, g) ==
  IF m.id \notin Live(s) \/ m.slot \notin Slots THEN Fail(s)
  ELSE IF HasStatus(s, m.id, {"validated", "invalidated"}) THEN Ok(s)
  ELSE IF \/ ~HasStatus(s, m.id, {"challenged"})
          \/ addressHasValidated(s.inferences[m.id], m.slot)
       THEN Fail(s)
  ELSE LET b == Bind(s, m.slot, m.key, g)
       IN  IF ~Accepts(s, m.slot, m.key, g) \/ m.escrow # EscrowID THEN Fail(b)
           ELSE Ok(ResolveVote(b, m.id, CountVote(s.inferences[m.id], m)))

(***************************************************************************)
(* The votes of a timeout are read in order up to the first bad one.  Each *)
(* address may vote once, so no vote can see a binding made by another.    *)
(***************************************************************************)
BadVote(s, votes, i, g) ==
  \/ votes[i].slot \notin Slots
  \/ \E j \in 1 .. i - 1 : SlotToAddress[votes[j].slot] = SlotToAddress[votes[i].slot]
  \/ ~Accepts(s, votes[i].slot, votes[i].key, g)

VotesRead(s, votes, g) ==
  {i \in DOMAIN votes : \A j \in 1 .. i : ~BadVote(s, votes, j, g)}

BindVoters(s, votes, g) ==
  [s EXCEPT !.warmKeys = [x \in Slots |->
     IF \E i \in VotesRead(s, votes, g) : votes[i].slot = x
     THEN BoundKey(s, x, votes[CHOOSE i \in VotesRead(s, votes, g) : votes[i].slot = x].key, g)
     ELSE s.warmKeys[x]]]

AcceptCount(votes) ==
  Cardinality({x \in Slots : \E i \in DOMAIN votes :
                 votes[i].accept /\ SlotToAddress[votes[i].slot] = SlotToAddress[x]})

\* Mutation of TimeOut: only a confirmed inference is refunded.
RefundConfirmedOnly(s, id) ==
  LET rec == s.inferences[id]
  IN  [SetRecord(s, id, [rec EXCEPT !.status = "timedout"])
         EXCEPT !.missed[rec.executorSlot] = @ + 1,
                !.balance = @ + IF rec.status = "started" THEN rec.reservedCost ELSE 0]

\* Pending or Started -> TimedOut: the reservation returns to the balance.
TimeOut(s, id) ==
  LET rec == s.inferences[id]
  IN  [SetRecord(s, id, [rec EXCEPT !.status = "timedout"])
         EXCEPT !.missed[rec.executorSlot] = @ + 1,
                !.balance = @ + rec.reservedCost]

applyTimeout(s, m, g) ==
  IF ~HasStatus(s, m.id, IF m.reason = "refused" THEN {"pending"} ELSE {"started"})
  THEN Fail(s)
  ELSE LET b == BindVoters(s, m.votes, g)
       IN  IF \/ \E i \in DOMAIN m.votes : BadVote(s, m.votes, i, g)
              \/ AcceptCount(m.votes) <= VoteThreshold
           THEN Fail(b)
           ELSE Ok(TimeOut(b, m.id))

applyFinalizeRound(s) ==
  IF s.phase # "active" THEN Fail(s) ELSE Ok([s EXCEPT !.phase = "finalizing"])

\* MsgRevealSeed is deprecated and ignored; a transaction with no message fails.
applyTx(s, m, g) ==
  CASE m.type = "start"    -> applyStartInference(s, m)
    [] m.type = "confirm"  -> applyConfirmStart(s, m, g)
    [] m.type = "finish"   -> applyFinishInference(s, m, g)
    [] m.type = "validate" -> applyValidation(s, m, g)
    [] m.type = "vote"     -> applyValidationVote(s, m, g)
    [] m.type = "timeout"  -> applyTimeout(s, m, g)
    [] m.type = "reveal"   -> Ok(s)
    [] m.type = "finalize" -> applyFinalizeRound(s)
    [] m.type = "empty"    -> Fail(s)

-----------------------------------------------------------------------------
(* Sealing: records leave the live map for the sealed accumulator. *)

Seal(s, ids) ==
  [s EXCEPT !.sealedNonces = [i \in Ids |-> IF i \in ids THEN s.latestNonce
                                                     ELSE s.sealedNonces[i]]]

stateClockWindowFactor == 3

\* The last NumSlots * 3 live inferences that an executor has confirmed.
ClockWindow(s) ==
  {i \in Live(s) : /\ s.inferences[i].confirmedAt > 0
                   /\ Cardinality({j \in Live(s) : j > i}) < NumSlots * stateClockWindowFactor}

\* The state clock: the newest ConfirmedAt in the window.
IsStateClock(s, c) ==
  /\ \E i \in ClockWindow(s) : s.inferences[i].confirmedAt = c
  /\ \A i \in ClockWindow(s) : s.inferences[i].confirmedAt <= c

TerminalStatuses == {"validated", "invalidated", "timedout"}
SealEligible == TerminalStatuses \cup {"finished"}

Sealable(s, c) ==
  {i \in Live(s) :
     /\ s.inferences[i].status \in SealEligible
     /\ s.latestNonce >= i + InferenceSealGraceNonces
     /\ \/ s.inferences[i].status \in TerminalStatuses
        \/ InferenceSealGraceSeconds - (c - s.inferences[i].confirmedAt) <= 0}

\* With no confirmed record in the window the clock is unknown: nothing seals.
autoSeal(s) ==
  IF ClockWindow(s) = {} THEN s
  ELSE LET i == CHOOSE i \in ClockWindow(s) : IsStateClock(s, s.inferences[i].confirmedAt)
       IN  Seal(s, Sealable(s, s.inferences[i].confirmedAt))

\* Mutation of settleLiveRecord: a record nobody confirmed is left as it is.
SettleStartedOnly(s, id) ==
  LET rec == s.inferences[id]
  IN  IF rec.status # "started" THEN s
      ELSE [SetRecord(s, id, [rec EXCEPT !.actualCost = rec.reservedCost,
                                         !.status = "finished"])
              EXCEPT !.cost[rec.executorSlot] = @ + rec.reservedCost]

\* The settlement default for a record still live at the drain.
settleLiveRecord(s, id) ==
  LET rec == s.inferences[id]
  IN  CASE rec.status = "started" ->
             [SetRecord(s, id, [rec EXCEPT !.actualCost = rec.reservedCost,
                                           !.status = "finished"])
                EXCEPT !.cost[rec.executorSlot] = @ + rec.reservedCost]
        [] rec.status = "pending" ->
             [SetRecord(s, id, [rec EXCEPT !.actualCost = 0, !.status = "timedout"])
                EXCEPT !.balance = @ + rec.reservedCost]
        [] OTHER -> s

\* One iteration of the drain loop: settle the record, then seal it.
drainOne(s, id) == Seal(settleLiveRecord(s, id), {id})

-----------------------------------------------------------------------------
(* The end of a diff, once its transactions are applied. *)

\* Mutation of CanPayFee: the fee is charged unchecked.
FeeUnchecked(s) == TRUE

CanPayFee(s) == s.phase = "active" => s.balance >= FeePerNonce

\* Mutation of ChargeFee: nonces of the finalization are charged too.
ChargeEveryNonce(s) ==
  IF s.balance < FeePerNonce THEN s
  ELSE [s EXCEPT !.balance = @ - FeePerNonce, !.fees = @ + FeePerNonce]

ChargeFee(s) ==
  IF s.phase = "active"
  THEN [s EXCEPT !.balance = @ - FeePerNonce, !.fees = @ + FeePerNonce]
  ELSE s

AdvanceNonce(s) ==
  [s EXCEPT !.latestNonce = @ + 1,
            !.finalizeNonce = IF s.phase = "finalizing" /\ @ = 0
                              THEN s.latestNonce + 1 ELSE @]

\* Mutation of DeadlinePassed: off by one.
DeadlineExceeded(s) ==
  s.phase = "finalizing" /\ s.latestNonce > s.finalizeNonce + NumSlots

DeadlinePassed(s) ==
  s.phase = "finalizing" /\ s.latestNonce >= s.finalizeNonce + NumSlots

\* Everything but the drain loop that follows the phase change.
endDiff(s) ==
  LET n == AdvanceNonce(ChargeFee(s))
  IN  IF DeadlinePassed(n) THEN [n EXCEPT !.phase = "settlement"]
      ELSE IF n.phase = "active" /\ n.latestNonce % AutoSealEveryNNonces = 0
           THEN autoSeal(n)
      ELSE n

-----------------------------------------------------------------------------
(***************************************************************************)
(* One replica applying diffs.  `mode' is where it is:                     *)
(*   idle        no diff open; st = snap is the committed state            *)
(*   strict      inside applyCore: a failing transaction rolls back        *)
(*   besteffort  inside localBestEffortLocked: it is skipped               *)
(*   draining    inside drainLiveIntoSealedAccLocked                       *)
(***************************************************************************)
VARIABLES
  st,          \* sm.state, as the handlers see it
  snap,        \* the snapshot a rollback restores
  mode,
  startSeen    \* the open diff already holds its one MsgStartInference

vars == <<st, snap, mode, startSeen>>

Modes == {"idle", "strict", "besteffort", "draining"}

Messages ==
  {m \in
     [type : {"start"}, id : Ids, inputLength : {p[1] : p \in StartInputs},
      maxTokens : {p[2] : p \in StartInputs}]
     \cup [type : {"confirm"}, id : Ids, key : Keys, confirmedAt : ConfirmTimes]
     \cup [type : {"finish"}, id : Ids, executorSlot : Slots, key : Keys, escrow : EscrowIDs,
           inputTokens : {p[1] : p \in FinishInputs},
           outputTokens : {p[2] : p \in FinishInputs}]
     \cup [type : {"validate", "vote"}, id : Ids, slot : SlotInputs, key : Keys,
           escrow : EscrowIDs, valid : BOOLEAN]
     \cup [type : {"timeout"}, id : Ids, reason : {"refused", "execution"},
           votes : TimeoutVotes]
     \cup [type : {"reveal", "finalize", "empty"}] :
   m.type \in TxTypes}

Init ==
  /\ st = NewStateMachine
  /\ snap = st
  /\ mode = "idle"
  /\ startSeen = FALSE

Rollback ==
  /\ st' = snap
  /\ mode' = "idle"
  /\ startSeen' = FALSE
  /\ UNCHANGED snap

Commit(s) ==
  /\ st' = s
  /\ snap' = s
  /\ mode' = "idle"
  /\ startSeen' = FALSE

\* applyCore or localBestEffortLocked is entered with the next nonce.
BeginDiff(m) ==
  /\ mode = "idle"
  /\ st.latestNonce < MaxNonce
  /\ mode' = m
  /\ UNCHANGED <<st, snap, startSeen>>

\* Replay restores a binding that the first run made.
InjectWarmKeys(x, key) ==
  /\ mode = "idle"
  /\ Commit(InjectWarmKey(st, x, key))

\* A diff holds at most one MsgStartInference, whose id is the diff's nonce.
WellPlaced(m) == m.type = "start" => ~startSeen /\ m.id = st.latestNonce + 1

ApplyTx(m, g) ==
  /\ mode \in {"strict", "besteffort"}
  /\ WellPlaced(m)
  /\ applyTx(st, m, g).ok
  /\ st' = applyTx(st, m, g).st
  /\ startSeen' = (startSeen \/ m.type = "start")
  /\ UNCHANGED <<snap, mode>>

\* A failing transaction that best-effort application leaves out.
SkipTx(m, g) ==
  /\ mode = "besteffort"
  /\ m.type # "start"
  /\ ~applyTx(st, m, g).ok
  /\ st' = applyTx(st, m, g).st
  /\ UNCHANGED <<snap, mode, startSeen>>

\* The diff is undone as a whole: a transaction failed (any one in strict mode,
\* the MsgStartInference in best-effort mode), the fee cannot be paid, the root
\* is not the post_state_root the diff claims, or a diff applied on trial
\* (ValidateDiff, PreviewLocalBestEffort) could not be persisted.
RejectDiff ==
  /\ mode \in {"strict", "besteffort"}
  /\ Rollback

EndDiff ==
  /\ mode \in {"strict", "besteffort"}
  /\ CanPayFee(st)
  /\ LET n == endDiff(st)
     IN  IF n.phase = "settlement" /\ st.phase = "finalizing" /\ Live(n) # {}
         THEN /\ st' = n
              /\ mode' = "draining"
              /\ UNCHANGED <<snap, startSeen>>
         ELSE Commit(n)

DrainOne ==
  /\ mode = "draining"
  /\ \E id \in Live(st) :
       /\ \A j \in Live(st) : id <= j
       /\ IF Live(st) = {id} THEN Commit(drainOne(st, id))
          ELSE /\ st' = drainOne(st, id)
               /\ UNCHANGED <<snap, mode, startSeen>>

\* A sealed-inference row cannot be written: the drain fails as a whole.
DrainFails == mode = "draining" /\ Rollback

Next ==
  \/ \E m \in ApplyModes : BeginDiff(m)
  \/ \E g \in Grants, x \in Slots, key \in Keys :
       <<key, SlotToAddress[x]>> \in g /\ InjectWarmKeys(x, key)
  \/ \E m \in Messages, g \in Grants : ApplyTx(m, g) \/ SkipTx(m, g)
  \/ RejectDiff
  \/ EndDiff
  \/ DrainOne
  \/ DrainFails

Spec == Init /\ [][Next]_vars

-----------------------------------------------------------------------------
(* Properties. *)

\* Every field of the working state and of the snapshot has its type, and a
\* replica that is not inside a diff works on its committed state.
TypeOK ==
  /\ st \in EscrowState
  /\ snap \in EscrowState
  /\ mode \in Modes
  /\ startSeen \in BOOLEAN
  /\ mode = "idle" => st = snap

\* Coins a record holds back from the balance, and coins it earned its slot.
HeldBy(rec) ==
  IF rec # NoRecord /\ rec.status \in {"pending", "started"} THEN rec.reservedCost ELSE 0
EarnedBy(rec) ==
  IF rec # NoRecord /\ rec.status \in {"finished", "challenged", "validated"}
  THEN rec.actualCost ELSE 0

Held(s) == [i \in Ids |-> HeldBy(s.inferences[i])]
Earned(s, x) ==
  [i \in Ids |-> IF executorOf(i) = x THEN EarnedBy(s.inferences[i]) ELSE 0]

\* Every coin of the escrow is in the balance, in the fees, reserved for an
\* inference in flight, or credited to a host.
Conserved(s) ==
  s.balance + s.fees + SumOf(Held(s)) + SumOf(s.cost) = EscrowAmount

\* No coin is created or lost: after every transaction, fee charge, seal and
\* drain step the balance, the fees, the reservations of inferences in flight
\* and the hosts' credited costs add up to the amount escrowed on chain.
EscrowConserved == Conserved(st)

CostsMatch(s) == \A x \in Slots : s.cost[x] = SumOf(Earned(s, x))

\* HostStats.Cost of a slot is exactly what the slot's surviving inferences
\* cost.  In particular the clamp `hs.Cost < rec.ActualCost' of
\* applyValidationVote never fires, and sealing or draining forgets no debt.
CostMatchesRecords == CostsMatch(st)

\* The slots of the owners who took part in judging a record.
Judges(rec) == UNION {SlotsOfOwner(x) : x \in rec.validatedBy}

DecisionBacked(rec) ==
  /\ rec.votesValid + rec.votesInvalid <= Cardinality(Judges(rec))
  /\ rec.status \in {"pending", "started", "timedout"} => rec.validatedBy = {}
  /\ rec.status = "finished" =>
       rec.votesInvalid = 0 /\ rec.votesValid = Cardinality(Judges(rec))
  /\ rec.status = "challenged" => rec.votesInvalid > 0
  /\ rec.status = "validated" =>
       rec.votesValid > VoteThreshold /\ rec.votesInvalid <= VoteThreshold
  /\ rec.status = "invalidated" => rec.votesInvalid > VoteThreshold

\* Validations and challenge votes count every owner at most once, with the
\* weight of all its slots, whichever slot signs and in whichever order the
\* two kinds of message arrive; a decision is backed by more than
\* VoteThreshold slots (applyValidation, applyValidationVote).
DecisionsBacked ==
  \A i \in Started(st) : DecisionBacked(st.inferences[i])

\* The records that left the live map for the accumulator.
Sealed(s) == {i \in Ids : s.sealedNonces[i] # 0}

\* What settles on chain: after the drain nothing is reserved any more, so the
\* balance, the fees and the hosts' costs are the whole escrow.
SettlementIsComplete ==
  snap.phase = "settlement" =>
    /\ Started(snap) \subseteq Sealed(snap)
    /\ \A i \in Ids : HeldBy(snap.inferences[i]) = 0
    /\ snap.balance + snap.fees + SumOf(snap.cost) = EscrowAmount

\* The fees are the creation fee and one fee for each nonce before the one
\* that opened finalization.
FeesMatchNonces ==
  snap.fees = CreateDevshardFee
              + FeePerNonce * (IF snap.phase = "active" THEN snap.latestNonce
                               ELSE snap.finalizeNonce - 1)

\* Finalization lasts NumSlots nonces, so that every slot is asked once; a
\* committed state never waits past the deadline.
FinalizationOnTime ==
  CASE snap.phase = "active"     -> snap.finalizeNonce = 0
    [] snap.phase = "finalizing" -> /\ snap.finalizeNonce \in 1 .. snap.latestNonce
                                    /\ snap.latestNonce < snap.finalizeNonce + NumSlots
    [] snap.phase = "settlement" -> /\ snap.finalizeNonce > 0
                                    /\ snap.latestNonce >= snap.finalizeNonce + NumSlots

\* A warm key, once bound to a slot by a committed diff, is never rebound or
\* dropped, although mainnet may revoke the grant it came from
\* (ResolveWarmKey, InjectWarmKeys, restoreMutable).
BindingsAreStable ==
  [][\A x \in Slots : snap.warmKeys[x] # NoKey => snap'.warmKeys[x] = snap.warmKeys[x]]_vars

\* The statuses a record may have after a diff that found it with status a.
Successors(a) ==
  CASE a = "pending"    -> Statuses
    [] a = "started"    -> Statuses \ {"pending"}
    [] a = "finished"   -> {"finished", "challenged", "validated", "invalidated"}
    [] a = "challenged" -> {"challenged", "validated", "invalidated"}
    [] OTHER            -> {a}

\* No diff, however its transactions are ordered, loses a record, moves it
\* backwards, rewrites its price, or touches it once it is sealed into the
\* accumulator that the state root commits to.
RecordsOnlyAdvance ==
  [][\A i \in Started(snap) :
       LET a == snap.inferences[i]
           b == snap'.inferences[i]
       IN  /\ b # NoRecord
           /\ b.status \in Successors(a.status)
           /\ b.executorSlot = a.executorSlot /\ b.reservedCost = a.reservedCost
           /\ i \in Sealed(snap) =>
                b = a /\ snap'.sealedNonces[i] = snap.sealedNonces[i]]_vars

\* In the settlement phase later diffs advance the nonce and nothing else that
\* the chain pays out from, so every root signed in that phase settles alike.
SettlementIsFinal ==
  [][snap.phase = "settlement" =>
       [snap' EXCEPT !.latestNonce = snap.latestNonce,
                     !.warmKeys = snap.warmKeys] = snap]_vars

-----------------------------------------------------------------------------
(* What the repository says of the state machine and the code does not do. *)

\* machine.go, localBestEffortLocked: a transaction that fails, and that
\* best-effort application therefore leaves out, leaves the state unchanged.
FailedTxLeavesStateUnchanged ==
  [][(\E m \in Messages, g \in Grants : SkipTx(m, g)) => UNCHANGED st]_vars

\* docs/inference-lifecycle.md, Trigger C: an undecided inference is sealed only
\* when InferenceSealGraceNonces nonces have passed since MsgFinishInference,
\* hence (for a grace of at least one nonce) by a later diff than the one that
\* finished it, so that a validator has a nonce in which to challenge it.
FinishedWaitsForGrace ==
  [][snap'.phase = "active" =>
       \A i \in Sealed(snap') \ Sealed(snap) :
         snap'.inferences[i].status = "finished" =>
           i \in Started(snap) /\ snap.inferences[i].status = "finished"]_vars
=============================================================================
