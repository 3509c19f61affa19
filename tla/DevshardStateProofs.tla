------------------------- MODULE DevshardStateProofs -------------------------
(***************************************************************************)
(* For every group, price, vote threshold, grace period and set of inputs: *)
(* the session state machine keeps its types, conserves the escrow and     *)
(* credits each slot with exactly what its inferences cost.                *)
(***************************************************************************)
EXTENDS DevshardState, SafeMathProofs, SumsProofs

-----------------------------------------------------------------------------
(* Constants. *)

LEMMA SlotsFinite ==
  /\ IsFiniteSet(Slots)
  /\ \A x \in Slots : x \in Nat
BY ConfigAssumption, FS_Interval DEF Slots

LEMMA IdsFinite ==
  /\ IsFiniteSet(Ids)
  /\ \A i \in Ids : i \in Nat /\ i > 0
BY InputAssumption, FS_Interval DEF Ids

LEMMA ExecutorIsSlot == \A i \in Ids : executorOf(i) \in Slots
BY IdsFinite, ConfigAssumption DEF executorOf, Slots

LEMMA OwnerSlots ==
  ASSUME NEW x
  PROVE  /\ SlotsOfOwner(x) \in SUBSET Slots
         /\ IsFiniteSet(SlotsOfOwner(x))
         /\ Weight(x) \in Nat
<1>1. SlotsOfOwner(x) \in SUBSET Slots
  BY DEF SlotsOfOwner
<1>2. IsFiniteSet(SlotsOfOwner(x))
  BY <1>1, SlotsFinite, FS_Subset
<1> QED BY <1>1, <1>2, FS_CardinalityType DEF Weight

LEMMA MessageFields ==
  ASSUME NEW m \in Messages
  PROVE  /\ m.type \in {"start", "confirm", "finish", "validate", "vote", "timeout"}
              => m.id \in Ids
         /\ m.type = "start" => m.inputLength \in Uint /\ m.maxTokens \in Uint
         /\ m.type = "confirm" => m.confirmedAt \in Int /\ m.key \in Keys
         /\ m.type = "finish" => /\ m.inputTokens \in Uint /\ m.outputTokens \in Uint
                                 /\ m.executorSlot \in Slots /\ m.key \in Keys
         /\ m.type \in {"validate", "vote"} => m.valid \in BOOLEAN /\ m.key \in Keys
         /\ m.type = "timeout" =>
              m.votes \in Seq([slot : SlotInputs, accept : BOOLEAN, key : Keys])
         /\ m.type \in {"start", "confirm", "finish", "validate", "vote", "timeout",
                        "reveal", "finalize", "empty"}
BY InputAssumption DEF Messages

LEMMA CostIsNat ==
  ASSUME NEW a \in Uint, NEW b \in Uint, tokenCost(a, b, TokenPrice).ok
  PROVE  tokenCost(a, b, TokenPrice).val \in Nat
<1>1. TokenPrice \in Uint
  BY ConfigAssumption, ModulusAssumption DEF Uint
<1>2. a \in Nat /\ b \in Nat /\ TokenPrice \in Nat
  BY <1>1, ModulusAssumption DEF Uint
<1>3. (a + b) * TokenPrice \in Nat
  BY <1>2
<1> QED BY <1>1, <1>3, TokenCostExact

LEMMA ElementOfSeq ==
  ASSUME NEW S, NEW q \in Seq(S), NEW i \in DOMAIN q
  PROVE  q[i] \in S
OBVIOUS

-----------------------------------------------------------------------------
(***************************************************************************)
(* The inductive invariant.  Every inference is executed by the slot its   *)
(* id selects; without that, a cost could be credited to one slot and      *)
(* looked up under another.  The snapshot satisfies the same predicate,    *)
(* because a rollback makes it the state.                                  *)
(***************************************************************************)
StateInv(s) ==
  /\ s \in EscrowState
  /\ Conserved(s)
  /\ CostsMatch(s)
  /\ \A i \in Started(s) : s.inferences[i].executorSlot = executorOf(i)

IInv == TypeOK /\ StateInv(st) /\ StateInv(snap)

LEMMA RecordAmounts ==
  ASSUME NEW rec \in InferenceRecord \cup {NoRecord}
  PROVE  HeldBy(rec) \in Nat /\ EarnedBy(rec) \in Nat
BY DEF InferenceRecord, HeldBy, EarnedBy

LEMMA AmountFunctions ==
  ASSUME NEW s \in EscrowState
  PROVE  /\ Held(s) \in [Ids -> Nat]
         /\ \A x \in Slots : Earned(s, x) \in [Ids -> Nat]
         /\ s.cost \in [Slots -> Nat]
         /\ s.balance \in Nat /\ s.fees \in Nat
<1>1. \A i \in Ids : s.inferences[i] \in InferenceRecord \cup {NoRecord}
  BY DEF EscrowState
<1>2. \A i \in Ids : HeldBy(s.inferences[i]) \in Nat /\ EarnedBy(s.inferences[i]) \in Nat
  BY <1>1, RecordAmounts
<1> QED BY <1>2 DEF Held, Earned, EscrowState

\* A step that touches no amount and no record keeps the invariant.
LEMMA NoMoneyMoves ==
  ASSUME NEW s, StateInv(s), NEW t \in EscrowState,
         t.balance = s.balance, t.fees = s.fees, t.cost = s.cost,
         t.inferences = s.inferences
  PROVE  StateInv(t)
<1>1. Held(t) = Held(s) /\ \A x : Earned(t, x) = Earned(s, x)
  BY DEF Held, Earned
<1>2. Started(t) = Started(s)
  BY DEF Started
<1> QED BY <1>1, <1>2 DEF StateInv, Conserved, CostsMatch

\* A step that rewrites one record keeps the invariant when what it takes from
\* the balance and from the executor's cost is what the record now holds.
LEMMA RecordStep ==
  ASSUME NEW s, StateInv(s), NEW t \in EscrowState,
         NEW id \in Ids, NEW rec \in InferenceRecord,
         rec.executorSlot = executorOf(id),
         t.fees = s.fees,
         t.inferences = [s.inferences EXCEPT ![id] = rec],
         \A x \in Slots \ {executorOf(id)} : t.cost[x] = s.cost[x],
         t.cost[executorOf(id)] + EarnedBy(s.inferences[id])
           = s.cost[executorOf(id)] + EarnedBy(rec),
         t.balance + HeldBy(rec) + EarnedBy(rec)
           = s.balance + HeldBy(s.inferences[id]) + EarnedBy(s.inferences[id])
  PROVE  StateInv(t)
<1> DEFINE x == executorOf(id)
           old == s.inferences[id]
<1>0. x \in Slots /\ s \in EscrowState
  BY ExecutorIsSlot DEF StateInv
<1>1. /\ Held(s) \in [Ids -> Nat] /\ Held(t) \in [Ids -> Nat]
      /\ \A y \in Slots : Earned(s, y) \in [Ids -> Nat] /\ Earned(t, y) \in [Ids -> Nat]
      /\ s.cost \in [Slots -> Nat] /\ t.cost \in [Slots -> Nat]
      /\ s.balance \in Nat /\ t.balance \in Nat /\ s.fees \in Nat
  BY <1>0, AmountFunctions
<1>2. old \in InferenceRecord \cup {NoRecord}
  BY <1>0 DEF EscrowState
<1>3. HeldBy(old) \in Nat /\ EarnedBy(old) \in Nat /\ HeldBy(rec) \in Nat /\ EarnedBy(rec) \in Nat
  BY <1>2, RecordAmounts
<1>4. s.inferences \in [Ids -> InferenceRecord \cup {NoRecord}]
  BY <1>0 DEF EscrowState
<1>5. t.inferences[id] = rec /\ \A i \in Ids \ {id} : t.inferences[i] = s.inferences[i]
  BY <1>4
<1>6. SumOf(Held(t)) + HeldBy(old) = SumOf(Held(s)) + HeldBy(rec)
  <2>1. /\ \A i \in Ids \ {id} : Held(t)[i] = Held(s)[i]
        /\ Held(s)[id] = HeldBy(old) /\ Held(t)[id] = HeldBy(rec)
    BY <1>5 DEF Held
  <2>2. SumOf(Held(t)) + Held(s)[id] = SumOf(Held(s)) + Held(t)[id]
    <3>1. Held(s) \in [Ids -> Nat] /\ Held(t) \in [Ids -> Nat] /\ IsFiniteSet(Ids)
      BY <1>1, IdsFinite
    <3>2. \A i \in Ids \ {id} : Held(t)[i] = Held(s)[i]
      BY <2>1
    <3> QED BY <3>1, <3>2, SumChange
  <2> QED BY <2>1, <2>2
<1>7. SumOf(t.cost) + s.cost[x] = SumOf(s.cost) + t.cost[x]
  <2>1. s.cost \in [Slots -> Nat] /\ t.cost \in [Slots -> Nat] /\ IsFiniteSet(Slots)
    BY <1>1, SlotsFinite
  <2>2. \A y \in Slots \ {x} : t.cost[y] = s.cost[y]
    OBVIOUS
  <2> QED BY <1>0, <2>1, <2>2, SumChange
<1>8. /\ SumOf(Held(s)) \in Nat /\ SumOf(Held(t)) \in Nat
      /\ SumOf(s.cost) \in Nat /\ SumOf(t.cost) \in Nat
  BY <1>1, IdsFinite, SlotsFinite, SumNat
<1>9. Conserved(t)
  <2>1. s.balance + s.fees + SumOf(Held(s)) + SumOf(s.cost) = EscrowAmount
    BY DEF StateInv, Conserved
  <2>2. t.cost[x] \in Nat /\ s.cost[x] \in Nat
    BY <1>0, <1>1
  <2>3. /\ t.cost[x] + EarnedBy(old) = s.cost[x] + EarnedBy(rec)
        /\ t.balance + HeldBy(rec) + EarnedBy(rec) = s.balance + HeldBy(old) + EarnedBy(old)
        /\ t.fees = s.fees
    OBVIOUS
  <2>4. s.balance \in Nat /\ t.balance \in Nat /\ s.fees \in Nat
    BY <1>1
  <2> HIDE DEF x, old
  <2>5. t.balance + SumOf(Held(t)) + EarnedBy(rec) = s.balance + SumOf(Held(s)) + EarnedBy(old)
    <3> DEFINE bt == t.balance  bs == s.balance  ht == SumOf(Held(t))  hs == SumOf(Held(s))
               ho == HeldBy(old)  hr == HeldBy(rec)  eo == EarnedBy(old)  er == EarnedBy(rec)
    <3>1. bt \in Nat /\ bs \in Nat /\ ht \in Nat /\ hs \in Nat
      BY <1>8, <2>4
    <3>2. ho \in Nat /\ hr \in Nat /\ eo \in Nat /\ er \in Nat
      BY <1>3
    <3>3. ht + ho = hs + hr
      BY <1>6
    <3>4. bt + hr + er = bs + ho + eo
      BY <2>3
    <3> HIDE DEF bt, bs, ht, hs, ho, hr, eo, er
    <3>5. bt + ht + er = bs + hs + eo
      BY <3>1, <3>2, <3>3, <3>4
    <3> QED BY <3>5 DEF bt, bs, ht, hs, eo, er
  <2>6. SumOf(t.cost) + EarnedBy(old) = SumOf(s.cost) + EarnedBy(rec)
    BY <1>3, <1>7, <1>8, <2>2, <2>3
  <2>7. t.balance + SumOf(Held(t)) + SumOf(t.cost) = s.balance + SumOf(Held(s)) + SumOf(s.cost)
    BY <1>3, <1>8, <2>4, <2>5, <2>6
  <2>8. t.balance + t.fees + SumOf(Held(t)) + SumOf(t.cost) = EscrowAmount
    BY <1>8, <2>1, <2>3, <2>4, <2>7
  <2> QED BY <2>8 DEF Conserved
<1>10. ASSUME NEW y \in Slots PROVE t.cost[y] = SumOf(Earned(t, y))
  <2>1. s.cost[y] = SumOf(Earned(s, y))
    BY DEF StateInv, CostsMatch
  <2>2. CASE y = x
    <3>1. /\ \A i \in Ids \ {id} : Earned(t, y)[i] = Earned(s, y)[i]
          /\ Earned(s, y)[id] = EarnedBy(old) /\ Earned(t, y)[id] = EarnedBy(rec)
      BY <1>5, <2>2 DEF Earned
    <3>2. SumOf(Earned(t, y)) + EarnedBy(old) = SumOf(Earned(s, y)) + EarnedBy(rec)
      <4>1. SumOf(Earned(t, y)) + Earned(s, y)[id] = SumOf(Earned(s, y)) + Earned(t, y)[id]
        <5>1. Earned(s, y) \in [Ids -> Nat] /\ Earned(t, y) \in [Ids -> Nat] /\ IsFiniteSet(Ids)
          BY <1>1, IdsFinite
        <5>2. \A i \in Ids \ {id} : Earned(t, y)[i] = Earned(s, y)[i]
          BY <3>1
        <5> QED BY <5>1, <5>2, SumChange
      <4> QED BY <3>1, <4>1
    <3>3. SumOf(Earned(t, y)) \in Nat /\ SumOf(Earned(s, y)) \in Nat /\ t.cost[y] \in Nat
      BY <1>1, IdsFinite, SumNat
    <3> QED BY <1>3, <2>1, <2>2, <3>2, <3>3
  <2>3. CASE y # x
    <3>1. \A i \in Ids : Earned(t, y)[i] = Earned(s, y)[i]
      BY <1>5, <2>3 DEF Earned
    <3>2. Earned(t, y) = Earned(s, y)
      BY <3>1 DEF Earned
    <3> QED BY <2>1, <2>3, <3>2
  <2> QED BY <2>2, <2>3
<1>11. \A i \in Started(t) : t.inferences[i].executorSlot = executorOf(i)
  <2>1. \A i \in Started(t) : i = id \/ i \in Started(s)
    BY <1>5 DEF Started
  <2> QED BY <1>5, <2>1 DEF StateInv, Started
<1> QED BY <1>9, <1>10, <1>11 DEF StateInv, CostsMatch

-----------------------------------------------------------------------------
(* The state changes the handlers are made of. *)

LEMMA LiveRecord ==
  ASSUME NEW s, StateInv(s), NEW id \in Live(s)
  PROVE  /\ id \in Ids /\ s.inferences[id] \in InferenceRecord
         /\ s.inferences[id] # NoRecord
         /\ s.inferences[id].executorSlot = executorOf(id)
         /\ executorOf(id) \in Slots
<1>1. id \in Started(s) /\ id \in Ids /\ s.inferences[id] # NoRecord
  BY DEF Live, Started
<1>2. s.inferences[id] \in InferenceRecord
  BY <1>1 DEF StateInv, EscrowState
<1> QED BY <1>1, <1>2, ExecutorIsSlot DEF StateInv

LEMMA BindKeeps ==
  ASSUME NEW s, StateInv(s), NEW x \in Slots, NEW key \in Keys, NEW g
  PROVE  /\ StateInv(Bind(s, x, key, g))
         /\ Bind(s, x, key, g).inferences = s.inferences
         /\ Live(Bind(s, x, key, g)) = Live(s)
<1> DEFINE t == Bind(s, x, key, g)
<1>1. s \in EscrowState
  BY DEF StateInv
<1>2. BoundKey(s, x, key, g) \in Keys \cup {NoKey}
  BY <1>1 DEF BoundKey, EscrowState
<1>3. /\ t \in EscrowState /\ t.balance = s.balance /\ t.fees = s.fees
      /\ t.cost = s.cost /\ t.inferences = s.inferences /\ t.sealedNonces = s.sealedNonces
  BY <1>1, <1>2 DEF Bind, EscrowState
<1>4. Live(t) = Live(s)
  BY <1>3 DEF Live, Started
<1> HIDE DEF t
<1>5. StateInv(t)
  BY <1>3, NoMoneyMoves
<1> QED BY <1>3, <1>4, <1>5 DEF t

\* A record may change freely as long as it holds and earns what it did.
LEMMA SetRecordKeeps ==
  ASSUME NEW s, StateInv(s), NEW id \in Ids, NEW rec \in InferenceRecord,
         rec.executorSlot = executorOf(id),
         HeldBy(rec) = HeldBy(s.inferences[id]), EarnedBy(rec) = EarnedBy(s.inferences[id])
  PROVE  StateInv(SetRecord(s, id, rec))
<1> DEFINE t == SetRecord(s, id, rec)
<1>1. s \in EscrowState
  BY DEF StateInv
<1>2. /\ t \in EscrowState /\ t.balance = s.balance /\ t.fees = s.fees /\ t.cost = s.cost
      /\ t.inferences = [s.inferences EXCEPT ![id] = rec]
  BY <1>1 DEF SetRecord, EscrowState
<1> HIDE DEF t
<1>3. t.balance + HeldBy(rec) + EarnedBy(rec)
        = s.balance + HeldBy(s.inferences[id]) + EarnedBy(s.inferences[id])
  BY <1>2
<1>4. t.cost[executorOf(id)] + EarnedBy(s.inferences[id])
        = s.cost[executorOf(id)] + EarnedBy(rec)
  BY <1>2
<1>5. StateInv(t)
  BY <1>2, <1>3, <1>4, RecordStep
<1> QED BY <1>5 DEF t

LEMMA StartKeeps ==
  ASSUME NEW s, StateInv(s), NEW id \in Ids, NEW reserved \in Nat,
         s.inferences[id] = NoRecord, reserved <= s.balance
  PROVE  StateInv([SetRecord(s, id, NewRecord(id, reserved)) EXCEPT !.balance = @ - reserved])
<1> DEFINE rec == NewRecord(id, reserved)
           t == [SetRecord(s, id, rec) EXCEPT !.balance = @ - reserved]
<1>1. s \in EscrowState
  BY DEF StateInv
<1>2. rec \in InferenceRecord /\ rec.executorSlot = executorOf(id)
  BY ExecutorIsSlot DEF NewRecord, InferenceRecord, Statuses
<1>3. rec # NoRecord
  BY <1>2, NoRecordAssumption
<1>4. HeldBy(rec) = reserved /\ EarnedBy(rec) = 0
  BY <1>3 DEF HeldBy, EarnedBy, NewRecord
<1>5. HeldBy(s.inferences[id]) = 0 /\ EarnedBy(s.inferences[id]) = 0
  BY DEF HeldBy, EarnedBy
<1> HIDE DEF rec
<1>7. s.balance \in Nat /\ s.balance - reserved \in Nat
  BY <1>1 DEF EscrowState
<1>6. /\ t \in EscrowState /\ t.balance = s.balance - reserved /\ t.fees = s.fees
      /\ t.cost = s.cost /\ t.inferences = [s.inferences EXCEPT ![id] = rec]
  <2>1. SetRecord(s, id, rec) \in EscrowState /\ SetRecord(s, id, rec).balance = s.balance
    BY <1>1, <1>2 DEF SetRecord, EscrowState
  <2>2. t \in EscrowState
    BY <1>7, <2>1 DEF EscrowState
  <2> QED BY <1>1, <2>1, <2>2 DEF SetRecord, EscrowState
<1> HIDE DEF t
<1>8. StateInv(t)
  <2>1. t.balance + HeldBy(rec) + EarnedBy(rec)
          = s.balance + HeldBy(s.inferences[id]) + EarnedBy(s.inferences[id])
    BY <1>4, <1>5, <1>6, <1>7
  <2>2. t.cost[executorOf(id)] + EarnedBy(s.inferences[id])
          = s.cost[executorOf(id)] + EarnedBy(rec)
    BY <1>4, <1>5, <1>6
  <2> QED BY <1>2, <1>6, <2>1, <2>2, RecordStep
<1> QED BY <1>8 DEF t, rec

LEMMA FinishKeeps ==
  ASSUME NEW s, StateInv(s), NEW id \in Live(s), s.inferences[id].status = "started",
         NEW actual \in Nat, actual <= s.inferences[id].reservedCost
  PROVE  StateInv(Finish(s, id, actual))
<1> DEFINE old == s.inferences[id]
           rec == [old EXCEPT !.status = "finished", !.actualCost = actual]
           x == executorOf(id)
           t == Finish(s, id, actual)
<1>1. s \in EscrowState /\ id \in Ids /\ old \in InferenceRecord /\ old # NoRecord
      /\ old.executorSlot = x /\ x \in Slots
  BY LiveRecord DEF StateInv
<1>2. rec \in InferenceRecord /\ rec.executorSlot = x
  BY <1>1 DEF InferenceRecord, Statuses
<1>3. HeldBy(old) = old.reservedCost /\ EarnedBy(old) = 0
  BY <1>1 DEF HeldBy, EarnedBy
<1>4. HeldBy(rec) = 0 /\ EarnedBy(rec) = actual
  <2>1. rec # NoRecord
    BY <1>2, NoRecordAssumption
  <2>2. rec.status = "finished" /\ rec.actualCost = actual
    BY <1>1 DEF InferenceRecord
  <2> QED BY <2>1, <2>2 DEF HeldBy, EarnedBy
<1>5. /\ old.reservedCost \in Nat /\ s.balance \in Nat /\ s.cost[x] \in Nat
      /\ s.balance + (old.reservedCost - actual) \in Nat /\ s.cost[x] + actual \in Nat
  BY <1>1 DEF InferenceRecord, EscrowState
<1>6. SetRecord(s, id, rec) = [s EXCEPT !.inferences = [s.inferences EXCEPT ![id] = rec]]
  BY <1>1 DEF SetRecord, EscrowState
<1>7. t = [s EXCEPT !.inferences = [s.inferences EXCEPT ![id] = rec],
                    !.balance = s.balance + (old.reservedCost - actual),
                    !.cost = [s.cost EXCEPT ![x] = s.cost[x] + actual]]
  BY <1>1, <1>6 DEF Finish, EscrowState
<1> HIDE DEF t, rec, old
<1>8. /\ t \in EscrowState /\ t.fees = s.fees
      /\ t.balance = s.balance + (old.reservedCost - actual)
      /\ t.cost = [s.cost EXCEPT ![x] = s.cost[x] + actual]
      /\ t.inferences = [s.inferences EXCEPT ![id] = rec]
  BY <1>1, <1>2, <1>5, <1>7 DEF EscrowState
<1>9. t.balance + HeldBy(rec) + EarnedBy(rec) = s.balance + HeldBy(old) + EarnedBy(old)
  BY <1>3, <1>4, <1>5, <1>8
<1>10. /\ t.cost[x] + EarnedBy(old) = s.cost[x] + EarnedBy(rec)
       /\ \A y \in Slots \ {x} : t.cost[y] = s.cost[y]
  BY <1>1, <1>3, <1>4, <1>5, <1>8 DEF EscrowState
<1>11. StateInv(t)
  <2>1. /\ t.balance + HeldBy(rec) + EarnedBy(rec)
             = s.balance + HeldBy(s.inferences[id]) + EarnedBy(s.inferences[id])
        /\ t.cost[executorOf(id)] + EarnedBy(s.inferences[id])
             = s.cost[executorOf(id)] + EarnedBy(rec)
        /\ \A y \in Slots \ {executorOf(id)} : t.cost[y] = s.cost[y]
    BY <1>9, <1>10 DEF old
  <2>2. t \in EscrowState /\ t.fees = s.fees /\ t.inferences = [s.inferences EXCEPT ![id] = rec]
    BY <1>8
  <2> QED BY <1>1, <1>2, <2>1, <2>2, RecordStep
<1> QED BY <1>11 DEF t

LEMMA TimeOutKeeps ==
  ASSUME NEW s, StateInv(s), NEW id \in Live(s),
         s.inferences[id].status \in {"pending", "started"}
  PROVE  StateInv(TimeOut(s, id))
<1> DEFINE old == s.inferences[id]
           rec == [old EXCEPT !.status = "timedout"]
           x == executorOf(id)
           t == TimeOut(s, id)
<1>1. s \in EscrowState /\ id \in Ids /\ old \in InferenceRecord /\ old # NoRecord
      /\ old.executorSlot = x /\ x \in Slots
  BY LiveRecord DEF StateInv
<1>2. rec \in InferenceRecord /\ rec.executorSlot = x
  BY <1>1 DEF InferenceRecord, Statuses
<1>3. HeldBy(old) = old.reservedCost /\ EarnedBy(old) = 0
  BY <1>1 DEF HeldBy, EarnedBy
<1>4. HeldBy(rec) = 0 /\ EarnedBy(rec) = 0
  BY <1>1 DEF HeldBy, EarnedBy, InferenceRecord
<1>5. /\ old.reservedCost \in Nat /\ s.balance \in Nat /\ s.missed[x] \in Nat
      /\ s.balance + old.reservedCost \in Nat /\ s.missed[x] + 1 \in Nat
  BY <1>1 DEF InferenceRecord, EscrowState
<1>6. SetRecord(s, id, rec) = [s EXCEPT !.inferences = [s.inferences EXCEPT ![id] = rec]]
  BY <1>1 DEF SetRecord, EscrowState
<1>7. t = [s EXCEPT !.inferences = [s.inferences EXCEPT ![id] = rec],
                    !.balance = s.balance + old.reservedCost,
                    !.missed = [s.missed EXCEPT ![x] = s.missed[x] + 1]]
  BY <1>1, <1>6 DEF TimeOut, EscrowState
<1> HIDE DEF t, rec, old
<1>8. /\ t \in EscrowState /\ t.fees = s.fees /\ t.cost = s.cost
      /\ t.balance = s.balance + old.reservedCost
      /\ t.inferences = [s.inferences EXCEPT ![id] = rec]
  BY <1>1, <1>2, <1>5, <1>7 DEF EscrowState
<1>9. t.balance + HeldBy(rec) + EarnedBy(rec) = s.balance + HeldBy(old) + EarnedBy(old)
  BY <1>3, <1>4, <1>5, <1>8
<1>10. t.cost[x] + EarnedBy(old) = s.cost[x] + EarnedBy(rec)
  BY <1>3, <1>4, <1>8
<1>11. StateInv(t)
  BY <1>1, <1>2, <1>8, <1>9, <1>10, RecordStep DEF old
<1> QED BY <1>11 DEF t

\* The executor of a record was credited at least what the record earned: the
\* clamp at zero in applyValidationVote never takes effect.
LEMMA CreditCovers ==
  ASSUME NEW s, StateInv(s), NEW id \in Live(s)
  PROVE  EarnedBy(s.inferences[id]) <= s.cost[executorOf(id)]
<1> DEFINE x == executorOf(id)
<1>1. s \in EscrowState /\ id \in Ids /\ x \in Slots
  BY LiveRecord DEF StateInv
<1>2. Earned(s, x) \in [Ids -> Nat]
  BY <1>1, AmountFunctions
<1>3. Earned(s, x)[id] <= SumOf(Earned(s, x))
  BY <1>1, <1>2, IdsFinite, SumBound
<1>4. Earned(s, x)[id] = EarnedBy(s.inferences[id])
  BY <1>1 DEF Earned
<1>5. s.cost[x] = SumOf(Earned(s, x))
  BY <1>1 DEF StateInv, CostsMatch
<1> QED BY <1>3, <1>4, <1>5

LEMMA InvalidateKeeps ==
  ASSUME NEW s, StateInv(s), NEW id \in Live(s), s.inferences[id].status = "challenged",
         NEW new \in InferenceRecord, new.executorSlot = s.inferences[id].executorSlot,
         new.actualCost = s.inferences[id].actualCost
  PROVE  StateInv(Invalidate(s, id, new))
<1> DEFINE old == s.inferences[id]
           rec == [new EXCEPT !.status = "invalidated"]
           x == executorOf(id)
           c == new.actualCost
           t == Invalidate(s, id, new)
<1>1. s \in EscrowState /\ id \in Ids /\ old \in InferenceRecord /\ old # NoRecord
      /\ old.executorSlot = x /\ x \in Slots
  BY LiveRecord DEF StateInv
<1>2. rec \in InferenceRecord /\ rec.executorSlot = x
  BY <1>1 DEF InferenceRecord, Statuses
<1>3. HeldBy(old) = 0 /\ EarnedBy(old) = c
  BY <1>1 DEF HeldBy, EarnedBy
<1>4. HeldBy(rec) = 0 /\ EarnedBy(rec) = 0
  BY <1>1 DEF HeldBy, EarnedBy, InferenceRecord
<1>5. /\ c \in Nat /\ s.balance \in Nat /\ s.cost[x] \in Nat /\ s.invalid[x] \in Nat
      /\ s.balance + c \in Nat /\ s.invalid[x] + 1 \in Nat
  BY <1>1 DEF InferenceRecord, EscrowState
<1>6. ~(s.cost[x] < c) /\ s.cost[x] - c \in Nat
  BY <1>3, <1>5, CreditCovers
<1>7. SetRecord(s, id, rec) = [s EXCEPT !.inferences = [s.inferences EXCEPT ![id] = rec]]
  BY <1>1 DEF SetRecord, EscrowState
<1>8. t = [s EXCEPT !.inferences = [s.inferences EXCEPT ![id] = rec],
                    !.invalid = [s.invalid EXCEPT ![x] = s.invalid[x] + 1],
                    !.cost = [s.cost EXCEPT ![x] = s.cost[x] - c],
                    !.balance = s.balance + c]
  BY <1>1, <1>6, <1>7 DEF Invalidate, EscrowState
<1> HIDE DEF t, rec, old, c
<1>9. /\ t \in EscrowState /\ t.fees = s.fees
      /\ t.balance = s.balance + c
      /\ t.cost = [s.cost EXCEPT ![x] = s.cost[x] - c]
      /\ t.inferences = [s.inferences EXCEPT ![id] = rec]
  BY <1>1, <1>2, <1>5, <1>6, <1>8 DEF EscrowState
<1>10. t.balance + HeldBy(rec) + EarnedBy(rec) = s.balance + HeldBy(old) + EarnedBy(old)
  BY <1>3, <1>4, <1>5, <1>9
<1>11. /\ t.cost[x] + EarnedBy(old) = s.cost[x] + EarnedBy(rec)
       /\ \A y \in Slots \ {x} : t.cost[y] = s.cost[y]
  BY <1>1, <1>3, <1>4, <1>5, <1>9 DEF EscrowState
<1>12. StateInv(t)
  <2>1. /\ t.balance + HeldBy(rec) + EarnedBy(rec)
             = s.balance + HeldBy(s.inferences[id]) + EarnedBy(s.inferences[id])
        /\ t.cost[executorOf(id)] + EarnedBy(s.inferences[id])
             = s.cost[executorOf(id)] + EarnedBy(rec)
        /\ \A y \in Slots \ {executorOf(id)} : t.cost[y] = s.cost[y]
    BY <1>10, <1>11 DEF old
  <2>2. t \in EscrowState /\ t.fees = s.fees /\ t.inferences = [s.inferences EXCEPT ![id] = rec]
    BY <1>9
  <2> QED BY <1>1, <1>2, <2>1, <2>2, RecordStep
<1> QED BY <1>12 DEF t

LEMMA SettleStartedKeeps ==
  ASSUME NEW s, StateInv(s), NEW id \in Live(s), s.inferences[id].status = "started"
  PROVE  StateInv(settleLiveRecord(s, id))
<1> DEFINE old == s.inferences[id]
           r == old.reservedCost
           rec == [old EXCEPT !.actualCost = r, !.status = "finished"]
           x == executorOf(id)
           t == settleLiveRecord(s, id)
<1>1. s \in EscrowState /\ id \in Ids /\ old \in InferenceRecord /\ old # NoRecord
      /\ old.executorSlot = x /\ x \in Slots
  BY LiveRecord DEF StateInv
<1>2. rec \in InferenceRecord /\ rec.executorSlot = x
  BY <1>1 DEF InferenceRecord, Statuses
<1>3. HeldBy(old) = r /\ EarnedBy(old) = 0
  BY <1>1 DEF HeldBy, EarnedBy
<1>4. HeldBy(rec) = 0 /\ EarnedBy(rec) = r
  <2>1. rec # NoRecord
    BY <1>2, NoRecordAssumption
  <2>2. rec.status = "finished" /\ rec.actualCost = r
    BY <1>1 DEF InferenceRecord
  <2> QED BY <2>1, <2>2 DEF HeldBy, EarnedBy
<1>5. r \in Nat /\ s.balance \in Nat /\ s.cost[x] \in Nat /\ s.cost[x] + r \in Nat
  BY <1>1 DEF InferenceRecord, EscrowState
<1>6. SetRecord(s, id, rec) = [s EXCEPT !.inferences = [s.inferences EXCEPT ![id] = rec]]
  BY <1>1 DEF SetRecord, EscrowState
<1>7. t = [s EXCEPT !.inferences = [s.inferences EXCEPT ![id] = rec],
                    !.cost = [s.cost EXCEPT ![x] = s.cost[x] + r]]
  BY <1>1, <1>6 DEF settleLiveRecord, EscrowState
<1> HIDE DEF t, rec, old, r
<1>8. /\ t \in EscrowState /\ t.fees = s.fees /\ t.balance = s.balance
      /\ t.cost = [s.cost EXCEPT ![x] = s.cost[x] + r]
      /\ t.inferences = [s.inferences EXCEPT ![id] = rec]
  BY <1>1, <1>2, <1>5, <1>7 DEF EscrowState
<1>9. t.balance + HeldBy(rec) + EarnedBy(rec) = s.balance + HeldBy(old) + EarnedBy(old)
  BY <1>3, <1>4, <1>5, <1>8
<1>10. /\ t.cost[x] + EarnedBy(old) = s.cost[x] + EarnedBy(rec)
       /\ \A y \in Slots \ {x} : t.cost[y] = s.cost[y]
  BY <1>1, <1>3, <1>4, <1>5, <1>8 DEF EscrowState
<1>11. StateInv(t)
  <2>1. /\ t.balance + HeldBy(rec) + EarnedBy(rec)
             = s.balance + HeldBy(s.inferences[id]) + EarnedBy(s.inferences[id])
        /\ t.cost[executorOf(id)] + EarnedBy(s.inferences[id])
             = s.cost[executorOf(id)] + EarnedBy(rec)
        /\ \A y \in Slots \ {executorOf(id)} : t.cost[y] = s.cost[y]
    BY <1>9, <1>10 DEF old
  <2>2. t \in EscrowState /\ t.fees = s.fees /\ t.inferences = [s.inferences EXCEPT ![id] = rec]
    BY <1>8
  <2> QED BY <1>1, <1>2, <2>1, <2>2, RecordStep
<1> QED BY <1>11 DEF t

LEMMA SettlePendingKeeps ==
  ASSUME NEW s, StateInv(s), NEW id \in Live(s), s.inferences[id].status = "pending"
  PROVE  StateInv(settleLiveRecord(s, id))
<1> DEFINE old == s.inferences[id]
           rec == [old EXCEPT !.actualCost = 0, !.status = "timedout"]
           x == executorOf(id)
           t == settleLiveRecord(s, id)
<1>1. s \in EscrowState /\ id \in Ids /\ old \in InferenceRecord /\ old # NoRecord
      /\ old.executorSlot = x /\ x \in Slots
  BY LiveRecord DEF StateInv
<1>2. rec \in InferenceRecord /\ rec.executorSlot = x
  BY <1>1 DEF InferenceRecord, Statuses
<1>3. HeldBy(old) = old.reservedCost /\ EarnedBy(old) = 0
  BY <1>1 DEF HeldBy, EarnedBy
<1>4. HeldBy(rec) = 0 /\ EarnedBy(rec) = 0
  BY <1>1 DEF HeldBy, EarnedBy, InferenceRecord
<1>5. old.reservedCost \in Nat /\ s.balance \in Nat /\ s.balance + old.reservedCost \in Nat
  BY <1>1 DEF InferenceRecord, EscrowState
<1>6. SetRecord(s, id, rec) = [s EXCEPT !.inferences = [s.inferences EXCEPT ![id] = rec]]
  BY <1>1 DEF SetRecord, EscrowState
<1>7. t = [s EXCEPT !.inferences = [s.inferences EXCEPT ![id] = rec],
                    !.balance = s.balance + old.reservedCost]
  BY <1>1, <1>6 DEF settleLiveRecord, EscrowState
<1> HIDE DEF t, rec, old
<1>8. /\ t \in EscrowState /\ t.fees = s.fees /\ t.cost = s.cost
      /\ t.balance = s.balance + old.reservedCost
      /\ t.inferences = [s.inferences EXCEPT ![id] = rec]
  BY <1>1, <1>2, <1>5, <1>7 DEF EscrowState
<1>9. t.balance + HeldBy(rec) + EarnedBy(rec) = s.balance + HeldBy(old) + EarnedBy(old)
  BY <1>3, <1>4, <1>5, <1>8
<1>10. t.cost[x] + EarnedBy(old) = s.cost[x] + EarnedBy(rec)
  BY <1>3, <1>4, <1>8
<1>11. StateInv(t)
  BY <1>1, <1>2, <1>8, <1>9, <1>10, RecordStep DEF old
<1> QED BY <1>11 DEF t

LEMMA SealKeeps ==
  ASSUME NEW s, StateInv(s), NEW ids
  PROVE  StateInv(Seal(s, ids))
<1> DEFINE t == Seal(s, ids)
<1>1. s \in EscrowState
  BY DEF StateInv
<1>2. /\ t \in EscrowState /\ t.balance = s.balance /\ t.fees = s.fees
      /\ t.cost = s.cost /\ t.inferences = s.inferences
  BY <1>1 DEF Seal, EscrowState
<1> HIDE DEF t
<1>3. StateInv(t)
  BY <1>2, NoMoneyMoves
<1> QED BY <1>3 DEF t

LEMMA DrainKeeps ==
  ASSUME NEW s, StateInv(s), NEW id \in Live(s)
  PROVE  StateInv(drainOne(s, id))
<1>1. StateInv(settleLiveRecord(s, id))
  <2>1. CASE s.inferences[id].status = "started"
    BY <2>1, SettleStartedKeeps
  <2>2. CASE s.inferences[id].status = "pending"
    BY <2>2, SettlePendingKeeps
  <2>3. CASE s.inferences[id].status \notin {"started", "pending"}
    BY <2>3 DEF settleLiveRecord
  <2> QED BY <2>1, <2>2, <2>3
<1> QED BY <1>1, SealKeeps DEF drainOne

LEMMA ChargeFeeKeeps ==
  ASSUME NEW s, StateInv(s), CanPayFee(s)
  PROVE  StateInv(ChargeFee(s))
<1> DEFINE t == ChargeFee(s)
<1>1. CASE s.phase # "active"
  BY <1>1 DEF ChargeFee
<1>2. CASE s.phase = "active"
  <2>1. s \in EscrowState /\ s.balance \in Nat /\ s.fees \in Nat /\ FeePerNonce \in Nat
    BY ConfigAssumption DEF StateInv, EscrowState
  <2>2. s.balance - FeePerNonce \in Nat /\ s.fees + FeePerNonce \in Nat
    BY <1>2, <2>1 DEF CanPayFee
  <2>3. t = [s EXCEPT !.balance = s.balance - FeePerNonce, !.fees = s.fees + FeePerNonce]
    BY <1>2, <2>1 DEF ChargeFee, EscrowState
  <2> HIDE DEF t
  <2>4. /\ t \in EscrowState /\ t.balance = s.balance - FeePerNonce
        /\ t.fees = s.fees + FeePerNonce /\ t.cost = s.cost /\ t.inferences = s.inferences
    BY <2>1, <2>2, <2>3 DEF EscrowState
  <2>5. Held(t) = Held(s) /\ Started(t) = Started(s) /\ \A x : Earned(t, x) = Earned(s, x)
    BY <2>4 DEF Held, Earned, Started
  <2>6. SumOf(Held(s)) \in Nat /\ SumOf(s.cost) \in Nat
    BY <2>1, AmountFunctions, IdsFinite, SlotsFinite, SumNat
  <2>7. Conserved(t)
    <3>1. s.balance + s.fees + SumOf(Held(s)) + SumOf(s.cost) = EscrowAmount
      BY DEF StateInv, Conserved
    <3>2. t.balance + t.fees = s.balance + s.fees
      BY <2>1, <2>4
    <3> QED BY <2>4, <2>5, <2>6, <3>1, <3>2 DEF Conserved
  <2>8. StateInv(t)
    BY <2>4, <2>5, <2>7 DEF StateInv, CostsMatch
  <2> QED BY <2>8 DEF t
<1> QED BY <1>1, <1>2

LEMMA EndDiffKeeps ==
  ASSUME NEW s, StateInv(s), CanPayFee(s)
  PROVE  StateInv(endDiff(s))
<1> DEFINE c == ChargeFee(s)
           n == AdvanceNonce(c)
<1>1. StateInv(c)
  BY ChargeFeeKeeps
<1>2. StateInv(n)
  <2> HIDE DEF c
  <2>1. c \in EscrowState
    BY <1>1 DEF StateInv
  <2> DEFINE l == c.latestNonce + 1
             f == IF c.phase = "finalizing" /\ c.finalizeNonce = 0 THEN l ELSE c.finalizeNonce
  <2>3. l \in Nat /\ f \in Nat
    BY <2>1 DEF EscrowState
  <2>4. n = [c EXCEPT !.latestNonce = l, !.finalizeNonce = f]
    BY <2>1 DEF AdvanceNonce, EscrowState
  <2> HIDE DEF n, l, f
  <2>2. /\ n \in EscrowState /\ n.balance = c.balance /\ n.fees = c.fees
        /\ n.cost = c.cost /\ n.inferences = c.inferences
    BY <2>1, <2>3, <2>4 DEF EscrowState
  <2> QED BY <1>1, <2>2, NoMoneyMoves
<1> HIDE DEF n
<1>3. StateInv([n EXCEPT !.phase = "settlement"])
  <2> DEFINE t == [n EXCEPT !.phase = "settlement"]
  <2>1. /\ t \in EscrowState /\ t.balance = n.balance /\ t.fees = n.fees
        /\ t.cost = n.cost /\ t.inferences = n.inferences
    BY <1>2 DEF StateInv, EscrowState, Phases
  <2> HIDE DEF t
  <2>2. StateInv(t)
    BY <1>2, <2>1, NoMoneyMoves
  <2> QED BY <2>2 DEF t
<1>4. StateInv(autoSeal(n))
  BY <1>2, SealKeeps DEF autoSeal
<1> QED BY <1>2, <1>3, <1>4 DEF endDiff, n

-----------------------------------------------------------------------------
(* Every handler keeps the invariant, whether it succeeds or fails. *)

LEMMA StartHandler ==
  ASSUME NEW s, StateInv(s), NEW m \in Messages, m.type = "start"
  PROVE  StateInv(applyStartInference(s, m).st)
<1> DEFINE cost == tokenCost(m.inputLength, m.maxTokens, TokenPrice)
<1>1. m.id \in Ids /\ m.inputLength \in Uint /\ m.maxTokens \in Uint
  BY MessageFields
<1>2. cost.ok => cost.val \in Nat
  BY <1>1, CostIsNat
<1> HIDE DEF cost
<1>3. CASE s.phase # "active" \/ isDuplicateInferenceID(s, m.id) \/ ~cost.ok \/ s.balance < cost.val
  BY <1>3 DEF applyStartInference, Fail, cost
<1>4. CASE ~(s.phase # "active" \/ isDuplicateInferenceID(s, m.id) \/ ~cost.ok \/ s.balance < cost.val)
  <2>1. s.inferences[m.id] = NoRecord
    BY <1>1, <1>4 DEF isDuplicateInferenceID, Started
  <2>2. s.balance \in Nat
    BY DEF StateInv, EscrowState
  <2>3. cost.val \in Nat /\ cost.val <= s.balance
    BY <1>2, <1>4, <2>2
  <2>4. StateInv([SetRecord(s, m.id, NewRecord(m.id, cost.val)) EXCEPT !.balance = @ - cost.val])
    BY <1>1, <2>1, <2>3, StartKeeps
  <2> QED BY <1>4, <2>4 DEF applyStartInference, Ok, cost
<1> QED BY <1>3, <1>4

LEMMA ConfirmHandler ==
  ASSUME NEW s, StateInv(s), NEW m \in Messages, m.type = "confirm", NEW g
  PROVE  StateInv(applyConfirmStart(s, m, g).st)
<1> DEFINE old == s.inferences[m.id]
           b == Bind(s, old.executorSlot, m.key, g)
           rec == [old EXCEPT !.status = "started", !.confirmedAt = m.confirmedAt]
<1>1. m.id \in Ids /\ m.confirmedAt \in Int /\ m.key \in Keys
  BY MessageFields
<1>2. CASE ~HasStatus(s, m.id, {"pending"})
  BY <1>2 DEF applyConfirmStart, Fail
<1>3. CASE HasStatus(s, m.id, {"pending"})
  <2>1. m.id \in Live(s) /\ old.status = "pending"
    BY <1>3 DEF HasStatus
  <2>2. /\ old \in InferenceRecord /\ old # NoRecord
        /\ old.executorSlot = executorOf(m.id) /\ executorOf(m.id) \in Slots
    BY <2>1, LiveRecord
  <2>3. StateInv(b) /\ b.inferences = s.inferences
    BY <1>1, <2>2, BindKeeps
  <2>4. rec \in InferenceRecord /\ rec.executorSlot = executorOf(m.id)
    BY <1>1, <2>2 DEF InferenceRecord, Statuses
  <2>5. rec # NoRecord /\ rec.status = "started" /\ rec.reservedCost = old.reservedCost
    BY <2>2, <2>4, NoRecordAssumption DEF InferenceRecord
  <2>6. HeldBy(rec) = HeldBy(old) /\ EarnedBy(rec) = EarnedBy(old)
    BY <2>1, <2>2, <2>5 DEF HeldBy, EarnedBy
  <2> HIDE DEF b, rec
  <2>7. StateInv(SetRecord(b, m.id, rec))
    BY <1>1, <2>3, <2>4, <2>6, SetRecordKeeps
  <2> QED BY <1>3, <2>7 DEF applyConfirmStart, Fail, Ok, b, rec
<1> QED BY <1>2, <1>3

LEMMA FinishHandler ==
  ASSUME NEW s, StateInv(s), NEW m \in Messages, m.type = "finish", NEW g
  PROVE  StateInv(applyFinishInference(s, m, g).st)
<1> DEFINE old == s.inferences[m.id]
           b == Bind(s, m.executorSlot, m.key, g)
           cost == tokenCost(m.inputTokens, m.outputTokens, TokenPrice)
           actual == IF cost.val > old.reservedCost THEN old.reservedCost ELSE cost.val
<1>1. /\ m.id \in Ids /\ m.inputTokens \in Uint /\ m.outputTokens \in Uint
      /\ m.executorSlot \in Slots /\ m.key \in Keys
  BY MessageFields
<1>2. StateInv(b) /\ b.inferences = s.inferences /\ Live(b) = Live(s)
  BY <1>1, BindKeeps
<1>3. cost.ok => cost.val \in Nat
  BY <1>1, CostIsNat
<1>4. CASE HasStatus(s, m.id, {"started"}) /\ cost.ok
  <2>1. m.id \in Live(s) /\ old.status = "started"
    BY <1>4 DEF HasStatus
  <2>2. old \in InferenceRecord
    BY <2>1, LiveRecord
  <2>3. actual \in Nat /\ actual <= old.reservedCost
    BY <1>3, <1>4, <2>2 DEF InferenceRecord
  <2> HIDE DEF b, actual, cost
  <2>4. StateInv(Finish(b, m.id, actual))
    BY <1>2, <2>1, <2>3, FinishKeeps
  <2> QED BY <1>2, <2>4 DEF applyFinishInference, Fail, Ok, b, actual, cost
<1>5. CASE ~HasStatus(s, m.id, {"started"}) \/ ~cost.ok
  <2> HIDE DEF b, cost
  <2> QED BY <1>2, <1>5 DEF applyFinishInference, Fail, Ok, b, cost
<1> QED BY <1>4, <1>5

\* Judging a record changes neither its price nor who executed it.
LEMMA JudgedRecord ==
  ASSUME NEW rec \in InferenceRecord, NEW m, m.slot \in Slots, m.valid \in BOOLEAN
  PROVE  /\ CountValidation(rec, m) \in InferenceRecord
         /\ CountValidation(rec, m).executorSlot = rec.executorSlot
         /\ CountValidation(rec, m).actualCost = rec.actualCost
         /\ CountValidation(rec, m).status \in
              IF rec.status = "finished" THEN {"finished", "challenged"} ELSE {rec.status}
         /\ CountVote(rec, m) \in InferenceRecord
         /\ CountVote(rec, m).executorSlot = rec.executorSlot
         /\ CountVote(rec, m).actualCost = rec.actualCost
         /\ CountVote(rec, m).status = rec.status
<1>1. Weight(m.slot) \in Nat /\ SlotsOfOwner(m.slot) \in SUBSET Slots
  BY OwnerSlots
<1>2. /\ rec.votesValid + Weight(m.slot) \in Nat /\ rec.votesInvalid + Weight(m.slot) \in Nat
      /\ rec.validatedBy \cup {m.slot} \in SUBSET Slots
      /\ rec.validatedBy \cup SlotsOfOwner(m.slot) \in SUBSET Slots
  BY <1>1 DEF InferenceRecord
<1>3. /\ CountValidation(rec, m) \in InferenceRecord
      /\ CountValidation(rec, m).executorSlot = rec.executorSlot
      /\ CountValidation(rec, m).actualCost = rec.actualCost
      /\ CountValidation(rec, m).status \in
           IF rec.status = "finished" THEN {"finished", "challenged"} ELSE {rec.status}
  BY <1>2 DEF CountValidation, InferenceRecord, Statuses
<1>4. /\ CountVote(rec, m) \in InferenceRecord
      /\ CountVote(rec, m).executorSlot = rec.executorSlot
      /\ CountVote(rec, m).actualCost = rec.actualCost
      /\ CountVote(rec, m).status = rec.status
  BY <1>2 DEF CountVote, InferenceRecord
<1> QED BY <1>3, <1>4

LEMMA ValidationHandler ==
  ASSUME NEW s, StateInv(s), NEW m \in Messages, m.type = "validate", NEW g
  PROVE  StateInv(applyValidation(s, m, g).st)
<1> DEFINE old == s.inferences[m.id]
           b == Bind(s, m.slot, m.key, g)
           rec == CountValidation(old, m)
<1>1. m.id \in Ids /\ m.valid \in BOOLEAN /\ m.key \in Keys
  BY MessageFields
<1>2. CASE /\ m.id \in Live(s) /\ m.slot \in Slots
           /\ HasStatus(s, m.id, {"finished", "challenged", "validated", "invalidated"})
  <2>1. StateInv(b) /\ b.inferences = s.inferences
    BY <1>1, <1>2, BindKeeps
  <2>2. old \in InferenceRecord /\ old # NoRecord /\ old.executorSlot = executorOf(m.id)
    BY <1>2, LiveRecord
  <2>3. /\ rec \in InferenceRecord /\ rec.executorSlot = executorOf(m.id)
        /\ rec.actualCost = old.actualCost
        /\ rec.status \in IF old.status = "finished" THEN {"finished", "challenged"} ELSE {old.status}
    BY <1>1, <1>2, <2>2, JudgedRecord
  <2>4. rec # NoRecord
    BY <2>3, NoRecordAssumption
  <2>5. old.status \in {"finished", "challenged", "validated", "invalidated"}
    BY <1>2 DEF HasStatus
  <2> HIDE DEF rec, b
  <2>6. HeldBy(rec) = HeldBy(old) /\ EarnedBy(rec) = EarnedBy(old)
    BY <2>2, <2>3, <2>4, <2>5 DEF HeldBy, EarnedBy
  <2>7. StateInv(SetRecord(b, m.id, rec))
    BY <1>1, <2>1, <2>3, <2>6, SetRecordKeeps
  <2> QED BY <1>2, <2>1, <2>7 DEF applyValidation, Fail, Ok, b, rec
<1>3. CASE ~ /\ m.id \in Live(s) /\ m.slot \in Slots
             /\ HasStatus(s, m.id, {"finished", "challenged", "validated", "invalidated"})
  BY <1>3 DEF applyValidation, Fail, Ok
<1> QED BY <1>2, <1>3

LEMMA VoteHandler ==
  ASSUME NEW s, StateInv(s), NEW m \in Messages, m.type = "vote", NEW g
  PROVE  StateInv(applyValidationVote(s, m, g).st)
<1> DEFINE old == s.inferences[m.id]
           b == Bind(s, m.slot, m.key, g)
           rec == CountVote(old, m)
<1>1. m.id \in Ids /\ m.valid \in BOOLEAN /\ m.key \in Keys
  BY MessageFields
<1>2. CASE m.id \in Live(s) /\ m.slot \in Slots /\ HasStatus(s, m.id, {"challenged"})
  <2>1. StateInv(b) /\ b.inferences = s.inferences /\ Live(b) = Live(s)
    BY <1>1, <1>2, BindKeeps
  <2>2. old \in InferenceRecord /\ old # NoRecord /\ old.executorSlot = executorOf(m.id)
    BY <1>2, LiveRecord
  <2>3. old.status = "challenged"
    BY <1>2 DEF HasStatus
  <2>4. /\ rec \in InferenceRecord /\ rec.executorSlot = executorOf(m.id)
        /\ rec.actualCost = old.actualCost /\ rec.status = "challenged"
    BY <1>1, <1>2, <2>2, <2>3, JudgedRecord
  <2>5. rec # NoRecord
    BY <2>4, NoRecordAssumption
  <2> HIDE DEF rec, b
  <2>6. StateInv(Invalidate(b, m.id, rec))
    BY <1>2, <2>1, <2>2, <2>3, <2>4, InvalidateKeeps
  <2>7. StateInv(SetRecord(b, m.id, [rec EXCEPT !.status = "validated"]))
    <3> DEFINE v == [rec EXCEPT !.status = "validated"]
    <3>1. /\ v \in InferenceRecord /\ v.executorSlot = executorOf(m.id)
          /\ v.actualCost = old.actualCost /\ v.status = "validated"
      BY <2>4 DEF InferenceRecord, Statuses
    <3>2. v # NoRecord
      BY <3>1, NoRecordAssumption
    <3> HIDE DEF v
    <3>3. HeldBy(v) = HeldBy(old) /\ EarnedBy(v) = EarnedBy(old)
      BY <2>2, <2>3, <3>1, <3>2 DEF HeldBy, EarnedBy
    <3>4. StateInv(SetRecord(b, m.id, v))
      BY <1>1, <2>1, <3>1, <3>3, SetRecordKeeps
    <3> QED BY <3>4 DEF v
  <2>8. StateInv(SetRecord(b, m.id, rec))
    <3>1. HeldBy(rec) = HeldBy(old) /\ EarnedBy(rec) = EarnedBy(old)
      BY <2>2, <2>3, <2>4, <2>5 DEF HeldBy, EarnedBy
    <3> QED BY <1>1, <2>1, <2>4, <3>1, SetRecordKeeps
  <2>9. StateInv(ResolveVote(b, m.id, rec))
    BY <2>6, <2>7, <2>8 DEF ResolveVote
  <2> QED BY <1>2, <2>1, <2>9 DEF applyValidationVote, Fail, Ok, b, rec
<1>3. CASE ~(m.id \in Live(s) /\ m.slot \in Slots /\ HasStatus(s, m.id, {"challenged"}))
  BY <1>3 DEF applyValidationVote, Fail, Ok
<1> QED BY <1>2, <1>3

LEMMA BindVotersKeeps ==
  ASSUME NEW s, StateInv(s), NEW g,
         NEW votes \in Seq([slot : SlotInputs, accept : BOOLEAN, key : Keys])
  PROVE  /\ StateInv(BindVoters(s, votes, g))
         /\ BindVoters(s, votes, g).inferences = s.inferences
         /\ Live(BindVoters(s, votes, g)) = Live(s)
<1> DEFINE t == BindVoters(s, votes, g)
           read == VotesRead(s, votes, g)
           last(x) == CHOOSE i \in read : votes[i].slot = x
           w == [x \in Slots |-> IF \E i \in read : votes[i].slot = x
                                 THEN BoundKey(s, x, votes[last(x)].key, g)
                                 ELSE s.warmKeys[x]]
<1>1. s \in EscrowState
  BY DEF StateInv
<1>2. \A i \in read : votes[i].key \in Keys
  <2>1. read \subseteq DOMAIN votes
    BY DEF VotesRead
  <2>2. \A i \in DOMAIN votes : votes[i] \in [slot : SlotInputs, accept : BOOLEAN, key : Keys]
    BY ElementOfSeq
  <2> HIDE DEF read
  <2> QED BY <2>1, <2>2
<1> HIDE DEF read
<1>3. ASSUME NEW x \in Slots PROVE w[x] \in Keys \cup {NoKey}
  <2>1. CASE \E i \in read : votes[i].slot = x
    <3>1. last(x) \in read
      BY <2>1
    <3>2. votes[last(x)].key \in Keys
      BY <1>2, <3>1
    <3> HIDE DEF last
    <3>3. BoundKey(s, x, votes[last(x)].key, g) \in Keys \cup {NoKey}
      BY <1>1, <3>2 DEF BoundKey, EscrowState
    <3> QED BY <2>1, <3>3
  <2>2. CASE ~\E i \in read : votes[i].slot = x
    BY <1>1, <2>2 DEF EscrowState
  <2> QED BY <2>1, <2>2
<1>4. w \in [Slots -> Keys \cup {NoKey}]
  BY <1>3
<1>5. t = [s EXCEPT !.warmKeys = w]
  BY DEF BindVoters, read
<1> HIDE DEF t, w
<1>6. /\ t \in EscrowState /\ t.balance = s.balance /\ t.fees = s.fees
      /\ t.cost = s.cost /\ t.inferences = s.inferences /\ t.sealedNonces = s.sealedNonces
  BY <1>1, <1>4, <1>5 DEF EscrowState
<1>7. Live(t) = Live(s)
  BY <1>6 DEF Live, Started
<1>8. StateInv(t)
  BY <1>6, NoMoneyMoves
<1> QED BY <1>6, <1>7, <1>8 DEF t

LEMMA TimeoutHandler ==
  ASSUME NEW s, StateInv(s), NEW m \in Messages, m.type = "timeout", NEW g
  PROVE  StateInv(applyTimeout(s, m, g).st)
<1> DEFINE wanted == IF m.reason = "refused" THEN {"pending"} ELSE {"started"}
           b == BindVoters(s, m.votes, g)
<1>1. m.id \in Ids /\ m.votes \in Seq([slot : SlotInputs, accept : BOOLEAN, key : Keys])
  BY MessageFields
<1>2. StateInv(b) /\ b.inferences = s.inferences /\ Live(b) = Live(s)
  BY <1>1, BindVotersKeeps
<1> HIDE DEF b
<1>3. CASE HasStatus(s, m.id, wanted)
  <2>1. m.id \in Live(s) /\ s.inferences[m.id].status \in {"pending", "started"}
    BY <1>3 DEF HasStatus
  <2>2. StateInv(TimeOut(b, m.id))
    BY <1>2, <2>1, TimeOutKeeps
  <2> QED BY <1>2, <1>3, <2>2 DEF applyTimeout, Fail, Ok, b
<1>4. CASE ~HasStatus(s, m.id, wanted)
  BY <1>4 DEF applyTimeout, Fail
<1> QED BY <1>3, <1>4

LEMMA FinalizeHandler ==
  ASSUME NEW s, StateInv(s)
  PROVE  StateInv(applyFinalizeRound(s).st)
<1> DEFINE t == [s EXCEPT !.phase = "finalizing"]
<1>1. /\ t \in EscrowState /\ t.balance = s.balance /\ t.fees = s.fees
      /\ t.cost = s.cost /\ t.inferences = s.inferences
  BY DEF StateInv, EscrowState, Phases
<1> HIDE DEF t
<1>2. StateInv(t)
  BY <1>1, NoMoneyMoves
<1> QED BY <1>2 DEF applyFinalizeRound, Fail, Ok, t

LEMMA TxKeeps ==
  ASSUME NEW s, StateInv(s), NEW m \in Messages, NEW g
  PROVE  StateInv(applyTx(s, m, g).st)
<1>1. CASE m.type = "start"
  BY <1>1, StartHandler DEF applyTx
<1>2. CASE m.type = "confirm"
  BY <1>2, ConfirmHandler DEF applyTx
<1>3. CASE m.type = "finish"
  BY <1>3, FinishHandler DEF applyTx
<1>4. CASE m.type = "validate"
  BY <1>4, ValidationHandler DEF applyTx
<1>5. CASE m.type = "vote"
  BY <1>5, VoteHandler DEF applyTx
<1>6. CASE m.type = "timeout"
  BY <1>6, TimeoutHandler DEF applyTx
<1>7. CASE m.type = "reveal"
  BY <1>7 DEF applyTx, Ok
<1>8. CASE m.type = "finalize"
  BY <1>8, FinalizeHandler DEF applyTx
<1>9. CASE m.type = "empty"
  BY <1>9 DEF applyTx, Fail
<1> QED BY <1>1, <1>2, <1>3, <1>4, <1>5, <1>6, <1>7, <1>8, <1>9, MessageFields

-----------------------------------------------------------------------------
(* The specification. *)

LEMMA NewStateInv == StateInv(NewStateMachine)
<1> DEFINE s == NewStateMachine
<1>1. s \in EscrowState
  <2>1. EscrowAmount - CreateDevshardFee \in Nat /\ CreateDevshardFee \in Nat
    BY ConfigAssumption
  <2> QED BY <2>1 DEF NewStateMachine, EscrowState, Phases
<1>2. \A i \in Ids : s.inferences[i] = NoRecord
  BY DEF NewStateMachine
<1>3. \A i \in Ids : HeldBy(s.inferences[i]) = 0 /\ EarnedBy(s.inferences[i]) = 0
  BY <1>2 DEF HeldBy, EarnedBy
<1>4. SumOf(Held(s)) = 0 /\ \A x \in Slots : SumOf(Earned(s, x)) = 0
  <2>1. Held(s) \in [Ids -> Nat] /\ \A x \in Slots : Earned(s, x) \in [Ids -> Nat]
    BY <1>1, AmountFunctions
  <2>2. \A i \in Ids : Held(s)[i] = 0 /\ \A x \in Slots : Earned(s, x)[i] = 0
    BY <1>3 DEF Held, Earned
  <2> HIDE DEF s
  <2> QED BY <2>1, <2>2, SumZero
<1>5. SumOf(s.cost) = 0 /\ \A x \in Slots : s.cost[x] = 0
  <2>1. s.cost \in [Slots -> Nat] /\ \A x \in Slots : s.cost[x] = 0
    BY DEF NewStateMachine
  <2> HIDE DEF s
  <2> QED BY <2>1, SumZero
<1>6. Conserved(s)
  <2>1. s.balance = EscrowAmount - CreateDevshardFee /\ s.fees = CreateDevshardFee
    BY DEF NewStateMachine
  <2>2. EscrowAmount \in Nat /\ CreateDevshardFee \in Nat
    BY ConfigAssumption
  <2> HIDE DEF s
  <2> QED BY <1>4, <1>5, <2>1, <2>2 DEF Conserved
<1>7. Started(s) = {}
  BY <1>2 DEF Started
<1> HIDE DEF s
<1>8. StateInv(s)
  BY <1>1, <1>4, <1>5, <1>6, <1>7 DEF StateInv, CostsMatch
<1> QED BY <1>8 DEF s

LEMMA InitIInv == Init => IInv
<1> SUFFICES ASSUME Init PROVE IInv
  OBVIOUS
<1>1. StateInv(st) /\ StateInv(snap)
  BY NewStateInv DEF Init
<1> QED BY <1>1 DEF Init, IInv, TypeOK, StateInv, Modes

\* A rollback and a commit leave the replica idle in a state that satisfies
\* the invariant.
LEMMA RollbackKeeps == IInv /\ Rollback => IInv'
BY DEF IInv, TypeOK, Rollback, Modes, StateInv

LEMMA CommitKeeps ==
  ASSUME NEW s, StateInv(s), Commit(s)
  PROVE  IInv'
<1>1. StateInv(st)' /\ StateInv(snap)'
  BY DEF Commit
<1>2. StateInv(st)' => st' \in EscrowState
  BY DEF StateInv
<1> QED BY <1>1, <1>2 DEF Commit, IInv, TypeOK, StateInv, Modes

LEMMA InjectKeeps ==
  ASSUME NEW s, StateInv(s), NEW x \in Slots, NEW key \in Keys
  PROVE  StateInv(InjectWarmKey(s, x, key))
<1> DEFINE t == [s EXCEPT !.warmKeys[x] = key]
<1>1. s \in EscrowState
  BY DEF StateInv
<1>2. t \in EscrowState
  BY <1>1 DEF EscrowState
<1>3. /\ t.balance = s.balance /\ t.fees = s.fees
      /\ t.cost = s.cost /\ t.inferences = s.inferences
  BY <1>1 DEF EscrowState
<1>4. StateInv(t)
  <2> HIDE DEF t
  <2> QED BY <1>2, <1>3, NoMoneyMoves
<1> QED BY <1>4 DEF InjectWarmKey

LEMMA EndDiffStep == IInv /\ EndDiff => IInv'
<1> SUFFICES ASSUME IInv, EndDiff PROVE IInv'
  OBVIOUS
<1> DEFINE n == endDiff(st)
<1>1. StateInv(n)
  BY EndDiffKeeps DEF IInv, EndDiff
<1>2. CASE Commit(n)
  <2> HIDE DEF n
  <2> QED BY <1>1, <1>2, CommitKeeps
<1>3. CASE st' = n /\ mode' = "draining" /\ UNCHANGED <<snap, startSeen>>
  <2> HIDE DEF n
  <2> QED BY <1>1, <1>3 DEF IInv, TypeOK, StateInv, Modes
<1> QED BY <1>2, <1>3 DEF EndDiff

LEMMA DrainStep == IInv /\ DrainOne => IInv'
<1> SUFFICES ASSUME IInv, DrainOne PROVE IInv'
  OBVIOUS
<1>1. PICK id \in Live(st) :
        IF Live(st) = {id} THEN Commit(drainOne(st, id))
        ELSE st' = drainOne(st, id) /\ UNCHANGED <<snap, mode, startSeen>>
  BY DEF DrainOne
<1>2. StateInv(drainOne(st, id))
  BY DrainKeeps DEF IInv
<1>3. CASE Commit(drainOne(st, id))
  BY <1>2, <1>3, CommitKeeps
<1>4. CASE st' = drainOne(st, id) /\ UNCHANGED <<snap, mode, startSeen>>
  <2>1. StateInv(st)' /\ StateInv(snap)' /\ mode' = "draining"
    BY <1>2, <1>4 DEF IInv, DrainOne
  <2> QED BY <1>4, <2>1 DEF IInv, TypeOK, StateInv, Modes
<1> QED BY <1>1, <1>3, <1>4

LEMMA TxStep ==
  ASSUME IInv, NEW m \in Messages, NEW g \in Grants, ApplyTx(m, g) \/ SkipTx(m, g)
  PROVE  IInv'
<1>1. /\ st' = applyTx(st, m, g).st
      /\ mode \in {"strict", "besteffort"}
      /\ startSeen' \in BOOLEAN
      /\ UNCHANGED <<snap, mode>>
  BY DEF ApplyTx, SkipTx, IInv, TypeOK
<1>2. StateInv(applyTx(st, m, g).st)
  BY TxKeeps DEF IInv
<1>3. StateInv(st)' /\ StateInv(snap)'
  BY <1>1, <1>2 DEF IInv
<1> QED BY <1>1, <1>3 DEF IInv, TypeOK, StateInv, Modes

LEMMA NextKeeps == IInv /\ [Next]_vars => IInv'
<1> SUFFICES ASSUME IInv, [Next]_vars PROVE IInv'
  OBVIOUS
<1>1. ASSUME NEW m \in ApplyModes, BeginDiff(m) PROVE IInv'
  BY <1>1, InputAssumption DEF BeginDiff, IInv, TypeOK, Modes
<1>2. ASSUME NEW g \in Grants, NEW x \in Slots, NEW key \in Keys, InjectWarmKeys(x, key)
      PROVE  IInv'
  <2>1. StateInv(InjectWarmKey(st, x, key))
    BY InjectKeeps DEF IInv
  <2> QED BY <1>2, <2>1, CommitKeeps DEF InjectWarmKeys
<1>3. ASSUME NEW m \in Messages, NEW g \in Grants, ApplyTx(m, g) \/ SkipTx(m, g)
      PROVE  IInv'
  BY <1>3, TxStep
<1>4. CASE RejectDiff
  BY <1>4, RollbackKeeps DEF RejectDiff
<1>5. CASE EndDiff
  BY <1>5, EndDiffStep
<1>6. CASE DrainOne
  BY <1>6, DrainStep
<1>7. CASE DrainFails
  BY <1>7, RollbackKeeps DEF DrainFails
<1>8. CASE UNCHANGED vars
  BY <1>8 DEF IInv, TypeOK, vars
<1> QED BY <1>1, <1>2, <1>3, <1>4, <1>5, <1>6, <1>7, <1>8 DEF Next

\* Every reachable state satisfies the inductive invariant: the working state
\* and the rollback snapshot of a replica both account for the whole escrow.
THEOREM InvariantHolds == Spec => []IInv
BY InitIInv, NextKeeps, PTL DEF Spec

\* The working state and the snapshot of a replica keep their types: balance,
\* fees and costs never go below zero, whatever applyCore or
\* localBestEffortLocked is fed.
THEOREM TypeCorrect == Spec => []TypeOK
<1>1. IInv => TypeOK
  BY DEF IInv
<1> QED BY <1>1, InvariantHolds, PTL

\* The escrow is conserved by every handler, fee charge, seal and drain step.
THEOREM Conservation == Spec => []EscrowConserved
<1>1. IInv => EscrowConserved
  BY DEF IInv, StateInv, EscrowConserved
<1> QED BY <1>1, InvariantHolds, PTL

\* HostStats.Cost of every slot is the sum of the actual costs of its surviving
\* inferences, so the clamp of applyValidationVote never fires.
THEOREM CostAccounting == Spec => []CostMatchesRecords
<1>1. IInv => CostMatchesRecords
  BY DEF IInv, StateInv, CostMatchesRecords
<1> QED BY <1>1, InvariantHolds, PTL
=============================================================================
