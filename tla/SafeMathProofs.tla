--------------------------- MODULE SafeMathProofs ---------------------------
(* The overflow checks of SafeMath are exact, whatever the word size. *)
EXTENDS SafeMath, TLAPS

LEMMA ModFacts ==
  ASSUME NEW n \in Nat
  PROVE  /\ n % Modulus \in Uint
         /\ n % Modulus <= n
         /\ n < Modulus => n % Modulus = n
BY ModulusAssumption DEF Uint

\* Dividing a product by one of its factors gives the other back.
LEMMA DivProduct ==
  ASSUME NEW a \in Nat \ {0}, NEW b \in Nat
  PROVE  (a * b) \div a = b
<1>1. a * b \in Nat
  OBVIOUS
<1> DEFINE q == (a * b) \div a
<1>2. q \in Int /\ a * q <= a * b /\ a * b < a * q + a
  BY <1>1
<1>3. q <= b
  <2>1. SUFFICES ASSUME q >= b + 1 PROVE FALSE
    BY <1>2
  <2>2. a * q >= a * (b + 1)
    BY <2>1, <1>2
  <2>3. a * (b + 1) = a * b + a
    OBVIOUS
  <2> QED BY <1>2, <2>2, <2>3, <1>1
<1>4. q >= b
  <2>1. SUFFICES ASSUME q <= b - 1 PROVE FALSE
    BY <1>2
  <2>2. a * (q + 1) <= a * b
    BY <2>1, <1>2
  <2>3. a * (q + 1) = a * q + a
    BY <1>2
  <2> QED BY <1>2, <2>2, <2>3, <1>1
<1> QED BY <1>2, <1>3, <1>4

\* safeMul flags a product exactly when it does not fit the word.
THEOREM SafeMulExact ==
  ASSUME NEW a \in Uint, NEW b \in Uint
  PROVE  /\ safeMul(a, b).ok <=> a * b < Modulus
         /\ safeMul(a, b).ok => safeMul(a, b).val = a * b
<1>0. a \in Nat /\ b \in Nat /\ a * b \in Nat /\ Modulus \in Nat \ {0}
  BY ModulusAssumption DEF Uint
<1>1. CASE a = 0 \/ b = 0
  BY <1>0, <1>1 DEF safeMul, Result
<1>2. CASE a # 0 /\ b # 0
  <2> DEFINE r == (a * b) % Modulus
  <2>1. r \in Nat /\ r <= a * b /\ r < Modulus /\ (a * b < Modulus => r = a * b)
    BY <1>0, ModFacts DEF Uint
  <2>2. ASSUME r \div a = b PROVE r = a * b
    <3>1. a * (r \div a) <= r
      BY <1>0, <1>2, <2>1
    <3> QED BY <1>0, <2>1, <2>2, <3>1
  <2>3. ASSUME a * b < Modulus PROVE r \div a = b
    BY <1>0, <1>2, <2>1, <2>3, DivProduct
  <2> HIDE DEF r
  <2>4. safeMul(a, b) = IF r \div a = b THEN Result(r, TRUE) ELSE Result(0, FALSE)
    BY <1>2 DEF safeMul, r
  <2> QED BY <2>1, <2>2, <2>3, <2>4, <1>0 DEF Result
<1> QED BY <1>1, <1>2

\* safeAdd flags a sum exactly when it does not fit the word.
THEOREM SafeAddExact ==
  ASSUME NEW a \in Uint, NEW b \in Uint
  PROVE  /\ safeAdd(a, b).ok <=> a + b < Modulus
         /\ safeAdd(a, b).ok => safeAdd(a, b).val = a + b
BY ModulusAssumption DEF Uint, safeAdd, Result

\* tokenCost, on which every reservation and every payment rests, either
\* returns the exact cost or reports the overflow: no wrapped amount is used.
THEOREM TokenCostExact ==
  ASSUME NEW a \in Uint, NEW b \in Uint, NEW price \in Uint
  PROVE  /\ tokenCost(a, b, price).ok <=> a + b < Modulus /\ (a + b) * price < Modulus
         /\ tokenCost(a, b, price).ok => tokenCost(a, b, price).val = (a + b) * price
<1>1. a + b \in Nat
  BY ModulusAssumption DEF Uint
<1>2. CASE a + b < Modulus
  <2>1. a + b \in Uint
    BY <1>1, <1>2, ModulusAssumption DEF Uint
  <2>2. safeAdd(a, b).ok /\ safeAdd(a, b).val = a + b
    BY <1>2, SafeAddExact
  <2> QED BY <1>2, <2>1, <2>2, SafeMulExact DEF tokenCost
<1>3. CASE ~(a + b < Modulus)
  BY <1>3, SafeAddExact DEF tokenCost, Result
<1> QED BY <1>2, <1>3
=============================================================================
