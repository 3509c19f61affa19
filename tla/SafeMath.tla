------------------------------ MODULE SafeMath ------------------------------
(***************************************************************************)
(* The checked uint64 arithmetic of src/devshard/state/machine.go.         *)
(* Machine integers wrap modulo Modulus (2^64 in the build); a result is a *)
(* pair of a value and the flag that says no wrap-around happened.         *)
(***************************************************************************)
EXTENDS Integers

CONSTANT Modulus          \* 2^64 in the build

ASSUME ModulusAssumption == Modulus \in Nat \ {0}

Uint == 0 .. Modulus - 1

Result(v, ok) == [val |-> v, ok |-> ok]

\* The wrapped product is divided back: a mismatch means it wrapped.
safeMul(a, b) ==
  IF a = 0 \/ b = 0 THEN Result(0, TRUE)
  ELSE LET r == (a * b) % Modulus
       IN  IF r \div a = b THEN Result(r, TRUE) ELSE Result(0, FALSE)

\* A wrapped sum is smaller than its operands.
safeAdd(a, b) ==
  LET r == (a + b) % Modulus
  IN  IF r < a THEN Result(0, FALSE) ELSE Result(r, TRUE)

\* (a + b) * price, or overflow.
tokenCost(a, b, price) ==
  LET sum == safeAdd(a, b)
  IN  IF ~sum.ok THEN Result(0, FALSE) ELSE safeMul(sum.val, price)
=============================================================================
