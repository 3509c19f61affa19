-------------------------------- MODULE Sums --------------------------------
(***************************************************************************)
(* Sums of amounts of coins.  A sum is the number of coins when amount     *)
(* f[x] is laid out as the coins <<x, 1>> .. <<x, f[x]>>, which gives it   *)
(* a meaning that needs no recursion.                                      *)
(***************************************************************************)
EXTENDS Integers, FiniteSets

Coins(f) == UNION {{x} \X (1 .. f[x]) : x \in DOMAIN f}

SumOf(f) == Cardinality(Coins(f))
=============================================================================
