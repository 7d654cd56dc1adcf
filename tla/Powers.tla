-------------------------------- MODULE Powers --------------------------------
(***************************************************************************)
(* Shifts and masks of machine words, by recursion on their bits.          *)
(***************************************************************************)
EXTENDS Integers

(* 1 << n *)
Pow2[n \in Nat] == IF n = 0 THEN 1 ELSE 2 * Pow2[n - 1]

(* & of the b low bits of two numbers, also negative ones. *)
LowAnd[b \in Nat] ==
  [n \in Int |-> [m \in Int |->
     IF b = 0 THEN 0 ELSE (n % 2) * (m % 2) + 2 * LowAnd[b - 1][n \div 2][m \div 2]]]
=============================================================================
