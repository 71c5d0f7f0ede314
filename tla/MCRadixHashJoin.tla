-------------------------- MODULE MCRadixHashJoin --------------------------
EXTENDS RadixHashJoin, TLC

CONSTANTS c1, c2, c3

InterSymmetry == Permutations(Inters)

(* A column of one bucket and two columns of two.                          *)
MCRows == c1 :> 1 @@ c2 :> 2 @@ c3 :> 3
=============================================================================
