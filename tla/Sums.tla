-------------------------------- MODULE Sums --------------------------------
(****************************************************************************)
(* The sum of the values of a function over a set.                          *)
(****************************************************************************)
EXTENDS Integers, Folds

SumOver(f, S) ==
    MapThenFoldSet(LAMBDA x, y : x + y, 0, LAMBDA x : f[x], LAMBDA s : CHOOSE x \in s : TRUE, S)
=============================================================================
