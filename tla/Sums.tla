-------------------------------- MODULE Sums --------------------------------
(***************************************************************************)
(* What a quota ledger should hold: the sum of a number per row, over the  *)
(* rows that are in a given state.                                         *)
(***************************************************************************)
EXTENDS FiniteSetsExt

(* the sum of f[i] over the members i of S                                 *)
SumOver(f, S) == MapThenSumSet(LAMBDA i : f[i], S)
=============================================================================
