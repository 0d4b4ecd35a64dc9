------------------------------- MODULE Totals -------------------------------
(* The sum of a sequence of numbers, as the reduce of a list in the code.  *)
(* A function and not one of the folds: the proofs reason about it.        *)
EXTENDS Integers, Sequences

Total(seq) ==
  LET sum[k \in 0 .. Len(seq)] == IF k = 0 THEN 0 ELSE sum[k - 1] + seq[k] IN sum[Len(seq)]
=============================================================================
