-------------------------------- MODULE Sums --------------------------------
(* Sums of amounts over finite sets.                                       *)
EXTENDS Integers, FiniteSetsExt

SumOf(f, S) == MapThenSumSet(LAMBDA x : f[x], S)
=============================================================================
