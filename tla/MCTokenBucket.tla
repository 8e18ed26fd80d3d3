---------------------------- MODULE MCTokenBucket ----------------------------
(* Model checking TokenBucket: calls are interchangeable.                  *)
EXTENDS TokenBucket, TLC

Symmetry == Permutations(Calls)

(* The clocks of two gateways half a second apart.                         *)
HalfSecond == {-500, 0}
NoSkew == {0}
=============================================================================
