--------------------------- MODULE MCSpendLedger ---------------------------
(* Model checking SpendLedger: requests are interchangeable.               *)
EXTENDS SpendAccounting, TLC

Symmetry == Permutations(Requests)
=============================================================================
