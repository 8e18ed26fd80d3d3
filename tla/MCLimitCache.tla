---------------------------- MODULE MCLimitCache ----------------------------
(* Model checking LimitCache: processes, readers and writers of one kind   *)
(* are interchangeable.                                                    *)
EXTENDS LimitCache, TLC

Symmetry == Permutations(Gateways) \cup Permutations(Readers) \cup Permutations(Writers)
=============================================================================
