----------------------------- MODULE MCKeyCache -----------------------------
(* Model checking KeyCache: two keys that share a prefix.                  *)
EXTENDS KeyCache, TLC

SharedPrefix == [k \in Keys |-> "llm0_live_0a1b2"]
Symmetry == Permutations(Validations)
=============================================================================
