----------------------------- MODULE RedisCalls -----------------------------
(* What every call to Redis has in common: the client library repeats one  *)
(* that got no reply.                                                      *)
EXTENDS Integers

CONSTANT MaxRetries   \* how often: REDIS_MAX_RETRIES; of a script, its EvalSha
                      \* and, after NOSCRIPT, its Eval count together

ASSUME RetriesAssumption == MaxRetries \in Nat
=============================================================================
