----------------------------- MODULE TokenBucket -----------------------------
(***************************************************************************)
(* The rate limit of one API key: CheckRateLimit takes the time of its own *)
(* gateway and runs a script on the key's bucket in Redis.  Calls reach    *)
(* Redis in any order, and the clocks of the gateways differ.  Time is in  *)
(* milliseconds and the bucket in thousandths of a token, so that the      *)
(* script's factor 0.001 is a whole number.                                *)
(***************************************************************************)
EXTENDS Integers, Sequences, RedisCalls

CONSTANTS
    Calls,               \* calls of CheckRateLimit for the key
    RateLimitPerMinute,  \* of the key, the same in every call
    Steps,               \* how far the clock may jump
    Skews,               \* how far a gateway's clock may be off
    LastTime             \* bound: the clock

ASSUME RateAssumption == RateLimitPerMinute \in Nat \ {0}
ASSUME ClockAssumption == Steps \subseteq Nat /\ Skews \subseteq Int /\ LastTime \in Nat

(* What the handlers pass for capacity, refill_rate and requested.         *)
Token == 1000
Capacity == RateLimitPerMinute * Token
RefillRate == RateLimitPerMinute
Requested == Token

VARIABLES
    clock,
    exists,      \* whether the key is in Redis
    tokens,      \* its fields
    lastRefill,
    stage,       \* where each call is
    now,         \* nowMs of each call
    unanswered,  \* its attempts that got no reply
    grants       \* for the properties: nowMs of the runs that took a token,
                 \* in the order Redis ran them, since the key was created

callVars == <<clock, exists, tokens, lastRefill, stage, now, unanswered, grants>>
bucket == <<exists, tokens, lastRefill, grants>>

BucketTypeOK ==
    /\ clock \in 0..LastTime
    /\ exists \in BOOLEAN
    /\ tokens \in Int
    /\ lastRefill \in Int
    /\ stage \in [Calls -> {"idle", "sent", "allowed", "refused", "open"}]
    /\ now \in [Calls -> Int]
    /\ unanswered \in [Calls -> 0..MaxRetries]
    /\ grants \in Seq(Int)

BucketInit ==
    /\ clock = 0
    /\ exists = FALSE
    /\ tokens = 0
    /\ lastRefill = 0
    /\ stage = [c \in Calls |-> "idle"]
    /\ now = [c \in Calls |-> 0]
    /\ unanswered = [c \in Calls |-> 0]
    /\ grants = <<>>

-----------------------------------------------------------------------------
(* The script                                                              *)

(* A variant of Refilled without the upper bound.                          *)
RefilledUncapped(t) ==
    IF exists THEN tokens + (t - lastRefill) * RefillRate ELSE Capacity

(* A call whose clock is behind the last one's takes tokens away.          *)
Refilled(t) ==
    LET full == tokens + (t - lastRefill) * RefillRate
    IN  IF exists /\ full < Capacity THEN full ELSE Capacity

Allowed(t) == Refilled(t) >= Requested

RunScript(t) ==
    /\ exists' = TRUE
    /\ tokens' = Refilled(t) - (IF Allowed(t) THEN Requested ELSE 0)
    /\ lastRefill' = t
    /\ grants' = IF Allowed(t) THEN Append(grants, t) ELSE grants

-----------------------------------------------------------------------------
Send(c) ==
    /\ stage[c] = "idle"
    /\ stage' = [stage EXCEPT ![c] = "sent"]
    /\ \E skew \in Skews : now' = [now EXCEPT ![c] = clock + skew]
    /\ UNCHANGED <<clock, bucket, unanswered>>

Reply(c) ==
    /\ stage[c] = "sent"
    /\ RunScript(now[c])
    /\ stage' = [stage EXCEPT ![c] = IF Allowed(now[c]) THEN "allowed" ELSE "refused"]
    /\ unanswered' = [unanswered EXCEPT ![c] = 0]
    /\ UNCHANGED <<clock, now>>

(* EvalSha got no reply, whether Redis ran the script or not: the client   *)
(* library repeats the call with the same arguments, and at last the       *)
(* request is let through.                                                 *)
NoVerdict(c) ==
    /\ stage[c] = "sent"
    /\ RunScript(now[c]) \/ UNCHANGED bucket
    /\ unanswered' = [unanswered EXCEPT ![c] = IF @ < MaxRetries THEN @ + 1 ELSE 0]
    /\ stage' = [stage EXCEPT ![c] = IF unanswered[c] = MaxRetries THEN "open" ELSE @]
    /\ UNCHANGED <<clock, now>>

(* The key has not been touched for fifteen minutes, or Redis restarts.    *)
Forget ==
    /\ exists
    /\ exists' = FALSE
    /\ tokens' = 0
    /\ lastRefill' = 0
    /\ grants' = <<>>
    /\ UNCHANGED <<clock, stage, now, unanswered>>

Tick ==
    /\ \E d \in Steps : clock + d <= LastTime /\ clock' = clock + d
    /\ UNCHANGED <<bucket, stage, now, unanswered>>

BucketNext ==
    \/ \E c \in Calls : Send(c) \/ Reply(c) \/ NoVerdict(c)
    \/ Forget
    \/ Tick

BucketSpec == BucketInit /\ [][BucketNext]_callVars

-----------------------------------------------------------------------------
(* The bucket bounds every window, not only the first: as long as the key  *)
(* lives, the grants from any one to any later one are no more than a full *)
(* bucket and what is refilled between their times, however calls overtake *)
(* each other, clocks differ and lost replies are repeated.                *)
WindowBounded ==
    \A i, j \in 1..Len(grants) :
        i <= j => (j - i + 1) * Requested
                      <= Capacity + RefillRate * (grants[j] - grants[i])

(* The limit is per minute: two grants that are less than a minute apart   *)
(* have at most a full bucket and a minute's refill between them.          *)
PerMinuteRate ==
    \A i, j \in 1..Len(grants) :
        i <= j /\ grants[j] - grants[i] < 60 * 1000 => j - i + 1 <= 2 * RateLimitPerMinute
=============================================================================
