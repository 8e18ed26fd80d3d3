---------------------------- MODULE SpendLedger ----------------------------
(***************************************************************************)
(* The monthly spend counter of one project and the requests that move it. *)
(*                                                                         *)
(* A chat request reserves an estimate on the Redis key                    *)
(* spend:project:{id}:{YYYY-MM} before it calls a provider, and adjusts    *)
(* the same key by (actual - estimate) afterwards.  Both moves go through  *)
(* the script of CheckSpendCap, which refuses a move that would leave the  *)
(* key above the cap the caller passes.  Amounts are integers: only their  *)
(* sums and comparisons matter.  The counters of two projects are disjoint *)
(* keys, so one project is enough.                                         *)
(***************************************************************************)
EXTENDS Integers, RedisCalls

CONSTANTS
    Requests,     \* requests of one project
    LastMonth,    \* bound: calendar months 1..LastMonth
    Caps,         \* MonthlyCap values the cached API keys may carry
    Estimates,    \* results of the cost estimation
    Bills,        \* actual costs of answered requests
    Faults        \* which of "redis", "client", "provider", "crash" occur

ASSUME MonthsAssumption == LastMonth \in Nat \ {0}
ASSUME AmountsAssumption == Caps \subseteq Nat /\ Estimates \subseteq Nat /\ Bills \subseteq Nat

VARIABLES
    month,        \* the gateway's calendar month, time.Now()
    counter,      \* the Redis keys, one per month
    pc,           \* how far each request is
    kind,         \* "sync": ChatCompletions; "stream": ChatCompletionsStream
    key,          \* spendKey: the month whose key the request uses
    cap,          \* apiKey.MonthlyCap as the request's cached key has it
    est,          \* estimatedCost
    bill,         \* actualCost, 0 until a provider has charged
    tries         \* attempts of the current Redis call that got no reply

vars == <<month, counter, pc, kind, key, cap, est, bill, tries>>

Months == 1..LastMonth
Terminal == {"settled", "unsettled", "abandoned", "refused", "dropped"}
Stages == {"idle", "reserve", "calling", "settle"} \cup Terminal

TypeOK ==
    /\ month \in Months
    /\ counter \in [Months -> Int]
    /\ pc \in [Requests -> Stages]
    /\ kind \in [Requests -> {"sync", "stream"}]
    /\ key \in [Requests -> Months]
    /\ cap \in [Requests -> Nat]
    /\ est \in [Requests -> Nat]
    /\ bill \in [Requests -> Nat]
    /\ tries \in [Requests -> 0..MaxRetries]

Init ==
    /\ month = 1
    /\ counter = [m \in Months |-> 0]
    /\ pc = [r \in Requests |-> "idle"]
    /\ kind = [r \in Requests |-> "sync"]
    /\ key = [r \in Requests |-> 1]
    /\ cap = [r \in Requests |-> 0]
    /\ est = [r \in Requests |-> 0]
    /\ bill = [r \in Requests |-> 0]
    /\ tries = [r \in Requests |-> 0]

-----------------------------------------------------------------------------
(* The script of CheckSpendCap, for a move d of request r.                 *)

(* A variant of Fits that looks at the spend before the move is added.     *)
FitsBeforeMove(r, d) == counter[key[r]] <= cap[r]

Fits(r, d) == counter[key[r]] + d <= cap[r]

(* A variant of Posted that computes the key anew at every call.           *)
PostedOnCurrentMonth(r, d) ==
    IF Fits(r, d) THEN [counter EXCEPT ![month] = @ + d] ELSE counter

Posted(r, d) ==
    IF Fits(r, d) THEN [counter EXCEPT ![key[r]] = @ + d] ELSE counter

(* Variants of NoReply: one starts over instead of failing open, one       *)
(* repeats once too often.                                                 *)
NoReplyStartsOver(r, next) ==
    /\ tries' = [tries EXCEPT ![r] = IF @ < MaxRetries THEN @ + 1 ELSE 0]
    /\ UNCHANGED pc

NoReplyOnceMore(r, next) ==
    \/ /\ tries[r] <= MaxRetries
       /\ tries' = [tries EXCEPT ![r] = @ + 1]
       /\ UNCHANGED pc
    \/ /\ tries[r] > MaxRetries
       /\ tries' = [tries EXCEPT ![r] = 0]
       /\ pc' = [pc EXCEPT ![r] = next]

(* EvalSha got no reply in time: the client library repeats the call, and  *)
(* after MaxRetries repeats CheckSpendCap fails open, so that the request  *)
(* moves on to stage next.                                                 *)
NoReply(r, next) ==
    \/ /\ tries[r] < MaxRetries
       /\ tries' = [tries EXCEPT ![r] = @ + 1]
       /\ UNCHANGED pc
    \/ /\ tries[r] = MaxRetries
       /\ tries' = [tries EXCEPT ![r] = 0]
       /\ pc' = [pc EXCEPT ![r] = next]

-----------------------------------------------------------------------------
(* The request has passed authentication, limits and caches: the handler   *)
(* fixes the spend key and the estimate.                                   *)
Arrive(r) ==
    /\ pc[r] = "idle"
    /\ pc' = [pc EXCEPT ![r] = "reserve"]
    /\ key' = [key EXCEPT ![r] = month]
    /\ \E c \in Caps : cap' = [cap EXCEPT ![r] = c]
    /\ \E e \in Estimates : est' = [est EXCEPT ![r] = e]
    /\ \E k \in {"sync", "stream"} : kind' = [kind EXCEPT ![r] = k]
    /\ UNCHANGED <<month, counter, bill, tries>>

(* A variant of Reserve whose handler does not return after the 402.       *)
ReserveWithoutReturn(r) ==
    /\ pc[r] = "reserve"
    /\ counter' = Posted(r, est[r])
    /\ pc' = [pc EXCEPT ![r] = "calling"]
    /\ tries' = [tries EXCEPT ![r] = 0]
    /\ UNCHANGED <<month, kind, key, cap, est, bill>>

(* The reservation's reply arrives: either the estimate is on the counter, *)
(* or the client gets 402.                                                 *)
Reserve(r) ==
    /\ pc[r] = "reserve"
    /\ counter' = Posted(r, est[r])
    /\ pc' = [pc EXCEPT ![r] = IF Fits(r, est[r]) THEN "calling" ELSE "refused"]
    /\ tries' = [tries EXCEPT ![r] = 0]
    /\ UNCHANGED <<month, kind, key, cap, est, bill>>

ReserveNoReply(r) ==
    /\ "redis" \in Faults
    /\ pc[r] = "reserve"
    /\ \/ UNCHANGED counter                  \* the request never got there
       \/ counter' = Posted(r, est[r])       \* the reply was lost
    /\ NoReply(r, "calling")
    /\ UNCHANGED <<month, kind, key, cap, est, bill>>

(* The provider has answered, a stream up to its end: the actual cost is   *)
(* known, or taken to be the estimate when the model has no price, and     *)
(* nothing is left to adjust when it equals the estimate.                  *)
ProviderReturns(r) ==
    /\ pc[r] = "calling"
    /\ \E b \in Bills \cup {est[r]} :
          /\ bill' = [bill EXCEPT ![r] = b]
          /\ pc' = [pc EXCEPT ![r] = IF b = est[r] THEN "settled" ELSE "settle"]
    /\ UNCHANGED <<month, counter, kind, key, cap, est, tries>>

(* Every attempt failed, or the stream broke off: the handler reports the  *)
(* error and returns.  A provider may have charged for what it did so far. *)
ProviderFails(r) ==
    /\ "provider" \in Faults
    /\ pc[r] = "calling"
    /\ \E b \in Bills \cup {0} : bill' = [bill EXCEPT ![r] = b]
    /\ pc' = [pc EXCEPT ![r] = "abandoned"]
    /\ UNCHANGED <<month, counter, kind, key, cap, est, tries>>

(* A variant of Settle that adds the whole cost to the reservation.        *)
SettleWhole(r) ==
    /\ pc[r] = "settle"
    /\ counter' = Posted(r, bill[r])
    /\ pc' = [pc EXCEPT ![r] = IF Fits(r, bill[r]) THEN "settled" ELSE "unsettled"]
    /\ tries' = [tries EXCEPT ![r] = 0]
    /\ UNCHANGED <<month, kind, key, cap, est, bill>>

(* The adjustment's reply arrives; the handler ignores whether it fitted.  *)
Settle(r) ==
    /\ pc[r] = "settle"
    /\ counter' = Posted(r, bill[r] - est[r])
    /\ pc' = [pc EXCEPT ![r] =
                 IF Fits(r, bill[r] - est[r]) THEN "settled" ELSE "unsettled"]
    /\ tries' = [tries EXCEPT ![r] = 0]
    /\ UNCHANGED <<month, kind, key, cap, est, bill>>

(* No reply to the adjustment: fewer or more than one of it may be posted. *)
SettleNoReply(r) ==
    /\ "redis" \in Faults
    /\ pc[r] = "settle"
    /\ \/ UNCHANGED counter
       \/ counter' = Posted(r, bill[r] - est[r])
    /\ NoReply(r, "unsettled")
    /\ UNCHANGED <<month, kind, key, cap, est, bill>>

(* The request ends where it stands: nothing further reaches the counter.  *)
CutShort(r) ==
    /\ \/ /\ pc[r] = "reserve"
          /\ pc' = [pc EXCEPT ![r] = "dropped"]
          /\ UNCHANGED bill
       \/ /\ pc[r] = "calling"
          /\ pc' = [pc EXCEPT ![r] = "abandoned"]
          /\ \E b \in Bills \cup {0} : bill' = [bill EXCEPT ![r] = b]
       \/ /\ pc[r] = "settle"
          /\ pc' = [pc EXCEPT ![r] = "unsettled"]
          /\ UNCHANGED bill
    /\ tries' = [tries EXCEPT ![r] = 0]
    /\ UNCHANGED <<month, counter, kind, key, cap, est>>

(* The client disconnects, which cancels the context of every later call   *)
(* of the handler; a stream's adjustment runs on a context of its own.     *)
ClientLeaves(r) ==
    /\ "client" \in Faults
    /\ pc[r] = "settle" => kind[r] = "sync"
    /\ CutShort(r)

(* The process that serves r stops; other replicas and Redis go on.        *)
GatewayDies(r) ==
    /\ "crash" \in Faults
    /\ CutShort(r)

MonthPasses ==
    /\ month < LastMonth
    /\ month' = month + 1
    /\ UNCHANGED <<counter, pc, kind, key, cap, est, bill, tries>>

Serve(r) ==
    \/ Reserve(r) \/ ReserveNoReply(r)
    \/ ProviderReturns(r) \/ ProviderFails(r)
    \/ Settle(r) \/ SettleNoReply(r)

Next ==
    \/ \E r \in Requests :
          Arrive(r) \/ Serve(r) \/ ClientLeaves(r) \/ GatewayDies(r)
    \/ MonthPasses

(* The recv loop of a stream, which sets no deadline: a provider may stall *)
(* for as long as the client waits.                                        *)
Streaming(r) == pc[r] = "calling" /\ kind[r] = "stream"

(* Redis calls have read timeouts and the attempts of a blocking request   *)
(* have deadlines, so such a request keeps moving on its own.              *)
Fairness == \A r \in Requests : WF_vars(~Streaming(r) /\ Serve(r))

Spec == Init /\ [][Next]_vars
FairSpec == Spec /\ Fairness

-----------------------------------------------------------------------------
(* The counter of a month is never above the cap that some request         *)
(* admitted to that month was checked against: no interleaving of          *)
(* reservations, late adjustments and repeated calls overruns the cap.     *)
SpendWithinCap ==
    \A m \in Months :
        \/ counter[m] <= 0
        \/ \E r \in Requests :
              pc[r] # "idle" /\ key[r] = m /\ counter[m] <= cap[r]

(* A month that is over is moved only by requests that took their key      *)
(* while it lasted, and is never moved upwards past their cap.             *)
ClosedMonthMovedByItsOwn ==
    [][\A m \in Months :
          m < month /\ counter'[m] # counter[m] =>
             \E r \in Requests :
                 /\ key[r] = m /\ pc[r] \in {"reserve", "settle"}
                 /\ counter'[m] < counter[m] \/ counter'[m] <= cap[r]]_vars

(* No request hangs but in a stream its provider keeps open: one that has  *)
(* reached the spend check ends, whatever replies Redis loses.             *)
EveryRequestEnds ==
    \A r \in Requests : pc[r] # "idle" ~> pc[r] \in Terminal \/ Streaming(r)
=============================================================================
