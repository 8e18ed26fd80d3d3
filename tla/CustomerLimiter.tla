--------------------------- MODULE CustomerLimiter ---------------------------
(***************************************************************************)
(* The limits of one customer of a project: Check reads the customer's     *)
(* counters in Redis before a request is served, RecordRequest moves them  *)
(* in a goroutine of its own after the answer has been sent.  Counters     *)
(* live under keys that name their day, month, hour or minute; every Redis *)
(* call is a step and computes its keys anew.  Which limits the customer   *)
(* has does not change here (LimitCache is about that).  Streaming requests *)
(* are neither checked nor recorded, so they are not here.                 *)
(***************************************************************************)
EXTENDS Integers, RedisCalls, Sums

CONSTANTS
    Requests,        \* requests of the customer
    Labelled,        \* those with the label that limits may name
    Models,
    Estimates,       \* results of the cost estimation
    Costs,           \* actual costs of answered requests
    Limits,          \* rows of customer_limits the customer may have
    Length,          \* ticks in a "minute", "hour", "day" and "month"
    LastTick,        \* bound: the clock
    Unreliable       \* whether Redis and Postgres may fail to answer

Unlimited == -1
SpendWindows == {"day", "month"}
CountWindows == {"minute", "hour", "day"}
Ticks == 0..LastTick

ASSUME RequestsAssumption == Labelled \subseteq Requests
ASSUME ModelsAssumption == IsFiniteSet(Models)
ASSUME CostsAssumption == Estimates \subseteq Nat /\ Costs \subseteq Nat /\ Costs # {}
ASSUME ClockAssumption == LastTick \in Nat
ASSUME LengthAssumption ==
    /\ Length \in [SpendWindows \cup CountWindows -> Nat \ {0}]
    /\ Length["month"] % Length["day"] = 0
ASSUME LimitsAssumption ==
    \A l \in Limits :
        /\ \A w \in SpendWindows : l.spend[w] \in Nat \cup {Unlimited}
        /\ \A w \in CountWindows : l.count[w] \in Nat \cup {Unlimited}
        /\ \A m \in Models : l.model[m] \in Nat \cup {Unlimited}
        /\ l.label \in Nat \cup {Unlimited} /\ l.perRequest \in Nat \cup {Unlimited}
        /\ l.behavior \in {"block", "downgrade", "warn"}

VARIABLES
    now,
    limit,       \* the customer's row
    spend,       \* spend:customer:...:daily and :monthly
    count,       \* requests:customer:...:minute, :hour and :daily
    perModel,    \* requests:customer:...:model:{m}:daily
    perLabel,    \* requests:customer:...:label:{l}:daily, for one label
    stage,       \* where each request is
    model,       \* req.Model, after the answer failoverResult.FinalModel
    est,         \* the estimate Check is given
    cost,        \* the actual cost, 0 before the answer
    tries,       \* attempts of the current recording call that got no reply
    at,          \* time.Now() of that call, 0 when there is none
    lastEst,     \* for the properties: the estimate last let through in a period,
    overlap      \* and the requests that had yet to record then

vars == <<now, limit, spend, count, perModel, perLabel, stage, model, est, cost,
          tries, at, lastEst, overlap>>
counters == <<spend, count, perModel, perLabel>>
call == <<tries, at>>
history == <<lastEst, overlap>>

Stages == {"idle", "model", "label", "calling", "spend", "count", "perModel", "perLabel",
           "recorded", "lost", "refused", "ended"}

TypeOK ==
    /\ now \in Ticks
    /\ limit \in Limits
    /\ spend \in [SpendWindows -> [Ticks -> Nat]]
    /\ count \in [CountWindows -> [Ticks -> Nat]]
    /\ perModel \in [Models -> [Ticks -> Nat]]
    /\ perLabel \in [Ticks -> Nat]
    /\ stage \in [Requests -> Stages]
    /\ model \in [Requests -> Models]
    /\ est \in [Requests -> Nat]
    /\ cost \in [Requests -> Nat]
    /\ tries \in [Requests -> 0..MaxRetries]
    /\ at \in [Requests -> Ticks]

Init ==
    /\ now = 0
    /\ limit \in Limits
    /\ spend = [w \in SpendWindows |-> [t \in Ticks |-> 0]]
    /\ count = [w \in CountWindows |-> [t \in Ticks |-> 0]]
    /\ perModel = [m \in Models |-> [t \in Ticks |-> 0]]
    /\ perLabel = [t \in Ticks |-> 0]
    /\ stage = [r \in Requests |-> "idle"]
    /\ model \in [Requests -> Models]
    /\ est = [r \in Requests |-> 0]
    /\ cost = [r \in Requests |-> 0]
    /\ tries = [r \in Requests |-> 0]
    /\ at = [r \in Requests |-> 0]
    /\ lastEst = [w \in SpendWindows |-> [t \in Ticks |-> 0]]
    /\ overlap = [w \in SpendWindows |-> [t \in Ticks |-> {}]]

Period(w, t) == t \div Length[w]
Current(w) == Period(w, now)

-----------------------------------------------------------------------------
(* Check                                                                   *)

Reached(bound, n) == bound # Unlimited /\ n >= bound
Exceeds(w, e) == limit.spend[w] # Unlimited /\ spend[w][Current(w)] + e > limit.spend[w]
OverSpend(e) == \E w \in SpendWindows : Exceeds(w, e)

(* A variant of CostBlocks that compares the spend without the estimate.   *)
CostBlocksLate(e) ==
    /\ limit.behavior # "downgrade"
    /\ \E w \in SpendWindows : Reached(limit.spend[w], spend[w][Current(w)])

(* A customer with a downgrade_model is not blocked; nothing reads that    *)
(* Check asks for the downgrade.                                           *)
CostBlocks(e) == OverSpend(e) /\ limit.behavior # "downgrade"

CountBlocks == \E w \in CountWindows : Reached(limit.count[w], count[w][Current(w)])

(* Requests that have yet to put their cost on the counters.               *)
Unrecorded == {r \in Requests : stage[r] \in {"model", "label", "calling", "spend"}}

(* For the properties: r is let through with estimate e.                   *)
Admitted(r, e) ==
    /\ lastEst' = [w \in SpendWindows |-> [lastEst[w] EXCEPT ![Current(w)] = e]]
    /\ overlap' = [w \in SpendWindows |->
                      [overlap[w] EXCEPT ![Current(w)] = Unrecorded \cup {r}]]

(* The row and the five standard counters, read with one MGET.          *)
Snapshot(r, e) ==
    /\ stage[r] = "idle"
    /\ est' = [est EXCEPT ![r] = e]
    /\ IF CostBlocks(e) \/ CountBlocks
       THEN stage' = [stage EXCEPT ![r] = "refused"] /\ UNCHANGED history
       ELSE stage' = [stage EXCEPT ![r] = "model"] /\ Admitted(r, e)
    /\ UNCHANGED <<now, limit, counters, model, cost, call>>

CheckModel(r) ==
    /\ stage[r] = "model"
    /\ stage' = [stage EXCEPT ![r] =
                    IF Reached(limit.model[model[r]], perModel[model[r]][Current("day")])
                    THEN "refused" ELSE "label"]
    /\ UNCHANGED <<now, limit, counters, model, est, cost, call, history>>

(* The ceiling for one request comes last.                                 *)
CheckLabel(r) ==
    /\ stage[r] = "label"
    /\ stage' = [stage EXCEPT ![r] =
                    IF \/ r \in Labelled /\ Reached(limit.label, perLabel[Current("day")])
                       \/ limit.perRequest # Unlimited /\ est[r] > limit.perRequest
                    THEN "refused" ELSE "calling"]
    /\ UNCHANGED <<now, limit, counters, model, est, cost, call, history>>

(* A read of Check that may fail: of the row or the counters, or, where the *)
(* limits call for them, of a model's and a label's counter.               *)
UnansweredRead(r) ==
    \/ stage[r] = "idle"
    \/ stage[r] = "model" /\ limit.model[model[r]] # Unlimited
    \/ stage[r] = "label" /\ limit.label # Unlimited /\ r \in Labelled

(* Check returns an error, because the row cannot be read or Redis does    *)
(* not answer: the handler lets the request pass.                          *)
CheckFails(r, e) ==
    /\ Unreliable /\ UnansweredRead(r)
    /\ stage[r] # "idle" => e = est[r]
    /\ stage' = [stage EXCEPT ![r] = "calling"]
    /\ est' = [est EXCEPT ![r] = e]
    /\ overlap' = [w \in SpendWindows |->
                      [overlap[w] EXCEPT ![Current(w)] = @ \cup {r}]]
    /\ UNCHANGED <<now, limit, counters, model, cost, call, lastEst>>

-----------------------------------------------------------------------------
(* A provider has answered, maybe of another model; the client gets the    *)
(* answer and the recording starts.                                        *)
Answer(r) ==
    /\ stage[r] = "calling"
    /\ stage' = [stage EXCEPT ![r] = "spend"]
    /\ \E m \in Models : model' = [model EXCEPT ![r] = m]
    /\ \E c \in Costs : cost' = [cost EXCEPT ![r] = c]
    /\ UNCHANGED <<now, limit, counters, est, call, history>>

(* A cached answer, the project's spend cap, or no provider that answers:  *)
(* nothing is recorded.                                                    *)
EndUnrecorded(r) ==
    /\ stage[r] = "calling"
    /\ stage' = [stage EXCEPT ![r] = "ended"]
    /\ UNCHANGED <<now, limit, counters, model, est, cost, call, history>>

-----------------------------------------------------------------------------
(* RecordRequest                                                           *)

(* The tick whose keys a tracking call uses; all its attempts use the same. *)
CallTick(r) == IF tries[r] = 0 THEN now ELSE at[r]

(* A variant of Recorded that goes on after an error.                      *)
RecordedAnyway(r, t, posted, next) ==
    /\ posted \/ Unreliable
    /\ stage' = [stage EXCEPT ![r] = next]
    /\ tries' = [tries EXCEPT ![r] = 0]
    /\ at' = [at EXCEPT ![r] = IF tries'[r] > 0 \/ stage'[r] = "perLabel" THEN t ELSE 0]
    /\ UNCHANGED <<now, limit, model, est, cost, history>>

(* A variant of Recorded that repeats once too often.                      *)
RecordedOnceMore(r, t, posted, next) ==
    /\ \/ /\ posted
          /\ stage' = [stage EXCEPT ![r] = next]
          /\ tries' = [tries EXCEPT ![r] = 0]
       \/ /\ Unreliable
          /\ \/ stage' = [stage EXCEPT ![r] = "lost"] /\ tries' = [tries EXCEPT ![r] = 0]
             \/ /\ tries[r] <= MaxRetries
                /\ tries' = [tries EXCEPT ![r] = @ + 1]
                /\ UNCHANGED stage
    /\ at' = [at EXCEPT ![r] = IF tries'[r] > 0 \/ stage'[r] = "perLabel" THEN t ELSE 0]
    /\ UNCHANGED <<now, limit, model, est, cost, history>>

(* What follows an attempt of a tracking call: the next call after a       *)
(* reply; without one, whether Redis ran the command (posted) or not, the  *)
(* client library tries again, or the call is given up, at the latest when *)
(* the goroutine's five seconds are over or the process ends, and          *)
(* RecordRequest returns.                                                  *)
Recorded(r, t, posted, next) ==
    /\ \/ /\ posted
          /\ stage' = [stage EXCEPT ![r] = next]
          /\ tries' = [tries EXCEPT ![r] = 0]
       \/ /\ Unreliable
          /\ \/ stage' = [stage EXCEPT ![r] = "lost"] /\ tries' = [tries EXCEPT ![r] = 0]
             \/ /\ tries[r] < MaxRetries
                /\ tries' = [tries EXCEPT ![r] = @ + 1]
                /\ UNCHANGED stage
    /\ at' = [at EXCEPT ![r] = IF tries'[r] > 0 \/ stage'[r] = "perLabel" THEN t ELSE 0]
    /\ UNCHANGED <<now, limit, model, est, cost, history>>

(* A variant of RecordSpend whose two keys are separate commands, of which *)
(* the second is lost.                                                     *)
RecordSpendByHalves(r) ==
    LET t == CallTick(r)
    IN  /\ stage[r] = "spend"
        /\ \E posted \in BOOLEAN :
              /\ Recorded(r, t, posted, "count")
              /\ spend' = [spend EXCEPT !["day"][Period("day", t)] = @ + cost[r],
                                        !["month"][Period("month", t)] =
                                            IF posted THEN @ + cost[r] ELSE @]
        /\ UNCHANGED <<count, perModel, perLabel>>

RecordSpend(r) ==
    LET t == CallTick(r)
    IN  /\ stage[r] = "spend"
        /\ \E posted \in BOOLEAN :
              /\ Recorded(r, t, posted, "count")
              /\ spend' = IF posted
                          THEN [w \in SpendWindows |->
                                   [spend[w] EXCEPT ![Period(w, t)] = @ + cost[r]]]
                          ELSE spend
        /\ UNCHANGED <<count, perModel, perLabel>>

RecordCount(r) ==
    LET t == CallTick(r)
    IN  /\ stage[r] = "count"
        /\ \E posted \in BOOLEAN :
              /\ Recorded(r, t, posted, "perModel")
              /\ count' = IF posted
                          THEN [w \in CountWindows |->
                                   [count[w] EXCEPT ![Period(w, t)] = @ + 1]]
                          ELSE count
        /\ UNCHANGED <<spend, perModel, perLabel>>

RecordModel(r) ==
    LET t == CallTick(r)
    IN  /\ stage[r] = "perModel"
        /\ \E posted \in BOOLEAN :
              /\ Recorded(r, t, posted, IF r \in Labelled THEN "perLabel" ELSE "recorded")
              /\ perModel' = IF posted
                             THEN [perModel EXCEPT ![model[r]][Period("day", t)] = @ + 1]
                             ELSE perModel
        /\ UNCHANGED <<spend, count, perLabel>>

(* The label's key is computed from the same time.Now() as the model's.    *)
RecordLabel(r) ==
    LET t == at[r]
    IN  /\ stage[r] = "perLabel"
        /\ \E posted \in BOOLEAN :
              /\ Recorded(r, t, posted, "recorded")
              /\ perLabel' = IF posted THEN [perLabel EXCEPT ![Period("day", t)] = @ + 1]
                             ELSE perLabel
        /\ UNCHANGED <<spend, count, perModel>>

(* A new period starts with the requests that are under way.               *)
Tick ==
    /\ now < LastTick
    /\ now' = now + 1
    /\ overlap' = [w \in SpendWindows |->
                      IF Period(w, now + 1) = Current(w) THEN overlap[w]
                      ELSE [overlap[w] EXCEPT ![Period(w, now + 1)] = Unrecorded]]
    /\ UNCHANGED <<limit, counters, stage, model, est, cost, call, lastEst>>

Next ==
    \/ \E r \in Requests :
          \/ \E e \in Estimates : Snapshot(r, e) \/ CheckFails(r, e)
          \/ CheckModel(r) \/ CheckLabel(r)
          \/ Answer(r) \/ EndUnrecorded(r)
          \/ RecordSpend(r) \/ RecordCount(r) \/ RecordModel(r) \/ RecordLabel(r)
    \/ Tick

Spec == Init /\ [][Next]_vars

-----------------------------------------------------------------------------
TotalOf(f) == SumOf(f, Ticks)

(* Attempts of a call that Redis may have run.                             *)
Attempts == MaxRetries + 1

(* Check reads before the request and RecordRequest writes after it, so    *)
(* requests that overlap can pass a spend limit together.  But when the    *)
(* counter exceeds the limit, it is by no more than what the request last  *)
(* let through and those under way with it put there beyond its estimate.  *)
OvershootBounded ==
    limit.behavior # "downgrade" =>
        \A w \in SpendWindows, p \in Ticks :
            limit.spend[w] # Unlimited =>
                spend[w][p] + lastEst[w][p] <=
                    limit.spend[w]
                        + Attempts * SumOf(cost, overlap[w][p])

(* The month's counter is the sum of its days', whenever the recording     *)
(* breaks off and whenever the day or the month changes in between.        *)
MonthIsItsDays ==
    \A m \in {Period("month", t) : t \in Ticks} :
        spend["month"][m] =
            SumOf(spend["day"], {Period("day", t) : t \in {u \in Ticks : Period("month", u) = m}})

(* A recording that breaks off leaves a prefix of its counters: what is    *)
(* counted has its spend counted, and what is counted for a model or a     *)
(* label is counted for its minute, hour and day.                          *)
RecordedAsPrefix ==
    LET models == SumOf([m \in Models |-> TotalOf(perModel[m])], Models)
    IN  /\ \A w \in CountWindows : TotalOf(count[w]) = TotalOf(count["day"])
        /\ TotalOf(count["day"]) * Min(Costs) <= Attempts * TotalOf(spend["day"])
        /\ models <= Attempts * TotalOf(count["day"])
        /\ TotalOf(perLabel) <= Attempts * models
=============================================================================
