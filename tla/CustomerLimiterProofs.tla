------------------------ MODULE CustomerLimiterProofs ------------------------
(***************************************************************************)
(* The limits of a customer for any clock, any lengths of the windows, any *)
(* limits and any number of requests.  What the counters are bounded by    *)
(* are sums over the requests under way; as invariants these bounds need   *)
(* to say where each recording stands: what it has put on the counters so  *)
(* far (Charge) and how often it may still count (Pending).                *)
(***************************************************************************)
EXTENDS CustomerLimiter, SumTheorems, TLAPS

(* The keys of RecordRequest name periods that the clock has.              *)
LEMMA PeriodsAreTicks ==
    ASSUME NEW w \in SpendWindows \cup CountWindows, NEW t \in Ticks
    PROVE  Period(w, t) \in Ticks
<1>1. Length[w] \in Nat \ {0} /\ t \in Nat /\ t <= LastTick /\ LastTick \in Nat
  BY LengthAssumption, ClockAssumption DEF Ticks
<1>2. \A n \in Nat, k \in Nat \ {0} : n \div k \in Nat /\ n \div k <= n
  OBVIOUS
<1>3. t \div Length[w] \in Nat /\ t \div Length[w] <= t
  BY <1>1, <1>2
<1> QED
  BY <1>1, <1>3 DEF Period, Ticks

(* What follows an attempt keeps the types, and writes no counter.         *)
LEMMA RecordedTypes ==
    ASSUME TypeOK, NEW r \in Requests, NEW t \in Ticks, NEW posted \in BOOLEAN,
           NEW next \in Stages, Recorded(r, t, posted, next)
    PROVE  /\ now' \in Ticks /\ limit' \in Limits
           /\ stage' \in [Requests -> Stages] /\ model' \in [Requests -> Models]
           /\ est' \in [Requests -> Nat] /\ cost' \in [Requests -> Nat]
           /\ tries' \in [Requests -> 0..MaxRetries] /\ at' \in [Requests -> Ticks]
<1>1. tries' \in [Requests -> 0..MaxRetries]
  <2>1. \/ tries' = [tries EXCEPT ![r] = 0]
        \/ tries[r] < MaxRetries /\ tries' = [tries EXCEPT ![r] = @ + 1]
    BY DEF Recorded
  <2> QED
    BY <2>1, RetriesAssumption DEF TypeOK
<1>2. stage' \in [Requests -> Stages]
  <2>1. \/ \E s \in {next, "lost"} : stage' = [stage EXCEPT ![r] = s]
        \/ stage' = stage
    BY DEF Recorded
  <2>2. "lost" \in Stages
    BY DEF Stages
  <2> QED
    BY <2>1, <2>2 DEF TypeOK
<1>3. at' \in [Requests -> Ticks]
  <2>1. 0 \in Ticks
    BY ClockAssumption DEF Ticks
  <2>2. \E u \in {t, 0} : at' = [at EXCEPT ![r] = u]
    BY DEF Recorded
  <2> QED
    BY <2>1, <2>2 DEF TypeOK
<1> QED
  BY <1>1, <1>2, <1>3 DEF Recorded, TypeOK

(* The clock and the keys fit, so an attempt's tick is one of the clock's. *)
LEMMA CallTicks ==
    ASSUME TypeOK, NEW r \in Requests
    PROVE  CallTick(r) \in Ticks /\ at[r] \in Ticks
  BY DEF TypeOK, CallTick

(* Every step keeps the types.                                             *)
LEMMA TypeStep == TypeOK /\ [Next]_vars => TypeOK'
<1> SUFFICES ASSUME TypeOK, [Next]_vars PROVE TypeOK'
  OBVIOUS
<1>1. ASSUME NEW r \in Requests, NEW e \in Estimates, Snapshot(r, e) \/ CheckFails(r, e)
      PROVE TypeOK'
  BY <1>1, CostsAssumption DEF TypeOK, Snapshot, CheckFails, counters, call, Stages
<1>2. ASSUME NEW r \in Requests, CheckModel(r) \/ CheckLabel(r) \/ EndUnrecorded(r)
      PROVE TypeOK'
  BY <1>2 DEF TypeOK, CheckModel, CheckLabel, EndUnrecorded, counters, call, Stages
<1>3. ASSUME NEW r \in Requests, Answer(r) PROVE TypeOK'
  BY <1>3, CostsAssumption DEF TypeOK, Answer, counters, call, Stages
<1>4. ASSUME NEW r \in Requests, RecordSpend(r) PROVE TypeOK'
  <2> DEFINE t == CallTick(r)
  <2>1. t \in Ticks /\ cost[r] \in Nat
    BY CallTicks DEF TypeOK
  <2>2. \A w \in SpendWindows : Period(w, t) \in Ticks
    BY <2>1, PeriodsAreTicks
  <2>3. PICK posted \in BOOLEAN :
            /\ Recorded(r, t, posted, "count")
            /\ spend' = IF posted
                        THEN [w \in SpendWindows |->
                                 [spend[w] EXCEPT ![Period(w, t)] = @ + cost[r]]]
                        ELSE spend
    BY <1>4 DEF RecordSpend
  <2> HIDE DEF t
  <2>4. ASSUME NEW w \in SpendWindows
        PROVE [spend[w] EXCEPT ![Period(w, t)] = @ + cost[r]] \in [Ticks -> Nat]
    <3>1. spend[w] \in [Ticks -> Nat]
      BY DEF TypeOK
    <3> QED
      BY <2>1, <2>2, <3>1
  <2>5. spend' \in [SpendWindows -> [Ticks -> Nat]]
    BY <2>3, <2>4 DEF TypeOK
  <2>6. UNCHANGED <<count, perModel, perLabel>>
    BY <1>4 DEF RecordSpend
  <2>7. "count" \in Stages
    BY DEF Stages
  <2> QED
    BY <2>1, <2>3, <2>5, <2>6, <2>7, RecordedTypes DEF TypeOK
<1>5. ASSUME NEW r \in Requests, RecordCount(r) PROVE TypeOK'
  <2> DEFINE t == CallTick(r)
  <2>1. t \in Ticks
    BY CallTicks
  <2>2. \A w \in CountWindows : Period(w, t) \in Ticks
    BY <2>1, PeriodsAreTicks
  <2>3. PICK posted \in BOOLEAN :
            /\ Recorded(r, t, posted, "perModel")
            /\ count' = IF posted
                        THEN [w \in CountWindows |->
                                 [count[w] EXCEPT ![Period(w, t)] = @ + 1]]
                        ELSE count
    BY <1>5 DEF RecordCount
  <2> HIDE DEF t
  <2>4. ASSUME NEW w \in CountWindows
        PROVE [count[w] EXCEPT ![Period(w, t)] = @ + 1] \in [Ticks -> Nat]
    <3>1. count[w] \in [Ticks -> Nat]
      BY DEF TypeOK
    <3> QED
      BY <2>2, <3>1
  <2>5. count' \in [CountWindows -> [Ticks -> Nat]]
    BY <2>3, <2>4 DEF TypeOK
  <2>6. UNCHANGED <<spend, perModel, perLabel>>
    BY <1>5 DEF RecordCount
  <2>7. "perModel" \in Stages
    BY DEF Stages
  <2> QED
    BY <2>1, <2>3, <2>5, <2>6, <2>7, RecordedTypes DEF TypeOK
<1>6. ASSUME NEW r \in Requests, RecordModel(r) PROVE TypeOK'
  <2> DEFINE t == CallTick(r)
             next == IF r \in Labelled THEN "perLabel" ELSE "recorded"
  <2>1. t \in Ticks
    BY CallTicks
  <2>2. Period("day", t) \in Ticks
    BY <2>1, PeriodsAreTicks DEF SpendWindows
  <2>3. PICK posted \in BOOLEAN :
            /\ Recorded(r, t, posted, next)
            /\ perModel' = IF posted
                           THEN [perModel EXCEPT ![model[r]][Period("day", t)] = @ + 1]
                           ELSE perModel
    BY <1>6 DEF RecordModel
  <2>4. next \in Stages
    BY DEF Stages
  <2> HIDE DEF t, next
  <2>5. perModel' \in [Models -> [Ticks -> Nat]]
    BY <2>2, <2>3 DEF TypeOK
  <2>6. UNCHANGED <<spend, count, perLabel>>
    BY <1>6 DEF RecordModel
  <2> QED
    BY <2>1, <2>3, <2>4, <2>5, <2>6, RecordedTypes DEF TypeOK
<1>7. ASSUME NEW r \in Requests, RecordLabel(r) PROVE TypeOK'
  <2>1. at[r] \in Ticks
    BY CallTicks
  <2>2. Period("day", at[r]) \in Ticks
    BY <2>1, PeriodsAreTicks DEF SpendWindows
  <2>3. PICK posted \in BOOLEAN :
            /\ Recorded(r, at[r], posted, "recorded")
            /\ perLabel' = IF posted
                           THEN [perLabel EXCEPT ![Period("day", at[r])] = @ + 1]
                           ELSE perLabel
    BY <1>7 DEF RecordLabel
  <2>4. perLabel' \in [Ticks -> Nat]
    BY <2>2, <2>3 DEF TypeOK
  <2>5. UNCHANGED <<spend, count, perModel>>
    BY <1>7 DEF RecordLabel
  <2>6. "recorded" \in Stages
    BY DEF Stages
  <2> QED
    BY <2>1, <2>3, <2>4, <2>5, <2>6, RecordedTypes DEF TypeOK
<1>8. CASE Tick
  BY <1>8, ClockAssumption DEF TypeOK, Tick, Ticks, counters, call
<1>9. CASE UNCHANGED vars
  BY <1>9 DEF TypeOK, vars
<1> QED
  BY <1>1, <1>2, <1>3, <1>4, <1>5, <1>6, <1>7, <1>8, <1>9 DEF Next

(* Every counter Check and RecordRequest use stays a natural number under  *)
(* a key of its window's periods, for any clock, windows and requests.     *)
THEOREM TypeCorrect == Spec => []TypeOK
<1>1. Init => TypeOK
  BY RetriesAssumption, ClockAssumption DEF Init, TypeOK, Ticks, Stages
<1> QED
  BY <1>1, TypeStep, PTL DEF Spec
-----------------------------------------------------------------------------
(* The month and its days                                                  *)

(* Division as the keys use it: whole periods, in the order of time.       *)
LEMMA DivBounds ==
    ASSUME NEW a \in Nat, NEW k \in Nat \ {0}
    PROVE  a \div k \in Nat /\ k * (a \div k) <= a /\ a < k * (a \div k) + k
  OBVIOUS

(* A quotient is known by the interval that the number falls into.         *)
LEMMA DivIs ==
    ASSUME NEW a \in Nat, NEW q \in Nat, NEW k \in Nat \ {0}, k * q <= a, a < k * q + k
    PROVE  a \div k = q
  OBVIOUS

(* A later tick is of no earlier period.                                   *)
LEMMA DivGrows ==
    ASSUME NEW a \in Nat, NEW b \in Nat, NEW k \in Nat \ {0}, a <= b
    PROVE  a \div k <= b \div k
  OBVIOUS

(* The whole periods of a multiple are those of the whole periods.         *)
LEMMA DivOfMultiple ==
    ASSUME NEW a \in Nat, NEW k \in Nat \ {0}, NEW n \in Nat \ {0}
    PROVE  a \div (k * n) = (a \div k) \div n
<1> DEFINE q == a \div k
           p == q \div n
<1>1. q \in Nat /\ k * q <= a /\ a < k * q + k
  BY DivBounds
<1> HIDE DEF q
<1>2. p \in Nat /\ n * p <= q /\ q < n * p + n
  BY <1>1, DivBounds
<1> HIDE DEF p
<1>3. k * n \in Nat \ {0}
  OBVIOUS
<1>4. (k * n) * p <= k * q /\ k * q + k <= (k * n) * p + k * n
  <2>1. k * (n * p) <= k * q
    BY <1>1, <1>2
  <2>2. q + 1 <= n * p + n
    BY <1>1, <1>2
  <2>3. k * (q + 1) <= k * (n * p + n)
    BY <1>1, <1>2, <2>2
  <2>4. k * (n * p) = (k * n) * p /\ k * (q + 1) = k * q + k
        /\ k * (n * p + n) = (k * n) * p + k * n
    BY <1>1, <1>2
  <2>5. QED  BY <2>1, <2>3, <2>4
<1>5. (k * n) * p <= a /\ a < (k * n) * p + k * n
  <2>1. k * q \in Nat /\ (k * n) * p \in Nat /\ k * n \in Nat
    BY <1>1, <1>2
  <2>2. QED  BY <1>1, <1>4, <2>1
<1>6. a \div (k * n) = p
  BY <1>2, <1>3, <1>5, DivIs
<1>7. QED  BY <1>6 DEF p, q

(* Ticks of the same day are of the same month.                            *)
LEMMA DayInOneMonth ==
    ASSUME NEW t \in Ticks, NEW u \in Ticks, Period("day", t) = Period("day", u)
    PROVE  Period("month", t) = Period("month", u)
<1>1. t \in Nat /\ u \in Nat
  BY ClockAssumption DEF Ticks
<1>2. Length["day"] \in Nat \ {0} /\ Length["month"] \in Nat \ {0}
  BY LengthAssumption DEF SpendWindows, CountWindows
<1>3. PICK n \in Nat \ {0} : Length["month"] = Length["day"] * n
  <2>1. Length["month"] % Length["day"] = 0
    BY LengthAssumption
  <2>2. \A a \in Nat \ {0}, k \in Nat \ {0} : a % k = 0 => a \div k \in Nat \ {0} /\ a = k * (a \div k)
    OBVIOUS
  <2> DEFINE n == Length["month"] \div Length["day"]
  <2>3. n \in Nat \ {0} /\ Length["month"] = Length["day"] * n
    BY <1>2, <2>1, <2>2
  <2>4. QED  BY <2>3
<1>4. QED  BY <1>1, <1>2, <1>3, DivOfMultiple DEF Period

(* The days of a month.                                                    *)
DaysOf(m) == {Period("day", t) : t \in {u \in Ticks : Period("month", u) = m}}

(* The clock has finitely many ticks.                                      *)
LEMMA FiniteClock == IsFiniteSet(Ticks)
  BY ClockAssumption, FS_Interval DEF Ticks

(* There are finitely many days, and a tick's day is one of its month's.   *)
LEMMA DaysAreFinite ==
    ASSUME NEW m
    PROVE  /\ DaysOf(m) \subseteq Ticks /\ IsFiniteSet(DaysOf(m))
           /\ \A t \in Ticks : Period("day", t) \in DaysOf(m) <=> Period("month", t) = m
<1>1. DaysOf(m) \subseteq Ticks
  BY PeriodsAreTicks DEF DaysOf, SpendWindows
<1>2. ASSUME NEW t \in Ticks PROVE Period("day", t) \in DaysOf(m) <=> Period("month", t) = m
  BY DayInOneMonth DEF DaysOf
<1>3. QED  BY <1>1, <1>2, FiniteClock, FS_Subset

(* What a tracking call does to the two spend keys: both or neither.       *)
LEMMA SpendMoves ==
    ASSUME TypeOK, NEW r \in Requests, RecordSpend(r)
    PROVE  /\ CallTick(r) \in Ticks /\ cost[r] \in Nat
           /\ \A w \in SpendWindows : Period(w, CallTick(r)) \in Ticks
           /\ \/ spend' = spend
              \/ spend' = [w \in SpendWindows |->
                     [spend[w] EXCEPT ![Period(w, CallTick(r))] = @ + cost[r]]]
  BY CallTicks, PeriodsAreTicks DEF RecordSpend, TypeOK

(* The months stay the sums of their days.                                 *)
LEMMA MonthStep == TypeOK /\ MonthIsItsDays /\ [Next]_vars => MonthIsItsDays'
<1> SUFFICES ASSUME TypeOK, MonthIsItsDays, [Next]_vars,
                    NEW m \in {Period("month", t) : t \in Ticks}
             PROVE  spend'["month"][m] = SumOf(spend'["day"], DaysOf(m))
  BY DEF MonthIsItsDays, DaysOf
<1>1. /\ spend["month"][m] = SumOf(spend["day"], DaysOf(m))
      /\ m \in Ticks /\ spend["month"][m] \in Nat
      /\ \A d \in DaysOf(m) : spend["day"][d] \in Nat
  <2>1. m \in Ticks /\ DaysOf(m) \subseteq Ticks
    BY PeriodsAreTicks, DaysAreFinite DEF SpendWindows
  <2>2. spend["month"] \in [Ticks -> Nat] /\ spend["day"] \in [Ticks -> Nat]
    BY DEF TypeOK, SpendWindows
  <2>3. spend["month"][m] = SumOf(spend["day"], DaysOf(m))
    BY DEF MonthIsItsDays, DaysOf
  <2>4. QED  BY <2>1, <2>2, <2>3
<1>2. CASE spend' = spend
  BY <1>1, <1>2
<1>3. CASE spend' # spend
  <2>1. PICK r \in Requests : RecordSpend(r)
    BY <1>3 DEF Next, Snapshot, CheckFails, CheckModel, CheckLabel, Answer, EndUnrecorded,
                RecordCount, RecordModel, RecordLabel, Tick, vars, counters
  <2> DEFINE t == CallTick(r)
  <2>2. /\ t \in Ticks /\ cost[r] \in Nat
        /\ Period("day", t) \in Ticks /\ Period("month", t) \in Ticks
        /\ spend'["day"] = [spend["day"] EXCEPT ![Period("day", t)] = @ + cost[r]]
        /\ spend'["month"] = [spend["month"] EXCEPT ![Period("month", t)] = @ + cost[r]]
    BY <1>3, <2>1, SpendMoves DEF SpendWindows
  <2> HIDE DEF t
  <2>3. spend["day"] \in [Ticks -> Nat] /\ spend["month"] \in [Ticks -> Nat]
    BY DEF TypeOK, SpendWindows
  <2>4. /\ DaysOf(m) \subseteq Ticks /\ IsFiniteSet(DaysOf(m))
        /\ Period("day", t) \in DaysOf(m) <=> Period("month", t) = m
    BY <2>2, DaysAreFinite
  <2>5. CASE Period("month", t) = m
    <3>1. Period("day", t) \in DaysOf(m)
      BY <2>4, <2>5
    <3>2. SumOf(spend'["day"], DaysOf(m)) = SumOf(spend["day"], DaysOf(m))
             + spend'["day"][Period("day", t)] - spend["day"][Period("day", t)]
      <4>1. \A d \in DaysOf(m) :
               /\ spend["day"][d] \in Int /\ spend'["day"][d] \in Int
               /\ d # Period("day", t) => spend'["day"][d] = spend["day"][d]
        BY <2>2, <2>3, <2>4
      <4>2. QED  BY <2>4, <3>1, <4>1, SumMoves
    <3>3. spend'["day"][Period("day", t)] = spend["day"][Period("day", t)] + cost[r]
      BY <2>2, <2>3
    <3>4. spend'["month"][m] = spend["month"][m] + cost[r]
      BY <2>2, <2>3, <2>5
    <3>5. spend["day"][Period("day", t)] \in Nat
      BY <2>2, <2>3
    <3>6. QED  BY <1>1, <2>2, <3>2, <3>3, <3>4, <3>5
  <2>6. CASE Period("month", t) # m
    <3>1. spend'["month"][m] = spend["month"][m]
      BY <2>2, <2>3, <2>6
    <3>2. \A d \in DaysOf(m) : spend["day"][d] \in Int /\ spend'["day"][d] = spend["day"][d]
      BY <2>2, <2>3, <2>4, <2>6
    <3>3. QED  BY <1>1, <2>4, <3>1, <3>2, SumOfSame
  <2>7. QED  BY <2>5, <2>6
<1>4. QED  BY <1>2, <1>3

(* The month's counter is the sum of its days' in every behaviour, for any *)
(* lengths of which a month's is a multiple of a day's.                    *)
THEOREM MonthsAreTheirDays == Spec => []MonthIsItsDays
<1>1. Init => MonthIsItsDays
  <2> SUFFICES ASSUME Init, NEW m \in {Period("month", t) : t \in Ticks}
               PROVE  spend["month"][m] = SumOf(spend["day"], DaysOf(m))
    BY DEF MonthIsItsDays, DaysOf
  <2>1. DaysOf(m) \subseteq Ticks /\ IsFiniteSet(DaysOf(m)) /\ m \in Ticks
    BY DaysAreFinite, PeriodsAreTicks DEF SpendWindows
  <2>2. spend["month"][m] = 0 /\ \A d \in DaysOf(m) : spend["day"][d] = 0
    BY <2>1 DEF Init, SpendWindows
  <2>3. SumOf(spend["day"], DaysOf(m)) = 0
    <3>1. SumOf(spend["day"], {}) = SumOf(spend["day"], DaysOf(m))
      BY <2>1, <2>2, SumWithoutZeros
    <3>2. QED  BY <3>1, SumOfNone
  <2>4. QED  BY <2>2, <2>3
<1>2. QED  BY <1>1, MonthStep, TypeCorrect, PTL DEF Spec

-----------------------------------------------------------------------------
(* The requests under way                                                  *)

(* Finitely many requests have arrived at any time.                        *)
Active == {r \in Requests : stage[r] # "idle"}
FinitelyActive == IsFiniteSet(Active)

(* Before the answer there is no recording, and what is recorded is a cost *)
(* of the answer.                                                          *)
Unanswered == {"idle", "model", "label", "calling", "refused", "ended"}

Shape ==
    \A r \in Requests :
        /\ stage[r] \in Unanswered => tries[r] = 0
        /\ stage[r] = "spend" => cost[r] \in Costs

Ordered == TypeOK /\ Shape /\ FinitelyActive

(* The steps of one request, and what they leave alone.                    *)
Moves(r) ==
    \/ \E e \in Estimates : Snapshot(r, e) \/ CheckFails(r, e)
    \/ CheckModel(r) \/ CheckLabel(r) \/ Answer(r) \/ EndUnrecorded(r)
    \/ RecordSpend(r) \/ RecordCount(r) \/ RecordModel(r) \/ RecordLabel(r)

OthersStay(r) ==
    /\ stage'[r] # "idle"
    /\ UNCHANGED <<now, limit>>
    /\ \A q \in Requests \ {r} :
          /\ stage'[q] = stage[q] /\ tries'[q] = tries[q]
          /\ cost'[q] = cost[q] /\ at'[q] = at[q]

(* There is no other step but the clock's.                                 *)
LEMMA StepKinds ==
    ASSUME [Next]_vars
    PROVE  (\E r \in Requests : Moves(r)) \/ Tick \/ UNCHANGED vars
  BY DEF Next, Moves

(* A request that moves leaves the others alone.                           *)
LEMMA MoverIsAlone ==
    ASSUME TypeOK, NEW r \in Requests, Moves(r)
    PROVE  OthersStay(r)
<1>1. CASE \E e \in Estimates : Snapshot(r, e) \/ CheckFails(r, e)
  BY <1>1 DEF Snapshot, CheckFails, call, OthersStay, TypeOK
<1>2. CASE CheckModel(r) \/ CheckLabel(r) \/ Answer(r) \/ EndUnrecorded(r)
  BY <1>2 DEF CheckModel, CheckLabel, Answer, EndUnrecorded, call, OthersStay, TypeOK
<1>3. CASE RecordSpend(r) \/ RecordCount(r) \/ RecordModel(r) \/ RecordLabel(r)
  <2>1. PICK t, posted, next :
           Recorded(r, t, posted, next) /\ next # "idle" /\ stage[r] # "idle"
    BY <1>3 DEF RecordSpend, RecordCount, RecordModel, RecordLabel
  <2>2. UNCHANGED <<now, limit, cost>> /\ stage'[r] # "idle"
    BY <2>1 DEF Recorded, TypeOK
  <2>3. \A q \in Requests \ {r} : stage'[q] = stage[q] /\ tries'[q] = tries[q] /\ at'[q] = at[q]
    BY <2>1 DEF Recorded, TypeOK
  <2>4. QED  BY <2>2, <2>3 DEF OthersStay
<1>4. QED  BY <1>1, <1>2, <1>3 DEF Moves

(* Every step keeps the requests in order.                                 *)
LEMMA ShapeStep == TypeOK /\ Shape /\ [Next]_vars => Shape'
<1> SUFFICES ASSUME TypeOK, Shape, [Next]_vars PROVE Shape'
  OBVIOUS
<1>1. ASSUME NEW r \in Requests, Moves(r) PROVE Shape'
  <2>1. OthersStay(r)
    BY <1>1, MoverIsAlone
  <2>2. CASE \E e \in Estimates : Snapshot(r, e) \/ CheckFails(r, e)
    BY <2>1, <2>2
       DEF Snapshot, CheckFails, UnansweredRead, call, OthersStay, Shape, Unanswered, TypeOK
  <2>3. CASE CheckModel(r) \/ CheckLabel(r) \/ Answer(r) \/ EndUnrecorded(r)
    BY <2>1, <2>3
       DEF CheckModel, CheckLabel, Answer, EndUnrecorded, call, OthersStay, Shape, Unanswered,
           TypeOK
  <2>4. CASE RecordSpend(r) \/ RecordCount(r) \/ RecordModel(r) \/ RecordLabel(r)
    <3>1. PICK t, posted, next :
             /\ Recorded(r, t, posted, next)
             /\ next \notin Unanswered \cup {"spend"} /\ stage[r] \notin Unanswered
      BY <2>4 DEF RecordSpend, RecordCount, RecordModel, RecordLabel, Unanswered
    <3>2. cost' = cost /\ stage'[r] \in {stage[r], next, "lost"}
      BY <3>1 DEF Recorded, TypeOK
    <3>3. stage'[r] \notin Unanswered
      BY <3>1, <3>2 DEF Unanswered
    <3>4. stage'[r] = "spend" => stage[r] = "spend"
      BY <3>1, <3>2
    <3>5. QED  BY <2>1, <3>2, <3>3, <3>4 DEF OthersStay, Shape
  <2>5. QED  BY <1>1, <2>2, <2>3, <2>4 DEF Moves
<1>2. CASE Tick \/ UNCHANGED vars
  BY <1>2 DEF Tick, vars, call, Shape
<1>3. QED  BY <1>1, <1>2, StepKinds

(* A step adds one request at most to those that have arrived.             *)
LEMMA ActiveGrows ==
    ASSUME NEW r \in Requests, OthersStay(r)
    PROVE  Active' = Active \cup {r}
  BY DEF OthersStay, Active

(* The requests are in order, and those that have arrived finitely many.   *)
THEOREM RequestsInOrder == Spec => []Ordered
<1>1. Init => Shape /\ FinitelyActive
  <2> SUFFICES ASSUME Init PROVE Shape /\ FinitelyActive
    OBVIOUS
  <2>1. Active = {}
    BY DEF Init, Active
  <2>2. Shape
    BY DEF Init, Shape
  <2>3. QED  BY <2>1, <2>2, FS_EmptySet DEF FinitelyActive
<1>2. TypeOK /\ FinitelyActive /\ [Next]_vars => FinitelyActive'
  <2> SUFFICES ASSUME TypeOK, IsFiniteSet(Active), [Next]_vars PROVE IsFiniteSet(Active')
    BY DEF FinitelyActive
  <2>1. ASSUME NEW r \in Requests, Moves(r) PROVE IsFiniteSet(Active')
    BY <2>1, MoverIsAlone, ActiveGrows, FS_AddElement
  <2>2. CASE Tick \/ UNCHANGED vars
    <3>1. Active' = Active
      BY <2>2 DEF Tick, vars, Active
    <3>2. QED  BY <3>1
  <2>3. QED  BY <2>1, <2>2, StepKinds
<1>3. TypeOK /\ Shape /\ FinitelyActive <=> Ordered
  BY DEF Ordered
<1>4. QED  BY <1>1, <1>2, <1>3, ShapeStep, TypeCorrect, PTL DEF Spec

(* A sum over the requests under way moves with the one that moves.        *)
LEMMA ActiveSumMoves ==
    ASSUME Ordered, NEW r \in Requests, OthersStay(r), NEW f, NEW g,
           \A q \in Requests : f[q] \in Nat, \A q \in Requests : g[q] \in Nat,
           \A q \in Requests \ {r} : g[q] = f[q],
           stage[r] = "idle" => f[r] = 0
    PROVE  /\ SumOf(f, Active) \in Nat
           /\ SumOf(g, Active') = SumOf(f, Active) + g[r] - f[r]
<1>1. Active \subseteq Requests /\ IsFiniteSet(Active) /\ (r \notin Active => f[r] = 0)
  BY DEF Active, Ordered, FinitelyActive
<1>2. Active' = Active \cup {r}
  BY ActiveGrows
<1>3. SumOf(f, Active) \in Nat
  BY <1>1, SumOfMore
<1>4. SumOf(g, Active \cup {r}) = SumOf(f, Active) + g[r] - f[r]
  <2>1. f[r] \in Int /\ g[r] \in Int
    OBVIOUS
  <2>2. \A q \in Active : f[q] \in Int
    BY <1>1
  <2>3. \A q \in Active \ {r} : g[q] = f[q]
    BY <1>1
  <2>4. IsFiniteSet(Active) /\ (r \notin Active => f[r] = 0)
    BY <1>1
  <2>5. QED  BY ONLY <2>1, <2>2, <2>3, <2>4, SumMovesOrJoins
<1>5. QED  BY <1>2, <1>3, <1>4

-----------------------------------------------------------------------------
(* The order of the recording                                              *)
(*                                                                         *)
(* RecordedAsPrefix is not inductive: a request whose spend is recorded    *)
(* may still count, and so may one that repeats a call.  The strengthened  *)
(* invariant adds to what is counted the attempts that are still to come.  *)
Pending(s) == [r \in Requests |-> IF stage[r] = s THEN Attempts - tries[r] ELSE 0]
PendingIn(s) == SumOf(Pending(s), Active)
Followers == {"count", "perModel", "perLabel"}
ModelTotal == SumOf([m \in Models |-> TotalOf(perModel[m])], Models)

Prefix ==
    /\ \A w \in CountWindows : TotalOf(count[w]) = TotalOf(count["day"])
    /\ (TotalOf(count["day"]) + PendingIn("count")) * Min(Costs)
           <= Attempts * TotalOf(spend["day"])
    /\ ModelTotal + PendingIn("perModel") <= Attempts * TotalOf(count["day"])
    /\ TotalOf(perLabel) + PendingIn("perLabel") <= Attempts * ModelTotal

(* There is a least cost.                                                  *)
LEMMA LeastCost == Min(Costs) \in Costs /\ \A c \in Costs : Min(Costs) <= c
<1>1. \E x \in Costs : \A y \in Costs : ~ <<y, x>> \in OpToRel(<, Nat)
  BY NatLessThanWellFounded, WFMin, CostsAssumption
<1>2. \E x \in Costs : \A y \in Costs : ~ (y < x)
  BY <1>1, CostsAssumption DEF OpToRel
<1>3. \E x \in Costs : \A y \in Costs : x <= y
  BY <1>2, CostsAssumption
<1>4. QED  BY <1>3 DEF Min

(* The total of a counter is a number, and moves with one of its keys.     *)
LEMMA TotalMoves ==
    ASSUME NEW f \in [Ticks -> Nat], NEW p \in Ticks, NEW n \in Nat
    PROVE  /\ TotalOf(f) \in Nat
           /\ TotalOf([f EXCEPT ![p] = @ + n]) = TotalOf(f) + n
<1> DEFINE g == [f EXCEPT ![p] = @ + n]
<1>1. IsFiniteSet(Ticks) /\ \A t \in Ticks : f[t] \in Nat
  BY FiniteClock
<1>2. TotalOf(f) \in Nat
  BY <1>1, SumOfMore DEF TotalOf
<1>3. g[p] = f[p] + n /\ \A t \in Ticks : f[t] \in Int /\ g[t] \in Int /\ (t # p => g[t] = f[t])
  OBVIOUS
<1> HIDE DEF g
<1>4. SumOf(g, Ticks) = SumOf(f, Ticks) + g[p] - f[p]
  BY ONLY p \in Ticks, <1>1, <1>3, SumMoves
<1>5. TotalOf(g) = TotalOf(f) + n
  BY <1>2, <1>3, <1>4 DEF TotalOf
<1>6. QED  BY <1>2, <1>5 DEF g

(* The total of a counter is a number.                                     *)
LEMMA TotalType == ASSUME NEW f \in [Ticks -> Nat] PROVE TotalOf(f) \in Nat
<1>1. IsFiniteSet(Ticks) /\ \A t \in Ticks : f[t] \in Nat
  BY FiniteClock
<1>2. QED  BY <1>1, SumOfMore DEF TotalOf

(* What an attempt does to the attempts still to come: one fewer in its    *)
(* stage, and all of the next stage's when it was answered.                *)
LEMMA PendingMoves ==
    ASSUME Ordered, Ordered', NEW r \in Requests, Moves(r), NEW s \in Followers
    PROVE  /\ PendingIn(s) \in Nat /\ PendingIn(s)' \in Nat
           /\ Pending(s)[r] \in Nat /\ Pending(s)'[r] \in Nat
           /\ PendingIn(s)' = PendingIn(s) + Pending(s)'[r] - Pending(s)[r]
<1> DEFINE f == Pending(s)
           g == Pending(s)'
<1>1. \A q \in Requests : tries[q] \in 0..MaxRetries /\ tries'[q] \in 0..MaxRetries
  BY DEF Ordered, TypeOK
<1>2. Attempts \in Nat /\ \A n \in 0..MaxRetries : Attempts - n \in Nat
  BY RetriesAssumption DEF Attempts
<1>3. (\A q \in Requests : f[q] \in Nat) /\ (\A q \in Requests : g[q] \in Nat)
  BY <1>1, <1>2 DEF Pending
<1>4. OthersStay(r)
  BY MoverIsAlone DEF Ordered
<1>5. \A q \in Requests \ {r} : g[q] = f[q]
  BY <1>4 DEF OthersStay, Pending
<1>6. stage[r] = "idle" => f[r] = 0
  BY DEF Pending, Followers
<1> HIDE DEF f, g
<1>7. SumOf(f, Active) \in Nat /\ SumOf(g, Active') = SumOf(f, Active) + g[r] - f[r]
  BY <1>3, <1>4, <1>5, <1>6, ActiveSumMoves
<1>8. SumOf(g, Active') \in Nat
  <2>1. Active' \subseteq Requests /\ IsFiniteSet(Active')
    BY DEF Ordered, FinitelyActive, Active
  <2>2. QED  BY <1>3, <2>1, SumOfMore
<1>9. QED  BY <1>3, <1>7, <1>8 DEF f, g, PendingIn

(* An attempt leaves its stage for the next one only when it was answered. *)
LEMMA PendingOfCall ==
    ASSUME Ordered, NEW r \in Requests, NEW t, NEW posted \in BOOLEAN, NEW next,
           Recorded(r, t, posted, next), next # stage[r], next # "spend"
    PROVE  \A s \in Followers :
              /\ s = stage[r] => Pending(s)'[r] <= Pending(s)[r] - 1
              /\ s # stage[r] =>
                    /\ Pending(s)[r] = 0
                    /\ Pending(s)'[r] <= IF posted /\ s = next THEN Attempts ELSE 0
<1>1. tries[r] \in 0..MaxRetries /\ MaxRetries \in Nat
  BY RetriesAssumption DEF Ordered, TypeOK
<1>2. \/ posted /\ stage'[r] = next /\ tries'[r] = 0
      \/ stage'[r] = "lost"
      \/ tries[r] < MaxRetries /\ tries'[r] = tries[r] + 1 /\ stage'[r] = stage[r]
  BY DEF Recorded, Ordered, TypeOK
<1>3. \A s \in Followers : /\ Pending(s)[r] = IF stage[r] = s THEN Attempts - tries[r] ELSE 0
                           /\ Pending(s)'[r] = IF stage'[r] = s THEN Attempts - tries'[r] ELSE 0
  BY DEF Pending
<1>4. \A s \in Followers : s # "lost"
  BY DEF Followers
<1>5. Attempts = MaxRetries + 1
  BY DEF Attempts
<1>6. ASSUME NEW s \in Followers, s = stage[r] PROVE Pending(s)'[r] <= Pending(s)[r] - 1
  BY <1>1, <1>2, <1>3, <1>4, <1>5, <1>6
<1>7. ASSUME NEW s \in Followers, s # stage[r]
      PROVE  Pending(s)[r] = 0 /\ Pending(s)'[r] <= IF posted /\ s = next THEN Attempts ELSE 0
  BY <1>1, <1>2, <1>3, <1>4, <1>5, <1>7
<1>8. QED  BY <1>6, <1>7

(* The calls for all models add up to one more after one more of a model.  *)
LEMMA ModelTotalMoves ==
    ASSUME TypeOK, NEW m \in Models, NEW p \in Ticks
    PROVE  /\ ModelTotal \in Nat
           /\ perModel' = [perModel EXCEPT ![m][p] = @ + 1] => ModelTotal' = ModelTotal + 1
<1> DEFINE f == [x \in Models |-> TotalOf(perModel[x])]
           g == [x \in Models |-> TotalOf(perModel'[x])]
<1>1. \A x \in Models : f[x] \in Nat
  BY TotalType DEF TypeOK
<1>2. ModelTotal = SumOf(f, Models) /\ ModelTotal' = SumOf(g, Models)
  BY DEF ModelTotal
<1>3. ASSUME perModel' = [perModel EXCEPT ![m][p] = @ + 1] PROVE ModelTotal' = ModelTotal + 1
  <2>1. perModel[m] \in [Ticks -> Nat] /\ perModel'[m] = [perModel[m] EXCEPT ![p] = @ + 1]
    BY <1>3 DEF TypeOK
  <2>2. g[m] = f[m] + 1
    BY <2>1, TotalMoves
  <2>3. \A x \in Models : f[x] \in Int /\ g[x] \in Int /\ (x # m => g[x] = f[x])
    BY <1>1, <1>3, <2>2 DEF TypeOK
  <2> HIDE DEF f, g
  <2>4. SumOf(g, Models) = SumOf(f, Models) + g[m] - f[m]
    BY ONLY m \in Models, <2>3, ModelsAssumption, SumMoves
  <2>5. SumOf(f, Models) \in Int
    BY <2>3, ModelsAssumption, SumTakesAny
  <2>6. QED  BY <1>1, <1>2, <2>2, <2>4, <2>5
<1>4. ModelTotal \in Nat
  BY <1>1, <1>2, ModelsAssumption, SumOfMore
<1>5. QED  BY <1>3, <1>4

(* The products of the first bound, when the spend grows by a cost with    *)
(* the attempts to count it, and when there is less to count.              *)
LEMMA LessToCount ==
    ASSUME NEW a \in Nat, NEW b \in Nat, a <= b, NEW k \in Nat
    PROVE  a * k <= b * k /\ a * k \in Nat /\ b * k \in Nat
<1>1. PICK d \in Nat : b = a + d
  <2>1. b - a \in Nat /\ b = a + (b - a)
    OBVIOUS
  <2>2. QED  BY <2>1
<1>2. b * k = a * k + d * k /\ d * k \in Nat /\ a * k \in Nat
  BY <1>1
<1>3. QED  BY <1>2

(* A cost on the spend counter pays for the attempts that follow to count  *)
(* its request.                                                            *)
LEMMA SpendPays ==
    ASSUME NEW a \in Nat, NEW b \in Nat, NEW s \in Nat, NEW u \in Nat, NEW k \in Nat, NEW n \in Nat,
           a * k <= n * s, b <= a + n, s + k <= u
    PROVE  b * k <= n * u
<1>1. b * k <= (a + n) * k
  BY LessToCount
<1>2. (s + k) * n <= u * n
  BY LessToCount
<1>3. /\ (a + n) * k = a * k + n * k
      /\ (s + k) * n = n * s + n * k
      /\ u * n = n * u
  OBVIOUS
<1>4. a * k \in Int /\ n * k \in Int /\ n * s \in Int /\ n * u \in Int /\ b * k \in Int
  OBVIOUS
<1>5. QED  BY <1>1, <1>2, <1>3, <1>4

(* What a call of RecordRequest does to the totals and the attempts still  *)
(* to come.                                                                *)
LEMMA CallPending ==
    ASSUME Ordered, Ordered', NEW r \in Requests, Moves(r), NEW t, NEW posted \in BOOLEAN,
           NEW next, Recorded(r, t, posted, next), next # stage[r], next # "spend"
    PROVE  \A s \in Followers :
              /\ PendingIn(s) \in Nat /\ PendingIn(s)' \in Nat
              /\ s = stage[r] => PendingIn(s)' <= PendingIn(s) - 1
              /\ s # stage[r] =>
                    PendingIn(s)' <= PendingIn(s) + IF posted /\ s = next THEN Attempts ELSE 0
<1> SUFFICES ASSUME NEW s \in Followers
             PROVE  /\ PendingIn(s) \in Nat /\ PendingIn(s)' \in Nat
                    /\ s = stage[r] => PendingIn(s)' <= PendingIn(s) - 1
                    /\ s # stage[r] =>
                          PendingIn(s)' <= PendingIn(s) + IF posted /\ s = next THEN Attempts ELSE 0
  OBVIOUS
<1>1. /\ PendingIn(s) \in Nat /\ PendingIn(s)' \in Nat
      /\ Pending(s)[r] \in Nat /\ Pending(s)'[r] \in Nat
      /\ PendingIn(s)' = PendingIn(s) + Pending(s)'[r] - Pending(s)[r]
  BY PendingMoves
<1>2. /\ s = stage[r] => Pending(s)'[r] <= Pending(s)[r] - 1
      /\ s # stage[r] =>
            /\ Pending(s)[r] = 0
            /\ Pending(s)'[r] <= IF posted /\ s = next THEN Attempts ELSE 0
  BY PendingOfCall
<1>3. Attempts \in Nat
  BY RetriesAssumption DEF Attempts
<1> HIDE DEF Followers
<1>4. QED  BY <1>1, <1>2, <1>3

(* The totals are numbers.                                                 *)
LEMMA TotalTypes ==
    ASSUME TypeOK
    PROVE  /\ \A w \in SpendWindows : TotalOf(spend[w]) \in Nat
           /\ \A w \in CountWindows : TotalOf(count[w]) \in Nat
           /\ TotalOf(perLabel) \in Nat /\ ModelTotal \in Nat
           /\ Attempts \in Nat /\ Min(Costs) \in Nat
<1>1. /\ \A w \in SpendWindows : TotalOf(spend[w]) \in Nat
      /\ \A w \in CountWindows : TotalOf(count[w]) \in Nat
      /\ TotalOf(perLabel) \in Nat
  BY TotalType DEF TypeOK
<1>2. ModelTotal \in Nat
  <2>1. \A m \in Models : TotalOf(perModel[m]) \in Nat
    BY TotalType DEF TypeOK
  <2>2. QED  BY <2>1, ModelsAssumption, SumOfMore DEF ModelTotal
<1>3. Attempts \in Nat
  BY RetriesAssumption DEF Attempts
<1>4. Min(Costs) \in Nat
  BY LeastCost, CostsAssumption
<1>5. QED  BY <1>1, <1>2, <1>3, <1>4

(* Every step keeps the recordings in their order.                         *)
LEMMA PrefixStep == Ordered /\ Ordered' /\ Prefix /\ [Next]_vars => Prefix'
<1> SUFFICES ASSUME Ordered, Ordered', Prefix, [Next]_vars PROVE Prefix'
  OBVIOUS
<1> USE DEF Ordered
<1>1. "day" \in SpendWindows /\ "day" \in CountWindows
  BY DEF SpendWindows, CountWindows
<1>2. /\ TotalOf(spend["day"]) \in Nat /\ TotalOf(count["day"]) \in Nat
      /\ TotalOf(perLabel) \in Nat /\ ModelTotal \in Nat
      /\ Attempts \in Nat /\ Min(Costs) \in Nat
  BY <1>1, TotalTypes
<1>3. ASSUME UNCHANGED counters, \A s \in Followers : PendingIn(s)' = PendingIn(s)
      PROVE  Prefix'
  BY <1>3 DEF counters, Prefix, ModelTotal, Followers
<1>4. ASSUME NEW r \in Requests, Moves(r),
             ~(RecordSpend(r) \/ RecordCount(r) \/ RecordModel(r) \/ RecordLabel(r))
      PROVE  Prefix'
  <2>1. UNCHANGED counters /\ \A s \in Followers : Pending(s)[r] = 0 /\ Pending(s)'[r] = 0
    <3>1. CASE \E e \in Estimates : Snapshot(r, e) \/ CheckFails(r, e)
      BY <3>1 DEF Snapshot, CheckFails, UnansweredRead, Pending, Followers, TypeOK
    <3>2. CASE CheckModel(r) \/ CheckLabel(r) \/ Answer(r) \/ EndUnrecorded(r)
      BY <3>2 DEF CheckModel, CheckLabel, Answer, EndUnrecorded, Pending, Followers, TypeOK
    <3>3. QED  BY <1>4, <3>1, <3>2 DEF Moves
  <2>2. \A s \in Followers : PendingIn(s)' = PendingIn(s)
    BY <1>4, <2>1, PendingMoves
  <2>3. QED  BY <1>3, <2>1, <2>2
<1>5. ASSUME NEW r \in Requests, RecordSpend(r) PROVE Prefix'
  <2> DEFINE p == Period("day", CallTick(r))
  <2>1. PICK posted \in BOOLEAN :
           /\ Recorded(r, CallTick(r), posted, "count")
           /\ spend'["day"] = IF posted THEN [spend["day"] EXCEPT ![p] = @ + cost[r]]
                              ELSE spend["day"]
    BY <1>1, <1>5 DEF RecordSpend
  <2>2. stage[r] = "spend" /\ UNCHANGED <<count, perModel, perLabel>>
    BY <1>5 DEF RecordSpend
  <2>3. cost[r] \in Nat /\ Min(Costs) <= cost[r] /\ p \in Ticks /\ spend["day"] \in [Ticks -> Nat]
    BY <1>1, <1>5, <2>2, LeastCost, SpendMoves, CostsAssumption DEF Shape, TypeOK
  <2> HIDE DEF p
  <2>4. TotalOf(spend'["day"]) = TotalOf(spend["day"]) + IF posted THEN cost[r] ELSE 0
    BY <1>2, <2>1, <2>3, TotalMoves
  <2>5. \A s \in Followers :
           /\ PendingIn(s) \in Nat /\ PendingIn(s)' \in Nat
           /\ PendingIn(s)' <= PendingIn(s) + IF posted /\ s = "count" THEN Attempts ELSE 0
    BY <1>5, <2>1, <2>2, CallPending DEF Moves, Followers
  <2>6. (TotalOf(count["day"]) + PendingIn("count")') * Min(Costs)
            <= Attempts * TotalOf(spend'["day"])
    <3> DEFINE a == TotalOf(count["day"]) + PendingIn("count")
               b == TotalOf(count["day"]) + PendingIn("count")'
    <3>1. a \in Nat /\ b \in Nat /\ a * Min(Costs) <= Attempts * TotalOf(spend["day"])
      BY <1>2, <2>5 DEF Prefix, Followers
    <3>2. b <= a + IF posted THEN Attempts ELSE 0
      BY <1>2, <2>5 DEF Followers
    <3>3. TotalOf(spend'["day"]) \in Nat
      BY <1>2, <2>3, <2>4
    <3> HIDE DEF a, b
    <3>4. CASE posted
      <4>1. TotalOf(spend["day"]) + Min(Costs) <= TotalOf(spend'["day"]) /\ b <= a + Attempts
        BY <1>2, <2>3, <2>4, <3>2, <3>4
      <4>2. b * Min(Costs) <= Attempts * TotalOf(spend'["day"])
        BY <1>2, <3>1, <3>3, <4>1, SpendPays
      <4>3. QED  BY <4>2 DEF b
    <3>5. CASE ~posted
      <4>1. TotalOf(spend'["day"]) = TotalOf(spend["day"]) /\ b <= a
        BY <1>2, <2>4, <3>1, <3>2, <3>5
      <4>2. b * Min(Costs) <= a * Min(Costs) /\ b * Min(Costs) \in Nat /\ a * Min(Costs) \in Nat
        BY <1>2, <3>1, <4>1, LessToCount
      <4>3. Attempts * TotalOf(spend["day"]) \in Nat
        BY <1>2
      <4>4. QED  BY <3>1, <4>1, <4>2, <4>3 DEF b
    <3>6. QED  BY <3>4, <3>5
  <2>7. /\ PendingIn("perModel")' <= PendingIn("perModel") /\ PendingIn("perModel")' \in Nat
        /\ PendingIn("perLabel")' <= PendingIn("perLabel") /\ PendingIn("perLabel")' \in Nat
        /\ PendingIn("perModel") \in Nat /\ PendingIn("perLabel") \in Nat
    BY <2>5 DEF Followers
  <2>8. /\ ModelTotal' = ModelTotal /\ count' = count /\ perLabel' = perLabel
    BY <2>2 DEF ModelTotal
  <2>9. /\ ModelTotal + PendingIn("perModel")' <= Attempts * TotalOf(count["day"])
        /\ TotalOf(perLabel) + PendingIn("perLabel")' <= Attempts * ModelTotal
    <3>1. Attempts * TotalOf(count["day"]) \in Nat /\ Attempts * ModelTotal \in Nat
      BY <1>2
    <3>2. QED  BY <1>2, <2>7, <3>1 DEF Prefix
  <2>10. QED  BY <2>6, <2>8, <2>9 DEF Prefix
<1>6. ASSUME NEW r \in Requests, RecordCount(r) PROVE Prefix'
  <2>1. PICK posted \in BOOLEAN :
           /\ Recorded(r, CallTick(r), posted, "perModel")
           /\ count' = IF posted
                       THEN [w \in CountWindows |->
                                [count[w] EXCEPT ![Period(w, CallTick(r))] = @ + 1]]
                       ELSE count
    BY <1>6 DEF RecordCount
  <2>2. stage[r] = "count" /\ UNCHANGED <<spend, perModel, perLabel>>
    BY <1>6 DEF RecordCount
  <2>3. \A w \in CountWindows :
           TotalOf(count'[w]) = TotalOf(count[w]) + IF posted THEN 1 ELSE 0
    <3> SUFFICES ASSUME NEW w \in CountWindows
                 PROVE  TotalOf(count'[w]) = TotalOf(count[w]) + IF posted THEN 1 ELSE 0
      OBVIOUS
    <3> DEFINE p == Period(w, CallTick(r))
    <3>1. p \in Ticks /\ count[w] \in [Ticks -> Nat]
      BY CallTicks, PeriodsAreTicks DEF TypeOK
    <3>2. count'[w] = IF posted THEN [count[w] EXCEPT ![p] = @ + 1] ELSE count[w]
      BY <2>1
    <3> HIDE DEF p
    <3>3. QED  BY <3>1, <3>2, TotalMoves
  <2>4. \A s \in Followers :
           /\ PendingIn(s) \in Nat /\ PendingIn(s)' \in Nat
           /\ s = "count" => PendingIn(s)' <= PendingIn(s) - 1
           /\ s # "count" =>
                 PendingIn(s)' <= PendingIn(s) + IF posted /\ s = "perModel" THEN Attempts ELSE 0
    BY <1>6, <2>1, <2>2, CallPending DEF Moves, Followers
  <2> DEFINE c == TotalOf(count["day"])
             d == TotalOf(count'["day"])
  <2>5. d = c + (IF posted THEN 1 ELSE 0) /\ c \in Nat /\ d \in Nat
    BY <1>1, <1>2, <2>3
  <2>6. (d + PendingIn("count")') * Min(Costs) <= Attempts * TotalOf(spend["day"])
    <3>1. /\ d + PendingIn("count")' \in Nat /\ c + PendingIn("count") \in Nat
          /\ d + PendingIn("count")' <= c + PendingIn("count")
      BY <2>4, <2>5 DEF Followers
    <3>2. (c + PendingIn("count")) * Min(Costs) <= Attempts * TotalOf(spend["day"])
      BY DEF Prefix
    <3>3. Attempts * TotalOf(spend["day"]) \in Nat
      BY <1>2
    <3>4. /\ (d + PendingIn("count")') * Min(Costs) <= (c + PendingIn("count")) * Min(Costs)
          /\ (d + PendingIn("count")') * Min(Costs) \in Nat
          /\ (c + PendingIn("count")) * Min(Costs) \in Nat
      BY <1>2, <3>1, LessToCount
    <3>5. QED  BY <3>2, <3>3, <3>4
  <2>7. ModelTotal + PendingIn("perModel")' <= Attempts * d
    <3>1. ModelTotal + PendingIn("perModel") <= Attempts * c
      BY DEF Prefix
    <3>2. PendingIn("perModel")' <= PendingIn("perModel") + (IF posted THEN Attempts ELSE 0)
          /\ PendingIn("perModel") \in Nat /\ PendingIn("perModel")' \in Nat
      BY <2>4 DEF Followers
    <3>3. Attempts * d = Attempts * c + (IF posted THEN Attempts ELSE 0) /\ Attempts * c \in Nat
      BY <1>2, <2>5
    <3>4. QED  BY <1>2, <3>1, <3>2, <3>3
  <2>8. TotalOf(perLabel) + PendingIn("perLabel")' <= Attempts * ModelTotal
    <3>1. TotalOf(perLabel) + PendingIn("perLabel") <= Attempts * ModelTotal
      BY DEF Prefix
    <3>2. PendingIn("perLabel")' <= PendingIn("perLabel")
          /\ PendingIn("perLabel") \in Nat /\ PendingIn("perLabel")' \in Nat
      BY <2>4 DEF Followers
    <3>3. Attempts * ModelTotal \in Nat
      BY <1>2
    <3>4. QED  BY <1>2, <3>1, <3>2, <3>3
  <2>9. ModelTotal' = ModelTotal /\ spend' = spend /\ perLabel' = perLabel
    BY <2>2 DEF ModelTotal
  <2>10. \A w \in CountWindows : TotalOf(count'[w]) = d
    <3>1. \A w \in CountWindows : TotalOf(count[w]) = c
      BY DEF Prefix
    <3>2. QED  BY <2>3, <2>5, <3>1
  <2>11. QED  BY <2>6, <2>7, <2>8, <2>9, <2>10 DEF Prefix
<1>7. ASSUME NEW r \in Requests, RecordModel(r) PROVE Prefix'
  <2> DEFINE t == CallTick(r)
             next == IF r \in Labelled THEN "perLabel" ELSE "recorded"
  <2>1. PICK posted \in BOOLEAN :
           /\ Recorded(r, t, posted, next)
           /\ perModel' = IF posted
                          THEN [perModel EXCEPT ![model[r]][Period("day", t)] = @ + 1]
                          ELSE perModel
    BY <1>7 DEF RecordModel
  <2>2. stage[r] = "perModel" /\ UNCHANGED <<spend, count, perLabel>>
    BY <1>7 DEF RecordModel
  <2>3. Period("day", t) \in Ticks /\ model[r] \in Models
    BY CallTicks, PeriodsAreTicks DEF TypeOK, SpendWindows
  <2>4. next \notin {"perModel", "spend", "count"}
    OBVIOUS
  <2> HIDE DEF t, next
  <2>5. ModelTotal' = ModelTotal + IF posted THEN 1 ELSE 0
    <3>1. CASE posted
      BY <2>1, <2>3, <3>1, ModelTotalMoves
    <3>2. CASE ~posted
      <4>1. ModelTotal' = ModelTotal
        BY <2>1, <3>2 DEF ModelTotal
      <4>2. QED  BY <1>2, <3>2, <4>1
    <3>3. QED  BY <3>1, <3>2
  <2>6. \A s \in Followers :
           /\ PendingIn(s) \in Nat /\ PendingIn(s)' \in Nat
           /\ s = "perModel" => PendingIn(s)' <= PendingIn(s) - 1
           /\ s # "perModel" => PendingIn(s)' <= PendingIn(s) + IF posted /\ s = next THEN Attempts ELSE 0
    BY <1>7, <2>1, <2>2, <2>4, CallPending DEF Moves
  <2>7. PendingIn("count")' <= PendingIn("count")
        /\ PendingIn("count")' \in Nat /\ PendingIn("count") \in Nat
    BY <2>4, <2>6 DEF Followers
  <2>8. (TotalOf(count["day"]) + PendingIn("count")') * Min(Costs)
            <= Attempts * TotalOf(spend["day"])
    <3> DEFINE a == TotalOf(count["day"]) + PendingIn("count")'
               b == TotalOf(count["day"]) + PendingIn("count")
    <3>1. a \in Nat /\ b \in Nat /\ a <= b
      BY <1>2, <2>7
    <3>2. b * Min(Costs) <= Attempts * TotalOf(spend["day"])
      BY DEF Prefix
    <3>3. Attempts * TotalOf(spend["day"]) \in Nat
      BY <1>2
    <3> HIDE DEF a, b
    <3>4. a * Min(Costs) <= b * Min(Costs) /\ a * Min(Costs) \in Nat /\ b * Min(Costs) \in Nat
      BY <1>2, <3>1, LessToCount
    <3>5. a * Min(Costs) <= Attempts * TotalOf(spend["day"])
      BY <3>2, <3>3, <3>4
    <3>6. QED  BY <3>5 DEF a
  <2>9. ModelTotal' + PendingIn("perModel")' <= Attempts * TotalOf(count["day"])
    <3>1. ModelTotal + PendingIn("perModel") <= Attempts * TotalOf(count["day"])
      BY DEF Prefix
    <3>2. PendingIn("perModel")' <= PendingIn("perModel") - 1
          /\ PendingIn("perModel") \in Nat /\ PendingIn("perModel")' \in Nat
      BY <2>6 DEF Followers
    <3>3. Attempts * TotalOf(count["day"]) \in Nat
      BY <1>2
    <3>4. QED  BY <1>2, <2>5, <3>1, <3>2, <3>3
  <2>10. TotalOf(perLabel) + PendingIn("perLabel")' <= Attempts * ModelTotal'
    <3>1. TotalOf(perLabel) + PendingIn("perLabel") <= Attempts * ModelTotal
      BY DEF Prefix
    <3>2. PendingIn("perLabel")' <= PendingIn("perLabel") + (IF posted THEN Attempts ELSE 0)
          /\ PendingIn("perLabel") \in Nat /\ PendingIn("perLabel")' \in Nat
      BY <1>2, <2>6 DEF Followers
    <3>3. /\ Attempts * ModelTotal' = Attempts * ModelTotal + (IF posted THEN Attempts ELSE 0)
          /\ Attempts * ModelTotal \in Nat
      BY <1>2, <2>5
    <3>4. QED  BY <1>2, <3>1, <3>2, <3>3
  <2>11. QED  BY <2>2, <2>8, <2>9, <2>10 DEF Prefix
<1>8. ASSUME NEW r \in Requests, RecordLabel(r) PROVE Prefix'
  <2>1. PICK posted \in BOOLEAN :
           /\ Recorded(r, at[r], posted, "recorded")
           /\ perLabel' = IF posted THEN [perLabel EXCEPT ![Period("day", at[r])] = @ + 1]
                          ELSE perLabel
    BY <1>8 DEF RecordLabel
  <2>2. stage[r] = "perLabel" /\ UNCHANGED <<spend, count, perModel>>
    BY <1>8 DEF RecordLabel
  <2>3. TotalOf(perLabel') = TotalOf(perLabel) + IF posted THEN 1 ELSE 0
    <3> DEFINE p == Period("day", at[r])
    <3>1. p \in Ticks /\ perLabel \in [Ticks -> Nat]
      BY CallTicks, PeriodsAreTicks DEF TypeOK, SpendWindows
    <3>2. perLabel' = IF posted THEN [perLabel EXCEPT ![p] = @ + 1] ELSE perLabel
      BY <2>1
    <3> HIDE DEF p
    <3>3. CASE posted
      BY <3>1, <3>2, <3>3, TotalMoves
    <3>4. CASE ~posted
      BY <1>2, <3>2, <3>4
    <3>5. QED  BY <3>3, <3>4
  <2>4. \A s \in Followers :
           /\ PendingIn(s) \in Nat /\ PendingIn(s)' \in Nat
           /\ s = "perLabel" => PendingIn(s)' <= PendingIn(s) - 1
           /\ s # "perLabel" => PendingIn(s)' <= PendingIn(s)
    BY <1>8, <2>1, <2>2, CallPending DEF Moves, Followers
  <2>5. /\ PendingIn("count")' <= PendingIn("count")
        /\ PendingIn("count")' \in Nat /\ PendingIn("count") \in Nat
        /\ PendingIn("perModel")' <= PendingIn("perModel")
        /\ PendingIn("perModel")' \in Nat /\ PendingIn("perModel") \in Nat
        /\ PendingIn("perLabel")' <= PendingIn("perLabel") - 1
        /\ PendingIn("perLabel")' \in Nat /\ PendingIn("perLabel") \in Nat
    BY <2>4 DEF Followers
  <2>6. (TotalOf(count["day"]) + PendingIn("count")') * Min(Costs)
            <= Attempts * TotalOf(spend["day"])
    <3> DEFINE a == TotalOf(count["day"]) + PendingIn("count")'
               b == TotalOf(count["day"]) + PendingIn("count")
    <3>1. a \in Nat /\ b \in Nat /\ a <= b
      BY <1>2, <2>5
    <3>2. b * Min(Costs) <= Attempts * TotalOf(spend["day"])
      BY DEF Prefix
    <3>3. Attempts * TotalOf(spend["day"]) \in Nat
      BY <1>2
    <3> HIDE DEF a, b
    <3>4. a * Min(Costs) <= b * Min(Costs) /\ a * Min(Costs) \in Nat /\ b * Min(Costs) \in Nat
      BY <1>2, <3>1, LessToCount
    <3>5. a * Min(Costs) <= Attempts * TotalOf(spend["day"])
      BY <3>2, <3>3, <3>4
    <3>6. QED  BY <3>5 DEF a
  <2>7. /\ ModelTotal + PendingIn("perModel")' <= Attempts * TotalOf(count["day"])
        /\ TotalOf(perLabel') + PendingIn("perLabel")' <= Attempts * ModelTotal
    <3>1. Attempts * TotalOf(count["day"]) \in Nat /\ Attempts * ModelTotal \in Nat
      BY <1>2
    <3>2. /\ ModelTotal + PendingIn("perModel") <= Attempts * TotalOf(count["day"])
          /\ TotalOf(perLabel) + PendingIn("perLabel") <= Attempts * ModelTotal
      BY DEF Prefix
    <3>3. QED  BY <1>2, <2>3, <2>5, <3>1, <3>2
  <2>8. ModelTotal' = ModelTotal
    BY <2>2 DEF ModelTotal
  <2>9. QED  BY <2>2, <2>6, <2>7, <2>8 DEF Prefix
<1>9. CASE Tick \/ UNCHANGED vars
  BY <1>3, <1>9 DEF Tick, vars, counters, call, PendingIn, Pending, Active
<1>10. QED  BY <1>4, <1>5, <1>6, <1>7, <1>8, <1>9, StepKinds

(* A recording that breaks off, at any point and after any repeats, leaves *)
(* a prefix of its counters.                                               *)
THEOREM RecordingsArePrefixes == Spec => []RecordedAsPrefix
<1>1. Init => Prefix
  <2> SUFFICES ASSUME Init PROVE Prefix
    OBVIOUS
  <2> DEFINE none == [t \in Ticks |-> 0]
  <2>1. TotalOf(none) = 0
    <3>1. IsFiniteSet(Ticks) /\ (\A t \in Ticks : none[t] \in Int) /\ \A t \in Ticks \ {} : none[t] = 0
      BY FiniteClock
    <3> HIDE DEF none
    <3>2. SumOf(none, {}) = SumOf(none, Ticks)
      BY <3>1, SumWithoutZeros
    <3>3. QED  BY <3>2, SumOfNone DEF TotalOf
  <2> HIDE DEF none
  <2>2. /\ \A w \in SpendWindows : spend[w] = none
        /\ \A w \in CountWindows : count[w] = none
        /\ \A m \in Models : perModel[m] = none
        /\ perLabel = none
    BY DEF Init, none
  <2>3. Active = {}
    BY DEF Init, Active
  <2>4. \A s : PendingIn(s) = 0
    BY <2>3, SumOfNone DEF PendingIn
  <2>5. ModelTotal = 0
    <3> DEFINE f == [m \in Models |-> TotalOf(perModel[m])]
    <3>1. \A m \in Models : f[m] = 0
      BY <2>1, <2>2
    <3>2. ModelTotal = SumOf(f, Models)
      BY DEF ModelTotal
    <3> HIDE DEF f
    <3>3. SumOf(f, {}) = SumOf(f, Models)
      <4>1. (\A m \in Models : f[m] \in Int) /\ \A m \in Models \ {} : f[m] = 0
        BY <3>1
      <4>2. QED  BY ONLY <4>1, ModelsAssumption, SumWithoutZeros
    <3>4. QED  BY <3>2, <3>3, SumOfNone
  <2>6. Attempts \in Nat /\ Min(Costs) \in Nat
    <3>1. Attempts \in Nat
      BY RetriesAssumption DEF Attempts
    <3>2. Min(Costs) \in Nat
      BY LeastCost, CostsAssumption
    <3>3. QED  BY <3>1, <3>2
  <2>7. /\ TotalOf(spend["day"]) = 0 /\ TotalOf(perLabel) = 0
        /\ \A w \in CountWindows : TotalOf(count[w]) = 0
    BY <2>1, <2>2 DEF SpendWindows
  <2>8. TotalOf(count["day"]) = 0
    BY <2>7 DEF CountWindows
  <2>9. QED  BY <2>4, <2>5, <2>6, <2>7, <2>8 DEF Prefix
<1>2. Ordered /\ Prefix => RecordedAsPrefix
  <2> SUFFICES ASSUME Ordered, Prefix PROVE RecordedAsPrefix
    OBVIOUS
  <2>1. /\ TotalOf(spend["day"]) \in Nat /\ TotalOf(count["day"]) \in Nat
        /\ TotalOf(perLabel) \in Nat /\ ModelTotal \in Nat
        /\ Attempts \in Nat /\ Min(Costs) \in Nat
    BY TotalTypes DEF Ordered, SpendWindows, CountWindows
  <2>2. \A s \in Followers : PendingIn(s) \in Nat
    <3> SUFFICES ASSUME NEW s \in Followers PROVE PendingIn(s) \in Nat
      OBVIOUS
    <3>1. Active \subseteq Requests /\ IsFiniteSet(Active)
      BY DEF Ordered, FinitelyActive, Active
    <3>2. \A q \in Requests : Pending(s)[q] \in Nat
      BY RetriesAssumption DEF Pending, Attempts, Ordered, TypeOK
    <3>3. QED  BY <3>1, <3>2, SumOfMore DEF PendingIn
  <2>3. PendingIn("count") \in Nat /\ PendingIn("perModel") \in Nat /\ PendingIn("perLabel") \in Nat
    BY <2>2 DEF Followers
  <2>4. TotalOf(count["day"]) * Min(Costs) <= Attempts * TotalOf(spend["day"])
    <3>1. /\ TotalOf(count["day"]) + PendingIn("count") \in Nat
          /\ TotalOf(count["day"]) <= TotalOf(count["day"]) + PendingIn("count")
      BY <2>1, <2>3
    <3>2. /\ TotalOf(count["day"]) * Min(Costs)
                <= (TotalOf(count["day"]) + PendingIn("count")) * Min(Costs)
          /\ TotalOf(count["day"]) * Min(Costs) \in Nat
          /\ (TotalOf(count["day"]) + PendingIn("count")) * Min(Costs) \in Nat
      BY <2>1, <3>1, LessToCount
    <3>3. Attempts * TotalOf(spend["day"]) \in Nat
      BY <2>1
    <3>4. QED  BY <3>2, <3>3 DEF Prefix
  <2>5. ModelTotal <= Attempts * TotalOf(count["day"]) /\ TotalOf(perLabel) <= Attempts * ModelTotal
    <3>1. Attempts * TotalOf(count["day"]) \in Nat /\ Attempts * ModelTotal \in Nat
      BY <2>1
    <3>2. QED  BY <2>1, <2>3, <3>1 DEF Prefix
  <2>6. QED  BY <2>4, <2>5 DEF Prefix, RecordedAsPrefix, ModelTotal
<1>3. QED  BY <1>1, <1>2, PrefixStep, RequestsInOrder, PTL DEF Spec

-----------------------------------------------------------------------------
(* The overshoot of a spend limit                                          *)
(*                                                                         *)
(* OvershootBounded is not inductive: the bound counts every attempt of a  *)
(* request's recording, those it has yet to make too.  The strengthened    *)
(* invariant charges a request no more than what it has put on a counter   *)
(* so far, and says who may still do so: a request that has yet to record  *)
(* is among those that overlap the current period, and one that repeats a  *)
(* call among those of the period whose keys the call uses.                *)
Charge(q) ==
    IF stage[q] \in Unanswered THEN 0
    ELSE (IF stage[q] = "spend" THEN tries[q] ELSE Attempts) * cost[q]
Charges == [q \in Requests |-> Charge(q)]

HistoryTypes ==
    /\ lastEst \in [SpendWindows -> [Ticks -> Nat]]
    /\ overlap \in [SpendWindows -> [Ticks -> SUBSET Active]]

Overlaps ==
    \A w \in SpendWindows :
        /\ Unrecorded \subseteq overlap[w][Current(w)]
        /\ \A q \in Requests :
              stage[q] = "spend" /\ tries[q] > 0 => q \in overlap[w][Period(w, at[q])]
        /\ \A p \in Ticks : p > Current(w) => overlap[w][p] = {}

Overshoot ==
    limit.behavior # "downgrade" =>
        \A w \in SpendWindows, p \in Ticks :
            limit.spend[w] # Unlimited =>
                spend[w][p] + lastEst[w][p] <= limit.spend[w] + SumOf(Charges, overlap[w][p])

(* What a request has put on a counter so far is a number of its costs, no *)
(* more than its recording's attempts.                                     *)
LEMMA ChargeTypes ==
    ASSUME TypeOK, NEW q \in Requests
    PROVE  /\ Charge(q) \in Nat /\ Charges[q] = Charge(q)
           /\ Attempts * cost[q] \in Nat /\ Charge(q) <= Attempts * cost[q]
<1>1. MaxRetries \in Nat /\ tries[q] \in 0..MaxRetries /\ cost[q] \in Nat
  BY RetriesAssumption DEF TypeOK
<1>2. \A i, j, c \in Nat : i <= j => i * c \in Nat /\ j * c \in Nat /\ i * c <= j * c
  OBVIOUS
<1>3. Attempts \in Nat /\ tries[q] \in Nat /\ tries[q] <= Attempts
  BY <1>1 DEF Attempts
<1>4. /\ tries[q] * cost[q] \in Nat /\ Attempts * cost[q] \in Nat
      /\ tries[q] * cost[q] <= Attempts * cost[q]
  BY <1>1, <1>2, <1>3
<1>5. QED  BY <1>1, <1>4 DEF Charge, Charges

(* It never shrinks, and an attempt of a tracking call is charged.         *)
LEMMA ChargesGrow ==
    ASSUME TypeOK, TypeOK', Shape, NEW r \in Requests, Moves(r)
    PROVE  /\ \A q \in Requests \ {r} : Charges'[q] = Charges[q]
           /\ Charges[r] <= Charges'[r]
           /\ RecordSpend(r) => Charges[r] + cost[r] <= Charges'[r]
<1>1. OthersStay(r)
  BY MoverIsAlone
<1>2. \A q \in Requests \ {r} : Charges'[q] = Charges[q]
  BY <1>1 DEF OthersStay, Charges, Charge
<1>3. Charges[r] = Charge(r) /\ Charges'[r] = Charge(r)' /\ Charge(r) \in Nat /\ Charge(r)' \in Nat
  <2>1. Charges[r] = Charge(r) /\ Charge(r) \in Nat
    BY ChargeTypes
  <2>2. Charges'[r] = Charge(r)'
    BY DEF Charges, Charge
  <2>3. MaxRetries \in Nat /\ tries'[r] \in 0..MaxRetries /\ cost'[r] \in Nat
    BY RetriesAssumption DEF TypeOK
  <2>4. tries'[r] \in Nat /\ Attempts \in Nat
    BY <2>3 DEF Attempts
  <2>5. \A i, c \in Nat : i * c \in Nat
    OBVIOUS
  <2>6. tries'[r] * cost'[r] \in Nat /\ Attempts * cost'[r] \in Nat
    BY <2>3, <2>4, <2>5
  <2>7. Charge(r)' \in Nat
    BY <2>6 DEF Charge, Attempts
  <2>8. QED  BY <2>1, <2>2, <2>7
<1>4. CASE stage[r] \in Unanswered
  <2>1. Charge(r) = 0 /\ ~RecordSpend(r)
    BY <1>4 DEF Charge, RecordSpend, Unanswered
  <2>2. QED  BY <1>2, <1>3, <2>1
<1>5. CASE stage[r] \notin Unanswered
  <2>1. PICK t, posted, next :
           /\ Recorded(r, t, posted, next)
           /\ next \notin Unanswered \cup {"spend"}
           /\ stage[r] \in Stages
    BY <1>5 DEF Moves, Snapshot, CheckFails, UnansweredRead, CheckModel, CheckLabel, Answer,
                EndUnrecorded, RecordSpend, RecordCount, RecordModel, RecordLabel, Unanswered,
                TypeOK
  <2>2. cost' = cost /\ cost[r] \in Nat /\ MaxRetries \in Nat /\ tries[r] \in 0..MaxRetries
    BY <2>1, RetriesAssumption DEF Recorded, TypeOK
  <2>3. \/ stage'[r] \notin Unanswered \cup {"spend"}
        \/ stage'[r] = stage[r] /\ tries'[r] = tries[r] + 1
    BY <2>1 DEF Recorded, TypeOK, Unanswered
  <2>4. CASE stage[r] = "spend"
    <3>1. Charge(r) = tries[r] * cost[r]
      BY <1>5, <2>4 DEF Charge
    <3>2. \/ Charge(r)' = Attempts * cost[r]
          \/ Charge(r)' = (tries[r] + 1) * cost[r]
      BY <1>5, <2>2, <2>3, <2>4 DEF Charge, Attempts
    <3>3. Attempts \in Nat /\ tries[r] \in Nat /\ tries[r] + 1 <= Attempts
      BY <2>2 DEF Attempts
    <3>4. (tries[r] + 1) * cost[r] <= Attempts * cost[r]
          /\ (tries[r] + 1) * cost[r] = tries[r] * cost[r] + cost[r]
          /\ tries[r] * cost[r] \in Nat /\ Attempts * cost[r] \in Nat
      <4>1. \A i, j, c \in Nat : i + 1 <= j =>
               /\ (i + 1) * c <= j * c /\ (i + 1) * c = i * c + c
               /\ i * c \in Nat /\ j * c \in Nat
        OBVIOUS
      <4>2. QED  BY <2>2, <3>3, <4>1
    <3>5. Charge(r) + cost[r] <= Charge(r)'
      BY <2>2, <3>1, <3>2, <3>4
    <3>6. QED  BY <1>2, <1>3, <2>2, <3>5
  <2>5. CASE stage[r] # "spend"
    <3>1. Charge(r) = Attempts * cost[r] /\ ~RecordSpend(r)
      BY <1>5, <2>5 DEF Charge, RecordSpend
    <3>2. Charge(r)' = Attempts * cost[r]
      BY <1>5, <2>2, <2>3, <2>5 DEF Charge, Attempts
    <3>3. QED  BY <1>2, <1>3, <3>1, <3>2
  <2>6. QED  BY <2>4, <2>5
<1>6. QED  BY <1>4, <1>5

(* Periods follow the clock, and the current one is one of them.           *)
LEMMA PeriodsGrow ==
    ASSUME NEW w \in SpendWindows, NEW t \in Ticks, NEW u \in Ticks, t <= u
    PROVE  /\ Period(w, t) \in Nat /\ Period(w, u) \in Nat
           /\ Period(w, t) \in Ticks /\ Period(w, t) <= Period(w, u)
<1>1. t \in Nat /\ u \in Nat /\ Length[w] \in Nat \ {0}
  BY ClockAssumption, LengthAssumption DEF Ticks
<1>2. Period(w, t) <= Period(w, u)
  BY <1>1, DivGrows DEF Period
<1>3. Period(w, t) \in Nat /\ Period(w, u) \in Nat
  BY <1>1, DivBounds DEF Period
<1>4. QED  BY <1>2, <1>3, PeriodsAreTicks

(* What a step does to the requests that have yet to record and to the     *)
(* history: r is let through, or it passes without an answer of Redis, or  *)
(* nobody joins.                                                           *)
LetThrough(r, e) ==
    /\ ~CostBlocks(e) /\ stage[r] = "idle" /\ stage'[r] = "model" /\ spend' = spend
    /\ Admitted(r, e)

PassesUnread(r) ==
    /\ stage'[r] = "calling" /\ spend' = spend /\ lastEst' = lastEst
    /\ overlap' = [w \in SpendWindows |-> [overlap[w] EXCEPT ![Current(w)] = @ \cup {r}]]

NobodyJoins(r) ==
    /\ UNCHANGED history
    /\ Unrecorded' \subseteq Unrecorded
    /\ spend' # spend => RecordSpend(r)
    /\ stage'[r] = "spend" /\ tries'[r] > 0 =>
          stage[r] = "spend" /\ at'[r] = CallTick(r)

(* There is no fourth way for a request to move.                           *)
LEMMA HistoryMoves ==
    ASSUME TypeOK, Shape, NEW r \in Requests, Moves(r)
    PROVE  \/ \E e \in Estimates : LetThrough(r, e)
           \/ PassesUnread(r)
           \/ NobodyJoins(r)
<1>1. OthersStay(r)
  BY MoverIsAlone
<1>2. ASSUME NEW e \in Estimates, Snapshot(r, e) PROVE LetThrough(r, e) \/ NobodyJoins(r)
  <2>1. CASE CostBlocks(e) \/ CountBlocks
    <3>1. stage' = [stage EXCEPT ![r] = "refused"] /\ UNCHANGED history /\ spend' = spend
      BY <1>2, <2>1 DEF Snapshot, counters
    <3>2. stage'[r] = "refused"
      BY <3>1 DEF TypeOK
    <3>3. Unrecorded' \subseteq Unrecorded
      BY <1>1, <3>2 DEF OthersStay, Unrecorded
    <3>4. QED  BY <3>1, <3>2, <3>3 DEF NobodyJoins
  <2>2. CASE ~(CostBlocks(e) \/ CountBlocks)
    BY <1>2, <2>2 DEF Snapshot, LetThrough, counters, TypeOK
  <2>3. QED  BY <2>1, <2>2
<1>3. ASSUME NEW e \in Estimates, CheckFails(r, e) PROVE PassesUnread(r)
  BY <1>3 DEF CheckFails, PassesUnread, counters, TypeOK
<1>4. ASSUME CheckModel(r) \/ CheckLabel(r) \/ Answer(r) \/ EndUnrecorded(r)
      PROVE  NobodyJoins(r)
  <2>1. /\ UNCHANGED history /\ spend' = spend /\ tries' = tries
        /\ stage[r] \in {"model", "label", "calling"}
    BY <1>4 DEF CheckModel, CheckLabel, Answer, EndUnrecorded, counters, call
  <2>2. tries'[r] = 0
    BY <2>1 DEF Shape, Unanswered
  <2>3. Unrecorded' \subseteq Unrecorded
    BY <1>1, <2>1 DEF OthersStay, Unrecorded
  <2>4. QED  BY <2>1, <2>2, <2>3 DEF NobodyJoins
<1>5. ASSUME RecordSpend(r) PROVE NobodyJoins(r)
  <2>1. PICK posted \in BOOLEAN : Recorded(r, CallTick(r), posted, "count") /\ stage[r] = "spend"
    BY <1>5 DEF RecordSpend
  <2>2. UNCHANGED history /\ (tries'[r] > 0 => at'[r] = CallTick(r))
    BY <2>1 DEF Recorded, TypeOK
  <2>3. Unrecorded' \subseteq Unrecorded
    BY <1>1, <2>1 DEF OthersStay, Unrecorded
  <2>4. QED  BY <1>5, <2>1, <2>2, <2>3 DEF NobodyJoins
<1>6. ASSUME RecordCount(r) \/ RecordModel(r) \/ RecordLabel(r) PROVE NobodyJoins(r)
  <2>1. PICK t, posted, next :
           /\ Recorded(r, t, posted, next)
           /\ next \notin {"idle", "model", "label", "calling", "spend"}
           /\ stage[r] \in Followers
           /\ spend' = spend
    BY <1>6 DEF RecordCount, RecordModel, RecordLabel, Followers
  <2>2. /\ UNCHANGED history
        /\ stage'[r] \notin {"idle", "model", "label", "calling", "spend"}
    BY <2>1 DEF Recorded, Followers, TypeOK
  <2>3. Unrecorded' \subseteq Unrecorded
    BY <1>1, <2>2 DEF OthersStay, Unrecorded
  <2>4. QED  BY <2>1, <2>2, <2>3 DEF NobodyJoins
<1>7. QED  BY <1>2, <1>3, <1>4, <1>5, <1>6 DEF Moves

(* The history stays a history of requests that have arrived.              *)
LEMMA HistoryTypesStep == TypeOK /\ Shape /\ HistoryTypes /\ [Next]_vars => HistoryTypes'
<1> SUFFICES ASSUME TypeOK, Shape, HistoryTypes, [Next]_vars PROVE HistoryTypes'
  OBVIOUS
<1>1. ASSUME NEW r \in Requests, Moves(r) PROVE HistoryTypes'
  <2>1. Active' = Active \cup {r} /\ stage'[r] # "idle"
    BY <1>1, MoverIsAlone, ActiveGrows DEF OthersStay
  <2>2. Unrecorded \subseteq Active
    BY DEF Unrecorded, Active
  <2> DEFINE Overlapping(w, S) == [overlap[w] EXCEPT ![Current(w)] = S]
  <2>typed. ASSUME NEW w \in SpendWindows, NEW S \in SUBSET Active'
        PROVE  Overlapping(w, S) \in [Ticks -> SUBSET Active']
    <3>1. overlap[w] \in [Ticks -> SUBSET Active']
      <4>1. overlap[w] \in [Ticks -> SUBSET Active]
        BY DEF HistoryTypes
      <4>2. SUBSET Active \subseteq SUBSET Active'
        BY <2>1
      <4> QED  BY <4>1, <4>2
    <3>2. QED  BY <3>1
  <2>3. ASSUME NEW e \in Estimates, LetThrough(r, e) PROVE HistoryTypes'
    <3>1. Unrecorded \cup {r} \in SUBSET Active'
      BY <2>1, <2>2
    <3>2. \A w \in SpendWindows : Overlapping(w, Unrecorded \cup {r}) \in [Ticks -> SUBSET Active']
      BY <2>typed, <3>1
    <3>3. overlap' = [w \in SpendWindows |-> Overlapping(w, Unrecorded \cup {r})]
      BY <2>3 DEF LetThrough, Admitted
    <3>4. overlap' \in [SpendWindows -> [Ticks -> SUBSET Active']]
      BY <3>2, <3>3
    <3>5. lastEst' \in [SpendWindows -> [Ticks -> Nat]]
      BY <2>3, CostsAssumption DEF LetThrough, Admitted, HistoryTypes
    <3>6. QED  BY <3>4, <3>5 DEF HistoryTypes
  <2>4. CASE PassesUnread(r)
    <3>1. \A w \in SpendWindows : Overlapping(w, overlap[w][Current(w)] \cup {r}) \in [Ticks -> SUBSET Active']
      <4>1. \A w \in SpendWindows : Current(w) \in Ticks
        BY PeriodsAreTicks DEF TypeOK, Current
      <4>2. \A w \in SpendWindows : overlap[w][Current(w)] \cup {r} \in SUBSET Active'
        BY <2>1, <4>1 DEF HistoryTypes
      <4>3. QED  BY <2>typed, <4>2
    <3>2. overlap' = [w \in SpendWindows |-> Overlapping(w, overlap[w][Current(w)] \cup {r})]
      BY <2>4 DEF PassesUnread
    <3>3. overlap' \in [SpendWindows -> [Ticks -> SUBSET Active']]
      BY <3>1, <3>2
    <3>4. QED  BY <2>4, <3>3 DEF PassesUnread, HistoryTypes
  <2>5. CASE NobodyJoins(r)
    BY <2>1, <2>5 DEF NobodyJoins, history, HistoryTypes
  <2>6. QED  BY <1>1, <2>3, <2>4, <2>5, HistoryMoves
<1>2. CASE Tick
  <2>1. Active' = Active /\ Unrecorded \subseteq Active
    BY <1>2 DEF Tick, Active, Unrecorded
  <2>2. QED  BY <1>2, <2>1 DEF Tick, HistoryTypes
<1>3. CASE UNCHANGED vars
  BY <1>3 DEF vars, HistoryTypes, Active
<1>4. QED  BY <1>1, <1>2, <1>3, StepKinds

(* Who may still put a cost on a counter overlaps its period, always.      *)
LEMMA OverlapsStep == Ordered /\ HistoryTypes /\ Overlaps /\ [Next]_vars => Overlaps'
<1> SUFFICES ASSUME Ordered, HistoryTypes, Overlaps, [Next]_vars, NEW w \in SpendWindows
             PROVE  /\ Unrecorded' \subseteq overlap'[w][Current(w)']
                    /\ \A q \in Requests : stage'[q] = "spend" /\ tries'[q] > 0
                          => q \in overlap'[w][Period(w, at'[q])]
                    /\ \A p \in Ticks : p > Current(w)' => overlap'[w][p] = {}
  BY DEF Overlaps, Period
<1>1. /\ TypeOK /\ Shape /\ now \in Ticks /\ Current(w) \in Ticks
      /\ overlap[w] \in [Ticks -> SUBSET Active]
      /\ \A q \in Requests : Period(w, at[q]) \in Ticks
  BY PeriodsAreTicks DEF Ordered, TypeOK, Current, HistoryTypes
<1>2. /\ Unrecorded \subseteq overlap[w][Current(w)]
      /\ \A q \in Requests :
            stage[q] = "spend" /\ tries[q] > 0 => q \in overlap[w][Period(w, at[q])]
      /\ \A p \in Ticks : p > Current(w) => overlap[w][p] = {}
  BY DEF Overlaps
<1>3. ASSUME NEW r \in Requests, Moves(r),
             Unrecorded' \subseteq Unrecorded \cup {r}, stage'[r] # "spend",
             NEW S, Unrecorded \cup {r} \subseteq S,
             overlap'[w] = [overlap[w] EXCEPT ![Current(w)] = S]
      PROVE  /\ Unrecorded' \subseteq overlap'[w][Current(w)']
             /\ \A q \in Requests : stage'[q] = "spend" /\ tries'[q] > 0
                   => q \in overlap'[w][Period(w, at'[q])]
             /\ \A p \in Ticks : p > Current(w)' => overlap'[w][p] = {}
  <2>1. OthersStay(r)
    BY <1>1, <1>3, MoverIsAlone
  <2>2. Current(w)' = Current(w)
    BY <2>1 DEF OthersStay, Current, Period
  <2>3. overlap'[w][Current(w)] = S
        /\ \A p \in Ticks \ {Current(w)} : overlap'[w][p] = overlap[w][p]
    BY <1>1, <1>3
  <2>4. Unrecorded' \subseteq overlap'[w][Current(w)']
    BY <1>3, <2>2, <2>3
  <2>5. ASSUME NEW q \in Requests, stage'[q] = "spend", tries'[q] > 0
        PROVE  q \in overlap'[w][Period(w, at'[q])]
    <3>1. q # r /\ stage[q] = "spend" /\ tries[q] > 0 /\ at'[q] = at[q]
      BY <1>3, <2>1, <2>5 DEF OthersStay
    <3>2. q \in Unrecorded /\ q \in overlap[w][Period(w, at[q])]
      BY <1>2, <3>1 DEF Unrecorded
    <3>3. QED  BY <1>1, <1>3, <2>3, <3>1, <3>2
  <2>6. ASSUME NEW p \in Ticks, p > Current(w)' PROVE overlap'[w][p] = {}
    <3>1. p > Current(w) /\ p # Current(w)
      <4>1. p \in Nat /\ Current(w) \in Nat
        BY <1>1, ClockAssumption DEF Ticks
      <4>2. QED  BY <2>2, <2>6, <4>1
    <3>2. QED  BY <1>2, <2>3, <3>1
  <2>7. QED  BY <2>4, <2>5, <2>6
<1>4. ASSUME NEW r \in Requests, Moves(r)
      PROVE  /\ Unrecorded' \subseteq overlap'[w][Current(w)']
             /\ \A q \in Requests : stage'[q] = "spend" /\ tries'[q] > 0
                   => q \in overlap'[w][Period(w, at'[q])]
             /\ \A p \in Ticks : p > Current(w)' => overlap'[w][p] = {}
  <2>1. OthersStay(r)
    BY <1>1, <1>4, MoverIsAlone
  <2>2. Unrecorded' \subseteq Unrecorded \cup {r}
    BY <2>1 DEF OthersStay, Unrecorded
  <2>3. ASSUME NEW e \in Estimates, LetThrough(r, e)
        PROVE  /\ overlap'[w] = [overlap[w] EXCEPT ![Current(w)] = Unrecorded \cup {r}]
               /\ stage'[r] # "spend"
    BY <2>3 DEF LetThrough, Admitted
  <2>4. ASSUME PassesUnread(r)
        PROVE  /\ overlap'[w] = [overlap[w] EXCEPT ![Current(w)] = overlap[w][Current(w)] \cup {r}]
               /\ stage'[r] # "spend"
    BY <2>4 DEF PassesUnread
  <2>5. CASE \E e \in Estimates : LetThrough(r, e)
    BY <1>3, <1>4, <2>2, <2>3, <2>5
  <2>6. CASE PassesUnread(r)
    <3> DEFINE S == overlap[w][Current(w)] \cup {r}
    <3>1. Unrecorded \cup {r} \subseteq S
      BY <1>2
    <3>2. overlap'[w] = [overlap[w] EXCEPT ![Current(w)] = S] /\ stage'[r] # "spend"
      BY <2>4, <2>6
    <3> HIDE DEF S
    <3>3. QED  BY <1>3, <1>4, <2>2, <3>1, <3>2
  <2>7. CASE NobodyJoins(r)
    <3>1. Current(w)' = Current(w) /\ overlap' = overlap
      BY <2>1, <2>7 DEF OthersStay, Current, Period, NobodyJoins, history
    <3>2. ASSUME NEW q \in Requests, stage'[q] = "spend", tries'[q] > 0
          PROVE  q \in overlap[w][Period(w, at'[q])]
      <4>1. CASE q # r
        BY <1>2, <2>1, <3>2, <4>1 DEF OthersStay
      <4>2. CASE q = r
        <5>1. stage[r] = "spend" /\ at'[r] = CallTick(r)
          BY <2>7, <3>2, <4>2 DEF NobodyJoins
        <5>2. CASE tries[r] = 0
          <6>1. Period(w, at'[q]) = Current(w)
            BY <4>2, <5>1, <5>2 DEF CallTick, Current
          <6>2. QED  BY <1>2, <4>2, <5>1, <6>1 DEF Unrecorded
        <5>3. CASE tries[r] # 0
          <6>1. tries[r] > 0 /\ at'[q] = at[r]
            BY <1>1, <4>2, <5>1, <5>3, RetriesAssumption DEF CallTick, TypeOK
          <6>2. QED  BY <1>2, <4>2, <5>1, <6>1
        <5>4. QED  BY <5>2, <5>3
      <4>3. QED  BY <4>1, <4>2
    <3>3. QED  BY <1>2, <2>7, <3>1, <3>2 DEF NobodyJoins
  <2>8. QED  BY <1>1, <1>4, <2>5, <2>6, <2>7, HistoryMoves
<1>5. CASE Tick
  <2>1. /\ now \in Ticks /\ now + 1 \in Ticks /\ now <= now + 1 /\ now' = now + 1
        /\ UNCHANGED <<stage, tries, at>>
    BY <1>1, <1>5, ClockAssumption DEF Tick, Ticks, call
  <2>2. /\ Current(w) \in Nat /\ Current(w)' = Period(w, now + 1) /\ Current(w)' \in Nat
        /\ Current(w)' \in Ticks /\ Current(w) <= Current(w)'
    BY <2>1, PeriodsGrow DEF Current, Period
  <2>3. Unrecorded' = Unrecorded
    BY <2>1 DEF Unrecorded
  <2>4. CASE Current(w)' = Current(w)
    <3>1. overlap'[w] = overlap[w]
      BY <1>5, <2>2, <2>4 DEF Tick
    <3>2. QED  BY <1>2, <2>1, <2>3, <2>4, <3>1
  <2>5. CASE Current(w)' # Current(w)
    <3>1. overlap'[w] = [overlap[w] EXCEPT ![Current(w)'] = Unrecorded]
      BY <1>5, <2>2, <2>5 DEF Tick
    <3>2. overlap'[w][Current(w)'] = Unrecorded
          /\ \A p \in Ticks \ {Current(w)'} : overlap'[w][p] = overlap[w][p]
      BY <1>1, <2>2, <3>1
    <3>3. ASSUME NEW q \in Requests, stage'[q] = "spend", tries'[q] > 0
          PROVE  q \in overlap'[w][Period(w, at'[q])]
      <4>1. stage[q] = "spend" /\ tries[q] > 0 /\ at'[q] = at[q]
        BY <2>1, <3>3
      <4>2. q \in Unrecorded /\ q \in overlap[w][Period(w, at[q])]
        BY <1>2, <4>1 DEF Unrecorded
      <4>3. QED  BY <1>1, <3>2, <4>1, <4>2
    <3>4. ASSUME NEW p \in Ticks, p > Current(w)' PROVE overlap'[w][p] = {}
      <4>1. p \in Nat
        BY ClockAssumption DEF Ticks
      <4>2. p > Current(w) /\ p # Current(w)'
        BY <2>2, <3>4, <4>1
      <4>3. QED  BY <1>2, <3>2, <4>2
    <3>5. QED  BY <2>3, <3>2, <3>3, <3>4
  <2>6. QED  BY <2>4, <2>5
<1>6. CASE UNCHANGED vars
  <2>1. Unrecorded' = Unrecorded /\ Current(w)' = Current(w) /\ UNCHANGED <<overlap, stage, tries, at>>
    BY <1>6 DEF vars, Unrecorded, Current, Period
  <2>2. QED  BY <1>2, <2>1
<1>7. QED  BY <1>4, <1>5, <1>6, StepKinds

(* No step uncovers a counter: what it adds to spend is charged to a       *)
(* request that overlaps, or the limit has just been checked.              *)
LEMMA OvershootStep ==
    /\ Ordered /\ HistoryTypes /\ Overlaps /\ Overshoot /\ [Next]_vars
    /\ Ordered' /\ HistoryTypes'
    => Overshoot'
<1> SUFFICES ASSUME Ordered, HistoryTypes, Overlaps, Overshoot, [Next]_vars,
                    Ordered', HistoryTypes', limit'.behavior # "downgrade",
                    NEW w \in SpendWindows, NEW p \in Ticks, limit'.spend[w] # Unlimited
             PROVE  spend'[w][p] + lastEst'[w][p]
                       <= limit'.spend[w] + SumOf(Charges', overlap'[w][p])
  BY DEF Overshoot
<1> DEFINE o == overlap[w][p]
           on == overlap'[w][p]
           old == SumOf(Charges, o)
           new == SumOf(Charges', on)
<1>1. /\ TypeOK /\ TypeOK' /\ Shape /\ limit' = limit
      /\ limit.spend[w] \in Nat
      /\ spend[w] \in [Ticks -> Nat] /\ spend'[w] \in [Ticks -> Nat]
      /\ lastEst[w] \in [Ticks -> Nat] /\ lastEst'[w] \in [Ticks -> Nat]
      /\ Current(w) \in Ticks
  <2>1. TypeOK /\ TypeOK' /\ Shape
    BY DEF Ordered
  <2>2. limit' = limit
    BY <2>1, MoverIsAlone, StepKinds DEF OthersStay, Tick, vars
  <2>3. limit.spend[w] \in Nat
    BY <2>1, <2>2, LimitsAssumption DEF TypeOK
  <2>4. Current(w) \in Ticks
    BY <2>1, PeriodsAreTicks DEF TypeOK, Current
  <2>5. QED  BY <2>1, <2>2, <2>3, <2>4 DEF TypeOK, HistoryTypes
<1>2. spend[w][p] + lastEst[w][p] <= limit.spend[w] + old
  BY <1>1 DEF Overshoot
<1>3. /\ IsFiniteSet(o) /\ IsFiniteSet(on) /\ o \subseteq Requests /\ on \subseteq Requests
      /\ \A q \in Requests : Charges[q] \in Nat /\ Charges'[q] \in Nat
      /\ old \in Nat /\ new \in Nat
  <2>1. IsFiniteSet(Active) /\ IsFiniteSet(Active') /\ o \subseteq Active /\ on \subseteq Active'
    BY DEF Ordered, FinitelyActive, HistoryTypes
  <2>2. IsFiniteSet(o) /\ IsFiniteSet(on)
    BY <2>1, FS_Subset
  <2>3. o \subseteq Requests /\ on \subseteq Requests
    BY <2>1 DEF Active
  <2>4. \A q \in Requests : Charges[q] \in Nat
    BY <1>1, ChargeTypes
  <2>5. \A q \in Requests : Charges'[q] \in Nat
    <3> SUFFICES ASSUME NEW q \in Requests PROVE Charges'[q] \in Nat
      OBVIOUS
    <3>1. MaxRetries \in Nat /\ tries'[q] \in 0..MaxRetries /\ cost'[q] \in Nat
      BY <1>1, RetriesAssumption DEF TypeOK
    <3>2. tries'[q] \in Nat /\ Attempts \in Nat
      BY <3>1 DEF Attempts
    <3>3. \A i, c \in Nat : i * c \in Nat
      OBVIOUS
    <3>4. tries'[q] * cost'[q] \in Nat /\ Attempts * cost'[q] \in Nat
      BY <3>1, <3>2, <3>3
    <3>5. QED  BY <3>4 DEF Charges, Charge, Attempts
  <2>6. old \in Nat
    BY <2>2, <2>3, <2>4, SumOfMore
  <2>7. new \in Nat
    <3> DEFINE g == Charges'
    <3>1. \A q \in on : g[q] \in Nat
      BY <2>3, <2>5
    <3> HIDE DEF g, on
    <3>2. SumOf(g, on) \in Nat
      BY ONLY <2>2, <3>1, SumOfMore
    <3>3. QED  BY <3>2 DEF g
  <2>8. QED  BY <2>2, <2>3, <2>4, <2>5, <2>6, <2>7
<1>4. ASSUME o \subseteq on, \A q \in Requests : Charges[q] <= Charges'[q]
      PROVE  old <= new
  <2> DEFINE f == Charges
             g == Charges'
  <2>1. \A q \in o : f[q] \in Int /\ g[q] \in Int /\ f[q] <= g[q]
    BY <1>3, <1>4
  <2>2. \A q \in on : g[q] \in Nat
    BY <1>3
  <2>3. IsFiniteSet(o) /\ IsFiniteSet(on) /\ o \in SUBSET on
    BY <1>3, <1>4
  <2>4. SumOf(f, o) \in Int /\ SumOf(g, o) \in Int /\ SumOf(g, on) \in Int
    <3>1. \A q \in o : f[q] \in Nat /\ g[q] \in Nat
      BY <1>3
    <3> HIDE DEF f, g, o, on
    <3>2. SumOf(f, o) \in Nat
      BY ONLY <2>3, <3>1, SumOfMore
    <3>3. SumOf(g, o) \in Nat
      BY ONLY <2>3, <3>1, SumOfMore
    <3>4. SumOf(g, on) \in Nat
      BY ONLY <2>2, <2>3, SumOfMore
    <3>5. QED  BY <3>2, <3>3, <3>4
  <2> HIDE DEF f, g, o, on
  <2>5. SumOf(f, o) <= SumOf(g, o)
    BY ONLY <2>1, <2>3, SumGrows
  <2>6. SumOf(g, o) <= SumOf(g, on)
    BY ONLY <2>2, <2>3, SumOfMore
  <2>7. SumOf(f, o) <= SumOf(g, on)
    BY <2>4, <2>5, <2>6
  <2>8. QED  BY <2>7 DEF f, g
<1>5. ASSUME spend'[w][p] = spend[w][p], lastEst'[w][p] = lastEst[w][p], old <= new
      PROVE  spend'[w][p] + lastEst'[w][p] <= limit'.spend[w] + new
  <2>1. spend[w][p] \in Nat /\ lastEst[w][p] \in Nat
    BY <1>1
  <2> HIDE DEF old, new
  <2>2. QED  BY <1>1, <1>2, <1>3, <1>5, <2>1
<1>6. ASSUME NEW r \in Requests, Moves(r)
      PROVE  spend'[w][p] + lastEst'[w][p] <= limit'.spend[w] + new
  <2>1. /\ \A q \in Requests \ {r} : Charges'[q] = Charges[q]
        /\ Charges[r] <= Charges'[r]
        /\ RecordSpend(r) => Charges[r] + cost[r] <= Charges'[r]
    BY <1>1, <1>6, ChargesGrow
  <2>2. \A q \in Requests : Charges[q] <= Charges'[q]
    BY <1>3, <2>1
  <2>3. ASSUME NEW e \in Estimates, LetThrough(r, e)
        PROVE  spend'[w][p] + lastEst'[w][p] <= limit'.spend[w] + new
    <3>1. /\ overlap'[w] = [overlap[w] EXCEPT ![Current(w)] = Unrecorded \cup {r}]
          /\ lastEst'[w] = [lastEst[w] EXCEPT ![Current(w)] = e]
          /\ spend' = spend /\ ~CostBlocks(e) /\ e \in Nat
      BY <2>3, CostsAssumption DEF LetThrough, Admitted
    <3>2. CASE p = Current(w)
      <4>1. spend[w][p] + e <= limit.spend[w]
        <5>1. ~(spend[w][p] + e > limit.spend[w])
          BY <1>1, <3>1, <3>2 DEF CostBlocks, OverSpend, Exceeds
        <5>2. spend[w][p] \in Nat
          BY <1>1
        <5>3. QED  BY <1>1, <3>1, <5>1, <5>2
      <4>2. lastEst'[w][p] = e /\ spend'[w][p] = spend[w][p] /\ spend[w][p] \in Nat
        BY <1>1, <3>1, <3>2
      <4> HIDE DEF new
      <4>3. QED  BY <1>1, <1>3, <3>1, <4>1, <4>2
    <3>3. CASE p # Current(w)
      <4>1. on = o
        <5>1. overlap[w] \in [Ticks -> SUBSET Active]
          BY DEF HistoryTypes
        <5>2. QED  BY <3>1, <3>3, <5>1
      <4>2. lastEst'[w][p] = lastEst[w][p] /\ spend'[w][p] = spend[w][p]
        BY <1>1, <3>1, <3>3
      <4>3. QED  BY <1>4, <1>5, <2>2, <4>1, <4>2
    <3>4. QED  BY <3>2, <3>3
  <2>4. CASE PassesUnread(r)
    <3>1. o \subseteq on
      <4>1. overlap[w] \in [Ticks -> SUBSET Active]
        BY DEF HistoryTypes
      <4>2. overlap'[w] = [overlap[w] EXCEPT ![Current(w)] = @ \cup {r}]
        BY <2>4 DEF PassesUnread
      <4>3. QED  BY <1>1, <4>1, <4>2
    <3>2. QED  BY <1>4, <1>5, <2>2, <2>4, <3>1 DEF PassesUnread
  <2>5. CASE NobodyJoins(r)
    <3>1. on = o /\ lastEst'[w][p] = lastEst[w][p]
      BY <2>5 DEF NobodyJoins, history
    <3>2. CASE spend'[w][p] = spend[w][p]
      BY <1>4, <1>5, <2>2, <3>1, <3>2
    <3>3. CASE spend'[w][p] # spend[w][p]
      <4>1. RecordSpend(r) /\ spend' # spend
        BY <2>5, <3>3 DEF NobodyJoins
      <4>2. /\ CallTick(r) \in Ticks /\ cost[r] \in Nat
            /\ spend'[w] = [spend[w] EXCEPT ![Period(w, CallTick(r))] = @ + cost[r]]
        BY <1>1, <4>1, SpendMoves
      <4>3. p = Period(w, CallTick(r)) /\ spend'[w][p] = spend[w][p] + cost[r]
        BY <1>1, <3>3, <4>2
      <4>4. r \in o
        <5>1. CASE tries[r] = 0
          BY <4>1, <4>3, <5>1 DEF CallTick, Current, Overlaps, Unrecorded, RecordSpend
        <5>2. CASE tries[r] # 0
          <6>1. tries[r] > 0
            BY <1>1, <5>2, RetriesAssumption DEF TypeOK
          <6>2. QED  BY <4>1, <4>3, <5>2, <6>1 DEF CallTick, Overlaps, RecordSpend
        <5>3. QED  BY <5>1, <5>2
      <4>5. new = old + Charges'[r] - Charges[r]
        <5> DEFINE f == Charges
                   g == Charges'
        <5>1. \A q \in o : f[q] \in Int /\ g[q] \in Int /\ (q # r => g[q] = f[q])
          BY <1>3, <2>1
        <5>2. IsFiniteSet(o)
          BY <1>3
        <5> HIDE DEF f, g, o
        <5>3. SumOf(g, o) = SumOf(f, o) + g[r] - f[r]
          BY ONLY <4>4, <5>1, <5>2, SumMoves
        <5>4. QED  BY <3>1, <5>3 DEF f, g
      <4>6. Charges[r] + cost[r] <= Charges'[r] /\ Charges[r] \in Nat /\ Charges'[r] \in Nat
        BY <1>3, <2>1, <4>1
      <4>7. spend[w][p] \in Nat /\ lastEst[w][p] \in Nat
        BY <1>1
      <4> HIDE DEF old, new
      <4>8. QED  BY <1>1, <1>2, <1>3, <3>1, <4>2, <4>3, <4>5, <4>6, <4>7
    <3>4. QED  BY <3>2, <3>3
  <2>6. QED  BY <1>1, <1>6, <2>3, <2>4, <2>5, HistoryMoves
<1>7. CASE Tick
  <2>1. UNCHANGED <<spend, lastEst, stage, tries, cost>>
    BY <1>7 DEF Tick, counters, call
  <2>2. Charges' = Charges
    BY <2>1 DEF Charges, Charge
  <2>3. o \subseteq on
    <3>1. CASE on = o
      BY <3>1
    <3>2. CASE on # o
      <4>1. /\ Period(w, now + 1) # Current(w)
            /\ overlap'[w] = [overlap[w] EXCEPT ![Period(w, now + 1)] = Unrecorded]
        BY <1>7, <3>2 DEF Tick
      <4>2. overlap[w] \in [Ticks -> SUBSET Active]
        BY DEF HistoryTypes
      <4>3. p = Period(w, now + 1)
        BY <3>2, <4>1, <4>2
      <4>4. now \in Ticks /\ now + 1 \in Ticks /\ now <= now + 1
        BY <1>1, <1>7, ClockAssumption DEF Tick, TypeOK, Ticks
      <4>5. Period(w, now + 1) > Current(w)
        BY <4>1, <4>4, PeriodsGrow DEF Current
      <4>6. QED  BY <4>3, <4>5 DEF Overlaps
    <3>3. QED  BY <3>1, <3>2
  <2>4. \A q \in Requests : Charges[q] <= Charges'[q]
    BY <1>3, <2>2
  <2>5. QED  BY <1>4, <1>5, <2>1, <2>3, <2>4
<1>8. CASE UNCHANGED vars
  <2>1. UNCHANGED <<spend, lastEst, overlap>> /\ Charges' = Charges
    BY <1>8 DEF vars, Charges, Charge
  <2>2. \A q \in Requests : Charges[q] <= Charges'[q]
    BY <1>3, <2>1
  <2>3. QED  BY <1>4, <1>5, <2>1, <2>2
<1>9. QED  BY <1>6, <1>7, <1>8, StepKinds

(* Requests that overlap may pass a spend limit together, by no more than  *)
(* what their recordings put on the counter: for any limits, lengths and   *)
(* costs, any number of requests and of repetitions.                       *)
THEOREM OvershootIsBounded == Spec => []OvershootBounded
<1>1. Init => HistoryTypes /\ Overlaps /\ Overshoot
  <2> SUFFICES ASSUME Init PROVE HistoryTypes /\ Overlaps /\ Overshoot
    OBVIOUS
  <2>1. Unrecorded = {} /\ \A q \in Requests : stage[q] # "spend"
    BY DEF Init, Unrecorded
  <2>2. \A w \in SpendWindows, p \in Ticks :
           overlap[w][p] = {} /\ lastEst[w][p] = 0 /\ spend[w][p] = 0
    BY DEF Init
  <2>3. \A w \in SpendWindows : Current(w) \in Ticks
    BY PeriodsAreTicks, ClockAssumption DEF Init, Current, Ticks
  <2>4. HistoryTypes
    BY DEF Init, HistoryTypes
  <2>5. Overlaps
    BY <2>1, <2>2, <2>3 DEF Overlaps
  <2>6. ASSUME NEW w \in SpendWindows, NEW p \in Ticks, limit.spend[w] # Unlimited
        PROVE  spend[w][p] + lastEst[w][p] <= limit.spend[w] + SumOf(Charges, overlap[w][p])
    <3>1. SumOf(Charges, overlap[w][p]) = 0
      BY <2>2, SumOfNone
    <3>2. limit.spend[w] \in Nat
      BY <2>6, LimitsAssumption DEF Init
    <3>3. QED  BY <2>2, <3>1, <3>2
  <2>7. QED  BY <2>4, <2>5, <2>6 DEF Overshoot
<1>2. Ordered /\ HistoryTypes /\ Overshoot => OvershootBounded
  <2> SUFFICES ASSUME Ordered, HistoryTypes, Overshoot, limit.behavior # "downgrade",
                      NEW w \in SpendWindows, NEW p \in Ticks, limit.spend[w] # Unlimited
               PROVE  spend[w][p] + lastEst[w][p]
                         <= limit.spend[w] + Attempts * SumOf(cost, overlap[w][p])
    BY DEF OvershootBounded
  <2> DEFINE o == overlap[w][p]
             most == [q \in Requests |-> Attempts * cost[q]]
  <2>1. /\ TypeOK /\ limit.spend[w] \in Nat
        /\ spend[w][p] \in Nat /\ lastEst[w][p] \in Nat
    BY LimitsAssumption DEF Ordered, TypeOK, HistoryTypes
  <2>2. IsFiniteSet(o) /\ o \subseteq Requests
    <3>1. IsFiniteSet(Active) /\ o \subseteq Active /\ Active \subseteq Requests
      BY DEF Ordered, FinitelyActive, HistoryTypes, Active
    <3>2. QED  BY <3>1, FS_Subset
  <2>3. spend[w][p] + lastEst[w][p] <= limit.spend[w] + SumOf(Charges, o)
    BY DEF Overshoot
  <2>4. Attempts \in Int
    BY RetriesAssumption DEF Attempts
  <2>5. \A q \in o : /\ Charges[q] \in Nat /\ most[q] \in Nat /\ Charges[q] <= most[q]
                     /\ cost[q] \in Nat /\ most[q] = Attempts * cost[q]
    BY <2>1, <2>2, ChargeTypes DEF TypeOK
  <2> HIDE DEF o, most
  <2>6. SumOf(Charges, o) <= SumOf(most, o)
    <3>1. \A q \in o : Charges[q] \in Int /\ most[q] \in Int /\ Charges[q] <= most[q]
      BY <2>5
    <3>2. QED  BY ONLY <2>2, <3>1, SumGrows
  <2>7. SumOf(most, o) = Attempts * SumOf(cost, o)
    <3>1. \A q \in o : cost[q] \in Int /\ most[q] = Attempts * cost[q]
      BY <2>5
    <3>2. QED  BY ONLY <2>2, <2>4, <3>1, SumScales
  <2>8. SumOf(Charges, o) \in Nat
    <3>1. \A q \in o : Charges[q] \in Nat
      BY <2>5
    <3>2. QED  BY ONLY <2>2, <3>1, SumOfMore
  <2>9. SumOf(most, o) \in Nat
    <3>1. \A q \in o : most[q] \in Nat
      BY <2>5
    <3>2. QED  BY ONLY <2>2, <3>1, SumOfMore
  <2>10. spend[w][p] + lastEst[w][p] <= limit.spend[w] + SumOf(most, o)
    BY <2>1, <2>3, <2>6, <2>8, <2>9
  <2>11. QED  BY <2>7, <2>10 DEF o
<1>3. Ordered => TypeOK /\ Shape
  BY DEF Ordered
<1>4. QED  BY <1>1, <1>2, <1>3, HistoryTypesStep, OverlapsStep, OvershootStep, RequestsInOrder,
              PTL DEF Spec
=============================================================================
