------------------------- MODULE RedisScriptsProofs -------------------------
(***************************************************************************)
(* Proofs about the two scripts the gateway runs in Redis and the calls    *)
(* around them: the spend counter, for every set of requests, caps,        *)
(* estimates and bills, any number of months and retries and every kind of *)
(* fault, and the token bucket, for every rate, number of calls, clock and *)
(* skew.                                                                   *)
(***************************************************************************)
EXTENDS SpendAccounting, TokenBucket, SumTheorems, TLAPS

(* What the two script calls have in common: some request posts a move on  *)
(* its own key, or nothing changes on the counter.                         *)
LEMMA PostedType ==
    ASSUME TypeOK, NEW r \in Requests, NEW d \in Int
    PROVE  Posted(r, d) \in [Months -> Int]
BY DEF Posted, Fits, TypeOK

(* The two outcomes of a call without a reply keep the types.              *)
LEMMA NoReplyType ==
    ASSUME TypeOK, NEW r \in Requests, NEW next \in Stages, NoReply(r, next)
    PROVE  tries' \in [Requests -> 0..MaxRetries] /\ pc' \in [Requests -> Stages]
<1>1. CASE tries[r] < MaxRetries
  BY <1>1, RetriesAssumption DEF NoReply, TypeOK
<1>2. CASE tries[r] = MaxRetries
  BY <1>2, RetriesAssumption DEF NoReply, TypeOK
<1>3. QED  BY <1>1, <1>2 DEF NoReply

(* Every step of SpendLedger keeps its variables in their types.           *)
LEMMA TypeStep == TypeOK /\ [Next]_vars => TypeOK'
<1> SUFFICES ASSUME TypeOK, [Next]_vars PROVE TypeOK'
  OBVIOUS
<1> USE MonthsAssumption, AmountsAssumption, RetriesAssumption
<1>1. ASSUME NEW r \in Requests, Arrive(r) PROVE TypeOK'
  BY <1>1 DEF Arrive, TypeOK, Stages, Terminal
<1>2. ASSUME NEW r \in Requests, Reserve(r) PROVE TypeOK'
  <2>1. counter' \in [Months -> Int]
    BY <1>2, PostedType DEF Reserve, TypeOK
  <2>2. QED  BY <1>2, <2>1 DEF Reserve, TypeOK, Stages, Terminal
<1>3. ASSUME NEW r \in Requests, ReserveNoReply(r) PROVE TypeOK'
  <2>1. counter' \in [Months -> Int]
    BY <1>3, PostedType DEF ReserveNoReply, TypeOK
  <2>2. tries' \in [Requests -> 0..MaxRetries] /\ pc' \in [Requests -> Stages]
    BY <1>3, NoReplyType DEF ReserveNoReply, Stages
  <2>3. QED  BY <1>3, <2>1, <2>2 DEF ReserveNoReply, TypeOK
<1>4. ASSUME NEW r \in Requests, ProviderReturns(r) PROVE TypeOK'
  BY <1>4 DEF ProviderReturns, TypeOK, Stages, Terminal
<1>5. ASSUME NEW r \in Requests, ProviderFails(r) PROVE TypeOK'
  BY <1>5 DEF ProviderFails, TypeOK, Stages, Terminal
<1>6. ASSUME NEW r \in Requests, Settle(r) PROVE TypeOK'
  <2>1. bill[r] - est[r] \in Int
    BY DEF TypeOK
  <2>2. counter' \in [Months -> Int]
    BY <1>6, <2>1, PostedType DEF Settle, TypeOK
  <2>3. QED  BY <1>6, <2>2 DEF Settle, TypeOK, Stages, Terminal
<1>7. ASSUME NEW r \in Requests, SettleNoReply(r) PROVE TypeOK'
  <2>1. bill[r] - est[r] \in Int
    BY DEF TypeOK
  <2>2. counter' \in [Months -> Int]
    BY <1>7, <2>1, PostedType DEF SettleNoReply, TypeOK
  <2>3. tries' \in [Requests -> 0..MaxRetries] /\ pc' \in [Requests -> Stages]
    BY <1>7, NoReplyType DEF SettleNoReply, Stages, Terminal
  <2>4. QED  BY <1>7, <2>2, <2>3 DEF SettleNoReply, TypeOK
<1>8. ASSUME NEW r \in Requests, CutShort(r) PROVE TypeOK'
  <2>1. pc' \in [Requests -> Stages] /\ bill' \in [Requests -> Nat]
    BY <1>8 DEF CutShort, TypeOK, Stages, Terminal
  <2>2. QED  BY <1>8, <2>1 DEF CutShort, TypeOK
<1>9. CASE MonthPasses
  BY <1>9 DEF MonthPasses, TypeOK, Months
<1>10. CASE UNCHANGED vars
  BY <1>10 DEF vars, TypeOK
<1>11. QED
  BY <1>1, <1>2, <1>3, <1>4, <1>5, <1>6, <1>7, <1>8, <1>9, <1>10
     DEF Next, Serve, ClientLeaves, GatewayDies

(* The variables of the spend ledger keep their types in every behaviour.  *)
THEOREM TypeCorrect == Spec => []TypeOK
<1>1. Init => TypeOK
  BY MonthsAssumption, RetriesAssumption DEF Init, TypeOK, Months, Stages
<1>2. QED  BY <1>1, TypeStep, PTL DEF Spec

-----------------------------------------------------------------------------
(* A move of request r through the script keeps every month within the cap *)
(* of some admitted request: r itself vouches for a raise, and a refund    *)
(* leaves the earlier witness valid.                                       *)
LEMMA PostedWithinCap ==
    ASSUME TypeOK, SpendWithinCap, NEW r \in Requests, NEW d \in Int, pc[r] # "idle"
    PROVE  \A m \in Months :
              \/ Posted(r, d)[m] <= 0
              \/ \E q \in Requests :
                    pc[q] # "idle" /\ key[q] = m /\ Posted(r, d)[m] <= cap[q]
<1> SUFFICES ASSUME NEW m \in Months, ~(Posted(r, d)[m] <= 0)
             PROVE  \E q \in Requests :
                       pc[q] # "idle" /\ key[q] = m /\ Posted(r, d)[m] <= cap[q]
  OBVIOUS
<1>1. CASE Fits(r, d) /\ key[r] = m
  <2>1. Posted(r, d)[m] = counter[m] + d
    BY <1>1 DEF Posted, TypeOK
  <2>2. Posted(r, d)[m] <= cap[r]
    BY <1>1, <2>1 DEF Fits
  <2>3. QED  BY <1>1, <2>2
<1>2. CASE ~(Fits(r, d) /\ key[r] = m)
  <2>1. Posted(r, d)[m] = counter[m]
    BY <1>2 DEF Posted, TypeOK
  <2>2. QED  BY <2>1 DEF SpendWithinCap
<1>3. QED  BY <1>1, <1>2

(* Every step keeps the counters within the caps they were checked with.   *)
LEMMA CapStep == TypeOK /\ SpendWithinCap /\ [Next]_vars => SpendWithinCap'
<1> SUFFICES ASSUME TypeOK, SpendWithinCap, [Next]_vars PROVE SpendWithinCap'
  OBVIOUS
<1>1. ASSUME UNCHANGED <<counter, key, cap>>,
             \A q \in Requests : pc[q] # "idle" => pc'[q] # "idle"
      PROVE  SpendWithinCap'
  BY <1>1 DEF SpendWithinCap
<1>2. ASSUME NEW r \in Requests, NEW d \in Int, pc[r] # "idle",
             counter' = counter \/ counter' = Posted(r, d),
             UNCHANGED <<key, cap>>,
             \A q \in Requests : pc[q] # "idle" => pc'[q] # "idle"
      PROVE  SpendWithinCap'
  <2>1. CASE counter' = counter
    BY <1>1, <1>2, <2>1
  <2>2. CASE counter' = Posted(r, d)
    BY <1>2, <2>2, PostedWithinCap DEF SpendWithinCap
  <2>3. QED  BY <1>2, <2>1, <2>2
<1>3. ASSUME NEW r \in Requests, Arrive(r) PROVE SpendWithinCap'
  <2>1. \A q \in Requests : pc[q] # "idle" =>
           pc'[q] = pc[q] /\ key'[q] = key[q] /\ cap'[q] = cap[q]
    BY <1>3 DEF Arrive, TypeOK
  <2>2. counter' = counter
    BY <1>3 DEF Arrive
  <2>3. QED  BY <2>1, <2>2 DEF SpendWithinCap
<1>4. ASSUME NEW r \in Requests, Reserve(r) PROVE SpendWithinCap'
  <2>1. est[r] \in Int /\ pc[r] # "idle" /\ counter' = Posted(r, est[r])
    BY <1>4 DEF Reserve, TypeOK
  <2>2. \A q \in Requests : pc[q] # "idle" => pc'[q] # "idle"
    BY <1>4 DEF Reserve, TypeOK
  <2>3. QED  BY <1>2, <1>4, <2>1, <2>2 DEF Reserve
<1>5. ASSUME NEW r \in Requests, ReserveNoReply(r) PROVE SpendWithinCap'
  <2>1. /\ est[r] \in Int /\ pc[r] # "idle"
        /\ counter' = counter \/ counter' = Posted(r, est[r])
    BY <1>5 DEF ReserveNoReply, TypeOK
  <2>2. \A q \in Requests : pc[q] # "idle" => pc'[q] # "idle"
    BY <1>5 DEF ReserveNoReply, NoReply, TypeOK
  <2>3. QED  BY <1>2, <1>5, <2>1, <2>2 DEF ReserveNoReply
<1>6. ASSUME NEW r \in Requests, Settle(r) PROVE SpendWithinCap'
  <2>1. /\ bill[r] - est[r] \in Int /\ pc[r] # "idle"
        /\ counter' = Posted(r, bill[r] - est[r])
    BY <1>6 DEF Settle, TypeOK
  <2>2. \A q \in Requests : pc[q] # "idle" => pc'[q] # "idle"
    BY <1>6 DEF Settle, TypeOK
  <2>3. QED  BY <1>2, <1>6, <2>1, <2>2 DEF Settle
<1>7. ASSUME NEW r \in Requests, SettleNoReply(r) PROVE SpendWithinCap'
  <2>1. /\ bill[r] - est[r] \in Int /\ pc[r] # "idle"
        /\ counter' = counter \/ counter' = Posted(r, bill[r] - est[r])
    BY <1>7 DEF SettleNoReply, TypeOK
  <2>2. \A q \in Requests : pc[q] # "idle" => pc'[q] # "idle"
    BY <1>7 DEF SettleNoReply, NoReply, TypeOK
  <2>3. QED  BY <1>2, <1>7, <2>1, <2>2 DEF SettleNoReply
<1>8. ASSUME NEW r \in Requests,
             ProviderReturns(r) \/ ProviderFails(r) \/ CutShort(r)
      PROVE  SpendWithinCap'
  <2>1. \A q \in Requests : pc[q] # "idle" => pc'[q] # "idle"
    BY <1>8 DEF ProviderReturns, ProviderFails, CutShort, TypeOK
  <2>2. QED
    BY <1>1, <1>8, <2>1 DEF ProviderReturns, ProviderFails, CutShort
<1>9. CASE MonthPasses \/ UNCHANGED vars
  BY <1>1, <1>9 DEF MonthPasses, vars
<1>10. QED
  BY <1>3, <1>4, <1>5, <1>6, <1>7, <1>8, <1>9
     DEF Next, Serve, ClientLeaves, GatewayDies

(* No behaviour, with any fault and any number of concurrent requests,     *)
(* leaves a month's counter above every cap it was checked against.        *)
THEOREM CapRespected == Spec => []SpendWithinCap
<1>1. Init => SpendWithinCap
  BY DEF Init, SpendWithinCap
<1>2. QED  BY <1>1, CapStep, TypeCorrect, PTL DEF Spec

-----------------------------------------------------------------------------
(* A move of request r changes only the month r took its key in, and       *)
(* raises it no further than r's cap.                                      *)
LEMMA PostedMoves ==
    ASSUME TypeOK, NEW r \in Requests, NEW d \in Int, NEW m \in Months,
           Posted(r, d)[m] # counter[m]
    PROVE  key[r] = m /\ Posted(r, d)[m] <= cap[r]
BY DEF Posted, Fits, TypeOK

(* A month that is over moves only through requests that were admitted to  *)
(* it, and upwards only to a level within their cap.                       *)
THEOREM ClosedMonths == Spec => ClosedMonthMovedByItsOwn
<1>1. ASSUME TypeOK, [Next]_vars
      PROVE  [\A m \in Months :
                m < month /\ counter'[m] # counter[m] =>
                   \E r \in Requests :
                       /\ key[r] = m /\ pc[r] \in {"reserve", "settle"}
                       /\ counter'[m] < counter[m] \/ counter'[m] <= cap[r]]_vars
  <2> SUFFICES ASSUME NEW m \in Months, counter'[m] # counter[m]
               PROVE  \E r \in Requests :
                         /\ key[r] = m /\ pc[r] \in {"reserve", "settle"}
                         /\ counter'[m] < counter[m] \/ counter'[m] <= cap[r]
    OBVIOUS
  <2>1. PICK r \in Requests :
           Reserve(r) \/ ReserveNoReply(r) \/ Settle(r) \/ SettleNoReply(r)
    BY <1>1 DEF Next, Serve, Arrive, ProviderReturns, ProviderFails, ClientLeaves,
                GatewayDies, CutShort, MonthPasses, vars
  <2>2. /\ pc[r] \in {"reserve", "settle"}
        /\ \E d \in {est[r], bill[r] - est[r]} : counter' = Posted(r, d)
    BY <2>1 DEF Reserve, ReserveNoReply, Settle, SettleNoReply
  <2>3. est[r] \in Int /\ bill[r] - est[r] \in Int
    BY <1>1 DEF TypeOK
  <2>4. key[r] = m /\ counter'[m] <= cap[r]
    BY <1>1, <2>2, <2>3, PostedMoves
  <2>5. QED  BY <2>2, <2>4
<1>2. QED  BY <1>1, TypeCorrect, PTL DEF Spec, ClosedMonthMovedByItsOwn
-----------------------------------------------------------------------------
(* The ledger as a sum                                                     *)
(*                                                                         *)
(* What the sums over the requests of a month need, and TypeOK does not    *)
(* say: there are finitely many of them, since one arrives at a time; a    *)
(* request has the amounts it arrived with, no bill before a provider has  *)
(* charged, and repeats only the call it is in.                            *)
FinitelyAdmitted == \A m \in Months : IsFiniteSet(Admitted(m))

Shape ==
    \A r \in Requests :
        /\ pc[r] # "idle" => cap[r] \in Caps /\ est[r] \in Estimates
        /\ pc[r] \in {"idle", "reserve", "calling", "refused", "dropped"} => bill[r] = 0
        /\ pc[r] = "settle" => bill[r] \in Bills
        /\ pc[r] \notin {"reserve", "settle"} => tries[r] = 0

(* What every step but an arrival leaves alone when request r takes it.    *)
OthersStay(r) ==
    /\ pc[r] # "idle" /\ pc'[r] # "idle"
    /\ UNCHANGED <<key, cap, est>>
    /\ \A q \in Requests \ {r} : pc'[q] = pc[q] /\ bill'[q] = bill[q] /\ tries'[q] = tries[q]

(* The steps of a request after its arrival, whoever takes them.           *)
Moves(r) == Serve(r) \/ CutShort(r)

(* A request that moves leaves the others alone.                           *)
LEMMA MoverIsAlone ==
    ASSUME TypeOK, NEW r \in Requests, Moves(r)
    PROVE  OthersStay(r)
BY DEF Moves, Serve, Reserve, ReserveNoReply, ProviderReturns, ProviderFails, Settle,
       SettleNoReply, CutShort, NoReply, OthersStay, TypeOK

(* There is no other step than these.                                      *)
LEMMA StepKinds ==
    ASSUME [Next]_vars
    PROVE  (\E r \in Requests : Arrive(r) \/ Moves(r)) \/ MonthPasses \/ UNCHANGED vars
BY DEF Next, Moves, ClientLeaves, GatewayDies

(* Every step keeps the amounts of the requests in order.                  *)
LEMMA ShapeStep == TypeOK /\ Shape /\ [Next]_vars => Shape'
<1> SUFFICES ASSUME TypeOK, Shape, [Next]_vars PROVE Shape'
  OBVIOUS
<1>1. ASSUME NEW r \in Requests, Arrive(r) PROVE Shape'
  BY <1>1 DEF Arrive, TypeOK, Shape
<1>2. ASSUME NEW r \in Requests, Moves(r) PROVE Shape'
  <2>1. OthersStay(r)
    BY <1>2, MoverIsAlone
  <2>2. CASE Reserve(r) \/ ReserveNoReply(r)
    BY <2>1, <2>2 DEF Reserve, ReserveNoReply, NoReply, OthersStay, TypeOK, Shape
  <2>3. CASE ProviderReturns(r) \/ ProviderFails(r)
    BY <2>1, <2>3, AmountsAssumption DEF ProviderReturns, ProviderFails, OthersStay, TypeOK, Shape
  <2>4. CASE Settle(r) \/ SettleNoReply(r)
    BY <2>1, <2>4 DEF Settle, SettleNoReply, NoReply, OthersStay, TypeOK, Shape
  <2>5. CASE CutShort(r)
    BY <2>1, <2>5 DEF CutShort, OthersStay, TypeOK, Shape
  <2>6. QED  BY <1>2, <2>2, <2>3, <2>4, <2>5 DEF Moves, Serve
<1>3. CASE MonthPasses \/ UNCHANGED vars
  BY <1>3 DEF MonthPasses, vars, Shape
<1>4. QED  BY <1>1, <1>2, <1>3, StepKinds

(* A month's requests are the same after a move, and one more after an     *)
(* arrival in that month.                                                  *)
LEMMA AdmittedStay ==
    ASSUME NEW r \in Requests, OthersStay(r), NEW m \in Months
    PROVE  Admitted(m)' = Admitted(m)
BY DEF OthersStay, Admitted

(* An arrival is new, and joins the requests of the current month.         *)
LEMMA AdmittedGrow ==
    ASSUME TypeOK, NEW r \in Requests, Arrive(r), NEW m \in Months
    PROVE  /\ r \notin Admitted(m)
           /\ Admitted(m)' = IF m = month THEN Admitted(m) \cup {r} ELSE Admitted(m)
BY DEF Arrive, TypeOK, Admitted

(* At any time, finitely many requests have been admitted to a month.      *)
LEMMA FiniteStep == TypeOK /\ FinitelyAdmitted /\ [Next]_vars => FinitelyAdmitted'
<1> SUFFICES ASSUME TypeOK, FinitelyAdmitted, [Next]_vars, NEW m \in Months
             PROVE  IsFiniteSet(Admitted(m)')
  BY DEF FinitelyAdmitted
<1>1. IsFiniteSet(Admitted(m))
  BY DEF FinitelyAdmitted
<1>2. ASSUME NEW r \in Requests, Arrive(r) PROVE IsFiniteSet(Admitted(m)')
  <2>1. IsFiniteSet(Admitted(m) \cup {r})
    BY <1>1, FS_AddElement
  <2>2. QED  BY <1>1, <1>2, <2>1, AdmittedGrow
<1>3. ASSUME NEW r \in Requests, Moves(r) PROVE IsFiniteSet(Admitted(m)')
  BY <1>1, <1>3, MoverIsAlone, AdmittedStay
<1>4. CASE MonthPasses \/ UNCHANGED vars
  <2>1. Admitted(m)' = Admitted(m)
    BY <1>4 DEF MonthPasses, vars, Admitted
  <2>2. QED  BY <1>1, <2>1
<1>5. QED  BY <1>2, <1>3, <1>4, StepKinds

(* What the steps have in common, as one invariant.                        *)
Ordered == TypeOK /\ Shape /\ FinitelyAdmitted

(* The amounts are in order and a month's requests finite in every         *)
(* behaviour, whatever fails.                                              *)
THEOREM AmountsInOrder == Spec => []Ordered
<1>1. Init => Shape /\ FinitelyAdmitted
  <2> SUFFICES ASSUME Init PROVE Shape /\ FinitelyAdmitted
    OBVIOUS
  <2>1. \A m \in Months : Admitted(m) = {}
    BY DEF Init, Admitted
  <2>2. FinitelyAdmitted
    BY <2>1, FS_EmptySet DEF FinitelyAdmitted
  <2>3. Shape
    BY DEF Init, Shape
  <2>4. QED  BY <2>2, <2>3
<1>2. TypeOK /\ Shape /\ FinitelyAdmitted <=> Ordered
  BY DEF Ordered
<1>3. QED  BY <1>1, <1>2, ShapeStep, FiniteStep, TypeCorrect, PTL DEF Spec

(* The sum of a month moves with the amount of the request that moves.     *)
LEMMA MonthSumMoves ==
    ASSUME Ordered, NEW r \in Requests, OthersStay(r), NEW m \in Months, NEW f, NEW g,
           \A q \in Requests : f[q] \in Int /\ g[q] \in Int /\ (q # r => g[q] = f[q])
    PROVE  /\ SumOf(f, Admitted(m)) \in Int
           /\ SumOf(g, Admitted(m)') =
                 SumOf(f, Admitted(m)) + IF key[r] = m THEN g[r] - f[r] ELSE 0
<1> DEFINE A == Admitted(m)
<1>1. A \subseteq Requests /\ IsFiniteSet(A) /\ (r \in A <=> key[r] = m)
  BY DEF Admitted, OthersStay, Ordered, FinitelyAdmitted
<1>2. Admitted(m)' = A
  BY AdmittedStay
<1> HIDE DEF A
<1>3. SumOf(f, A) \in Int
  BY <1>1, SumTakesAny
<1>4. CASE r \in A
  <2>1. SumOf(g, A) = SumOf(f, A) + g[r] - f[r]
    BY <1>1, <1>4, SumMoves
  <2>2. QED  BY <1>1, <1>2, <1>3, <1>4, <2>1 DEF A
<1>5. CASE r \notin A
  <2>1. SumOf(g, A) = SumOf(f, A)
    BY <1>1, <1>5, SumOfSame
  <2>2. QED  BY <1>1, <1>2, <1>3, <1>5, <2>1 DEF A
<1>6. QED  BY <1>4, <1>5

(* A request that arrives has no amount yet.                               *)
LEMMA MonthSumArrives ==
    ASSUME Ordered, NEW r \in Requests, Arrive(r), NEW m \in Months, NEW f, NEW g,
           \A q \in Requests : f[q] \in Int /\ g[q] = f[q], g[r] = 0
    PROVE  SumOf(g, Admitted(m)') = SumOf(f, Admitted(m))
<1> DEFINE A == Admitted(m)
<1>1. A \subseteq Requests /\ IsFiniteSet(A) /\ r \notin A
  BY AdmittedGrow DEF Admitted, Ordered, FinitelyAdmitted
<1>2. Admitted(m)' = A \cup {r} \/ Admitted(m)' = A
  BY AdmittedGrow DEF Ordered
<1> HIDE DEF A
<1>3. SumOf(g, A) = SumOf(f, A) /\ SumOf(f, A) \in Int
  BY <1>1, SumOfSame, SumTakesAny
<1>4. SumOf(g, A \cup {r}) = SumOf(f, A)
  <2>1. g[r] \in Int /\ \A q \in A : f[q] \in Int /\ g[q] = f[q]
    BY <1>1
  <2>2. SumOf(g, A \cup {r}) = SumOf(f, A) + g[r]
    <3>1. IsFiniteSet(A) /\ r \notin A
      BY <1>1
    <3>2. QED  BY <2>1, <3>1, SumJoins
  <2>3. QED  BY <1>3, <2>2
<1>5. SumOf(g, Admitted(m)') = SumOf(f, A)
  BY <1>2, <1>3, <1>4
<1>6. QED  BY <1>5 DEF A

(* What is booked are amounts, and the steps of a request change no other  *)
(* request's booking.                                                      *)
LEMMA BookingType == TypeOK => \A q \in Requests : Bookings[q] = Booked(q) /\ Booked(q) \in Nat
BY DEF TypeOK, Bookings, Booked

(* A step of one request leaves the others' bookings alone.                *)
LEMMA OthersBooked ==
    ASSUME TypeOK, NEW r \in Requests, OthersStay(r)
    PROVE  \A q \in Requests \ {r} : Booked(q)' = Booked(q)
BY DEF OthersStay, Booked, TypeOK

(* The script adds the move when it fits, on the request's own month.      *)
LEMMA PostedAdds ==
    ASSUME TypeOK, NEW r \in Requests, NEW d \in Int, NEW m \in Months
    PROVE  Posted(r, d)[m] = counter[m] + IF key[r] = m /\ Fits(r, d) THEN d ELSE 0
BY DEF Posted, TypeOK

(* When Redis answers, what a step books is what it posts.                 *)
LEMMA BookedAsPosted ==
    ASSUME Ordered, "redis" \notin Faults, NEW r \in Requests, Moves(r), NEW m \in Months
    PROVE  counter'[m] = counter[m] + IF key[r] = m THEN Booked(r)' - Booked(r) ELSE 0
<1> USE DEF Ordered
<1>1. OthersStay(r) /\ counter[m] \in Int /\ est[r] \in Int /\ bill[r] \in Int
  BY MoverIsAlone DEF TypeOK
<1>2. CASE Reserve(r)
  <2>1. counter'[m] = counter[m] + IF key[r] = m /\ Fits(r, est[r]) THEN est[r] ELSE 0
    BY <1>1, <1>2, PostedAdds DEF Reserve
  <2>2. Booked(r) = 0 /\ Booked(r)' = IF Fits(r, est[r]) THEN est[r] ELSE 0
    BY <1>1, <1>2 DEF Reserve, Booked, TypeOK
  <2>3. QED  BY <1>1, <2>1, <2>2
<1>3. CASE Settle(r)
  <2> DEFINE d == bill[r] - est[r]
  <2>1. d \in Int /\ counter'[m] = counter[m] + IF key[r] = m /\ Fits(r, d) THEN d ELSE 0
    BY <1>1, <1>3, PostedAdds DEF Settle
  <2>2. Booked(r) = est[r] /\ Booked(r)' = IF Fits(r, d) THEN bill[r] ELSE est[r]
    BY <1>1, <1>3 DEF Settle, Booked, TypeOK
  <2>3. QED  BY <1>1, <2>1, <2>2
<1>4. CASE ProviderReturns(r) \/ ProviderFails(r) \/ CutShort(r)
  <2>1. counter' = counter
    BY <1>4 DEF ProviderReturns, ProviderFails, CutShort
  <2>2. Booked(r)' = Booked(r) /\ Booked(r) \in Int
    BY <1>1, <1>4 DEF ProviderReturns, ProviderFails, CutShort, Booked, TypeOK
  <2>3. QED  BY <1>1, <2>1, <2>2
<1>5. QED  BY <1>2, <1>3, <1>4 DEF Moves, Serve, ReserveNoReply, SettleNoReply

(* Every step keeps the counters equal to what is booked.                  *)
LEMMA LedgerStep ==
    ASSUME Ordered, Ordered', "redis" \notin Faults, LedgerExact, [Next]_vars
    PROVE  LedgerExact'
<1> SUFFICES ASSUME NEW m \in Months
             PROVE  counter'[m] = SumOf(Bookings', Admitted(m)')
  BY DEF LedgerExact, BookedIn
<1>1. counter[m] = SumOf(Bookings, Admitted(m))
  BY DEF LedgerExact, BookedIn
<1>2. \A q \in Requests : Bookings[q] = Booked(q) /\ Bookings'[q] = Booked(q)'
  BY DEF Bookings
<1>3. \A q \in Requests : Booked(q) \in Int /\ Booked(q)' \in Int
  BY DEF Ordered, TypeOK, Booked
<1>4. ASSUME NEW r \in Requests, Arrive(r) PROVE counter'[m] = SumOf(Bookings', Admitted(m)')
  <2>1. Booked(r)' = 0 /\ \A q \in Requests : Booked(q)' = Booked(q)
    BY <1>4 DEF Arrive, Booked, Ordered, TypeOK
  <2>2. counter' = counter
    BY <1>4 DEF Arrive
  <2>3. QED  BY <1>1, <1>2, <1>3, <1>4, <2>1, <2>2, MonthSumArrives
<1>5. ASSUME NEW r \in Requests, Moves(r) PROVE counter'[m] = SumOf(Bookings', Admitted(m)')
  <2>1. OthersStay(r)
    BY <1>5, MoverIsAlone DEF Ordered
  <2>2. \A q \in Requests \ {r} : Booked(q)' = Booked(q)
    BY <2>1, OthersBooked DEF Ordered
  <2>3. SumOf(Bookings', Admitted(m)') = counter[m] +
           IF key[r] = m THEN Booked(r)' - Booked(r) ELSE 0
    BY <1>1, <1>2, <1>3, <2>1, <2>2, MonthSumMoves
  <2>4. QED  BY <1>5, <2>3, BookedAsPosted
<1>6. CASE MonthPasses \/ UNCHANGED vars
  BY <1>1, <1>6 DEF MonthPasses, vars, Bookings, Booked, Admitted
<1>7. QED  BY <1>4, <1>5, <1>6, StepKinds

(* With a Redis that answers, a month's counter is the sum of what its     *)
(* requests have booked, for any number of requests and whatever else      *)
(* fails.                                                                  *)
THEOREM LedgerIsExact == "redis" \notin Faults => (Spec => []LedgerExact)
<1> SUFFICES ASSUME "redis" \notin Faults PROVE Spec => []LedgerExact
  OBVIOUS
<1>1. Init => LedgerExact
  <2> SUFFICES ASSUME Init, NEW m \in Months PROVE counter[m] = SumOf(Bookings, Admitted(m))
    BY DEF LedgerExact, BookedIn
  <2>1. Admitted(m) = {} /\ counter[m] = 0
    BY DEF Init, Admitted
  <2>2. QED  BY <2>1, SumOfNone
<1>2. Ordered /\ Ordered' /\ LedgerExact /\ [Next]_vars => LedgerExact'
  BY LedgerStep
<1>3. QED  BY <1>1, <1>2, AmountsInOrder, PTL DEF Spec

(* A bill is what is booked of it and what is not.                         *)
LEMMA BillsAreBooked ==
    ASSUME TypeOK, Shape
    PROVE  \A r \in Requests : Unbooked(r) \in Nat /\ bill[r] <= Booked(r) + Unbooked(r)
BY DEF TypeOK, Shape, Booked, Unbooked, Stages, Terminal

(* The bill of a month passes its caps by no more than what was            *)
(* underestimated and not adjusted: the counter stays within a cap, and    *)
(* lacks of the bill no more than that.                                    *)
THEOREM OverspendIsBounded == "redis" \notin Faults => (Spec => []OverspendBounded)
<1> SUFFICES ASSUME "redis" \notin Faults PROVE Spec => []OverspendBounded
  OBVIOUS
<1>1. Ordered /\ LedgerExact /\ SpendWithinCap => OverspendBounded
  <2> SUFFICES ASSUME Ordered, LedgerExact, SpendWithinCap PROVE OverspendBounded
    OBVIOUS
  <2> DEFINE U == [r \in Requests |-> Unbooked(r)]
             BU == [r \in Requests |-> Booked(r) + Unbooked(r)]
  <2> SUFFICES ASSUME NEW m \in Months
               PROVE  \/ BilledIn(m) <= SumOf(U, Admitted(m))
                      \/ \E c \in Caps : BilledIn(m) <= c + SumOf(U, Admitted(m))
    BY DEF OverspendBounded
  <2> DEFINE A == Admitted(m)
  <2>1. IsFiniteSet(A) /\ A \subseteq Requests
    BY DEF Ordered, FinitelyAdmitted, Admitted
  <2>2. \A r \in Requests : /\ bill[r] \in Int /\ Bookings[r] \in Int /\ U[r] \in Int
                            /\ BU[r] = Bookings[r] + U[r] /\ bill[r] <= BU[r]
    BY BillsAreBooked, BookingType DEF Ordered, TypeOK
  <2> HIDE DEF U, BU, A
  <2>3. /\ SumOf(bill, A) \in Int /\ SumOf(Bookings, A) \in Int /\ SumOf(U, A) \in Int
        /\ SumOf(BU, A) = SumOf(Bookings, A) + SumOf(U, A)
    BY <2>1, <2>2, SumTakesAny, SumsAdd
  <2>4. SumOf(bill, A) <= SumOf(BU, A)
    BY <2>1, <2>2, SumGrows
  <2>5. BilledIn(m) = SumOf(bill, A) /\ counter[m] = SumOf(Bookings, A)
    BY DEF LedgerExact, BookedIn, BilledIn, A
  <2>6. counter[m] <= 0 \/ \E c \in Caps : counter[m] <= c
    BY DEF SpendWithinCap, Ordered, Shape
  <2>7. BilledIn(m) <= SumOf(U, A) \/ \E c \in Caps : BilledIn(m) <= c + SumOf(U, A)
    <3>1. BilledIn(m) <= counter[m] + SumOf(U, A)
      BY <2>3, <2>4, <2>5
    <3>2. QED  BY <2>3, <2>5, <2>6, <3>1, AmountsAssumption
  <2>8. QED  BY <2>7 DEF A
<1>2. QED  BY <1>1, AmountsInOrder, LedgerIsExact, CapRespected, PTL

-----------------------------------------------------------------------------
(* How far lost replies may drift the counter                              *)

(* More attempts of a move carry it further, each by the move.             *)
LEMMA Attempts ==
    ASSUME NEW a \in Nat, NEW b \in Nat, a <= b, NEW d \in Int
    PROVE  /\ a * d \in Int /\ b * d \in Int
           /\ (a + 1) * d = a * d + d
           /\ 0 * d = 0
           /\ d >= 0 => 0 <= a * d /\ a * d <= b * d
           /\ d <= 0 => a * d <= 0 /\ b * d <= a * d
<1>1. PICK c \in Nat : b = a + c
  BY SMT
<1>2. d >= 0 => c * d >= 0 /\ a * d >= 0
  OBVIOUS
<1>3. d <= 0 => c * d <= 0 /\ a * d <= 0
  OBVIOUS
<1>4. b * d = a * d + c * d /\ a * d \in Int /\ c * d \in Int
  BY <1>1
<1>5. QED  BY <1>2, <1>3, <1>4

(* The most and the least a request has posted, by its stage.              *)
LEMMA PostedRange ==
    TypeOK => \A r \in Requests : MostPosted(r) \in Int /\ LeastPosted(r) \in Int
BY RetriesAssumption DEF MostPosted, LeastPosted, HoldsPosted, AdjustmentsPosted, Adjusted, TypeOK

(* What Redis does with a call, answered or not: the move is posted, or    *)
(* it is not.                                                              *)
LEMMA PostedOrNot ==
    ASSUME TypeOK, NEW r \in Requests, NEW d \in Int,
           counter' = Posted(r, d) \/ counter' = counter
    PROVE  \E x \in {0, d} : \A m \in Months :
              counter'[m] = counter[m] + IF key[r] = m THEN x ELSE 0
<1>1. \A m \in Months : counter[m] \in Int
  BY DEF TypeOK
<1>2. CASE counter' = counter
  BY <1>1, <1>2
<1>3. CASE counter' = Posted(r, d)
  BY <1>1, <1>3, PostedAdds
<1>4. QED  BY <1>2, <1>3

(* What a step of request r moves, and that the bounds on what r has       *)
(* posted move as far.                                                     *)
Drifts(r) ==
    \E d \in Int :
        /\ \A m \in Months : counter'[m] = counter[m] + IF key[r] = m THEN d ELSE 0
        /\ LeastPosted(r)' <= LeastPosted(r) + d
        /\ MostPosted(r) + d <= MostPosted(r)'

(* While it reserves, only its hold counts, once for each attempt.         *)
LEMMA HoldDrifts ==
    ASSUME Ordered, NEW r \in Requests, pc[r] = "reserve",
           Reserve(r) \/ ReserveNoReply(r) \/ CutShort(r)
    PROVE  Drifts(r)
<1> USE RetriesAssumption DEF Ordered
<1>1. est[r] \in Nat /\ bill[r] = 0 /\ tries[r] \in 0..MaxRetries
  BY DEF TypeOK, Shape
<1>2. est'[r] = est[r] /\ bill'[r] = bill[r]
  BY DEF Reserve, ReserveNoReply, CutShort
<1>3. /\ HoldsPosted(r) = tries[r] /\ AdjustmentsPosted(r) = 0
      /\ AdjustmentsPosted(r)' = 0
  BY DEF Reserve, ReserveNoReply, CutShort, NoReply, HoldsPosted, AdjustmentsPosted, TypeOK
<1>4. MostPosted(r) = tries[r] * est[r] /\ LeastPosted(r) = 0
  BY <1>1, <1>3 DEF MostPosted, LeastPosted, Adjusted
<1>5. MostPosted(r)' = HoldsPosted(r)' * est[r] + 0 /\ LeastPosted(r)' = 0
  BY <1>1, <1>2, <1>3 DEF MostPosted, LeastPosted, Adjusted
<1>6. CASE (Reserve(r) /\ Fits(r, est[r])) \/ ReserveNoReply(r)
  <2>1. HoldsPosted(r)' \in Nat /\ tries[r] + 1 <= HoldsPosted(r)'
    BY <1>1, <1>6 DEF Reserve, ReserveNoReply, NoReply, HoldsPosted, TypeOK
  <2>2. PICK d \in {0, est[r]} : \A m \in Months :
           counter'[m] = counter[m] + IF key[r] = m THEN d ELSE 0
    BY <1>1, <1>6, PostedOrNot DEF Reserve, ReserveNoReply
  <2>3. tries[r] * est[r] + est[r] <= HoldsPosted(r)' * est[r]
    BY <1>1, <2>1, Attempts
  <2>4. tries[r] * est[r] \in Int /\ HoldsPosted(r)' * est[r] \in Int
    BY <1>1, <2>1
  <2>5. QED  BY <1>1, <1>4, <1>5, <2>2, <2>3, <2>4 DEF Drifts
<1>7. CASE (Reserve(r) /\ ~Fits(r, est[r])) \/ CutShort(r)
  <2>1. HoldsPosted(r)' = MaxRetries
    BY <1>7 DEF Reserve, CutShort, HoldsPosted, TypeOK
  <2>2. counter' = counter
    BY <1>7 DEF Reserve, CutShort, Posted
  <2>3. tries[r] * est[r] <= MaxRetries * est[r]
    BY <1>1, Attempts
  <2>4. \A m \in Months : counter'[m] = counter[m] + IF key[r] = m THEN 0 ELSE 0
    BY <2>2 DEF TypeOK
  <2>5. tries[r] * est[r] \in Int /\ MaxRetries * est[r] \in Int
    BY <1>1
  <2>6. QED  BY <1>4, <1>5, <2>1, <2>3, <2>4, <2>5 DEF Drifts
<1>8. QED  BY <1>6, <1>7

(* While it calls its provider, nothing of it reaches the counter.         *)
LEMMA CallDrifts ==
    ASSUME Ordered, NEW r \in Requests, pc[r] = "calling",
           ProviderReturns(r) \/ ProviderFails(r) \/ CutShort(r)
    PROVE  Drifts(r)
<1> USE RetriesAssumption DEF Ordered
<1>1. est[r] \in Nat /\ bill[r] = 0 /\ bill'[r] \in Nat /\ est'[r] = est[r]
  BY AmountsAssumption
     DEF ProviderReturns, ProviderFails, CutShort, TypeOK, Shape
<1>2. counter' = counter
  BY DEF ProviderReturns, ProviderFails, CutShort
<1>3. /\ HoldsPosted(r) = MaxRetries + 1 /\ AdjustmentsPosted(r) = 0
      /\ HoldsPosted(r)' = MaxRetries + 1
      /\ AdjustmentsPosted(r)' = 0 \/ bill'[r] = est[r]
  BY DEF ProviderReturns, ProviderFails, CutShort, HoldsPosted, AdjustmentsPosted, TypeOK, Shape
<1>4. MostPosted(r) = (MaxRetries + 1) * est[r] + 0 /\ LeastPosted(r) = 0
  BY <1>1, <1>3 DEF MostPosted, LeastPosted, Adjusted
<1>5. MostPosted(r)' = (MaxRetries + 1) * est[r] + 0 /\ LeastPosted(r)' = 0
  BY <1>1, <1>3 DEF MostPosted, LeastPosted, Adjusted
<1>6. \A m \in Months : counter'[m] = counter[m] + IF key[r] = m THEN 0 ELSE 0
  BY <1>2 DEF TypeOK
<1>7. LeastPosted(r)' <= LeastPosted(r) + 0 /\ MostPosted(r) + 0 <= MostPosted(r)'
  <2>1. (MaxRetries + 1) * est[r] \in Int
    BY <1>1
  <2>2. QED  BY <1>4, <1>5, <2>1
<1>8. QED  BY <1>6, <1>7 DEF Drifts

(* While it settles, its adjustment counts, once for each attempt.         *)
LEMMA AdjustmentDrifts ==
    ASSUME Ordered, NEW r \in Requests, pc[r] = "settle",
           Settle(r) \/ SettleNoReply(r) \/ CutShort(r)
    PROVE  Drifts(r)
<1> DEFINE d == bill[r] - est[r]
           h == (MaxRetries + 1) * est[r]
<1> USE RetriesAssumption DEF Ordered
<1>1. /\ est[r] \in Nat /\ bill[r] \in Nat /\ tries[r] \in 0..MaxRetries
      /\ d \in Int /\ h \in Int
  BY DEF TypeOK
<1>2. est'[r] = est[r] /\ bill'[r] = bill[r]
  BY DEF Settle, SettleNoReply, CutShort
<1>3. /\ HoldsPosted(r) = MaxRetries + 1 /\ AdjustmentsPosted(r) = tries[r]
      /\ HoldsPosted(r)' = MaxRetries + 1
  BY DEF Settle, SettleNoReply, CutShort, NoReply, HoldsPosted, AdjustmentsPosted, TypeOK
<1>4. PICK k \in Nat : AdjustmentsPosted(r)' = k /\ tries[r] + 1 <= k
  <2>1. AdjustmentsPosted(r)' \in Nat /\ tries[r] + 1 <= AdjustmentsPosted(r)'
    BY <1>1 DEF Settle, SettleNoReply, CutShort, NoReply, AdjustmentsPosted, TypeOK
  <2>2. QED  BY <2>1
<1>5. /\ MostPosted(r) = h + IF d > 0 THEN tries[r] * d ELSE 0
      /\ LeastPosted(r) = IF d < 0 THEN tries[r] * d ELSE 0
  BY <1>1, <1>3 DEF MostPosted, LeastPosted, Adjusted
<1>6. /\ MostPosted(r)' = h + IF d > 0 THEN k * d ELSE 0
      /\ LeastPosted(r)' = IF d < 0 THEN k * d ELSE 0
  BY <1>1, <1>2, <1>3, <1>4 DEF MostPosted, LeastPosted, Adjusted
<1>7. PICK x \in {0, d} : \A m \in Months :
         counter'[m] = counter[m] + IF key[r] = m THEN x ELSE 0
  <2>1. counter' = Posted(r, d) \/ counter' = counter
    BY DEF Settle, SettleNoReply, CutShort
  <2>2. QED  BY <1>1, <2>1, PostedOrNot
<1> HIDE DEF d, h
<1>8. /\ tries[r] * d \in Int /\ k * d \in Int
      /\ d >= 0 => 0 <= tries[r] * d /\ tries[r] * d + d <= k * d
      /\ d <= 0 => tries[r] * d <= 0 /\ k * d <= tries[r] * d + d
  <2>1. tries[r] \in Nat /\ tries[r] + 1 \in Nat /\ tries[r] <= tries[r] + 1
    BY <1>1
  <2>2. /\ (tries[r] + 1) * d = tries[r] * d + d /\ tries[r] * d \in Int
        /\ d >= 0 => 0 <= tries[r] * d
        /\ d <= 0 => tries[r] * d <= 0
    BY <1>1, <2>1, Attempts
  <2>3. /\ k * d \in Int
        /\ d >= 0 => (tries[r] + 1) * d <= k * d
        /\ d <= 0 => k * d <= (tries[r] + 1) * d
    BY <1>1, <1>4, <2>1, Attempts
  <2>4. QED  BY <2>2, <2>3
<1>9. /\ LeastPosted(r)' <= LeastPosted(r) + x
      /\ MostPosted(r) + x <= MostPosted(r)'
  BY <1>1, <1>5, <1>6, <1>7, <1>8
<1>10. QED  BY <1>1, <1>7, <1>9 DEF Drifts

(* Every step of a request after its arrival drifts the counter by no more *)
(* than the bounds of what that request has posted.                        *)
LEMMA MoveDrifts ==
    ASSUME Ordered, NEW r \in Requests, Moves(r)
    PROVE  Drifts(r)
BY HoldDrifts, CallDrifts, AdjustmentDrifts
   DEF Moves, Serve, Reserve, ReserveNoReply, ProviderReturns, ProviderFails, Settle,
       SettleNoReply, CutShort

(* Every step keeps the counters between the two bounds.                   *)
LEMMA DriftStep == Ordered /\ Ordered' /\ DriftBounded /\ [Next]_vars => DriftBounded'
<1> DEFINE least == [r \in Requests |-> LeastPosted(r)]
           most == [r \in Requests |-> MostPosted(r)]
<1> SUFFICES ASSUME Ordered, Ordered', DriftBounded, [Next]_vars, NEW m \in Months
             PROVE  /\ SumOf(least', Admitted(m)') <= counter'[m]
                    /\ counter'[m] <= SumOf(most', Admitted(m)')
  BY DEF DriftBounded
<1>1. /\ SumOf(least, Admitted(m)) <= counter[m]
      /\ counter[m] <= SumOf(most, Admitted(m))
      /\ counter[m] \in Int /\ counter'[m] \in Int
  BY DEF DriftBounded, Ordered, TypeOK
<1>2. \A q \in Requests : /\ least[q] = LeastPosted(q) /\ least'[q] = LeastPosted(q)'
                          /\ most[q] = MostPosted(q) /\ most'[q] = MostPosted(q)'
  OBVIOUS
<1>3. \A q \in Requests : /\ least[q] \in Int /\ least'[q] \in Int
                          /\ most[q] \in Int /\ most'[q] \in Int
  <2>1. \A q \in Requests : LeastPosted(q) \in Int /\ MostPosted(q) \in Int
    BY PostedRange DEF Ordered
  <2>2. \A q \in Requests : LeastPosted(q)' \in Int /\ MostPosted(q)' \in Int
    BY RetriesAssumption
       DEF MostPosted, LeastPosted, HoldsPosted, AdjustmentsPosted, Adjusted, Ordered, TypeOK
  <2>3. QED  BY <1>2, <2>1, <2>2
<1> HIDE DEF least, most
<1>4. ASSUME NEW r \in Requests, Arrive(r)
      PROVE  /\ SumOf(least', Admitted(m)') <= counter'[m]
             /\ counter'[m] <= SumOf(most', Admitted(m)')
  <2>1. \A q \in Requests \ {r} : LeastPosted(q)' = LeastPosted(q) /\ MostPosted(q)' = MostPosted(q)
    BY <1>4 DEF Arrive, LeastPosted, MostPosted, Adjusted, HoldsPosted, AdjustmentsPosted,
                Ordered, TypeOK
  <2>2. pc[r] = "idle" /\ bill[r] = 0 /\ tries[r] = 0 /\ est[r] \in Nat
    BY <1>4 DEF Arrive, Ordered, Shape, TypeOK
  <2>3. pc'[r] = "reserve" /\ bill'[r] = 0 /\ tries'[r] = 0 /\ est'[r] \in Nat
    BY <1>4, <2>2 DEF Arrive, Ordered, TypeOK
  <2>4. LeastPosted(r) = 0 /\ MostPosted(r) = 0
    BY <2>2 DEF LeastPosted, MostPosted, Adjusted, HoldsPosted, AdjustmentsPosted
  <2>5. LeastPosted(r)' = 0 /\ MostPosted(r)' = 0
    BY <2>3 DEF LeastPosted, MostPosted, Adjusted, HoldsPosted, AdjustmentsPosted
  <2>6. /\ SumOf(least', Admitted(m)') = SumOf(least, Admitted(m))
        /\ SumOf(most', Admitted(m)') = SumOf(most, Admitted(m))
    <3>1. \A q \in Requests : least'[q] = least[q] /\ most'[q] = most[q]
      BY <1>2, <2>1, <2>4, <2>5
    <3>2. least'[r] = 0 /\ most'[r] = 0
      BY <1>2, <2>5
    <3>3. QED  BY <1>3, <1>4, <3>1, <3>2, MonthSumArrives
  <2>7. counter' = counter
    BY <1>4 DEF Arrive
  <2>8. QED  BY <1>1, <2>6, <2>7
<1>5. ASSUME NEW r \in Requests, Moves(r)
      PROVE  /\ SumOf(least', Admitted(m)') <= counter'[m]
             /\ counter'[m] <= SumOf(most', Admitted(m)')
  <2>1. OthersStay(r)
    BY <1>5, MoverIsAlone DEF Ordered
  <2>2. \A q \in Requests \ {r} : LeastPosted(q)' = LeastPosted(q) /\ MostPosted(q)' = MostPosted(q)
    BY <2>1 DEF OthersStay, LeastPosted, MostPosted, Adjusted, HoldsPosted, AdjustmentsPosted,
                Ordered, TypeOK
  <2>3. /\ SumOf(least, Admitted(m)) \in Int
        /\ SumOf(least', Admitted(m)') =
              SumOf(least, Admitted(m)) + IF key[r] = m THEN least'[r] - least[r] ELSE 0
    BY <1>2, <1>3, <2>1, <2>2, MonthSumMoves
  <2>4. /\ SumOf(most, Admitted(m)) \in Int
        /\ SumOf(most', Admitted(m)') =
              SumOf(most, Admitted(m)) + IF key[r] = m THEN most'[r] - most[r] ELSE 0
    BY <1>2, <1>3, <2>1, <2>2, MonthSumMoves
  <2>5. PICK d \in Int : /\ counter'[m] = counter[m] + IF key[r] = m THEN d ELSE 0
                         /\ least'[r] <= least[r] + d
                         /\ most[r] + d <= most'[r]
    BY <1>2, <1>5, MoveDrifts DEF Drifts
  <2>6. least[r] \in Int /\ least'[r] \in Int /\ most[r] \in Int /\ most'[r] \in Int
    BY <1>3
  <2>7. QED  BY <1>1, <2>3, <2>4, <2>5, <2>6
<1>6. CASE MonthPasses \/ UNCHANGED vars
  <2>1. UNCHANGED <<counter, pc, key, est, bill, tries>>
    BY <1>6 DEF MonthPasses, vars
  <2>2. Admitted(m)' = Admitted(m) /\ least' = least /\ most' = most
    BY <2>1 DEF Admitted, least, most, LeastPosted, MostPosted, Adjusted, HoldsPosted,
                AdjustmentsPosted
  <2>3. QED  BY <1>1, <2>1, <2>2
<1>7. QED  BY <1>4, <1>5, <1>6, StepKinds

(* However many replies are lost, a month's counter stays within what the  *)
(* attempts of its requests can have posted.                               *)
THEOREM DriftIsBounded == Spec => []DriftBounded
<1>1. Init => DriftBounded
  <2> DEFINE least == [r \in Requests |-> LeastPosted(r)]
             most == [r \in Requests |-> MostPosted(r)]
  <2> SUFFICES ASSUME Init, NEW m \in Months
               PROVE  /\ SumOf(least, Admitted(m)) <= counter[m]
                      /\ counter[m] <= SumOf(most, Admitted(m))
    BY DEF DriftBounded
  <2>1. Admitted(m) = {} /\ counter[m] = 0
    BY DEF Init, Admitted
  <2>2. SumOf(least, {}) = 0 /\ SumOf(most, {}) = 0
    BY SumOfNone
  <2>3. QED  BY <2>1, <2>2
<1>2. QED  BY <1>1, DriftStep, AmountsInOrder, PTL DEF Spec

-----------------------------------------------------------------------------
(* The abstract holds                                                      *)

(* The abstract total of a month is its counter: who is admitted and not   *)
(* on the books has nothing booked.                                        *)
LEMMA TotalIsCounter ==
    ASSUME Ordered, LedgerExact, NEW m \in Months
    PROVE  Abstract!Total(m) = counter[m]
<1> DEFINE B == {r \in Requests : HoldsSlot[r] = m}
<1>1. B \subseteq Admitted(m) /\ IsFiniteSet(Admitted(m))
  BY MonthsAssumption
     DEF HoldsSlot, OnTheBooks, Admitted, Months, Ordered, FinitelyAdmitted
<1>2. \A r \in Admitted(m) : Bookings[r] \in Int /\ (r \notin B => Bookings[r] = 0)
  BY BookingType DEF Admitted, Ordered, Booked, HoldsSlot, OnTheBooks
<1>3. Abstract!Total(m) = SumOf(Bookings, B)
  BY DEF Abstract!Total, Abstract!SumOf, Abstract!MapThenSumSet, Abstract!MapThenFoldSet,
         SumOf, MapThenSumSet, MapThenFoldSet
<1> HIDE DEF B
<1>4. SumOf(Bookings, B) = SumOf(Bookings, Admitted(m))
  BY <1>1, <1>2, SumWithoutZeros
<1>5. QED  BY <1>3, <1>4 DEF LedgerExact, BookedIn

(* A step of request r is one of its holds' when the others' stay.          *)
LEMMA OthersHold ==
    ASSUME TypeOK, NEW r \in Requests, OthersStay(r)
    PROVE  /\ HoldsStage' = [HoldsStage EXCEPT ![r] = HoldsStage'[r]]
           /\ HoldsSlot' = [HoldsSlot EXCEPT ![r] = HoldsSlot'[r]]
           /\ Bookings' = [Bookings EXCEPT ![r] = Bookings'[r]]
<1>1. \A q \in Requests \ {r} : Booked(q)' = Booked(q)
  BY OthersBooked
<1>2. \A q \in Requests \ {r} : /\ HoldsStage'[q] = HoldsStage[q]
                                /\ HoldsSlot'[q] = HoldsSlot[q]
                                /\ Bookings'[q] = Bookings[q]
  BY <1>1 DEF OthersStay, HoldsStage, HoldsSlot, OnTheBooks, Bookings
<1>3. QED  BY <1>2 DEF HoldsStage, HoldsSlot, Bookings

(* Every step of the gateway is a step of the abstract holds, or changes   *)
(* none of them.                                                           *)
LEMMA HoldsStep ==
    ASSUME Ordered, Ordered', LedgerExact, "redis" \notin Faults, [Next]_vars
    PROVE  Abstract!Next \/ UNCHANGED <<HoldsStage, HoldsSlot, Bookings>>
<1> USE DEF Ordered
<1>1. ASSUME NEW r \in Requests, Arrive(r)
      PROVE  UNCHANGED <<HoldsStage, HoldsSlot, Bookings>>
  <2>1. pc[r] = "idle" /\ pc'[r] = "reserve"
    BY <1>1 DEF Arrive, TypeOK
  <2>2. \A q \in Requests \ {r} : pc'[q] = pc[q] /\ key'[q] = key[q]
                                  /\ est'[q] = est[q] /\ bill'[q] = bill[q]
    BY <1>1 DEF Arrive, TypeOK
  <2>3. QED
    BY <2>1, <2>2 DEF HoldsStage, HoldsSlot, OnTheBooks, Bookings, Booked
<1>2. ASSUME NEW r \in Requests, Moves(r)
      PROVE  Abstract!Next \/ UNCHANGED <<HoldsStage, HoldsSlot, Bookings>>
  <2>1. OthersStay(r)
    BY <1>2, MoverIsAlone
  <2>2. /\ HoldsStage' = [HoldsStage EXCEPT ![r] = HoldsStage'[r]]
        /\ HoldsSlot' = [HoldsSlot EXCEPT ![r] = HoldsSlot'[r]]
        /\ Bookings' = [Bookings EXCEPT ![r] = Bookings'[r]]
    BY <2>1, OthersHold
  <2>3. /\ HoldsStage = [HoldsStage EXCEPT ![r] = HoldsStage[r]]
        /\ HoldsSlot = [HoldsSlot EXCEPT ![r] = HoldsSlot[r]]
        /\ Bookings = [Bookings EXCEPT ![r] = Bookings[r]]
    BY DEF HoldsStage, HoldsSlot, Bookings
  <2>4. /\ key[r] \in Months /\ key'[r] = key[r] /\ est'[r] = est[r] /\ pc[r] # "idle"
        /\ cap[r] \in Caps /\ est[r] \in Estimates /\ est[r] \in Int /\ bill[r] \in Int
    BY <2>1 DEF OthersStay, TypeOK, Shape
  <2>5. Abstract!Total(key[r]) = counter[key[r]] /\ counter[key[r]] \in Int
    BY <2>4, TotalIsCounter DEF TypeOK
  <2>6. CASE Reserve(r) /\ Fits(r, est[r])
    <3>1. /\ HoldsStage[r] = "new" /\ HoldsStage'[r] = "held"
          /\ HoldsSlot'[r] = key[r] /\ Bookings'[r] = est[r]
      BY <2>4, <2>6 DEF Reserve, TypeOK, HoldsStage, HoldsSlot, OnTheBooks, Bookings, Booked
    <3>2. Abstract!Total(key[r]) + est[r] <= cap[r]
      BY <2>5, <2>6 DEF Fits
    <3>3. Abstract!Hold(r, key[r], est[r])
      BY <2>2, <2>4, <3>1, <3>2 DEF Abstract!Hold
    <3>4. QED  BY <2>4, <3>3 DEF Abstract!Next, Months
  <2>7. CASE Settle(r) /\ Fits(r, bill[r] - est[r])
    <3>1. /\ HoldsStage[r] = "held" /\ HoldsStage'[r] = "closed"
          /\ HoldsSlot[r] = key[r] /\ HoldsSlot'[r] = key[r]
          /\ Bookings[r] = est[r] /\ Bookings'[r] = bill[r]
      BY <2>4, <2>7 DEF Settle, TypeOK, HoldsStage, HoldsSlot, OnTheBooks, Bookings, Booked
    <3>2. Abstract!Total(HoldsSlot[r]) + bill[r] - Bookings[r] <= cap[r]
      BY <2>4, <2>5, <2>7, <3>1 DEF Fits
    <3>3. Abstract!Capture(r, bill[r])
      BY <2>2, <2>3, <2>4, <3>1, <3>2 DEF Abstract!Capture
    <3>4. bill[r] \in Bills
      BY <2>7 DEF Settle, Shape
    <3>5. QED  BY <3>3, <3>4 DEF Abstract!Next
  <2>8. CASE \/ Reserve(r) /\ ~Fits(r, est[r])
             \/ CutShort(r) /\ pc[r] = "reserve"
    <3>1. /\ HoldsStage[r] = "new" /\ HoldsStage'[r] = "closed"
          /\ HoldsSlot'[r] = HoldsSlot[r] /\ Bookings'[r] = Bookings[r]
      BY <2>4, <2>8
         DEF Reserve, CutShort, TypeOK, HoldsStage, HoldsSlot, OnTheBooks, Bookings, Booked
    <3>2. Abstract!Decline(r)
      BY <2>2, <2>3, <3>1 DEF Abstract!Decline
    <3>3. QED  BY <3>2 DEF Abstract!Next
  <2>9. CASE \/ ProviderReturns(r) /\ pc'[r] = "settled"
             \/ ProviderFails(r)
             \/ Settle(r) /\ ~Fits(r, bill[r] - est[r])
             \/ CutShort(r) /\ pc[r] # "reserve"
    <3>1. /\ HoldsStage[r] = "held" /\ HoldsStage'[r] = "closed"
          /\ HoldsSlot'[r] = HoldsSlot[r] /\ Bookings'[r] = Bookings[r]
      BY <2>4, <2>9
         DEF ProviderReturns, ProviderFails, Settle, CutShort, TypeOK, HoldsStage, HoldsSlot,
             OnTheBooks, Bookings, Booked
    <3>2. Abstract!Forfeit(r)
      BY <2>2, <2>3, <3>1 DEF Abstract!Forfeit
    <3>3. QED  BY <3>2 DEF Abstract!Next
  <2>10. CASE ProviderReturns(r) /\ pc'[r] # "settled"
    <3>1. /\ HoldsStage'[r] = HoldsStage[r]
          /\ HoldsSlot'[r] = HoldsSlot[r] /\ Bookings'[r] = Bookings[r]
      BY <2>4, <2>10
         DEF ProviderReturns, TypeOK, HoldsStage, HoldsSlot, OnTheBooks, Bookings, Booked
    <3>2. QED  BY <2>2, <2>3, <3>1
  <2>11. QED
    BY <1>2, <2>6, <2>7, <2>8, <2>9, <2>10
       DEF Moves, Serve, ReserveNoReply, SettleNoReply
<1>3. CASE MonthPasses \/ UNCHANGED vars
  BY <1>3 DEF MonthPasses, vars, HoldsStage, HoldsSlot, OnTheBooks, Bookings, Booked
<1>4. QED  BY <1>1, <1>2, <1>3, StepKinds

(* With a Redis that answers, every behaviour of the handlers is one of    *)
(* the abstract holds: a request books in one month at most, once, and     *)
(* whenever it adds or raises its booking the month stays within a cap.    *)
THEOREM HoldsImplemented == "redis" \notin Faults => (Spec => ImplementsHolds)
<1> SUFFICES ASSUME "redis" \notin Faults PROVE Spec => ImplementsHolds
  OBVIOUS
<1>1. Init => Abstract!Init
  BY DEF Init, Abstract!Init, HoldsStage, HoldsSlot, OnTheBooks, Bookings, Booked
<1>2. Ordered /\ Ordered' /\ LedgerExact /\ [Next]_vars => [Abstract!Next]_(Abstract!holds)
  BY HoldsStep DEF Abstract!holds
<1>3. QED
  BY <1>1, <1>2, AmountsInOrder, LedgerIsExact, PTL DEF Spec, ImplementsHolds, Abstract!Spec

-----------------------------------------------------------------------------
(* The token bucket                                                        *)
(*                                                                         *)
(* WindowBounded is not inductive: it speaks of past grants only, and the  *)
(* next grant depends on the tokens that are left.  BucketPays adds them:  *)
(* what was granted since any grant, and the tokens that are left, were in *)
(* a full bucket then or were refilled since.                              *)

(* The bucket never holds more than its capacity, and the grants since any *)
(* of them with the tokens that are left are paid by what has been there.  *)
BucketPays ==
    /\ exists => tokens <= Capacity
    /\ ~exists => grants = <<>>
    /\ \A i \in 1..Len(grants) :
           (Len(grants) - i + 1) * Requested + tokens
               <= Capacity + RefillRate * (lastRefill - grants[i])

BucketInv == BucketTypeOK /\ BucketPays /\ WindowBounded

USE DEF Token, Capacity, RefillRate, Requested

(* What is refilled over two adjoining spans is what is refilled over both. *)
LEMMA SpansAdd ==
    ASSUME NEW r \in Int, NEW a \in Int, NEW b \in Int, NEW c \in Int
    PROVE  /\ r * (b - a) \in Int
           /\ (c - b) * r \in Int
           /\ r * (c - a) \in Int
           /\ r * (b - a) + (c - b) * r = r * (c - a)
  OBVIOUS

(* The account of one grant after a refill, from the one before.           *)
LEMMA Carried ==
    ASSUME NEW granted \in Int, NEW left \in Int, NEW full \in Int,
           NEW before \in Int, NEW since \in Int, NEW both \in Int, NEW size \in Int,
           granted + left <= size + before,
           full <= left + since,
           before + since = both
    PROVE  granted + full <= size + both
  OBVIOUS

(* The amount the script computes is an integer, at most the capacity and, *)
(* for a key that exists, at most what was there and what is refilled.     *)
LEMMA RefilledBounds ==
    ASSUME BucketTypeOK, NEW t \in Int
    PROVE  /\ Refilled(t) \in Int
           /\ Refilled(t) <= Capacity
           /\ exists => Refilled(t) <= tokens + (t - lastRefill) * RefillRate
           /\ ~exists => Refilled(t) = Capacity
  <1>1. /\ RateLimitPerMinute \in Int
        /\ tokens \in Int /\ lastRefill \in Int
    BY RateAssumption DEF BucketTypeOK
  <1>2. (t - lastRefill) * RateLimitPerMinute \in Int
    BY <1>1, SpansAdd
  <1> QED
    BY <1>1, <1>2 DEF Refilled

(* A run of the script keeps the type of the bucket, whatever time it is   *)
(* called with.                                                            *)
LEMMA ScriptKeepsType ==
    ASSUME BucketTypeOK, NEW t \in Int, RunScript(t)
    PROVE  exists' \in BOOLEAN /\ tokens' \in Int /\ lastRefill' \in Int /\ grants' \in Seq(Int)
  <1>1. Refilled(t) \in Int /\ grants \in Seq(Int)
    BY RefilledBounds DEF BucketTypeOK
  <1>2. CASE Allowed(t)
    BY <1>1, <1>2 DEF RunScript
  <1>3. CASE ~Allowed(t)
    BY <1>1, <1>3 DEF RunScript
  <1> QED
    BY <1>2, <1>3

(* A run of the script keeps the account of the bucket.                    *)
LEMMA ScriptPays ==
    ASSUME BucketTypeOK, BucketPays, NEW t \in Int, RunScript(t)
    PROVE  BucketPays'
  <1> DEFINE R == RateLimitPerMinute
             r == Refilled(t)
             n == Len(grants)
  <1>1. /\ R \in Int /\ tokens \in Int /\ lastRefill \in Int
        /\ grants \in Seq(Int) /\ n \in Nat
    BY RateAssumption DEF BucketTypeOK
  <1>2. r \in Int /\ r <= R * 1000
    BY RefilledBounds
  <1>3. ASSUME NEW i \in 1..n
        PROVE  (n - i + 1) * 1000 + r <= R * 1000 + R * (t - grants[i])
    <2>1. exists
      BY <1>1, <1>3 DEF BucketPays
    <2>2. grants[i] \in Int
      BY <1>1
    <2>3. (n - i + 1) * 1000 + tokens <= R * 1000 + R * (lastRefill - grants[i])
      BY <1>3 DEF BucketPays
    <2>4. r <= tokens + (t - lastRefill) * R
      BY <2>1, RefilledBounds
    <2>5. /\ R * (lastRefill - grants[i]) \in Int /\ (t - lastRefill) * R \in Int
          /\ R * (t - grants[i]) \in Int
          /\ R * (lastRefill - grants[i]) + (t - lastRefill) * R = R * (t - grants[i])
      BY <1>1, <2>2, SpansAdd
    <2>6. (n - i + 1) * 1000 \in Int /\ R * 1000 \in Int
      BY <1>1
    <2> HIDE DEF r, R, n
    <2> QED
      BY <1>1, <1>2, <2>3, <2>4, <2>5, <2>6, Carried
  <1>4. CASE Allowed(t)
    <2>1. /\ exists' /\ tokens' = r - 1000 /\ lastRefill' = t
          /\ grants' = Append(grants, t)
      BY <1>4 DEF RunScript
    <2>2. Len(grants') = n + 1
      BY <1>1, <2>1
    <2>3. ASSUME NEW i \in 1..(n + 1)
          PROVE  (n + 1 - i + 1) * 1000 + (r - 1000) <= R * 1000 + R * (t - grants'[i])
      <3>1. CASE i \in 1..n
        <4>1. grants'[i] = grants[i] /\ grants[i] \in Int
          BY <1>1, <2>1, <3>1
        <4>2. R * (t - grants[i]) \in Int
          BY <1>1, <4>1, SpansAdd
        <4> HIDE DEF r
        <4> QED
          BY <1>1, <1>2, <1>3, <3>1, <4>1, <4>2
      <3>2. CASE i = n + 1
        <4>1. grants'[i] = t
          BY <1>1, <2>1, <3>2
        <4> HIDE DEF r
        <4> QED
          BY <1>1, <1>2, <3>2, <4>1
      <3> QED
        BY <1>1, <3>1, <3>2
    <2> HIDE DEF r
    <2> QED
      BY <1>1, <1>2, <2>1, <2>2, <2>3 DEF BucketPays
  <1>5. CASE ~Allowed(t)
    <2>1. /\ exists' /\ tokens' = r /\ lastRefill' = t /\ grants' = grants
      BY <1>2, <1>5 DEF RunScript
    <2> HIDE DEF r
    <2> QED
      BY <1>1, <1>2, <1>3, <2>1 DEF BucketPays
  <1> QED
    BY <1>4, <1>5

(* A run of the script that grants leaves no token below zero, so the      *)
(* account bounds the new grant's windows.                                 *)
LEMMA ScriptKeepsWindows ==
    ASSUME BucketTypeOK, BucketPays, WindowBounded, NEW t \in Int, RunScript(t)
    PROVE  WindowBounded'
  <1> DEFINE R == RateLimitPerMinute
             n == Len(grants)
  <1>1. /\ R \in Int /\ grants \in Seq(Int) /\ n \in Nat
    BY RateAssumption DEF BucketTypeOK
  <1>2. CASE Allowed(t)
    <2>1. /\ grants' = Append(grants, t) /\ lastRefill' = t
          /\ tokens' = Refilled(t) - 1000
      BY <1>2 DEF RunScript
    <2>2. /\ tokens' \in Int
          /\ tokens' >= 0
      <3>1. Refilled(t) \in Int
        BY RefilledBounds
      <3>2. Refilled(t) >= 1000
        BY <1>2 DEF Allowed
      <3> QED
        BY <2>1, <3>1, <3>2
    <2>3. Len(grants') = n + 1 /\ grants'[n + 1] = t
      BY <1>1, <2>1
    <2>4. ASSUME NEW i \in 1..(n + 1), NEW j \in 1..(n + 1), i <= j
          PROVE  (j - i + 1) * 1000 <= R * 1000 + R * (grants'[j] - grants'[i])
      <3>1. CASE j \in 1..n
        <4>1. i \in 1..n /\ grants'[i] = grants[i] /\ grants'[j] = grants[j]
          BY <1>1, <2>1, <2>4, <3>1
        <4> QED
          BY <2>4, <3>1, <4>1 DEF WindowBounded
      <3>2. CASE j = n + 1
        <4>1. (n + 1 - i + 1) * 1000 + tokens' <= R * 1000 + R * (t - grants'[i])
          BY <2>1, <2>3, ScriptPays DEF BucketPays
        <4>2. grants'[i] \in Int
          BY <1>1, <2>1
        <4>3. R * (t - grants'[i]) \in Int
          BY <1>1, <4>2, SpansAdd
        <4> QED
          BY <1>1, <2>2, <2>3, <3>2, <4>1, <4>3
      <3> QED
        BY <1>1, <3>1, <3>2
    <2> QED
      BY <2>3, <2>4 DEF WindowBounded
  <1>3. CASE ~Allowed(t)
    BY <1>3 DEF RunScript, WindowBounded
  <1> QED
    BY <1>2, <1>3

(* A bucket without grants has nothing to account for.                     *)
LEMMA NoGrants ==
    ASSUME grants = <<>>, exists = FALSE
    PROVE  grants \in Seq(Int) /\ BucketPays /\ WindowBounded
  <1>1. Len(grants) = 0 /\ grants \in Seq(Int)
    OBVIOUS
  <1>2. 1..Len(grants) = {}
    BY <1>1
  <1> QED
    BY <1>1, <1>2 DEF BucketPays, WindowBounded

(* The same of the next state.                                             *)
LEMMA NoGrantsNext ==
    ASSUME grants' = <<>>, exists' = FALSE
    PROVE  grants' \in Seq(Int) /\ BucketPays' /\ WindowBounded'
  <1>1. Len(grants') = 0 /\ grants' \in Seq(Int)
    OBVIOUS
  <1>2. 1..Len(grants') = {}
    BY <1>1
  <1> QED
    BY <1>1, <1>2 DEF BucketPays, WindowBounded

(* One step of the system keeps the inductive invariant.                   *)
LEMMA Preserved == BucketInv /\ [BucketNext]_callVars => BucketInv'
  <1> SUFFICES ASSUME BucketInv, [BucketNext]_callVars PROVE BucketInv'
    OBVIOUS
  <1> USE DEF BucketInv
  <1>1. ASSUME UNCHANGED bucket PROVE BucketPays' /\ WindowBounded'
    BY <1>1 DEF bucket, BucketPays, WindowBounded
  <1>2. ASSUME NEW c \in Calls, Send(c) PROVE BucketInv'
    <2>1. BucketTypeOK'
      BY <1>2, ClockAssumption DEF Send, BucketTypeOK, bucket
    <2> QED
      BY <1>1, <1>2, <2>1 DEF Send
  <1>3. ASSUME NEW c \in Calls, Reply(c) PROVE BucketInv'
    <2>1. now[c] \in Int /\ RunScript(now[c])
      BY <1>3 DEF Reply, BucketTypeOK
    <2>2. BucketTypeOK'
      BY <1>3, <2>1, ScriptKeepsType, RetriesAssumption DEF Reply, BucketTypeOK
    <2> QED
      BY <2>1, <2>2, ScriptPays, ScriptKeepsWindows
  <1>4. ASSUME NEW c \in Calls, NoVerdict(c) PROVE BucketInv'
    <2>1. now[c] \in Int
      BY <1>4 DEF NoVerdict, BucketTypeOK
    <2>2. /\ stage' \in [Calls -> {"idle", "sent", "allowed", "refused", "open"}]
          /\ unanswered' \in [Calls -> 0..MaxRetries]
          /\ UNCHANGED <<clock, now>>
      BY <1>4, RetriesAssumption DEF NoVerdict, BucketTypeOK
    <2>3. CASE RunScript(now[c])
      <3>1. BucketTypeOK'
        BY <2>1, <2>2, <2>3, ScriptKeepsType DEF BucketTypeOK
      <3> QED
        BY <2>1, <2>3, <3>1, ScriptPays, ScriptKeepsWindows
    <2>4. CASE UNCHANGED bucket
      <3>1. BucketTypeOK'
        BY <2>2, <2>4 DEF BucketTypeOK, bucket
      <3> QED
        BY <1>1, <2>4, <3>1
    <2> QED
      BY <1>4, <2>3, <2>4 DEF NoVerdict
  <1>5. ASSUME Forget PROVE BucketInv'
    <2>1. grants' \in Seq(Int) /\ BucketPays' /\ WindowBounded'
      BY <1>5, NoGrantsNext DEF Forget
    <2>2. exists' \in BOOLEAN /\ tokens' \in Int /\ lastRefill' \in Int
      <3>1. exists' = FALSE /\ tokens' = 0 /\ lastRefill' = 0
        BY <1>5 DEF Forget
      <3>2. exists' \in BOOLEAN
        BY <3>1, Zenon
      <3> QED
        BY <3>1, <3>2
    <2>3. UNCHANGED <<clock, stage, now, unanswered>>
      BY <1>5 DEF Forget
    <2>4. BucketTypeOK'
      BY <2>1, <2>2, <2>3 DEF BucketTypeOK
    <2> QED
      BY <2>1, <2>4
  <1>6. ASSUME Tick PROVE BucketInv'
    <2>1. clock' \in 0..LastTime
      BY <1>6, ClockAssumption DEF Tick, BucketTypeOK
    <2>2. BucketTypeOK'
      BY <1>6, <2>1 DEF Tick, BucketTypeOK, bucket
    <2> QED
      BY <1>1, <1>6, <2>2 DEF Tick
  <1>7. ASSUME UNCHANGED callVars PROVE BucketInv'
    <2>1. BucketTypeOK'
      BY <1>7 DEF callVars, BucketTypeOK
    <2> QED
      BY <1>1, <1>7, <2>1 DEF callVars, bucket
  <1> QED
    BY <1>2, <1>3, <1>4, <1>5, <1>6, <1>7 DEF BucketNext

(* The account of the bucket holds in every reachable state, for every     *)
(* rate, set of calls and set of clock skews.                              *)
THEOREM BucketAccount == BucketSpec => []BucketInv
  <1>1. BucketInit => BucketInv
    <2> SUFFICES ASSUME BucketInit PROVE BucketInv
      OBVIOUS
    <2>1. grants \in Seq(Int) /\ BucketPays /\ WindowBounded
      BY NoGrants DEF BucketInit
    <2>2. /\ clock \in 0..LastTime /\ exists \in BOOLEAN
          /\ tokens \in Int /\ lastRefill \in Int
      <3>1. clock = 0 /\ exists = FALSE /\ tokens = 0 /\ lastRefill = 0
        BY DEF BucketInit
      <3>2. exists \in BOOLEAN
        BY <3>1, Zenon
      <3> QED
        BY <3>1, <3>2, ClockAssumption
    <2>3. /\ stage \in [Calls -> {"idle", "sent", "allowed", "refused", "open"}]
          /\ now \in [Calls -> Int] /\ unanswered \in [Calls -> 0..MaxRetries]
      BY RetriesAssumption DEF BucketInit
    <2>4. BucketTypeOK
      BY <2>1, <2>2, <2>3 DEF BucketTypeOK
    <2> QED
      BY <2>1, <2>4 DEF BucketInv
  <1> QED
    BY <1>1, Preserved, PTL DEF BucketSpec

(* Every variable of the bucket keeps its type.                            *)
THEOREM BucketTypeCorrect == BucketSpec => []BucketTypeOK
  <1>1. BucketInv => BucketTypeOK
    BY DEF BucketInv
  <1> QED
    BY <1>1, BucketAccount, PTL

(* No window of grants exceeds a full bucket and the refill between its    *)
(* ends, whatever the order in which the calls reach Redis, the clocks of  *)
(* the gateways, and the replies that are lost.                            *)
THEOREM EveryWindowBounded == BucketSpec => []WindowBounded
  <1>1. BucketInv => WindowBounded
    BY DEF BucketInv
  <1> QED
    BY <1>1, BucketAccount, PTL
=============================================================================
