-------------------------- MODULE SpendAccounting --------------------------
(***************************************************************************)
(* What the spend counter of SpendLedger means in money: which requests it *)
(* stands for, how far the providers' bill may be from it, and the         *)
(* abstract holds it implements.                                           *)
(***************************************************************************)
EXTENDS SpendLedger, Sums

Admitted(m) == {r \in Requests : pc[r] # "idle" /\ key[r] = m}

(* What r has on the counter when Redis answers every call: its estimate   *)
(* from the reservation on, its actual cost once the adjustment fitted.    *)
Booked(r) ==
    CASE pc[r] = "settled" -> bill[r]
      [] pc[r] \in {"calling", "settle", "unsettled", "abandoned"} -> est[r]
      [] OTHER -> 0

Bookings == [r \in Requests |-> Booked(r)]
BookedIn(m) == SumOf(Bookings, Admitted(m))
BilledIn(m) == SumOf(bill, Admitted(m))

(* The part of r's bill that no adjustment has put on the counter.         *)
Unbooked(r) ==
    IF pc[r] # "settled" /\ bill[r] > est[r] THEN bill[r] - est[r] ELSE 0

(* With a Redis that answers, the counter is exactly the sum over requests *)
(* of what each has booked, through month changes, refusals, failures,     *)
(* disconnects and crashes: nothing is counted twice or on another month.  *)
LedgerExact == \A m \in Months : counter[m] = BookedIn(m)

(* The bill of a month passes the largest cap by no more than what was     *)
(* underestimated and could not be adjusted: an admitted request can       *)
(* overrun its estimate, a refused one costs nothing.                      *)
OverspendBounded ==
    \A m \in Months :
        LET unbooked == SumOf([r \in Requests |-> Unbooked(r)], Admitted(m))
        IN  BilledIn(m) <= unbooked \/ \E c \in Caps : BilledIn(m) <= c + unbooked

-----------------------------------------------------------------------------
(* A call without a reply may have been executed by Redis, once for each   *)
(* of its attempts.                                                        *)
HoldsPosted(r) ==
    CASE pc[r] = "idle" -> 0
      [] pc[r] = "reserve" -> tries[r]
      [] pc[r] \in {"refused", "dropped"} -> MaxRetries
      [] OTHER -> MaxRetries + 1

AdjustmentsPosted(r) ==
    CASE pc[r] = "settle" -> tries[r]
      [] pc[r] \in {"settled", "unsettled"} -> MaxRetries + 1
      [] OTHER -> 0

Adjusted(r) == AdjustmentsPosted(r) * (bill[r] - est[r])

MostPosted(r) ==
    HoldsPosted(r) * est[r] + IF bill[r] > est[r] THEN Adjusted(r) ELSE 0

LeastPosted(r) == IF bill[r] < est[r] THEN Adjusted(r) ELSE 0

(* When Redis loses replies the counter drifts, but every request drifts   *)
(* it by no more than its own repeated attempts can: it never carries an   *)
(* attempt of one stage into the next.                                     *)
DriftBounded ==
    \A m \in Months :
        /\ SumOf([r \in Requests |-> LeastPosted(r)], Admitted(m)) <= counter[m]
        /\ counter[m] <= SumOf([r \in Requests |-> MostPosted(r)], Admitted(m))

-----------------------------------------------------------------------------
(* The gateway says it reconciles the difference between estimate and      *)
(* actual cost: once all requests are over, the counter is their bill.     *)
Reconciled ==
    (\A r \in Requests : pc[r] \in Terminal) =>
        \A m \in Months : counter[m] = BilledIn(m)

-----------------------------------------------------------------------------
OnTheBooks(r) == pc[r] \in {"calling", "settle", "settled", "unsettled", "abandoned"}

HoldsStage ==
    [r \in Requests |-> CASE pc[r] \in {"idle", "reserve"} -> "new"
                         [] pc[r] \in {"calling", "settle"} -> "held"
                         [] OTHER -> "closed"]

HoldsSlot == [r \in Requests |-> IF OnTheBooks(r) THEN key[r] ELSE 0]

Abstract == INSTANCE SpendHolds WITH
    Amounts <- Estimates \cup Bills,
    stage <- HoldsStage,
    slot <- HoldsSlot,
    booked <- Bookings

(* With a Redis that answers, the handlers implement the abstract holds,   *)
(* which know the requests' bookings and no counter.                       *)
ImplementsHolds == Abstract!Spec
=============================================================================
