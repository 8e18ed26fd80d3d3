----------------------------- MODULE SpendHolds -----------------------------
(***************************************************************************)
(* What the spend counter promises, without a counter: each request books  *)
(* an amount in one month at most; the amounts booked in a month stay      *)
(* within a cap whenever one is added or raised.  A request holds an       *)
(* amount first and may change it once.                                    *)
(***************************************************************************)
EXTENDS Integers, Sums

CONSTANTS
    Requests,
    LastMonth,
    Caps,
    Amounts     \* what a request may book

VARIABLES
    stage,     \* "new", "held" or "closed"
    slot,      \* the month a request is booked in, 0 while in none
    booked     \* the amount booked for it

holds == <<stage, slot, booked>>

Total(m) == SumOf(booked, {r \in Requests : slot[r] = m})

Init ==
    /\ stage = [r \in Requests |-> "new"]
    /\ slot = [r \in Requests |-> 0]
    /\ booked = [r \in Requests |-> 0]

Hold(r, m, a) ==
    /\ stage[r] = "new"
    /\ \E c \in Caps : Total(m) + a <= c
    /\ stage' = [stage EXCEPT ![r] = "held"]
    /\ slot' = [slot EXCEPT ![r] = m]
    /\ booked' = [booked EXCEPT ![r] = a]

Decline(r) ==
    /\ stage[r] = "new"
    /\ stage' = [stage EXCEPT ![r] = "closed"]
    /\ UNCHANGED <<slot, booked>>

Capture(r, a) ==
    /\ stage[r] = "held"
    /\ \E c \in Caps : Total(slot[r]) + a - booked[r] <= c
    /\ stage' = [stage EXCEPT ![r] = "closed"]
    /\ booked' = [booked EXCEPT ![r] = a]
    /\ UNCHANGED slot

(* The hold becomes the charge.                                            *)
Forfeit(r) ==
    /\ stage[r] = "held"
    /\ stage' = [stage EXCEPT ![r] = "closed"]
    /\ UNCHANGED <<slot, booked>>

Next ==
    \E r \in Requests :
        \/ \E m \in 1..LastMonth, a \in Amounts : Hold(r, m, a)
        \/ Decline(r)
        \/ \E a \in Amounts : Capture(r, a)
        \/ Forfeit(r)

Spec == Init /\ [][Next]_holds
=============================================================================
