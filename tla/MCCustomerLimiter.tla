-------------------------- MODULE MCCustomerLimiter --------------------------
(* Limits and clocks for checking CustomerLimiter.                         *)
EXTENDS CustomerLimiter, TLC

(* A tick is a day, and two of them are a month.                           *)
OneTick == [minute |-> 1, hour |-> 1, day |-> 1, month |-> 2]

NoLimit ==
    [spend |-> [w \in SpendWindows |-> Unlimited],
     count |-> [w \in CountWindows |-> Unlimited],
     model |-> [m \in Models |-> Unlimited],
     label |-> Unlimited, perRequest |-> Unlimited, behavior |-> "block"]

SpendLimit == [NoLimit EXCEPT !.spend = [day |-> 3, month |-> 4]]

Symmetry == Permutations(Requests)
SpendOnly == {SpendLimit}
=============================================================================
