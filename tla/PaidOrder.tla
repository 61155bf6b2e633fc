----------------------------- MODULE PaidOrder -----------------------------
(***************************************************************************)
(* What a recharge order promises: it is open until it is credited or      *)
(* closed, for good; it is credited once, and only for money that was paid *)
(* or on the word of an administrator.                                     *)
(***************************************************************************)
EXTENDS Naturals

CONSTANTS Link,     \* ways to pay the order
          OnTrust   \* an administrator may credit it unpaid

VARIABLES order, paid, credits

Init ==
    /\ order = "open"
    /\ paid = {}
    /\ credits = 0

Pay ==
    /\ \E a \in Link : paid' = paid \cup {a}
    /\ UNCHANGED <<order, credits>>

Settle ==
    /\ order = "open"
    /\ OnTrust \/ paid # {}
    /\ order' = "credited"
    /\ credits' = credits + 1
    /\ UNCHANGED paid

Close ==
    /\ order = "open"
    /\ order' = "closed"
    /\ UNCHANGED <<paid, credits>>

Next == Pay \/ Settle \/ Close

Spec == Init /\ [][Next]_<<order, paid, credits>>
=============================================================================
