--------------------------- MODULE PaymentLedger ---------------------------
(***************************************************************************)
(* What a payment order promises: it is credited at most once, and only    *)
(* after it was paid; cash is returned only for an order that was          *)
(* credited, and never more than was paid.                                 *)
(***************************************************************************)
EXTENDS Naturals

CONSTANT PayAmount

VARIABLES paid, credits, cash

Init == ~paid /\ credits = 0 /\ cash = 0

Pay == ~paid /\ paid' /\ UNCHANGED <<credits, cash>>

Credit == paid /\ credits = 0 /\ credits' = 1 /\ UNCHANGED <<paid, cash>>

Repay ==
    /\ credits = 1
    /\ \E n \in 1..(PayAmount - cash) : cash' = cash + n
    /\ UNCHANGED <<paid, credits>>

Next == Pay \/ Credit \/ Repay

Spec == Init /\ [][Next]_<<paid, credits, cash>>
=============================================================================
