----------------------------- MODULE MCPayment -----------------------------
(***************************************************************************)
(* Instances of PaymentRefund for TLC.                                     *)
(***************************************************************************)
EXTENDS PaymentRefund, TLC

CONSTANTS c1, c2, a1, a2

\* Administrators differ in their name only.
AnyAdmin == Permutations(Admins)

\* What a step can still read: not what a call or a request that ended had
\* read, nor the refunds that no request, and no pending order, refers to.
Referred(n) ==
    \/ gateway[n].status = "pending"
    \/ order.status = "REFUND_PENDING" /\ detail.id = n
    \/ \E a \in Admins : apc[a] # "idle" /\ plan[a].id = n

Relevant ==
    <<order, code, balance, rebated, provider, pc, credits, rebates, late, blind, faults,
      [c \in {d \in Calls : pc[d] # "idle"} |-> <<kind[c], known[c], held[c]>>],
      refundAmount, rollbackFailed, cash, asked, apc, spent, lost, silent,
      [a \in {b \in Admins : apc[b] # "idle"} |-> plan[a]],
      [n \in {m \in 1..MaxRefunds : Referred(m)} |-> gateway[n]],
      IF order.status = "REFUND_PENDING" THEN detail ELSE NoPlan>>
=============================================================================
