--------------------------- MODULE PaymentRefund ---------------------------
(***************************************************************************)
(* Refunds of the order of PaymentOrder, composed with everything that     *)
(* may still happen to it.  An administrator's request prepares a plan     *)
(* (PrepareRefund), then executes it (ExecuteRefund): the status is the    *)
(* lock, the balance is deducted, the gateway is asked, and the outcome is *)
(* written.  A refund that the gateway leaves pending keeps its deduction  *)
(* and is settled by QueryAndFinalizeRefund.  Plans record what the order  *)
(* was when they were made.                                                *)
(***************************************************************************)
EXTENDS PaymentOrder, Integers

CONSTANTS
    Admins,     \* requests of administrators that may run at once
    PayAmount,  \* cash paid for the order
    OtherFunds, \* balance of the user that does not come from the order
    MaxRefunds, \* bound on the refunds asked of the gateway
    MaxSpent    \* bound on what the user spends

ASSUME RefundAssumption ==
    /\ PayAmount \in Nat \ {0}
    /\ OtherFunds \in Nat
    /\ MaxRefunds \in Nat /\ MaxSpent \in Nat

VARIABLES
    refundAmount,   \* refund_amount of the row
    rollbackFailed, \* a REFUND_ROLLBACK_FAILED entry is in the audit log
    detail,         \* the last REFUND_PENDING entry of the audit log
    gateway,        \* the refunds at the gateway, by number: [status, cash]
    cash,           \* ghost: cash the gateway returned
    asked,          \* refunds asked of the gateway so far
    apc,            \* where each administrator's request is
    plan,           \* its RefundPlan
    spent,          \* ghost: spent by the user
    lost,           \* ghost: deducted for refunds that failed, and not returned
    silent          \* ghost: the part of lost that is not in the audit log, and what
                    \* was deducted when the log could not be read

refundVars == <<refundAmount, rollbackFailed, detail, gateway, cash, asked, apc, plan,
                spent, lost, silent>>
vars == <<order, code, balance, rebated, provider, pc, kind, known, held, credits,
          rebates, late, blind, faults, refundVars>>

Refundable == {"COMPLETED", "REFUND_REQUESTED", "REFUND_FAILED", "PARTIALLY_REFUNDED"}
Outcomes == {"none", "pending", "success", "failed"}
NoPlan == [status |-> "COMPLETED", amount |-> 0, cumulative |-> 0, deduct |-> 0,
           id |-> 0]
Plans == [status : Statuses, amount : 0..Amount, cumulative : 0..Amount,
          deduct : 0..Amount, id : 0..MaxRefunds]
APcs == {"idle", "execute", "deduct", "gateway", "ok", "pending", "rollback",
         "restore", "settle"}
\* Requests that hold the order in REFUNDING.
Locking == {"deduct", "gateway", "ok", "pending", "rollback", "restore"}

TypeOK ==
    /\ OrderTypeOK
    /\ refundAmount \in 0..Amount
    /\ rollbackFailed \in BOOLEAN
    /\ detail \in Plans
    /\ gateway \in [1..MaxRefunds -> [status : Outcomes, cash : 0..PayAmount]]
    /\ cash \in Nat
    /\ asked \in 0..MaxRefunds
    /\ apc \in [Admins -> APcs]
    /\ plan \in [Admins -> Plans]
    /\ spent \in Nat
    /\ lost \in Nat
    /\ silent \in Nat

Init ==
    /\ OrderInit(OtherFunds)
    /\ refundAmount = 0
    /\ rollbackFailed = FALSE
    /\ detail = NoPlan
    /\ gateway = [n \in 1..MaxRefunds |-> [status |-> "none", cash |-> 0]]
    /\ cash = 0
    /\ asked = 0
    /\ apc = [a \in Admins |-> "idle"]
    /\ plan = [a \in Admins |-> NoPlan]
    /\ spent = 0
    /\ lost = 0
    /\ silent = 0

AGoto(a, l) == apc' = [apc EXCEPT ![a] = l]
OrMin(m, n) == IF m <= n THEN m ELSE n

\* cumulativeRefundCash: the cash that a credited amount is worth, rounded to
\* the currency's precision.
CashOf(credited) == (PayAmount * credited + Amount \div 2) \div Amount
-----------------------------------------------------------------------------
\* RequestRefund, by the user.
RequestRefund ==
    /\ order.status = "COMPLETED"
    /\ balance >= Amount
    /\ Update([order EXCEPT !.status = "REFUND_REQUESTED"])
    /\ UNCHANGED <<code, balance, rebated, provider, pc, kind, known, credits, rebates,
                   late, blind, faults, refundVars>>

\* The gateway charges the user for a request.
UserSpends ==
    /\ balance > 0 /\ spent < MaxSpent
    /\ balance' = balance - 1
    /\ spent' = spent + 1
    /\ UNCHANGED <<order, code, rebated, provider, pc, kind, known, held, credits, rebates,
                   late, blind, faults, refundAmount, rollbackFailed, detail, gateway, cash,
                   asked, apc, plan, lost, silent>>

orderRest == <<code, rebated, provider, pc, kind, known, credits, rebates, late, blind>>

\* Mutant: the amount is compared with the order's, not with what remains.
PrepareRefundWhole(a, amt, force, deduct) ==
    /\ apc[a] = "idle"
    /\ order.status \in Refundable
    /\ amt <= Amount
    /\ ~deduct \/ force \/ balance >= amt
    /\ plan' = [plan EXCEPT ![a] =
            [status |-> order.status, amount |-> amt, cumulative |-> refundAmount + amt,
             deduct |-> IF deduct THEN OrMin(amt, balance) ELSE 0, id |-> 0]]
    /\ AGoto(a, "execute")
    /\ UNCHANGED <<order, held, balance, faults, orderRest, refundAmount, rollbackFailed,
                   detail, gateway, cash, asked, spent, lost, silent>>

\* PrepareRefund and prepDeduct.  A balance that does not cover the refund
\* needs force.
PrepareRefund(a, amt, force, deduct) ==
    /\ apc[a] = "idle"
    /\ order.status \in Refundable
    /\ amt <= Amount - refundAmount
    /\ ~deduct \/ force \/ balance >= amt
    /\ plan' = [plan EXCEPT ![a] =
            [status |-> order.status, amount |-> amt, cumulative |-> refundAmount + amt,
             deduct |-> IF deduct THEN OrMin(amt, balance) ELSE 0, id |-> 0]]
    /\ AGoto(a, "execute")
    /\ UNCHANGED <<order, held, balance, faults, orderRest, refundAmount, rollbackFailed,
                   detail, gateway, cash, asked, spent, lost, silent>>

\* Mutant: the order is taken whatever its status.
LockRefundAnyway(a) ==
    /\ apc[a] = "execute"
    /\ Update([order EXCEPT !.status = "REFUNDING"])
    /\ AGoto(a, "deduct")
    /\ UNCHANGED <<balance, faults, orderRest, refundAmount, rollbackFailed, detail, gateway,
                   cash, asked, plan, spent, lost, silent>>

\* ExecuteRefund takes the order by its status.
LockRefund(a) ==
    /\ apc[a] = "execute"
    /\ IF order.status \in Refundable
       THEN /\ Update([order EXCEPT !.status = "REFUNDING"])
            /\ AGoto(a, "deduct")
       ELSE /\ AGoto(a, "idle")
            /\ UNCHANGED <<order, held>>
    /\ UNCHANGED <<balance, faults, orderRest, refundAmount, rollbackFailed, detail, gateway,
                   cash, asked, plan, spent, lost, silent>>

\* Mutant: a retry deducts again what could not be returned.
DeductAgain(a) ==
    /\ apc[a] = "deduct"
    /\ LET d == OrMin(plan[a].deduct, balance)
       IN  /\ balance' = balance - d
           /\ plan' = [plan EXCEPT ![a].deduct = d]
    /\ AGoto(a, "gateway")
    /\ UNCHANGED <<order, held, faults, orderRest, refundAmount, rollbackFailed, detail,
                   gateway, cash, asked, spent, lost, silent>>

\* The deduction, left out when an earlier one could not be returned.
DeductBalance(a) ==
    /\ apc[a] = "deduct"
    /\ LET d == IF rollbackFailed THEN 0 ELSE OrMin(plan[a].deduct, balance)
       IN  /\ balance' = balance - d
           /\ plan' = [plan EXCEPT ![a].deduct = d]
    /\ AGoto(a, "gateway")
    /\ UNCHANGED <<order, held, faults, orderRest, refundAmount, rollbackFailed, detail,
                   gateway, cash, asked, spent, lost, silent>>

\* Mutant: every refund is rounded by itself.
RefundCashDeltaRounded(p) == CashOf(p.amount)

\* refundCashDelta: the cash for the plan's share of the order, by cumulated
\* amounts.
RefundCashDelta(p) == CashOf(p.cumulative) - CashOf(p.cumulative - p.amount)

\* gwRefund asks for the cash that the plan's share of the order is worth:
\* the gateway returns it, leaves the refund pending, or refuses it.
GatewayRefund(a) ==
    /\ apc[a] = "gateway"
    /\ asked < MaxRefunds
    /\ LET id == asked + 1
           share == RefundCashDelta(plan[a])
       IN  /\ asked' = id
           /\ plan' = [plan EXCEPT ![a].id = id]
           /\ \E answer \in {"success", "pending", "failed"} :
                /\ gateway' = [gateway EXCEPT ![id] = [status |-> answer, cash |-> share]]
                /\ cash' = IF answer = "success" THEN cash + share ELSE cash
                /\ AGoto(a, CASE answer = "success" -> "ok"
                              [] answer = "pending" -> "pending"
                              [] answer = "failed" -> "rollback")
    /\ UNCHANGED <<order, held, balance, faults, orderRest, refundAmount, rollbackFailed,
                   detail, spent, lost, silent>>

FinalStatus(p) == IF p.cumulative < Amount THEN "PARTIALLY_REFUNDED" ELSE "REFUNDED"

MarkRefundOk(a) ==
    /\ apc[a] = "ok"
    /\ Update([order EXCEPT !.status = FinalStatus(plan[a])])
    /\ refundAmount' = plan[a].cumulative
    /\ AGoto(a, "idle")
    /\ UNCHANGED <<balance, faults, orderRest, rollbackFailed, detail, gateway, cash, asked,
                   plan, spent, lost, silent>>

\* markRefundPending: the status, the amount and the audit entry that keeps
\* the deduction are one transaction.
MarkRefundPending(a) ==
    /\ apc[a] = "pending"
    /\ Update([order EXCEPT !.status = "REFUND_PENDING"])
    /\ refundAmount' = plan[a].cumulative
    /\ detail' = plan[a]
    /\ AGoto(a, "idle")
    /\ UNCHANGED <<balance, faults, orderRest, rollbackFailed, gateway, cash, asked, plan,
                   spent, lost, silent>>

RollbackRefund(a) ==
    /\ apc[a] = "rollback"
    /\ balance' = balance + plan[a].deduct
    /\ AGoto(a, "restore")
    /\ UNCHANGED <<order, held, faults, orderRest, refundAmount, rollbackFailed, detail,
                   gateway, cash, asked, plan, spent, lost, silent>>

\* restoreStatus: a plan made from a failed refund restores COMPLETED.
RestoreStatus(a) ==
    /\ apc[a] = "restore"
    /\ Update([order EXCEPT !.status =
            IF plan[a].status \in {"REFUND_REQUESTED", "PARTIALLY_REFUNDED"}
            THEN plan[a].status ELSE "COMPLETED"])
    /\ AGoto(a, "idle")
    /\ UNCHANGED <<balance, faults, orderRest, refundAmount, rollbackFailed, detail, gateway,
                   cash, asked, plan, spent, lost, silent>>

\* QueryAndFinalizeRefund reads the order, the entry of its pending refund
\* and what the gateway says of that refund; a refund still pending is left.
QueryRefund(a) ==
    /\ apc[a] = "idle"
    /\ order.status = "REFUND_PENDING"
    /\ gateway[detail.id].status \in {"success", "failed"}
    /\ plan' = [plan EXCEPT ![a] = detail]
    /\ AGoto(a, "settle")
    /\ UNCHANGED <<order, held, balance, faults, orderRest, refundAmount, rollbackFailed,
                   detail, gateway, cash, asked, spent, lost, silent>>

\* finalizePendingRefundSuccess: the deduction was kept, nothing is deducted.
FinalizeSuccess(a) ==
    /\ apc[a] = "settle"
    /\ gateway[plan[a].id].status = "success"
    /\ IF order.status = "REFUND_PENDING"
       THEN /\ Update([order EXCEPT !.status = FinalStatus(plan[a])])
            /\ refundAmount' = plan[a].cumulative
       ELSE UNCHANGED <<order, held, refundAmount>>
    /\ AGoto(a, "idle")
    /\ UNCHANGED <<balance, faults, orderRest, rollbackFailed, detail, gateway, cash, asked,
                   plan, spent, lost, silent>>

\* Mutant: refund_amount keeps the refund that failed.
FinalizeFailedKeeps(a) ==
    /\ apc[a] = "settle"
    /\ gateway[plan[a].id].status = "failed"
    /\ IF order.status = "REFUND_PENDING"
       THEN /\ Update([order EXCEPT !.status = "REFUND_FAILED"])
            /\ balance' = balance + plan[a].deduct
       ELSE UNCHANGED <<order, held, balance>>
    /\ AGoto(a, "idle")
    /\ UNCHANGED <<refundAmount, faults, orderRest, rollbackFailed, detail, gateway, cash,
                   asked, plan, spent, lost, silent>>

\* finalizeRefundFailedTx: the refund is taken back and the deduction with it.
FinalizeFailed(a) ==
    /\ apc[a] = "settle"
    /\ gateway[plan[a].id].status = "failed"
    /\ IF order.status = "REFUND_PENDING"
       THEN /\ Update([order EXCEPT !.status = "REFUND_FAILED"])
            /\ refundAmount' = plan[a].cumulative - plan[a].amount
            /\ balance' = balance + plan[a].deduct
       ELSE UNCHANGED <<order, held, refundAmount, balance>>
    /\ AGoto(a, "idle")
    /\ UNCHANGED <<faults, orderRest, rollbackFailed, detail, gateway, cash, asked, plan,
                   spent, lost, silent>>

\* The gateway settles a refund it left pending.
GatewaySettles ==
    /\ \E n \in 1..asked, outcome \in {"success", "failed"} :
        /\ gateway[n].status = "pending"
        /\ gateway' = [gateway EXCEPT ![n].status = outcome]
        /\ cash' = IF outcome = "success" THEN cash + gateway[n].cash ELSE cash
    /\ UNCHANGED <<order, held, balance, faults, orderRest, refundAmount, rollbackFailed,
                   detail, asked, apc, plan, spent, lost, silent>>

-----------------------------------------------------------------------------
\* hasAuditLog takes an audit log that it cannot read for an empty one: what
\* could not be returned is deducted again.
AuditUnread(a) ==
    /\ faults < MaxFaults
    /\ apc[a] = "deduct" /\ rollbackFailed
    /\ faults' = faults + 1
    /\ LET d == OrMin(plan[a].deduct, balance)
       IN  /\ balance' = balance - d
           /\ plan' = [plan EXCEPT ![a].deduct = d]
           /\ silent' = silent + d
    /\ AGoto(a, "gateway")
    /\ UNCHANGED <<order, held, orderRest, refundAmount, rollbackFailed, detail, gateway,
                   cash, asked, spent, lost>>

\* The deduction fails and the order is given back.
DeductError(a) ==
    /\ faults < MaxFaults
    /\ apc[a] = "deduct"
    /\ faults' = faults + 1
    /\ AGoto(a, "restore")
    /\ UNCHANGED <<order, held, balance, orderRest, refundAmount, rollbackFailed, detail,
                   gateway, cash, asked, plan, spent, lost, silent>>

\* The deduction cannot be returned: handleGwFail marks the refund failed, and
\* RollbackRefund writes an audit entry, unless that write fails as well.
RollbackError(a) ==
    /\ faults < MaxFaults
    /\ apc[a] = "rollback" /\ plan[a].deduct > 0
    /\ faults' = faults + 1
    /\ \E recorded \in BOOLEAN :
        /\ rollbackFailed' = (rollbackFailed \/ recorded)
        /\ silent' = IF recorded THEN silent ELSE silent + plan[a].deduct
    /\ lost' = lost + plan[a].deduct
    /\ Update([order EXCEPT !.status = "REFUND_FAILED"])
    /\ AGoto(a, "idle")
    /\ UNCHANGED <<balance, orderRest, refundAmount, detail, gateway, cash, asked, plan,
                   spent>>

\* finalizeRefundFailed when the deduction that was kept cannot be returned:
\* a second transaction takes the refund back and records the loss.
FinalizeUnreturned(a) ==
    /\ faults < MaxFaults
    /\ apc[a] = "settle" /\ plan[a].deduct > 0
    /\ gateway[plan[a].id].status = "failed"
    /\ order.status = "REFUND_PENDING"
    /\ faults' = faults + 1
    /\ Update([order EXCEPT !.status = "REFUND_FAILED"])
    /\ refundAmount' = plan[a].cumulative - plan[a].amount
    /\ rollbackFailed' = TRUE
    /\ lost' = lost + plan[a].deduct
    /\ AGoto(a, "idle")
    /\ UNCHANGED <<balance, orderRest, detail, gateway, cash, asked, plan, spent,
                   silent>>

\* The process stops, or the statement that would end the request fails: an
\* order in REFUNDING stays there.
RefundCrash(a) ==
    /\ faults < MaxFaults
    /\ apc[a] # "idle"
    /\ faults' = faults + 1
    /\ AGoto(a, "idle")
    /\ UNCHANGED <<order, held, balance, orderRest, refundAmount, rollbackFailed, detail,
                   gateway, cash, asked, plan, spent, lost, silent>>

RefundStep(a) ==
    \/ \E amt \in 1..Amount, force, deduct \in BOOLEAN : PrepareRefund(a, amt, force, deduct)
    \/ LockRefund(a) \/ DeductBalance(a) \/ GatewayRefund(a) \/ MarkRefundOk(a)
    \/ MarkRefundPending(a) \/ RollbackRefund(a) \/ RestoreStatus(a)
    \/ QueryRefund(a) \/ FinalizeSuccess(a) \/ FinalizeFailed(a)

RefundFault(a) ==
    \/ AuditUnread(a) \/ DeductError(a) \/ RollbackError(a) \/ FinalizeUnreturned(a)
    \/ RefundCrash(a)

Next ==
    \/ OrderNext /\ UNCHANGED refundVars
    \/ \E a \in Admins : RefundStep(a) \/ RefundFault(a)
    \/ RequestRefund \/ UserSpends \/ GatewaySettles

Spec == Init /\ [][Next]_vars
FairSpec == Spec /\ OrderFairness

\* Requests that act on what they read: a plan that takes the order was made
\* from the amount refunded by then, and a finalization settles the refund
\* that is pending.  Nothing in the code enforces it (CashWithinPayment), so
\* it is a hypothesis on how administrators' requests overlap.
FreshPlan(a) ==
    /\ apc[a] = "execute" /\ apc'[a] = "deduct" =>
            plan[a].cumulative = refundAmount + plan[a].amount
    /\ apc[a] = "settle" /\ order' # order => plan[a] = detail

FreshNext ==
    \/ OrderNext /\ UNCHANGED refundVars
    \/ \E a \in Admins : (RefundStep(a) \/ RefundFault(a)) /\ FreshPlan(a)
    \/ RequestRefund \/ UserSpends \/ GatewaySettles

FreshSpec == Init /\ [][FreshNext]_vars

-----------------------------------------------------------------------------
\* What the refunds have taken from the user's balance so far.
Deducted == OtherFunds + Amount * credits - spent - balance

\* The order is held by at most one refund at a time, and is REFUNDING while
\* it is: ExecuteRefund takes it by its status, and every other writer of the
\* status (notifications, fulfilment, user, finalization) leaves it alone.
OneRefundInFlight ==
    /\ \A a, b \in Admins : apc[a] \in Locking /\ apc[b] \in Locking => a = b
    /\ \A a \in Admins : apc[a] \in Locking => order.status = "REFUNDING"

\* refund_amount is what has been refunded: unless a refund is being executed,
\* the cash the gateway returned is the cash that refund_amount is worth, less
\* the share of a pending refund that the gateway has not paid (refundCashDelta,
\* markRefundOk, markRefundPending, finalizeRefundFailed).
RefundRecorded ==
    order.status # "REFUNDING" =>
        cash = CashOf(refundAmount)
               - (IF order.status = "REFUND_PENDING" /\ gateway[detail.id].status # "success"
                  THEN gateway[detail.id].cash ELSE 0)

\* Unless a refund is being executed, the user has lost no more balance to
\* refunds than refund_amount, but for deductions that could not be returned;
\* and never more than the order credited, but for what was deducted although
\* the loss of an earlier deduction was not in the audit log, where the retry
\* looks for it, or could not be read there (ExecuteRefund, hasAuditLog,
\* RollbackRefund, finalizeRefundFailed).
NoDoubleDeduction ==
    /\ order.status # "REFUNDING" => Deducted <= refundAmount + lost
    /\ Deducted <= Amount + silent

\* Cumulative cash repayment never exceeds the original pay_amount (PAYMENT.md,
\* PrepareRefund, refundCashDelta).
CashWithinPayment == cash <= PayAmount

\* The order and its refunds implement PaymentLedger: one credit for a
\* payment, and never more cash back than was paid.
Ledger == INSTANCE PaymentLedger WITH paid <- provider.paid
LedgerImplemented == Ledger!Spec
=============================================================================
