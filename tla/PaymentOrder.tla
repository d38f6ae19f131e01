---------------------------- MODULE PaymentOrder ----------------------------
(***************************************************************************)
(* The life of one balance order of PaymentService, from PENDING to        *)
(* COMPLETED: notifications of the provider, cancellation, expiry,         *)
(* verification against the provider, fulfilment under a lease, and the    *)
(* administrator's retry.  Every database statement is a step of its own;  *)
(* what a call decides after it reads is kept in its program counter.      *)
(*                                                                         *)
(* updated_at is written by every update of the row.  It is kept as the    *)
(* time since the last update, and a lease version (the updated_at that a  *)
(* call read back) as whether it still equals the one of the row: an       *)
(* update makes every version that calls hold a different one.             *)
(***************************************************************************)
EXTENDS Naturals

CONSTANTS
    Calls,          \* calls into PaymentService that may run at once
    LeaseDuration,  \* paymentFulfillmentLeaseDuration
    Grace,          \* paymentGraceMinutes
    Amount,         \* credited by the order
    MaxFaults       \* bound on crashes and failed statements

ASSUME OrderAssumption ==
    /\ LeaseDuration \in Nat \ {0}
    /\ Grace \in Nat
    /\ Amount \in Nat \ {0}
    /\ MaxFaults \in Nat

VARIABLES
    order,      \* the row: [status, age, paidAt, tradeNo, due]
    code,       \* the redeem code RechargeCode: "none", "unused" or "used"
    balance,    \* the user's balance
    rebated,    \* the affiliate rebate's claim in the audit log
    provider,   \* [paid, closed, acked] of the payment at the provider
    pc,         \* where each call is
    kind,       \* what each call was made for
    known,      \* whether the row a call read had the provider's trade number
    held,       \* whether a call's lease version is the row's updated_at
    credits,    \* ghost: times the order was credited
    rebates,    \* ghost: times the rebate was accrued
    late,       \* ghost: a notification was acknowledged past the grace period
    blind,      \* ghost: one was acknowledged although the order could not be read
    faults      \* faults so far

orderVars == <<order, code, balance, rebated, provider, pc, kind, known, held, credits,
               rebates, late, blind, faults>>

Refundish == {"REFUND_REQUESTED", "REFUNDING", "REFUND_PENDING", "PARTIALLY_REFUNDED",
              "REFUNDED", "REFUND_FAILED"}
Statuses == {"PENDING", "PAID", "RECHARGING", "COMPLETED", "FAILED", "CANCELLED",
             "EXPIRED"} \cup Refundish
Fulfillable == {"PAID", "FAILED", "RECHARGING"}
Kinds == {"notify", "cancel", "expire", "verify", "retry"}
Pcs == {"idle", "query", "persist", "close", "toPaid", "already", "fulfil", "acquire",
        "conflict", "reload", "lookup", "create", "redeem", "use", "rebate", "complete",
        "lost", "fail"}
MaxAge == IF LeaseDuration > Grace THEN LeaseDuration ELSE Grace + 1

OrderTypeOK ==
    /\ order \in [status : Statuses, age : 0..MaxAge, paidAt : BOOLEAN,
                  tradeNo : BOOLEAN, due : BOOLEAN]
    /\ code \in {"none", "unused", "used"}
    /\ balance \in Nat
    /\ rebated \in BOOLEAN
    /\ provider \in [paid : BOOLEAN, closed : BOOLEAN, acked : BOOLEAN]
    /\ pc \in [Calls -> Pcs]
    /\ kind \in [Calls -> Kinds]
    /\ known \in [Calls -> BOOLEAN]
    /\ held \in [Calls -> BOOLEAN]
    /\ credits \in 0..2
    /\ rebates \in 0..2
    /\ late \in BOOLEAN
    /\ blind \in BOOLEAN
    /\ faults \in 0..MaxFaults

\* An order just created, for a user whose balance is funds.
OrderInit(funds) ==
    /\ order = [status |-> "PENDING", age |-> 0, paidAt |-> FALSE, tradeNo |-> FALSE,
                due |-> FALSE]
    /\ code = "none"
    /\ balance = funds
    /\ rebated = FALSE
    /\ provider = [paid |-> FALSE, closed |-> FALSE, acked |-> FALSE]
    /\ pc = [c \in Calls |-> "idle"]
    /\ kind = [c \in Calls |-> "notify"]
    /\ known = [c \in Calls |-> FALSE]
    /\ held = [c \in Calls |-> FALSE]
    /\ credits = 0
    /\ rebates = 0
    /\ late = FALSE
    /\ blind = FALSE
    /\ faults = 0

-----------------------------------------------------------------------------
\* An update of the row: updated_at changes with it, so no version read
\* before is the row's any more.
Update(row) ==
    /\ order' = [row EXCEPT !.age = 0]
    /\ held' = [c \in Calls |-> FALSE]

\* The call goes on at l.
Goto(c, l) == pc' = [pc EXCEPT ![c] = l]

\* The call returns.  A notification that returns no error is acknowledged,
\* and the provider stops sending it.
Return(c, ok) ==
    /\ Goto(c, "idle")
    /\ provider' = [provider EXCEPT !.acked = @ \/ (ok /\ kind[c] = "notify")]

rest == <<code, balance, rebated, credits, rebates>>

Start(c, k, l) ==
    /\ pc[c] = "idle"
    /\ kind' = [kind EXCEPT ![c] = k]
    /\ known' = [known EXCEPT ![c] = order.tradeNo /\ l = "query"]
    /\ Goto(c, l)
    /\ UNCHANGED <<order, held, provider, late, blind, faults, rest>>

\* The provider notifies a payment until it is acknowledged.
HandlePaymentNotification(c) ==
    /\ provider.paid /\ ~provider.acked
    /\ Start(c, "notify", "toPaid")

\* CancelOrder and AdminCancelOrder.
CancelOrder(c) == order.status = "PENDING" /\ Start(c, "cancel", "query")

ExpireTimedOutOrders(c) ==
    /\ order.status = "PENDING" /\ order.due
    /\ Start(c, "expire", "query")

\* VerifyOrderByOutTradeNo, and ReconcilePendingPaymentOrders for an order
\* that is not due.
VerifyOrderByOutTradeNo(c) ==
    /\ order.status \in {"PENDING", "EXPIRED"}
    /\ Start(c, "verify", "query")

RetryFulfillment(c) ==
    /\ order.paidAt /\ order.status \in Fulfillable
    /\ Start(c, "retry", "fulfil")

\* checkPaidWithOptions: what the provider answers.  A payment that is not
\* made may be closed there, best effort, before the order is.  The call of a
\* user who only verifies ends.
QueryOrder(c) ==
    /\ pc[c] = "query"
    /\ \/ /\ provider.paid
          /\ Goto(c, "persist")
          /\ UNCHANGED provider
       \/ /\ ~provider.paid
          /\ kind[c] # "verify"
          /\ \E closes \in BOOLEAN : provider' = [provider EXCEPT !.closed = @ \/ closes]
          /\ Goto(c, "close")
       \/ /\ ~provider.paid
          /\ kind[c] = "verify"
          /\ Goto(c, "idle")
          /\ UNCHANGED provider
    /\ UNCHANGED <<order, kind, known, held, late, blind, faults, rest>>

\* The provider's trade number, where it is new to the row that the call
\* read, is written whatever the row is by now; then the payment is handled as
\* notified.  It may be the reference of the query, which is not written.
PersistTradeNo(c) ==
    /\ pc[c] = "persist"
    /\ Goto(c, "toPaid")
    /\ known' = [known EXCEPT ![c] = FALSE]
    /\ \/ ~known[c] /\ Update([order EXCEPT !.tradeNo = TRUE])
       \/ UNCHANGED <<order, held>>
    /\ UNCHANGED <<kind, provider, late, blind, faults, rest>>

\* cancelCore, once the provider did not say that the order is paid.
CancelCore(c) ==
    /\ pc[c] = "close"
    /\ IF order.status = "PENDING"
       THEN Update([order EXCEPT !.status = IF kind[c] = "expire" THEN "EXPIRED"
                                            ELSE "CANCELLED"])
       ELSE UNCHANGED <<order, held>>
    /\ Goto(c, "idle")
    /\ UNCHANGED <<kind, known, provider, late, blind, faults, rest>>

ToPaid(c) ==
    /\ pc[c] = "toPaid"
    /\ IF \/ order.status \in {"PENDING", "CANCELLED"}
          \/ order.status = "EXPIRED" /\ order.age <= Grace
       THEN /\ Update([order EXCEPT !.status = "PAID", !.paidAt = TRUE, !.tradeNo = TRUE])
            /\ Goto(c, "fulfil")
       ELSE /\ Goto(c, "already")
            /\ UNCHANGED <<order, held>>
    /\ UNCHANGED <<kind, known, provider, late, blind, faults, rest>>

AlreadyProcessed(c) ==
    /\ pc[c] = "already"
    /\ IF order.status \in Fulfillable
       THEN Goto(c, "fulfil") /\ UNCHANGED provider
       ELSE Return(c, TRUE)
    /\ late' = (late \/ (order.status = "EXPIRED" /\ kind[c] = "notify"))
    /\ UNCHANGED <<order, kind, known, held, blind, faults, rest>>

\* executeFulfillment and the checks of ExecuteBalanceFulfillment.
ExecuteFulfillment(c) ==
    /\ pc[c] = "fulfil"
    /\ IF order.status \in Fulfillable
       THEN Goto(c, "acquire") /\ UNCHANGED provider
       ELSE Return(c, order.status = "COMPLETED")
    /\ UNCHANGED <<order, kind, known, held, late, blind, faults, rest>>

\* Mutant: a lease that ran out is not taken over.
AcquireLeaseOnce(c) ==
    /\ pc[c] = "acquire"
    /\ IF order.status \in {"PAID", "FAILED"}
       THEN /\ Update([order EXCEPT !.status = "RECHARGING"])
            /\ Goto(c, "reload")
       ELSE /\ Goto(c, "conflict")
            /\ UNCHANGED <<order, held>>
    /\ UNCHANGED <<kind, known, provider, late, blind, faults, rest>>

\* acquirePaymentFulfillmentLease: the update that takes the lease...
AcquireLease(c) ==
    /\ pc[c] = "acquire"
    /\ IF \/ order.status \in {"PAID", "FAILED"}
          \/ order.status = "RECHARGING" /\ order.age >= LeaseDuration
       THEN /\ Update([order EXCEPT !.status = "RECHARGING"])
            /\ Goto(c, "reload")
       ELSE /\ Goto(c, "conflict")
            /\ UNCHANGED <<order, held>>
    /\ UNCHANGED <<kind, known, provider, late, blind, faults, rest>>

\* Mutant: a lease that another call has counts as the order's completion.
LeaseConflictIgnored(c) ==
    /\ pc[c] = "conflict"
    /\ Return(c, TRUE)
    /\ UNCHANGED <<order, kind, known, held, late, blind, faults, rest>>

\* ... the read that finds out why it took none ...
LeaseConflict(c) ==
    /\ pc[c] = "conflict"
    /\ Return(c, order.status = "COMPLETED")
    /\ UNCHANGED <<order, kind, known, held, late, blind, faults, rest>>

\* ... and the read of the version it took.
ReloadLease(c) ==
    /\ pc[c] = "reload"
    /\ IF order.status = "RECHARGING"
       THEN /\ held' = [held EXCEPT ![c] = TRUE]
            /\ Goto(c, "lookup")
            /\ UNCHANGED provider
       ELSE Return(c, FALSE) /\ UNCHANGED held
    /\ UNCHANGED <<order, kind, known, late, blind, faults, rest>>

\* Mutant: a code that exists is taken for one that was redeemed.
ResolveExisting(c) ==
    /\ pc[c] = "lookup"
    /\ Goto(c, IF code = "none" THEN "create" ELSE "rebate")
    /\ UNCHANGED <<order, kind, known, held, provider, late, blind, faults, rest>>

\* doBalance and resolveRedeemAction.
ResolveRedeemAction(c) ==
    /\ pc[c] = "lookup"
    /\ Goto(c, CASE code = "none" -> "create"
                 [] code = "unused" -> "redeem"
                 [] code = "used" -> "rebate")
    /\ UNCHANGED <<order, kind, known, held, provider, late, blind, faults, rest>>

\* The code is unique: to create it a second time fails.
CreateCode(c) ==
    /\ pc[c] = "create"
    /\ IF code = "none"
       THEN code' = "unused" /\ Goto(c, "redeem")
       ELSE UNCHANGED code /\ Goto(c, "fail")
    /\ UNCHANGED <<order, kind, known, held, provider, late, blind, faults, balance,
                   rebated, credits, rebates>>

\* redeem: the lock of the code, which a Redis error lets through, and the
\* read of the code.
RedeemChecks(c) ==
    /\ pc[c] = "redeem"
    /\ \/ code = "unused" /\ Goto(c, "use")
       \/ code = "used" /\ Goto(c, "fail")
       \/ (\E d \in Calls \ {c} : pc[d] = "use") /\ Goto(c, "fail")
    /\ UNCHANGED <<order, kind, known, held, provider, late, blind, faults, rest>>

\* Mutant: the transaction does not look whether the code is still unused.
RedeemTxUnchecked(c) ==
    /\ pc[c] = "use"
    /\ code' = "used"
    /\ balance' = balance + Amount
    /\ credits' = credits + 1
    /\ Goto(c, "rebate")
    /\ UNCHANGED <<order, kind, known, held, provider, late, blind, faults, rebated, rebates>>

\* The transaction that marks the code used and credits the balance.
RedeemTx(c) ==
    /\ pc[c] = "use"
    /\ IF code = "unused"
       THEN /\ code' = "used"
            /\ balance' = balance + Amount
            /\ credits' = credits + 1
            /\ Goto(c, "rebate")
       ELSE Goto(c, "fail") /\ UNCHANGED <<code, balance, credits>>
    /\ UNCHANGED <<order, kind, known, held, provider, late, blind, faults, rebated, rebates>>

\* applyAffiliateRebateForOrder: the claim and the accrual are one
\* transaction.
ApplyAffiliateRebate(c) ==
    /\ pc[c] = "rebate"
    /\ Goto(c, "complete")
    /\ IF rebated
       THEN UNCHANGED <<rebated, rebates>>
       ELSE rebated' = TRUE /\ rebates' = rebates + 1
    /\ UNCHANGED <<order, kind, known, held, provider, late, blind, faults, code, balance,
                   credits>>

MarkCompleted(c) ==
    /\ pc[c] = "complete"
    /\ IF order.status = "RECHARGING" /\ held[c]
       THEN /\ Update([order EXCEPT !.status = "COMPLETED"])
            /\ Return(c, TRUE)
       ELSE /\ Goto(c, "lost")
            /\ UNCHANGED <<order, held, provider>>
    /\ UNCHANGED <<kind, known, late, blind, faults, rest>>

\* The read that follows an update which found another version.
CompletionLost(c) ==
    /\ pc[c] = "lost"
    /\ IF order.status = "COMPLETED"
       THEN Return(c, TRUE)
       ELSE Goto(c, "fail") /\ UNCHANGED provider
    /\ UNCHANGED <<order, kind, known, held, late, blind, faults, rest>>

MarkFailed(c) ==
    /\ pc[c] = "fail"
    /\ IF order.status = "RECHARGING" /\ held[c]
       THEN Update([order EXCEPT !.status = "FAILED"])
       ELSE UNCHANGED <<order, held>>
    /\ Return(c, FALSE)
    /\ UNCHANGED <<kind, known, late, blind, faults, rest>>

-----------------------------------------------------------------------------
\* A statement of doBalance fails: the order is marked failed.
FulfilError(c) ==
    /\ faults < MaxFaults
    /\ pc[c] \in {"lookup", "create", "redeem", "use", "rebate", "complete"}
    /\ faults' = faults + 1
    /\ Goto(c, "fail")
    /\ UNCHANGED <<order, kind, known, held, provider, late, blind, rest>>

\* The query of the provider fails: the order is closed all the same, but a
\* verification ends.
QueryError(c) ==
    /\ faults < MaxFaults
    /\ pc[c] = "query"
    /\ faults' = faults + 1
    /\ Goto(c, IF kind[c] = "verify" THEN "idle" ELSE "close")
    /\ UNCHANGED <<order, kind, known, held, provider, late, blind, rest>>

\* The order cannot be read, in confirmPayment or in alreadyProcessed: the
\* error is dropped, and the notification is answered with success.
SwallowedRead(c) ==
    /\ faults < MaxFaults
    /\ pc[c] \in {"toPaid", "already"}
    /\ faults' = faults + 1
    /\ Return(c, TRUE)
    /\ blind' = (blind \/ kind[c] = "notify")
    /\ UNCHANGED <<order, kind, known, held, late, rest>>

\* The process stops, or a statement before the lease fails, or the one that
\* should mark the order failed: the call ends where it is.
Crash(c) ==
    /\ faults < MaxFaults
    /\ pc[c] # "idle"
    /\ faults' = faults + 1
    /\ Goto(c, "idle")
    /\ UNCHANGED <<order, kind, known, held, provider, late, blind, rest>>

\* The user pays, unless the payment was closed at the provider.
UserPays ==
    /\ ~provider.paid /\ ~provider.closed
    /\ provider' = [provider EXCEPT !.paid = TRUE]
    /\ UNCHANGED <<order, pc, kind, known, held, late, blind, faults, rest>>

\* Time passes for the row, and for the order to be paid.
Tick ==
    /\ order' = [order EXCEPT !.age = IF @ < MaxAge THEN @ + 1 ELSE @, !.due = TRUE]
    /\ order' # order
    /\ UNCHANGED <<pc, kind, known, held, provider, late, blind, faults, rest>>

Fulfilment(c) ==
    \/ ToPaid(c) \/ AlreadyProcessed(c) \/ ExecuteFulfillment(c) \/ AcquireLease(c)
    \/ LeaseConflict(c) \/ ReloadLease(c) \/ ResolveRedeemAction(c) \/ CreateCode(c)
    \/ RedeemChecks(c) \/ RedeemTx(c) \/ ApplyAffiliateRebate(c) \/ MarkCompleted(c)
    \/ CompletionLost(c) \/ MarkFailed(c)

Lifecycle(c) ==
    \/ HandlePaymentNotification(c) \/ CancelOrder(c) \/ ExpireTimedOutOrders(c)
    \/ VerifyOrderByOutTradeNo(c) \/ RetryFulfillment(c)
    \/ QueryOrder(c) \/ PersistTradeNo(c) \/ CancelCore(c)

OrderFault(c) == FulfilError(c) \/ QueryError(c) \/ SwallowedRead(c) \/ Crash(c)

OrderNext ==
    \/ \E c \in Calls : Fulfilment(c) \/ Lifecycle(c) \/ OrderFault(c)
    \/ UserPays \/ Tick

\* A call that runs goes on until it returns; time passes; the provider sends
\* a notification again and again until it is acknowledged.
OrderFairness ==
    /\ \A c \in Calls :
        /\ WF_orderVars(Fulfilment(c) \/ QueryOrder(c) \/ PersistTradeNo(c) \/ CancelCore(c))
        /\ SF_orderVars(HandlePaymentNotification(c))
    /\ WF_orderVars(Tick)

-----------------------------------------------------------------------------
\* However many calls fulfil the order, and wherever they stop and are
\* repeated, the user is credited once and the inviter rewarded once, and only
\* for an order that was paid (doBalance, redeem, applyAffiliateRebateForOrder).
CreditedOnce ==
    /\ credits <= 1 /\ rebates <= 1
    /\ rebates <= credits
    /\ credits = 1 => provider.paid

\* An order that is COMPLETED, or in any state a refund can bring it to, has
\* been credited and its rebate settled (markCompleted after doBalance).
CompletedIsCredited ==
    order.status \in {"COMPLETED"} \cup Refundish => credits = 1 /\ rebated

\* The provider is told to stop notifying only when the order is completed, or
\* refunded since, or when the payment came too late for an expired order, or
\* when a notification could not read the order and dropped the error
\* (confirmPayment, alreadyProcessed, handleNotify).
AckedIsSettled ==
    provider.acked => order.status \in {"COMPLETED"} \cup Refundish \/ late \/ blind

\* A lease is taken over only from a call that has ended.
LeaseOutlivesCall ==
    \A c \in Calls : AcquireLease(c) => \A d \in Calls \ {c} : held[d] => pc[d] = "idle"

\* An order that is paid and still notified is completed in the end, whatever
\* call stopped halfway, lost its lease or failed, unless a notification ended
\* without reading the order, which ends all of them, or calls go on taking
\* the lease from each other for ever because they are slower than it lasts
\* (alreadyProcessed, acquirePaymentFulfillmentLease).
PaidSettles ==
    <>[][LeaseOutlivesCall]_orderVars =>
        (order.status \in Fulfillable /\ ~provider.acked
            ~> order.status \in {"COMPLETED"} \cup Refundish \/ blind)
=============================================================================
