--------------------------- MODULE PaymentProofs ---------------------------
(***************************************************************************)
(* Theorems about a payment order, for any number of calls that fulfil it  *)
(* and of administrators that refund it, any lease, grace period and       *)
(* amounts.                                                                *)
(***************************************************************************)
EXTENDS PaymentRefund, TLAPS

Settled == {"COMPLETED"} \cup Refundish
Unpaid == {"PENDING", "CANCELLED", "EXPIRED"}

(***************************************************************************)
(* Where a call is says what was done before: past the provider's answer   *)
(* the order is paid, past the redemption it is credited, past the rebate  *)
(* that is settled.  The credit is tied to the code and the rebate to its  *)
(* claim, which is what makes a repetition harmless.                       *)
(***************************************************************************)
PaidInv ==
    /\ ~provider.paid => /\ order.status \in Unpaid /\ ~order.paidAt
                         /\ code = "none"
    /\ \A c \in Calls : pc[c] \notin {"idle", "query", "close"} => provider.paid

CreditInv ==
    /\ credits = IF code = "used" THEN 1 ELSE 0
    /\ rebates = IF rebated THEN 1 ELSE 0
    /\ rebated => code = "used"
    /\ order.status \in Settled => rebated
    /\ \A c \in Calls :
        /\ pc[c] = "rebate" => code = "used"
        /\ pc[c] \in {"complete", "lost"} => rebated

AckInv ==
    /\ provider.acked => order.status \in Settled \/ late \/ blind
    /\ \A c \in Calls : pc[c] = "already" => order.status \notin {"PENDING", "CANCELLED"}

(***************************************************************************)
(* A plan never takes back more than it adds to.                           *)
(***************************************************************************)
PlanInv ==
    /\ detail.amount <= detail.cumulative
    /\ \A a \in Admins : plan[a].amount <= plan[a].cumulative

OrderInv == OrderTypeOK /\ PaidInv /\ CreditInv /\ AckInv

RefundTyped ==
    /\ refundAmount \in 0..Amount
    /\ rollbackFailed \in BOOLEAN
    /\ detail \in Plans
    /\ gateway \in [1..MaxRefunds -> [status : Outcomes, cash : 0..PayAmount]]
    /\ cash \in Nat
    /\ asked \in 0..MaxRefunds
    /\ apc \in [Admins -> APcs]
    /\ plan \in [Admins -> Plans]
    /\ spent \in Nat
    /\ lost \in Nat
    /\ silent \in Nat

PaymentInv == OrderInv /\ RefundTyped /\ PlanInv /\ OneRefundInFlight

USE DEF orderVars, rest, refundVars, orderRest, Goto, Start
USE DEF Statuses, Refundish, Settled, Unpaid, Fulfillable, Pcs, Kinds

(***************************************************************************)
(* What a step of the order shows to its refunds: a settled order keeps    *)
(* its status, no other gets one of a refund, and the credit comes once    *)
(* and after the payment.                                                  *)
(***************************************************************************)
OrderEffect ==
    /\ \/ order'.status = order.status
       \/ order.status \notin Settled /\ order'.status \notin Refundish
    /\ \/ /\ balance' = balance /\ credits' = credits
          /\ provider'.paid = provider.paid
       \/ /\ credits = 0 /\ credits' = 1 /\ balance' = balance + Amount
          /\ provider.paid /\ provider'.paid
       \/ /\ ~provider.paid /\ provider'.paid
          /\ balance' = balance /\ credits' = credits

Rows == [status : Statuses, age : 0..MaxAge, paidAt : BOOLEAN, tradeNo : BOOLEAN,
         due : BOOLEAN]

(***************************************************************************)
(* What an update of the row leaves, for one, three or no fields changed.  *)
(***************************************************************************)
LEMMA UpdatedRow ==
  ASSUME OrderTypeOK, NEW s \in Statuses
  PROVE  /\ Update([order EXCEPT !.status = s]) =>
              /\ order' \in Rows /\ held' \in [Calls -> BOOLEAN]
              /\ order'.status = s /\ order'.paidAt = order.paidAt
         /\ Update([order EXCEPT !.status = s, !.paidAt = TRUE, !.tradeNo = TRUE]) =>
              /\ order' \in Rows /\ held' \in [Calls -> BOOLEAN]
              /\ order'.status = s /\ order'.paidAt
         /\ Update([order EXCEPT !.tradeNo = TRUE]) =>
              /\ order' \in Rows /\ held' \in [Calls -> BOOLEAN]
              /\ order'.status = order.status /\ order'.paidAt = order.paidAt
  <1> USE DEF Update, OrderTypeOK
  <1>0. order \in Rows /\ 0 \in 0..MaxAge
    BY OrderAssumption DEF Rows, MaxAge
  <1>1. ASSUME Update([order EXCEPT !.status = s])
        PROVE  /\ order' \in Rows /\ held' \in [Calls -> BOOLEAN]
               /\ order'.status = s /\ order'.paidAt = order.paidAt
    BY <1>0, <1>1 DEF Rows
  <1>2. ASSUME Update([order EXCEPT !.status = s, !.paidAt = TRUE, !.tradeNo = TRUE])
        PROVE  /\ order' \in Rows /\ held' \in [Calls -> BOOLEAN]
               /\ order'.status = s /\ order'.paidAt
    BY <1>0, <1>2 DEF Rows
  <1>3. ASSUME Update([order EXCEPT !.tradeNo = TRUE])
        PROVE  /\ order' \in Rows /\ held' \in [Calls -> BOOLEAN]
               /\ order'.status = order.status /\ order'.paidAt = order.paidAt
    BY <1>0, <1>3 DEF Rows
  <1>q. QED
    BY <1>1, <1>2, <1>3

(***************************************************************************)
(* What a call that returns leaves.                                        *)
(***************************************************************************)
LEMMA Returned ==
  ASSUME OrderTypeOK, NEW c \in Calls, NEW ok \in BOOLEAN, Return(c, ok)
  PROVE  /\ provider' \in [paid : BOOLEAN, closed : BOOLEAN, acked : BOOLEAN]
         /\ provider'.paid = provider.paid
         /\ provider'.acked => provider.acked \/ (ok /\ kind[c] = "notify")
         /\ pc' = [pc EXCEPT ![c] = "idle"]
  BY DEF OrderTypeOK, Return


(***************************************************************************)
(* The steps of a call from the provider's word that the order is paid to  *)
(* its completion or failure.                                              *)
(***************************************************************************)
LEMMA FulfilmentStep ==
  ASSUME OrderInv, NEW c \in Calls, Fulfilment(c)
  PROVE  OrderInv' /\ OrderEffect
  <1> USE OrderAssumption DEF OrderInv, OrderTypeOK
  <1>1. CASE ToPaid(c)
    <2>1. order' \in Rows /\ held' \in [Calls -> BOOLEAN]
      BY <1>1, UpdatedRow DEF ToPaid, Rows
    <2>2. \/ /\ order'.status = order.status /\ order'.paidAt = order.paidAt
             /\ order.status \notin {"PENDING", "CANCELLED"} /\ pc'[c] = "already"
          \/ order'.status = "PAID" /\ order.status \in Unpaid /\ pc'[c] = "fulfil"
      BY <1>1, UpdatedRow DEF ToPaid
    <2>3. OrderTypeOK'
      BY <1>1, <2>1 DEF ToPaid, Rows
    <2>4. PaidInv'
      BY <1>1, <2>2 DEF ToPaid, PaidInv
    <2>5. CreditInv'
      BY <1>1, <2>2 DEF ToPaid, CreditInv
    <2>6. AckInv'
      BY <1>1, <2>2 DEF ToPaid, AckInv
    <2>7. OrderEffect
      BY <1>1, <2>2 DEF ToPaid, OrderEffect
    <2>q. QED
      BY <2>3, <2>4, <2>5, <2>6, <2>7
  <1>2. CASE AlreadyProcessed(c)
    <2>1. OrderTypeOK'
      BY ZenonT(80), <1>2, Returned DEF AlreadyProcessed
    <2>2. PaidInv'
      BY <1>2, Returned DEF AlreadyProcessed, PaidInv
    <2>3. CreditInv'
      BY ZenonT(40), <1>2, Returned DEF AlreadyProcessed, CreditInv
    <2>4. AckInv'
      BY <1>2, Returned DEF AlreadyProcessed, AckInv
    <2>5. OrderEffect
      BY <1>2, Returned DEF AlreadyProcessed, OrderEffect
    <2>q. QED
      BY <2>1, <2>2, <2>3, <2>4, <2>5
  <1>3. CASE ExecuteFulfillment(c)
    <2>1. OrderTypeOK'
      <3>1. /\ provider' \in [paid : BOOLEAN, closed : BOOLEAN, acked : BOOLEAN]
            /\ pc' \in [Calls -> Pcs]
        BY <1>3, Returned DEF ExecuteFulfillment
      <3>q. QED
        BY <1>3, <3>1 DEF ExecuteFulfillment
    <2>2. PaidInv'
      BY <1>3, Returned DEF ExecuteFulfillment, PaidInv
    <2>3. CreditInv'
      BY <1>3, Returned DEF ExecuteFulfillment, CreditInv
    <2>4. AckInv'
      BY <1>3, Returned DEF ExecuteFulfillment, AckInv
    <2>5. OrderEffect
      BY <1>3, Returned DEF ExecuteFulfillment, OrderEffect
    <2>q. QED
      BY <2>1, <2>2, <2>3, <2>4, <2>5
  <1>4. CASE AcquireLease(c)
    <2>1. order' \in Rows /\ held' \in [Calls -> BOOLEAN]
      BY <1>4, UpdatedRow DEF AcquireLease, Rows
    <2>2. \/ /\ order'.status = order.status /\ order'.paidAt = order.paidAt
          \/ /\ order'.status = "RECHARGING" /\ order.status \in Fulfillable
             /\ order'.paidAt = order.paidAt
      BY <1>4, UpdatedRow DEF AcquireLease
    <2>3. OrderTypeOK'
      BY <1>4, <2>1 DEF AcquireLease, Rows
    <2>4. PaidInv'
      BY <1>4, <2>2 DEF AcquireLease, PaidInv
    <2>5. CreditInv'
      BY <1>4, <2>2 DEF AcquireLease, CreditInv
    <2>6. AckInv'
      BY <1>4, <2>2 DEF AcquireLease, AckInv
    <2>7. OrderEffect
      BY <1>4, <2>2 DEF AcquireLease, OrderEffect
    <2>q. QED
      BY <2>3, <2>4, <2>5, <2>6, <2>7
  <1>5. CASE LeaseConflict(c)
    <2>1. OrderTypeOK'
      <3>1. /\ provider' \in [paid : BOOLEAN, closed : BOOLEAN, acked : BOOLEAN]
            /\ pc' \in [Calls -> Pcs]
        BY <1>5, Returned DEF LeaseConflict
      <3>q. QED
        BY <1>5, <3>1 DEF LeaseConflict
    <2>2. PaidInv'
      BY <1>5, Returned DEF LeaseConflict, PaidInv
    <2>3. CreditInv'
      BY <1>5, Returned DEF LeaseConflict, CreditInv
    <2>4. AckInv'
      BY <1>5, Returned DEF LeaseConflict, AckInv
    <2>5. OrderEffect
      BY <1>5, Returned DEF LeaseConflict, OrderEffect
    <2>q. QED
      BY <2>1, <2>2, <2>3, <2>4, <2>5
  <1>6. CASE ReloadLease(c)
    <2>1. OrderTypeOK'
      <3>1. /\ provider' \in [paid : BOOLEAN, closed : BOOLEAN, acked : BOOLEAN]
            /\ pc' \in [Calls -> Pcs]
        BY <1>6, Returned DEF ReloadLease
      <3>q. QED
        BY ZenonT(80), <1>6, <3>1 DEF ReloadLease
    <2>2. PaidInv'
      BY <1>6, Returned DEF ReloadLease, PaidInv
    <2>3. CreditInv'
      BY ZenonT(40), <1>6, Returned DEF ReloadLease, CreditInv
    <2>4. AckInv'
      BY <1>6, Returned DEF ReloadLease, AckInv
    <2>5. OrderEffect
      BY <1>6, Returned DEF ReloadLease, OrderEffect
    <2>q. QED
      BY <2>1, <2>2, <2>3, <2>4, <2>5
  <1>7. CASE ResolveRedeemAction(c)
    <2>1. OrderTypeOK'
      BY <1>7 DEF ResolveRedeemAction
    <2>2. PaidInv'
      BY <1>7 DEF ResolveRedeemAction, PaidInv
    <2>3. CreditInv'
      BY <1>7 DEF ResolveRedeemAction, CreditInv
    <2>4. AckInv'
      BY <1>7 DEF ResolveRedeemAction, AckInv
    <2>5. OrderEffect
      BY <1>7 DEF ResolveRedeemAction, OrderEffect
    <2>q. QED
      BY <2>1, <2>2, <2>3, <2>4, <2>5
  <1>8. CASE CreateCode(c)
    <2>1. OrderTypeOK'
      BY <1>8 DEF CreateCode
    <2>2. PaidInv'
      BY <1>8 DEF CreateCode, PaidInv
    <2>3. CreditInv'
      BY <1>8 DEF CreateCode, CreditInv
    <2>4. AckInv'
      BY <1>8 DEF CreateCode, AckInv
    <2>5. OrderEffect
      BY <1>8 DEF CreateCode, OrderEffect
    <2>q. QED
      BY <2>1, <2>2, <2>3, <2>4, <2>5
  <1>9. CASE RedeemChecks(c)
    <2>1. OrderTypeOK'
      BY <1>9 DEF RedeemChecks
    <2>2. PaidInv'
      BY <1>9 DEF RedeemChecks, PaidInv
    <2>3. CreditInv'
      BY <1>9 DEF RedeemChecks, CreditInv
    <2>4. AckInv'
      BY <1>9 DEF RedeemChecks, AckInv
    <2>5. OrderEffect
      BY <1>9 DEF RedeemChecks, OrderEffect
    <2>q. QED
      BY <2>1, <2>2, <2>3, <2>4, <2>5
  <1>10. CASE RedeemTx(c)
    <2>1. OrderTypeOK'
      BY <1>10 DEF RedeemTx, CreditInv
    <2>2. PaidInv'
      BY <1>10 DEF RedeemTx, PaidInv
    <2>3. CreditInv'
      BY <1>10 DEF RedeemTx, CreditInv
    <2>4. AckInv'
      BY <1>10 DEF RedeemTx, AckInv
    <2>5. OrderEffect
      BY <1>10 DEF RedeemTx, OrderEffect, PaidInv, CreditInv
    <2>q. QED
      BY <2>1, <2>2, <2>3, <2>4, <2>5
  <1>11. CASE ApplyAffiliateRebate(c)
    <2>1. OrderTypeOK'
      <3>1. CASE rebated
        BY <1>11, <3>1 DEF ApplyAffiliateRebate
      <3>2. CASE ~rebated
        <4>1. rebates = 0 /\ rebates' = 1 /\ rebated' = TRUE
          BY <1>11, <3>2 DEF ApplyAffiliateRebate, CreditInv
        <4>q. QED
          BY <1>11, <4>1 DEF ApplyAffiliateRebate
      <3>q. QED
        BY <3>1, <3>2
    <2>2. PaidInv'
      BY <1>11 DEF ApplyAffiliateRebate, PaidInv
    <2>3. CreditInv'
      BY <1>11 DEF ApplyAffiliateRebate, CreditInv
    <2>4. AckInv'
      BY <1>11 DEF ApplyAffiliateRebate, AckInv
    <2>5. OrderEffect
      BY <1>11 DEF ApplyAffiliateRebate, OrderEffect
    <2>q. QED
      BY <2>1, <2>2, <2>3, <2>4, <2>5
  <1>12. CASE MarkCompleted(c)
    <2>1. order' \in Rows /\ held' \in [Calls -> BOOLEAN]
      BY <1>12, UpdatedRow DEF MarkCompleted, Rows
    <2>2. \/ /\ order'.status = order.status /\ order'.paidAt = order.paidAt
             /\ UNCHANGED provider
          \/ /\ order'.status = "COMPLETED" /\ order.status = "RECHARGING"
             /\ order'.paidAt = order.paidAt
      BY <1>12, UpdatedRow, Returned DEF MarkCompleted
    <2>3. OrderTypeOK'
      BY ZenonT(40), <1>12, <2>1, Returned DEF MarkCompleted, Rows
    <2>4. PaidInv'
      BY <1>12, <2>2, Returned DEF MarkCompleted, PaidInv
    <2>5. CreditInv'
      BY <1>12, <2>2, Returned DEF MarkCompleted, CreditInv
    <2>6. AckInv'
      BY ZenonT(60), <1>12, <2>2, Returned DEF MarkCompleted, AckInv
    <2>7. OrderEffect
      BY <1>12, <2>2, Returned DEF MarkCompleted, OrderEffect
    <2>q. QED
      BY <2>3, <2>4, <2>5, <2>6, <2>7
  <1>13. CASE CompletionLost(c)
    <2>1. OrderTypeOK'
      <3>1. /\ provider' \in [paid : BOOLEAN, closed : BOOLEAN, acked : BOOLEAN]
            /\ pc' \in [Calls -> Pcs]
        BY <1>13, Returned DEF CompletionLost
      <3>q. QED
        BY <1>13, <3>1 DEF CompletionLost
    <2>2. PaidInv'
      BY <1>13, Returned DEF CompletionLost, PaidInv
    <2>3. CreditInv'
      BY <1>13, Returned DEF CompletionLost, CreditInv
    <2>4. AckInv'
      BY ZenonT(60), <1>13, Returned DEF CompletionLost, AckInv
    <2>5. OrderEffect
      BY <1>13, Returned DEF CompletionLost, OrderEffect
    <2>q. QED
      BY <2>1, <2>2, <2>3, <2>4, <2>5
  <1>14. CASE MarkFailed(c)
    <2>1. order' \in Rows /\ held' \in [Calls -> BOOLEAN]
      BY <1>14, UpdatedRow DEF MarkFailed, Rows
    <2>2. \/ /\ order'.status = order.status /\ order'.paidAt = order.paidAt
          \/ /\ order'.status = "FAILED" /\ order.status = "RECHARGING"
             /\ order'.paidAt = order.paidAt
      BY <1>14, UpdatedRow, Returned DEF MarkFailed
    <2>3. OrderTypeOK'
      BY <1>14, <2>1, Returned DEF MarkFailed, Rows
    <2>4. PaidInv'
      BY <1>14, <2>2, Returned DEF MarkFailed, PaidInv
    <2>5. CreditInv'
      BY ZenonT(40), <1>14, <2>2, Returned DEF MarkFailed, CreditInv
    <2>6. AckInv'
      BY <1>14, <2>2, Returned DEF MarkFailed, AckInv
    <2>7. OrderEffect
      BY <1>14, <2>2, Returned DEF MarkFailed, OrderEffect
    <2>q. QED
      BY <2>3, <2>4, <2>5, <2>6, <2>7
  <1>q. QED
    BY <1>1, <1>2, <1>3, <1>4, <1>5, <1>6, <1>7, <1>8, <1>9, <1>10, <1>11, <1>12, <1>13, <1>14 DEF Fulfilment

(***************************************************************************)
(* The steps that start a call, ask the provider and close an order.       *)
(***************************************************************************)
LEMMA LifecycleStep ==
  ASSUME OrderInv, NEW c \in Calls, Lifecycle(c)
  PROVE  OrderInv' /\ OrderEffect
  <1> USE OrderAssumption DEF OrderInv, OrderTypeOK
  <1>1. CASE HandlePaymentNotification(c)
    <2>1. OrderTypeOK'
      BY <1>1 DEF HandlePaymentNotification
    <2>2. PaidInv'
      BY <1>1 DEF HandlePaymentNotification, PaidInv
    <2>3. CreditInv'
      BY <1>1 DEF HandlePaymentNotification, CreditInv
    <2>4. AckInv'
      BY <1>1 DEF HandlePaymentNotification, AckInv
    <2>5. OrderEffect
      BY <1>1 DEF HandlePaymentNotification, OrderEffect
    <2>q. QED
      BY <2>1, <2>2, <2>3, <2>4, <2>5
  <1>2. CASE CancelOrder(c)
    <2>1. OrderTypeOK'
      BY <1>2 DEF CancelOrder
    <2>2. PaidInv'
      BY <1>2 DEF CancelOrder, PaidInv
    <2>3. CreditInv'
      BY <1>2 DEF CancelOrder, CreditInv
    <2>4. AckInv'
      BY <1>2 DEF CancelOrder, AckInv
    <2>5. OrderEffect
      BY <1>2 DEF CancelOrder, OrderEffect
    <2>q. QED
      BY <2>1, <2>2, <2>3, <2>4, <2>5
  <1>3. CASE ExpireTimedOutOrders(c)
    <2>1. OrderTypeOK'
      BY <1>3 DEF ExpireTimedOutOrders
    <2>2. PaidInv'
      BY <1>3 DEF ExpireTimedOutOrders, PaidInv
    <2>3. CreditInv'
      BY <1>3 DEF ExpireTimedOutOrders, CreditInv
    <2>4. AckInv'
      BY <1>3 DEF ExpireTimedOutOrders, AckInv
    <2>5. OrderEffect
      BY <1>3 DEF ExpireTimedOutOrders, OrderEffect
    <2>q. QED
      BY <2>1, <2>2, <2>3, <2>4, <2>5
  <1>4. CASE VerifyOrderByOutTradeNo(c)
    <2>1. OrderTypeOK'
      BY <1>4 DEF VerifyOrderByOutTradeNo
    <2>2. PaidInv'
      BY <1>4 DEF VerifyOrderByOutTradeNo, PaidInv
    <2>3. CreditInv'
      BY <1>4 DEF VerifyOrderByOutTradeNo, CreditInv
    <2>4. AckInv'
      BY <1>4 DEF VerifyOrderByOutTradeNo, AckInv
    <2>5. OrderEffect
      BY <1>4 DEF VerifyOrderByOutTradeNo, OrderEffect
    <2>q. QED
      BY <2>1, <2>2, <2>3, <2>4, <2>5
  <1>5. CASE RetryFulfillment(c)
    <2>1. OrderTypeOK'
      BY <1>5 DEF RetryFulfillment
    <2>2. PaidInv'
      BY <1>5 DEF RetryFulfillment, PaidInv
    <2>3. CreditInv'
      BY <1>5 DEF RetryFulfillment, CreditInv
    <2>4. AckInv'
      BY <1>5 DEF RetryFulfillment, AckInv
    <2>5. OrderEffect
      BY <1>5 DEF RetryFulfillment, OrderEffect
    <2>q. QED
      BY <2>1, <2>2, <2>3, <2>4, <2>5
  <1>6. CASE QueryOrder(c)
    <2>1. OrderTypeOK'
      BY <1>6 DEF QueryOrder
    <2>2. PaidInv'
      BY <1>6 DEF QueryOrder, PaidInv
    <2>3. CreditInv'
      BY <1>6 DEF QueryOrder, CreditInv
    <2>4. AckInv'
      BY <1>6 DEF QueryOrder, AckInv
    <2>5. OrderEffect
      BY <1>6 DEF QueryOrder, OrderEffect
    <2>q. QED
      BY <2>1, <2>2, <2>3, <2>4, <2>5
  <1>7. CASE PersistTradeNo(c)
    <2>1. order' \in Rows /\ held' \in [Calls -> BOOLEAN]
      BY <1>7, UpdatedRow DEF PersistTradeNo, Rows
    <2>2. \/ /\ order'.status = order.status /\ order'.paidAt = order.paidAt
      BY <1>7, UpdatedRow DEF PersistTradeNo
    <2>3. OrderTypeOK'
      BY <1>7, <2>1 DEF PersistTradeNo, Rows
    <2>4. PaidInv'
      BY <1>7, <2>2 DEF PersistTradeNo, PaidInv
    <2>5. CreditInv'
      BY <1>7, <2>2 DEF PersistTradeNo, CreditInv
    <2>6. AckInv'
      BY <1>7, <2>2 DEF PersistTradeNo, AckInv
    <2>7. OrderEffect
      BY <1>7, <2>2 DEF PersistTradeNo, OrderEffect
    <2>q. QED
      BY <2>3, <2>4, <2>5, <2>6, <2>7
  <1>8. CASE CancelCore(c)
    <2>1. order' \in Rows /\ held' \in [Calls -> BOOLEAN]
      BY <1>8, UpdatedRow DEF CancelCore, Rows
    <2>2. \/ /\ order'.status = order.status /\ order'.paidAt = order.paidAt
          \/ /\ order'.status \in {"EXPIRED", "CANCELLED"} /\ order.status = "PENDING"
             /\ order'.paidAt = order.paidAt
      BY <1>8, UpdatedRow DEF CancelCore
    <2>3. OrderTypeOK'
      BY <1>8, <2>1 DEF CancelCore, Rows
    <2>4. PaidInv'
      BY <1>8, <2>2 DEF CancelCore, PaidInv
    <2>5. CreditInv'
      BY <1>8, <2>2 DEF CancelCore, CreditInv
    <2>6. AckInv'
      BY <1>8, <2>2 DEF CancelCore, AckInv
    <2>7. OrderEffect
      BY <1>8, <2>2 DEF CancelCore, OrderEffect
    <2>q. QED
      BY <2>3, <2>4, <2>5, <2>6, <2>7
  <1>q. QED
    BY <1>1, <1>2, <1>3, <1>4, <1>5, <1>6, <1>7, <1>8 DEF Lifecycle

(***************************************************************************)
(* A statement that fails, or a process that stops.                        *)
(***************************************************************************)
LEMMA OrderFaultStep ==
  ASSUME OrderInv, NEW c \in Calls, OrderFault(c)
  PROVE  OrderInv' /\ OrderEffect
  <1> USE OrderAssumption DEF OrderInv, OrderTypeOK
  <1>1. CASE FulfilError(c)
    <2>1. OrderTypeOK'
      BY <1>1 DEF FulfilError
    <2>2. PaidInv'
      BY <1>1 DEF FulfilError, PaidInv
    <2>3. CreditInv'
      BY <1>1 DEF FulfilError, CreditInv
    <2>4. AckInv'
      BY <1>1 DEF FulfilError, AckInv
    <2>5. OrderEffect
      BY <1>1 DEF FulfilError, OrderEffect
    <2>q. QED
      BY <2>1, <2>2, <2>3, <2>4, <2>5
  <1>2. CASE QueryError(c)
    <2>1. OrderTypeOK'
      BY <1>2 DEF QueryError
    <2>2. PaidInv'
      BY <1>2 DEF QueryError, PaidInv
    <2>3. CreditInv'
      BY <1>2 DEF QueryError, CreditInv
    <2>4. AckInv'
      BY <1>2 DEF QueryError, AckInv
    <2>5. OrderEffect
      BY <1>2 DEF QueryError, OrderEffect
    <2>q. QED
      BY <2>1, <2>2, <2>3, <2>4, <2>5
  <1>4. CASE SwallowedRead(c)
    <2>1. OrderTypeOK'
      <3>1. /\ provider' \in [paid : BOOLEAN, closed : BOOLEAN, acked : BOOLEAN]
            /\ pc' \in [Calls -> Pcs]
        BY <1>4, Returned DEF SwallowedRead
      <3>2. faults' \in 0..MaxFaults /\ blind' \in BOOLEAN
        BY <1>4 DEF SwallowedRead
      <3>q. QED
        BY <1>4, <3>1, <3>2 DEF SwallowedRead
    <2>2. PaidInv'
      BY <1>4, Returned DEF SwallowedRead, PaidInv
    <2>3. CreditInv'
      BY ZenonT(60), <1>4, Returned DEF SwallowedRead, CreditInv
    <2>4. AckInv'
      BY <1>4, Returned DEF SwallowedRead, AckInv
    <2>5. OrderEffect
      BY <1>4, Returned DEF SwallowedRead, OrderEffect
    <2>q. QED
      BY <2>1, <2>2, <2>3, <2>4, <2>5
  <1>3. CASE Crash(c)
    <2>1. OrderTypeOK'
      BY <1>3 DEF Crash
    <2>2. PaidInv'
      BY <1>3 DEF Crash, PaidInv
    <2>3. CreditInv'
      BY <1>3 DEF Crash, CreditInv
    <2>4. AckInv'
      BY <1>3 DEF Crash, AckInv
    <2>5. OrderEffect
      BY <1>3 DEF Crash, OrderEffect
    <2>q. QED
      BY <2>1, <2>2, <2>3, <2>4, <2>5
  <1>q. QED
    BY <1>1, <1>2, <1>3, <1>4 DEF OrderFault

(***************************************************************************)
(* The payment, and time.                                                  *)
(***************************************************************************)
LEMMA EnvironmentStep ==
  ASSUME OrderInv, UserPays \/ Tick
  PROVE  OrderInv' /\ OrderEffect
  <1> USE OrderAssumption DEF OrderInv, OrderTypeOK
  <1>1. CASE UserPays
    BY <1>1 DEF UserPays, PaidInv, CreditInv, AckInv, OrderEffect
  <1>2. CASE Tick
    <2>1. order' \in Rows /\ order'.status = order.status /\ order'.paidAt = order.paidAt
      <3> DEFINE next == IF order.age < MaxAge THEN order.age + 1 ELSE order.age
      <3>1. order' = [order EXCEPT !.age = next, !.due = TRUE]
        BY <1>2 DEF Tick
      <3>2. next \in 0..MaxAge
        BY DEF MaxAge
      <3> HIDE DEF next
      <3>q. QED
        BY <3>1, <3>2 DEF Rows
    <2>2. OrderTypeOK'
      BY <1>2, <2>1 DEF Tick, Rows
    <2>3. PaidInv' /\ CreditInv' /\ AckInv'
      BY <1>2, <2>1 DEF Tick, PaidInv, CreditInv, AckInv
    <2>4. OrderEffect
      BY <1>2, <2>1 DEF Tick, OrderEffect
    <2>q. QED
      BY <2>2, <2>3, <2>4
  <1>q. QED
    BY <1>1, <1>2

(***************************************************************************)
(* A step of the order leaves the refunds, and the lock on REFUNDING.      *)
(***************************************************************************)
LEMMA OrderStep ==
  ASSUME PaymentInv, OrderNext, UNCHANGED refundVars
  PROVE  PaymentInv' /\ OrderEffect
  <1>1. OrderInv' /\ OrderEffect
    <2>1. CASE \E c \in Calls : Fulfilment(c)
      BY <2>1, FulfilmentStep DEF PaymentInv
    <2>2. CASE \E c \in Calls : Lifecycle(c)
      BY <2>2, LifecycleStep DEF PaymentInv
    <2>3. CASE \E c \in Calls : OrderFault(c)
      BY <2>3, OrderFaultStep DEF PaymentInv
    <2>4. CASE UserPays \/ Tick
      BY <2>4, EnvironmentStep DEF PaymentInv
    <2>q. QED
      BY <2>1, <2>2, <2>3, <2>4 DEF OrderNext
  <1>2. RefundTyped' /\ PlanInv' /\ OneRefundInFlight'
    BY <1>1 DEF PaymentInv, RefundTyped, PlanInv, OneRefundInFlight, OrderEffect
  <1>q. QED
    BY <1>1, <1>2 DEF PaymentInv

(***************************************************************************)
(* Arithmetic of the cash that a credited amount is worth: rounding halves *)
(* keeps the order, and the whole order is worth what was paid for it.     *)
(***************************************************************************)
LEMMA DivBounds ==
  ASSUME NEW x \in Nat, NEW d \in Nat \ {0}
  PROVE  x \div d \in Nat /\ d * (x \div d) <= x /\ x < d * (x \div d) + d
  BY SMT

\* Multiplication is monotone on natural numbers.
LEMMA ProductOrder ==
  ASSUME NEW x \in Nat, NEW y \in Nat, NEW d \in Nat, x <= y
  PROVE  d * x \in Nat /\ d * x <= d * y
  BY SMT

\* Two numbers whose multiples differ by less than one divisor are in order.
LEMMA QuotientOrder ==
  ASSUME NEW x \in Nat, NEW y \in Nat, NEW d \in Nat \ {0}, d * x < d * y + d
  PROVE  x <= y
  BY SMT

\* A larger refund repays at least as much cash.
LEMMA CashOfOrder ==
  ASSUME NEW x \in 0..Amount, NEW y \in 0..Amount, x <= y
  PROVE  CashOf(x) \in Nat /\ CashOf(y) \in Nat /\ CashOf(x) <= CashOf(y)
  <1> DEFINE half == Amount \div 2
             p == PayAmount * x + half
             q == PayAmount * y + half
  <1>1. half \in Nat /\ Amount \in Nat \ {0} /\ PayAmount \in Nat
    BY OrderAssumption, RefundAssumption, DivBounds
  <1>2. p \in Nat /\ q \in Nat /\ p <= q
    BY <1>1, ProductOrder
  <1> HIDE DEF p, q, half
  <1>3. /\ p \div Amount \in Nat /\ Amount * (p \div Amount) <= p
        /\ q \div Amount \in Nat /\ q < Amount * (q \div Amount) + Amount
    BY <1>1, <1>2, DivBounds
  <1>4. Amount * (p \div Amount) \in Nat /\ Amount * (q \div Amount) \in Nat
    BY <1>1, <1>3, ProductOrder
  <1>5. Amount * (p \div Amount) < Amount * (q \div Amount) + Amount
    BY <1>1, <1>2, <1>3, <1>4
  <1>6. p \div Amount <= q \div Amount
    BY <1>1, <1>3, <1>5, QuotientOrder
  <1>7. CashOf(x) = p \div Amount /\ CashOf(y) = q \div Amount
    BY DEF CashOf, p, q, half
  <1>q. QED
    BY <1>3, <1>6, <1>7

\* Refunding nothing repays nothing, refunding everything repays what was paid.
LEMMA CashOfWhole == CashOf(0) = 0 /\ CashOf(Amount) = PayAmount
  <1> DEFINE half == Amount \div 2
  <1>1. Amount \in Nat \ {0} /\ PayAmount \in Nat
    BY OrderAssumption, RefundAssumption
  <1>2. half \in Nat /\ 2 * half <= Amount
    BY <1>1, DivBounds
  <1>3. half < Amount
    BY <1>1, <1>2
  <1> HIDE DEF half
  <1>4. half \div Amount = 0
    BY <1>1, <1>2, <1>3
  <1>5. (PayAmount * Amount + half) \div Amount = PayAmount
    <2> DEFINE z == PayAmount * Amount + half
               w == z \div Amount
    <2>1. PayAmount * Amount \in Nat /\ Amount * PayAmount = PayAmount * Amount
      BY <1>1
    <2>2. z \in Nat
      BY <1>2, <2>1
    <2> HIDE DEF z
    <2>3. w \in Nat /\ Amount * w <= z /\ z < Amount * w + Amount
      BY <1>1, <2>2, DivBounds
    <2> HIDE DEF w
    <2>4. Amount * w \in Nat
      BY <1>1, <2>3, ProductOrder
    <2>5. Amount * w < Amount * PayAmount + Amount /\ Amount * PayAmount < Amount * w + Amount
      BY <1>1, <1>2, <1>3, <2>1, <2>3, <2>4 DEF z
    <2>6. w <= PayAmount
      BY <1>1, <2>3, <2>5, QuotientOrder
    <2>7. PayAmount <= w
      BY <1>1, <2>3, <2>5, QuotientOrder
    <2>q. QED
      BY <1>1, <2>3, <2>6, <2>7 DEF w, z
  <1>6. PayAmount * 0 + half = half
    BY <1>1, <1>2
  <1>q. QED
    BY <1>4, <1>5, <1>6 DEF CashOf, half

(***************************************************************************)
(* The cash that a plan asks for is never more than was paid.              *)
(***************************************************************************)
LEMMA ShareBounds ==
  ASSUME NEW p \in Plans, p.amount <= p.cumulative
  PROVE  /\ RefundCashDelta(p) \in 0..PayAmount
         /\ CashOf(p.cumulative) \in 0..PayAmount
         /\ CashOf(p.cumulative - p.amount) \in 0..PayAmount
  <1>1. /\ p.cumulative \in 0..Amount /\ p.cumulative - p.amount \in 0..Amount
        /\ p.cumulative - p.amount <= p.cumulative
        /\ 0 \in 0..Amount /\ Amount \in 0..Amount /\ PayAmount \in Nat
    BY OrderAssumption, RefundAssumption DEF Plans
  <1>2. /\ CashOf(p.cumulative) \in Nat /\ CashOf(p.cumulative) <= PayAmount
        /\ CashOf(p.cumulative - p.amount) \in Nat
        /\ CashOf(p.cumulative - p.amount) <= CashOf(p.cumulative)
    BY <1>1, CashOfOrder, CashOfWhole
  <1>q. QED
    BY <1>1, <1>2 DEF RefundCashDelta

(***************************************************************************)
(* A step of a refund leaves the order settled where it was, and moves it  *)
(* only among the states of a settled order.                               *)
(***************************************************************************)
LEMMA SettledOrder ==
  ASSUME OrderInv, order' \in Rows, order'.paidAt = order.paidAt,
         \/ order'.status = order.status
         \/ order.status \in Settled /\ order'.status \in Settled,
         held' \in [Calls -> BOOLEAN], balance' \in Nat, faults' \in 0..MaxFaults,
         UNCHANGED orderRest
  PROVE  OrderInv'
  <1>1. OrderTypeOK'
    BY DEF OrderInv, OrderTypeOK, Rows
  <1>2. PaidInv' /\ CreditInv' /\ AckInv'
    BY DEF OrderInv, OrderTypeOK, PaidInv, CreditInv, AckInv
  <1>q. QED
    BY <1>1, <1>2 DEF OrderInv

(***************************************************************************)
(* A plan with another deduction, or the number of its refund, is a plan   *)
(* for the same share of the order.                                        *)
(***************************************************************************)
LEMMA PlanFields ==
  ASSUME NEW p \in Plans, NEW d \in 0..Amount, NEW n \in 0..MaxRefunds
  PROVE  /\ [p EXCEPT !.deduct = d] \in Plans /\ [p EXCEPT !.id = n] \in Plans
         /\ [p EXCEPT !.deduct = d].amount = p.amount
         /\ [p EXCEPT !.deduct = d].cumulative = p.cumulative
         /\ [p EXCEPT !.id = n].amount = p.amount
         /\ [p EXCEPT !.id = n].cumulative = p.cumulative
  BY DEF Plans

(***************************************************************************)
(* The steps of a refund, for one administrator among many.                *)
(***************************************************************************)
LEMMA RefundStepInv ==
  ASSUME PaymentInv, NEW a \in Admins, RefundStep(a)
  PROVE  PaymentInv'
  <1> USE DEF PaymentInv, RefundTyped, AGoto, APcs, Locking
  <1>0. order \in Rows /\ OrderTypeOK /\ Amount \in Nat \ {0}
    BY OrderAssumption DEF OrderInv, OrderTypeOK, Rows
  <1>1. ASSUME NEW amt \in 1..Amount, NEW force \in BOOLEAN, NEW deduct \in BOOLEAN,
               PrepareRefund(a, amt, force, deduct)
        PROVE  PaymentInv'
    <2> DEFINE p == [status |-> order.status, amount |-> amt,
                     cumulative |-> refundAmount + amt,
                     deduct |-> IF deduct THEN OrMin(amt, balance) ELSE 0, id |-> 0]
    <2>1. p \in Plans /\ p.amount <= p.cumulative
      BY <1>0, <1>1, RefundAssumption DEF PrepareRefund, Plans, OrMin, OrderTypeOK
    <2>2. plan' = [plan EXCEPT ![a] = p]
      BY <1>1 DEF PrepareRefund
    <2> HIDE DEF p
    <2>3. OrderInv'
      BY <1>0, <1>1, SettledOrder DEF PrepareRefund, OrderTypeOK
    <2>4. RefundTyped' /\ PlanInv'
      BY <1>1, <2>1, <2>2 DEF PrepareRefund, PlanInv
    <2>5. OneRefundInFlight'
      BY <1>1 DEF PrepareRefund, OneRefundInFlight
    <2>q. QED
      BY <2>3, <2>4, <2>5
  <1>2. CASE LockRefund(a)
    <2>1. /\ order' \in Rows /\ held' \in [Calls -> BOOLEAN] /\ order'.paidAt = order.paidAt
          /\ \/ /\ order.status \in Refundable /\ order'.status = "REFUNDING"
                /\ apc' = [apc EXCEPT ![a] = "deduct"]
             \/ order' = order /\ apc' = [apc EXCEPT ![a] = "idle"]
      BY <1>0, <1>2, UpdatedRow DEF LockRefund, OrderTypeOK
    <2>2. OrderInv'
      BY <1>0, <1>2, <2>1, SettledOrder DEF LockRefund, OrderTypeOK, Refundable
    <2>3. RefundTyped' /\ PlanInv'
      BY <1>2, <2>1 DEF LockRefund, PlanInv
    <2>4. OneRefundInFlight'
      BY <1>2, <2>1 DEF LockRefund, OneRefundInFlight, Refundable
    <2>q. QED
      BY <2>2, <2>3, <2>4
  <1>3. CASE DeductBalance(a)
    <2> DEFINE d == IF rollbackFailed THEN 0 ELSE OrMin(plan[a].deduct, balance)
    <2>1. plan[a].deduct \in 0..Amount /\ balance \in Nat
      BY <1>0 DEF OrderTypeOK, Plans
    <2>2. d \in 0..Amount /\ d <= balance /\ balance' = balance - d
      BY <1>0, <1>3, <2>1 DEF DeductBalance, OrMin
    <2>3. plan' = [plan EXCEPT ![a] = [plan[a] EXCEPT !.deduct = d]]
      BY <1>3 DEF DeductBalance
    <2> HIDE DEF d
    <2>4. OrderInv'
      BY <1>0, <1>3, <2>1, <2>2, SettledOrder DEF DeductBalance, OrderTypeOK
    <2>5. RefundTyped' /\ PlanInv'
      <3> DEFINE p == [plan[a] EXCEPT !.deduct = d]
      <3>1. p \in Plans /\ p.amount = plan[a].amount /\ p.cumulative = plan[a].cumulative
        BY <2>2, PlanFields, RefundAssumption
      <3>2. plan' = [plan EXCEPT ![a] = p]
        BY <2>3
      <3> HIDE DEF p
      <3>q. QED
        BY <1>3, <3>1, <3>2 DEF DeductBalance, PlanInv
    <2>6. OneRefundInFlight'
      BY <1>3 DEF DeductBalance, OneRefundInFlight
    <2>q. QED
      BY <2>4, <2>5, <2>6
  <1>4. CASE GatewayRefund(a)
    <2> DEFINE share == RefundCashDelta(plan[a])
    <2>1. share \in 0..PayAmount /\ asked + 1 \in 1..MaxRefunds
      BY <1>4, ShareBounds, RefundAssumption DEF GatewayRefund, PlanInv
    <2>2. /\ asked' = asked + 1
          /\ plan' = [plan EXCEPT ![a] = [plan[a] EXCEPT !.id = asked + 1]]
      BY <1>4 DEF GatewayRefund
    <2>3. PICK answer \in {"success", "pending", "failed"} :
            /\ gateway' = [gateway EXCEPT ![asked + 1] = [status |-> answer, cash |-> share]]
            /\ cash' = IF answer = "success" THEN cash + share ELSE cash
            /\ apc' = [apc EXCEPT ![a] = CASE answer = "success" -> "ok"
                                           [] answer = "pending" -> "pending"
                                           [] answer = "failed" -> "rollback"]
      BY <1>4 DEF GatewayRefund
    <2> HIDE DEF share
    <2>4. \E l \in {"ok", "pending", "rollback"} : apc' = [apc EXCEPT ![a] = l]
      BY <2>3
    <2>5. OrderInv'
      BY <1>0, <1>4, SettledOrder DEF GatewayRefund, OrderTypeOK
    <2>6. gateway' \in [1..MaxRefunds -> [status : Outcomes, cash : 0..PayAmount]]
      BY <2>1, <2>3 DEF Outcomes
    <2>7. cash' \in Nat /\ asked' \in 0..MaxRefunds /\ apc' \in [Admins -> APcs]
      BY <2>1, <2>2, <2>3, <2>4, RefundAssumption
    <2>8. plan' \in [Admins -> Plans] /\ PlanInv'
      <3> DEFINE p == [plan[a] EXCEPT !.id = asked + 1]
      <3>1. p \in Plans /\ p.amount = plan[a].amount /\ p.cumulative = plan[a].cumulative
        <4>1. plan[a] \in Plans /\ 0 \in 0..Amount /\ asked + 1 \in 0..MaxRefunds
          BY <1>0, <2>1
        <4>q. QED
          BY <4>1, PlanFields
      <3>2. plan' = [plan EXCEPT ![a] = p]
        BY <2>2
      <3> HIDE DEF p
      <3>q. QED
        BY <1>4, <3>1, <3>2 DEF GatewayRefund, PlanInv
    <2>9. OneRefundInFlight'
      BY <1>4, <2>4 DEF GatewayRefund, OneRefundInFlight
    <2>q. QED
      BY <1>4, <2>5, <2>6, <2>7, <2>8, <2>9 DEF GatewayRefund
  <1>5. CASE MarkRefundOk(a)
    <2>1. /\ order' \in Rows /\ held' \in [Calls -> BOOLEAN] /\ order'.paidAt = order.paidAt
          /\ order'.status \in {"PARTIALLY_REFUNDED", "REFUNDED"}
          /\ order.status = "REFUNDING"
      BY <1>0, <1>5, UpdatedRow DEF MarkRefundOk, FinalStatus, OneRefundInFlight
    <2>2. OrderInv'
      BY <1>0, <1>5, <2>1, SettledOrder DEF MarkRefundOk, OrderTypeOK
    <2>3. RefundTyped' /\ PlanInv'
      BY <1>5 DEF MarkRefundOk, PlanInv, Plans
    <2>4. OneRefundInFlight'
      BY <1>5 DEF MarkRefundOk, OneRefundInFlight
    <2>q. QED
      BY <2>2, <2>3, <2>4
  <1>6. CASE MarkRefundPending(a)
    <2>1. /\ order' \in Rows /\ held' \in [Calls -> BOOLEAN] /\ order'.paidAt = order.paidAt
          /\ order'.status = "REFUND_PENDING" /\ order.status = "REFUNDING"
      BY <1>0, <1>6, UpdatedRow DEF MarkRefundPending, OneRefundInFlight
    <2>2. OrderInv'
      BY <1>0, <1>6, <2>1, SettledOrder DEF MarkRefundPending, OrderTypeOK
    <2>3. RefundTyped' /\ PlanInv'
      BY <1>6 DEF MarkRefundPending, PlanInv, Plans
    <2>4. OneRefundInFlight'
      BY <1>6 DEF MarkRefundPending, OneRefundInFlight
    <2>q. QED
      BY <2>2, <2>3, <2>4
  <1>7. CASE RollbackRefund(a)
    <2>1. balance' \in Nat
      BY SMTT(30), <1>0, <1>7 DEF RollbackRefund, OrderTypeOK, Plans
    <2>2. OrderInv'
      BY <1>0, <1>7, <2>1, SettledOrder DEF RollbackRefund, OrderTypeOK
    <2>3. RefundTyped' /\ PlanInv' /\ OneRefundInFlight'
      BY <1>7 DEF RollbackRefund, PlanInv, OneRefundInFlight
    <2>q. QED
      BY <2>2, <2>3
  <1>8. CASE RestoreStatus(a)
    <2>1. /\ order' \in Rows /\ held' \in [Calls -> BOOLEAN] /\ order'.paidAt = order.paidAt
          /\ order'.status \in {"REFUND_REQUESTED", "PARTIALLY_REFUNDED", "COMPLETED"}
          /\ order.status = "REFUNDING"
      BY <1>0, <1>8, UpdatedRow DEF RestoreStatus, OneRefundInFlight
    <2>2. OrderInv'
      BY <1>0, <1>8, <2>1, SettledOrder DEF RestoreStatus, OrderTypeOK
    <2>3. RefundTyped' /\ PlanInv'
      BY <1>8 DEF RestoreStatus, PlanInv
    <2>4. OneRefundInFlight'
      BY <1>8 DEF RestoreStatus, OneRefundInFlight
    <2>q. QED
      BY <2>2, <2>3, <2>4
  <1>9. CASE QueryRefund(a)
    <2>1. OrderInv'
      BY <1>0, <1>9, SettledOrder DEF QueryRefund, OrderTypeOK
    <2>2. RefundTyped' /\ PlanInv' /\ OneRefundInFlight'
      BY <1>9 DEF QueryRefund, PlanInv, OneRefundInFlight
    <2>q. QED
      BY <2>1, <2>2
  <1>10. CASE FinalizeSuccess(a)
    <2>1. /\ order' \in Rows /\ held' \in [Calls -> BOOLEAN] /\ order'.paidAt = order.paidAt
          /\ \/ order' = order
             \/ /\ order'.status \in {"PARTIALLY_REFUNDED", "REFUNDED"}
                /\ order.status = "REFUND_PENDING"
      BY <1>0, <1>10, UpdatedRow DEF FinalizeSuccess, FinalStatus, OrderTypeOK
    <2>2. OrderInv'
      BY <1>0, <1>10, <2>1, SettledOrder DEF FinalizeSuccess, OrderTypeOK
    <2>3. RefundTyped' /\ PlanInv'
      BY SMTT(30), <1>10 DEF FinalizeSuccess, PlanInv, Plans
    <2>4. OneRefundInFlight'
      BY <1>10, <2>1 DEF FinalizeSuccess, OneRefundInFlight
    <2>q. QED
      BY <2>2, <2>3, <2>4
  <1>11. CASE FinalizeFailed(a)
    <2>1. /\ order' \in Rows /\ held' \in [Calls -> BOOLEAN] /\ order'.paidAt = order.paidAt
          /\ \/ order' = order
             \/ order'.status = "REFUND_FAILED" /\ order.status = "REFUND_PENDING"
      BY <1>0, <1>11, UpdatedRow DEF FinalizeFailed, OrderTypeOK
    <2>2. /\ plan[a].cumulative - plan[a].amount \in 0..Amount
          /\ balance \in Nat /\ balance + plan[a].deduct \in Nat
      BY SMTT(30), <1>0 DEF PlanInv, Plans, OrderTypeOK
    <2>3. balance' \in Nat /\ refundAmount' \in 0..Amount
      BY <1>11, <2>2 DEF FinalizeFailed
    <2>4. OrderInv'
      BY <1>0, <1>11, <2>1, <2>3, SettledOrder DEF FinalizeFailed, OrderTypeOK
    <2>5. RefundTyped' /\ PlanInv'
      BY <1>11, <2>3 DEF FinalizeFailed, PlanInv
    <2>6. OneRefundInFlight'
      BY <1>11, <2>1 DEF FinalizeFailed, OneRefundInFlight
    <2>q. QED
      BY <2>4, <2>5, <2>6
  <1>q. QED
    BY <1>1, <1>2, <1>3, <1>4, <1>5, <1>6, <1>7, <1>8, <1>9, <1>10, <1>11 DEF RefundStep

(***************************************************************************)
(* The steps of a refund that fail, and a process that stops in one.       *)
(***************************************************************************)
LEMMA RefundFaultInv ==
  ASSUME PaymentInv, NEW a \in Admins, RefundFault(a)
  PROVE  PaymentInv'
  <1> USE DEF PaymentInv, RefundTyped, AGoto, APcs, Locking
  <1>0. order \in Rows /\ OrderTypeOK /\ MaxFaults \in Nat /\ plan[a].deduct \in 0..Amount
    BY OrderAssumption DEF OrderInv, OrderTypeOK, Rows, Plans
  <1>1. CASE DeductError(a)
    <2>1. faults' \in 0..MaxFaults
      BY <1>0, <1>1 DEF DeductError, OrderTypeOK
    <2>2. OrderInv'
      BY <1>0, <1>1, <2>1, SettledOrder DEF DeductError, OrderTypeOK
    <2>3. RefundTyped' /\ PlanInv' /\ OneRefundInFlight'
      BY <1>1 DEF DeductError, PlanInv, OneRefundInFlight
    <2>q. QED
      BY <2>2, <2>3
  <1>2. CASE RollbackError(a)
    <2>1. /\ order' \in Rows /\ held' \in [Calls -> BOOLEAN] /\ order'.paidAt = order.paidAt
          /\ order'.status = "REFUND_FAILED" /\ order.status = "REFUNDING"
      BY <1>0, <1>2, UpdatedRow DEF RollbackError, OneRefundInFlight
    <2>2. faults' \in 0..MaxFaults
      BY <1>0, <1>2 DEF RollbackError, OrderTypeOK
    <2>3. OrderInv'
      BY <1>0, <1>2, <2>1, <2>2, SettledOrder DEF RollbackError, OrderTypeOK
    <2>4. lost' \in Nat /\ silent' \in Nat /\ rollbackFailed' \in BOOLEAN
      BY <1>0, <1>2 DEF RollbackError
    <2>5. RefundTyped' /\ PlanInv'
      BY <1>2, <2>4 DEF RollbackError, PlanInv
    <2>6. OneRefundInFlight'
      BY <1>2 DEF RollbackError, OneRefundInFlight
    <2>q. QED
      BY <2>3, <2>5, <2>6
  <1>3. CASE FinalizeUnreturned(a)
    <2>1. /\ order' \in Rows /\ held' \in [Calls -> BOOLEAN] /\ order'.paidAt = order.paidAt
          /\ order'.status = "REFUND_FAILED" /\ order.status = "REFUND_PENDING"
      BY <1>0, <1>3, UpdatedRow DEF FinalizeUnreturned
    <2>2. faults' \in 0..MaxFaults /\ lost' \in Nat /\ rollbackFailed' = TRUE
      BY SMTT(30), <1>0, <1>3 DEF FinalizeUnreturned, OrderTypeOK
    <2>3. OrderInv'
      BY <1>0, <1>3, <2>1, <2>2, SettledOrder DEF FinalizeUnreturned, OrderTypeOK
    <2>4. refundAmount' \in 0..Amount
      <3>1. plan[a].cumulative - plan[a].amount \in 0..Amount
        BY OrderAssumption DEF PlanInv, Plans
      <3>q. QED
        BY <1>3, <3>1 DEF FinalizeUnreturned
    <2>5. RefundTyped' /\ PlanInv'
      BY <1>3, <2>2, <2>4 DEF FinalizeUnreturned, PlanInv
    <2>6. OneRefundInFlight'
      BY <1>3, <2>1 DEF FinalizeUnreturned, OneRefundInFlight
    <2>q. QED
      BY <2>3, <2>5, <2>6
  <1>4. CASE RefundCrash(a)
    <2>1. faults' \in 0..MaxFaults
      BY <1>0, <1>4 DEF RefundCrash, OrderTypeOK
    <2>2. OrderInv'
      BY <1>0, <1>4, <2>1, SettledOrder DEF RefundCrash, OrderTypeOK
    <2>3. RefundTyped' /\ PlanInv' /\ OneRefundInFlight'
      BY <1>4 DEF RefundCrash, PlanInv, OneRefundInFlight
    <2>q. QED
      BY <2>2, <2>3
  <1>5. CASE AuditUnread(a)
    <2> DEFINE d == OrMin(plan[a].deduct, balance)
    <2>1. balance \in Nat /\ Amount \in Nat
      BY <1>0, OrderAssumption DEF OrderTypeOK
    <2>2. d \in 0..Amount /\ d <= balance /\ balance' = balance - d /\ silent' = silent + d
      BY <1>0, <1>5, <2>1 DEF AuditUnread, OrMin
    <2>3. plan' = [plan EXCEPT ![a] = [plan[a] EXCEPT !.deduct = d]]
      BY <1>5 DEF AuditUnread
    <2> HIDE DEF d
    <2>4. faults' \in 0..MaxFaults /\ balance' \in Nat /\ silent' \in Nat
      BY SMTT(20), <1>0, <1>5, <2>1, <2>2 DEF AuditUnread, OrderTypeOK
    <2>5. OrderInv'
      BY <1>0, <1>5, <2>4, SettledOrder DEF AuditUnread, OrderTypeOK
    <2>6. RefundTyped' /\ PlanInv'
      <3> DEFINE p == [plan[a] EXCEPT !.deduct = d]
      <3>1. p \in Plans /\ p.amount = plan[a].amount /\ p.cumulative = plan[a].cumulative
        BY <2>2, PlanFields, RefundAssumption
      <3>2. plan' = [plan EXCEPT ![a] = p]
        BY <2>3
      <3> HIDE DEF p
      <3>q. QED
        BY <1>5, <2>4, <3>1, <3>2 DEF AuditUnread, PlanInv
    <2>7. OneRefundInFlight'
      BY <1>5 DEF AuditUnread, OneRefundInFlight
    <2>q. QED
      BY <2>5, <2>6, <2>7
  <1>q. QED
    BY <1>1, <1>2, <1>3, <1>4, <1>5 DEF RefundFault

(***************************************************************************)
(* What the user and the gateway do.                                       *)
(***************************************************************************)
LEMMA OutsideInv ==
  ASSUME PaymentInv, RequestRefund \/ UserSpends \/ GatewaySettles
  PROVE  PaymentInv'
  <1> USE DEF PaymentInv, RefundTyped, Locking
  <1>0. order \in Rows /\ OrderTypeOK
    BY DEF OrderInv, OrderTypeOK, Rows
  <1>1. CASE RequestRefund
    <2>1. /\ order' \in Rows /\ held' \in [Calls -> BOOLEAN] /\ order'.paidAt = order.paidAt
          /\ order'.status = "REFUND_REQUESTED" /\ order.status = "COMPLETED"
      BY <1>0, <1>1, UpdatedRow DEF RequestRefund
    <2>2. OrderInv'
      BY <1>0, <1>1, <2>1, SettledOrder DEF RequestRefund, OrderTypeOK
    <2>3. RefundTyped' /\ PlanInv' /\ OneRefundInFlight'
      BY <1>1, <2>1 DEF RequestRefund, PlanInv, OneRefundInFlight
    <2>q. QED
      BY <2>2, <2>3
  <1>2. CASE UserSpends
    <2>1. balance' \in Nat /\ spent' \in Nat
      BY <1>0, <1>2 DEF UserSpends, OrderTypeOK
    <2>2. OrderInv'
      BY <1>0, <1>2, <2>1, SettledOrder DEF UserSpends, OrderTypeOK
    <2>3. RefundTyped' /\ PlanInv' /\ OneRefundInFlight'
      BY <1>2, <2>1 DEF UserSpends, PlanInv, OneRefundInFlight
    <2>q. QED
      BY <2>2, <2>3
  <1>3. CASE GatewaySettles
    <2>1. OrderInv'
      BY <1>0, <1>3, SettledOrder DEF GatewaySettles, OrderTypeOK
    <2>2. PICK n \in 1..asked, outcome \in {"success", "failed"} :
            /\ gateway' = [gateway EXCEPT ![n].status = outcome]
            /\ cash' = IF outcome = "success" THEN cash + gateway[n].cash ELSE cash
      BY <1>3 DEF GatewaySettles
    <2>3. n \in 1..MaxRefunds /\ gateway[n].cash \in 0..PayAmount
      BY RefundAssumption
    <2>4. gateway' \in [1..MaxRefunds -> [status : Outcomes, cash : 0..PayAmount]]
      BY <2>2, <2>3 DEF Outcomes
    <2>5. cash' \in Nat
      BY <2>2, <2>3, RefundAssumption
    <2>6. RefundTyped' /\ PlanInv' /\ OneRefundInFlight'
      BY <1>3, <2>4, <2>5 DEF GatewaySettles, PlanInv, OneRefundInFlight
    <2>q. QED
      BY <2>1, <2>6
  <1>q. QED
    BY <1>1, <1>2, <1>3

-----------------------------------------------------------------------------
(***************************************************************************)
(* The invariant is inductive.                                             *)
(***************************************************************************)
LEMMA PaymentInit == Init => PaymentInv
  <1> SUFFICES ASSUME Init PROVE PaymentInv
    OBVIOUS
  <1>1. MaxAge \in Nat
    BY OrderAssumption DEF MaxAge
  <1>2. OrderTypeOK
    <2>1. order \in Rows
      BY <1>1 DEF Init, OrderInit, Rows
    <2>2. provider \in [paid : BOOLEAN, closed : BOOLEAN, acked : BOOLEAN]
      BY DEF Init, OrderInit
    <2>3. 0 \in 0..2 /\ 0 \in 0..MaxFaults /\ OtherFunds \in Nat
      BY OrderAssumption, RefundAssumption
    <2>q. QED
      BY <2>1, <2>2, <2>3 DEF Init, OrderInit, OrderTypeOK, Rows
  <1>3. PaidInv /\ CreditInv /\ AckInv
    BY DEF Init, OrderInit, PaidInv, CreditInv, AckInv
  <1>4. NoPlan \in Plans /\ NoPlan.amount <= NoPlan.cumulative
    BY OrderAssumption, RefundAssumption DEF NoPlan, Plans
  <1>5. RefundTyped /\ PlanInv
    <2>1. 0 \in 0..Amount /\ 0 \in 0..MaxRefunds /\ 0 \in 0..PayAmount
      BY OrderAssumption, RefundAssumption
    <2>2. gateway \in [1..MaxRefunds -> [status : Outcomes, cash : 0..PayAmount]]
      BY <2>1 DEF Init, Outcomes
    <2>q. QED
      BY <1>4, <2>1, <2>2 DEF Init, RefundTyped, PlanInv, APcs
  <1>6. OneRefundInFlight
    BY DEF Init, OneRefundInFlight, Locking
  <1>q. QED
    BY <1>2, <1>3, <1>5, <1>6 DEF PaymentInv, OrderInv

\* Every step keeps the invariant.
LEMMA PaymentStep == PaymentInv /\ [Next]_vars => PaymentInv'
  <1> SUFFICES ASSUME PaymentInv, [Next]_vars PROVE PaymentInv'
    OBVIOUS
  <1>1. CASE OrderNext /\ UNCHANGED refundVars
    BY <1>1, OrderStep
  <1>2. CASE \E a \in Admins : RefundStep(a)
    BY <1>2, RefundStepInv
  <1>3. CASE \E a \in Admins : RefundFault(a)
    BY <1>3, RefundFaultInv
  <1>4. CASE RequestRefund \/ UserSpends \/ GatewaySettles
    BY <1>4, OutsideInv
  <1>5. CASE UNCHANGED vars
    BY <1>5 DEF vars, PaymentInv, OrderInv, OrderTypeOK, PaidInv, CreditInv, AckInv,
                RefundTyped, PlanInv, OneRefundInFlight
  <1>q. QED
    BY <1>1, <1>2, <1>3, <1>4, <1>5 DEF Next

\* The invariant holds in every behaviour.
LEMMA PaymentAlways == Spec => []PaymentInv
  BY PaymentInit, PaymentStep, PTL DEF Spec

(***************************************************************************)
(* Every variable keeps its type: in particular no refund takes            *)
(* refund_amount below zero or above the order, or asks the gateway for    *)
(* more than was paid (PrepareRefund, refundCashDelta), however many       *)
(* administrators act on plans that are no longer true.                    *)
(***************************************************************************)
THEOREM PaymentTypes == Spec => []TypeOK
  <1>1. PaymentInv => TypeOK
    BY DEF PaymentInv, OrderInv, RefundTyped, TypeOK
  <1>q. QED
    BY <1>1, PaymentAlways, PTL

(***************************************************************************)
(* An order is credited once, and its inviter once, whatever calls run,    *)
(* stop and are repeated (doBalance, redeem).                              *)
(***************************************************************************)
THEOREM OrderCreditedOnce == Spec => []CreditedOnce
  <1>1. PaymentInv => CreditedOnce
    BY DEF PaymentInv, OrderInv, OrderTypeOK, PaidInv, CreditInv, CreditedOnce
  <1>q. QED
    BY <1>1, PaymentAlways, PTL

(***************************************************************************)
(* An order that is COMPLETED, or at any stage of a refund, was credited.  *)
(***************************************************************************)
THEOREM OrderCompletedIsCredited == Spec => []CompletedIsCredited
  <1>1. PaymentInv => CompletedIsCredited
    BY DEF PaymentInv, OrderInv, CreditInv, CompletedIsCredited
  <1>q. QED
    BY <1>1, PaymentAlways, PTL

(***************************************************************************)
(* The provider's notifications end only with a settled order, with a      *)
(* payment that came too late, or with a notification that could not read  *)
(* the order (confirmPayment, alreadyProcessed).                           *)
(***************************************************************************)
THEOREM OrderAckedIsSettled == Spec => []AckedIsSettled
  <1>1. PaymentInv => AckedIsSettled
    BY DEF PaymentInv, OrderInv, AckInv, AckedIsSettled
  <1>q. QED
    BY <1>1, PaymentAlways, PTL

(***************************************************************************)
(* An order is held by one refund at a time (ExecuteRefund), for any       *)
(* number of administrators.                                               *)
(***************************************************************************)
THEOREM RefundsExclusive == Spec => []OneRefundInFlight
  <1>1. PaymentInv => OneRefundInFlight
    BY DEF PaymentInv
  <1>q. QED
    BY <1>1, PaymentAlways, PTL

---------------------------------------------------------------------------
(***************************************************************************)
(* Refunds made by any number of administrators, each on a plan that is    *)
(* still true when it takes the order, for any number of refunds, failures *)
(* and crashes, and any amounts: the cash and the balance, and the         *)
(* refinement of the ledger.                                               *)
(***************************************************************************)

Pending(n) == gateway[n].status = "pending"
NonePending == \A n \in 1..MaxRefunds : ~Pending(n)

(***************************************************************************)
(* The refund of plan p is with the gateway, and is the only one that may  *)
(* be pending there.                                                       *)
(***************************************************************************)
AtGateway(p) ==
    /\ p.id \in 1..MaxRefunds /\ p.id <= asked
    /\ gateway[p.id].status \in {"pending", "success", "failed"}
    /\ gateway[p.id].cash = RefundCashDelta(p)
    /\ \A n \in 1..MaxRefunds : Pending(n) => n = p.id
    /\ cash = IF gateway[p.id].status = "success" THEN CashOf(p.cumulative)
              ELSE CashOf(p.cumulative - p.amount)

(***************************************************************************)
(* A plan that is being executed was made from the amount refunded so far. *)
(***************************************************************************)
Current(p) == p.cumulative = refundAmount + p.amount /\ p.deduct <= p.amount

CashInv ==
    /\ cash <= PayAmount
    /\ \A n \in 1..MaxRefunds : Pending(n) => cash + gateway[n].cash <= PayAmount
    /\ \A m, n \in 1..MaxRefunds : Pending(m) /\ Pending(n) => m = n
    /\ order.status \notin {"REFUNDING", "REFUND_PENDING"} =>
            NonePending /\ cash = CashOf(refundAmount)
    /\ order.status = "REFUND_PENDING" =>
            AtGateway(detail) /\ refundAmount = detail.cumulative
    /\ \A a \in Admins :
        /\ apc[a] = "execute" => plan[a].deduct <= plan[a].amount
        /\ apc[a] \in Locking => Current(plan[a])
        /\ apc[a] \in {"deduct", "gateway", "rollback", "restore"} =>
                NonePending /\ cash = CashOf(refundAmount)
        /\ apc[a] = "ok" => NonePending /\ cash = CashOf(plan[a].cumulative)
        /\ apc[a] = "pending" => AtGateway(plan[a])

(***************************************************************************)
(* What the user has lost, less what the refund in flight took, is covered *)
(* by refund_amount and the losses; until one of these is in the audit log *)
(* none is known of.                                                       *)
(***************************************************************************)
BalanceInv ==
    /\ rollbackFailed \/ lost = silent
    /\ Deducted <= Amount + silent
    /\ order.status # "REFUNDING" => Deducted <= refundAmount + lost
    /\ order.status = "REFUND_PENDING" =>
            Deducted - detail.deduct <= refundAmount - detail.amount + lost
    /\ \A a \in Admins :
        /\ apc[a] \in {"deduct", "restore"} => Deducted <= refundAmount + lost
        /\ apc[a] \in {"gateway", "ok", "pending", "rollback"} =>
                Deducted - plan[a].deduct <= refundAmount + lost

RefundInv == PaymentInv /\ CashInv /\ BalanceInv

HIDE DEF orderVars, rest, Goto, Start, Unpaid, Fulfillable, Pcs, Kinds

(***************************************************************************)
(* Types of the numbers that the invariant compares.                       *)
(***************************************************************************)
LEMMA BalanceNumbers ==
  ASSUME PaymentInv
  PROVE  /\ balance \in Nat /\ spent \in Nat /\ OtherFunds \in Nat
         /\ Amount * credits \in Nat
  <1>1. balance \in Nat /\ spent \in Nat /\ credits \in Nat
    BY DEF PaymentInv, OrderInv, OrderTypeOK, RefundTyped
  <1>q. QED
    BY <1>1, OrderAssumption, RefundAssumption, ProductOrder

\* The amounts of an order are natural numbers within their bounds.
LEMMA Numbers ==
  ASSUME PaymentInv
  PROVE  /\ Amount \in Nat /\ PayAmount \in Nat /\ refundAmount \in 0..Amount
         /\ cash \in Nat /\ lost \in Nat /\ silent \in Nat /\ Deducted \in Int
         /\ CashOf(refundAmount) \in 0..PayAmount
         /\ \A n \in 1..MaxRefunds : gateway[n].cash \in 0..PayAmount
  <1>1. /\ Amount \in Nat /\ PayAmount \in Nat /\ refundAmount \in 0..Amount
        /\ cash \in Nat /\ lost \in Nat /\ silent \in Nat
        /\ \A n \in 1..MaxRefunds : gateway[n].cash \in 0..PayAmount
    BY OrderAssumption, RefundAssumption DEF PaymentInv, RefundTyped
  <1>2. CashOf(refundAmount) \in Nat /\ CashOf(refundAmount) <= PayAmount
    BY <1>1, CashOfOrder, CashOfWhole
  <1>3. Deducted \in Int
    BY <1>1, BalanceNumbers DEF Deducted
  <1>q. QED
    BY <1>1, <1>2, <1>3

\* So are the amounts of a refund's plan.
LEMMA PlanNumbers ==
  ASSUME PaymentInv, NEW p, p = detail \/ \E a \in Admins : p = plan[a]
  PROVE  /\ p \in Plans /\ p.amount \in 0..Amount /\ p.cumulative \in 0..Amount
         /\ p.deduct \in 0..Amount /\ p.amount <= p.cumulative
         /\ CashOf(p.cumulative) \in 0..PayAmount
         /\ CashOf(p.cumulative - p.amount) \in 0..PayAmount
         /\ RefundCashDelta(p) \in 0..PayAmount
  <1>1. p \in Plans /\ p.amount <= p.cumulative
    BY DEF PaymentInv, RefundTyped, PlanInv
  <1>2. p.amount \in 0..Amount /\ p.cumulative \in 0..Amount /\ p.deduct \in 0..Amount
    BY <1>1 DEF Plans
  <1>q. QED
    BY <1>1, <1>2, ShareBounds

(***************************************************************************)
(* A step of the order.                                                    *)
(***************************************************************************)
LEMMA RefundUnderOrder ==
  ASSUME RefundInv, OrderEffect, UNCHANGED refundVars
  PROVE  CashInv' /\ BalanceInv'
  <1>1. Deducted' = Deducted
    <2>1. Amount \in Nat /\ balance \in Nat /\ credits \in Nat /\ spent \in Nat
          /\ OtherFunds \in Nat
      BY OrderAssumption, RefundAssumption
      DEF RefundInv, PaymentInv, OrderInv, OrderTypeOK, RefundTyped
    <2>2. Amount * 0 = 0 /\ Amount * 1 = Amount
      BY <2>1
    <2>3. CASE balance' = balance /\ credits' = credits
      BY <2>3 DEF Deducted
    <2>4. CASE credits = 0 /\ credits' = 1 /\ balance' = balance + Amount
      BY <2>1, <2>2, <2>4 DEF Deducted
    <2>q. QED
      BY <2>3, <2>4 DEF OrderEffect
  <1>2. CashInv'
    BY DEF RefundInv, CashInv, OrderEffect, Pending, NonePending, AtGateway, Current, Refundable
  <1>3. BalanceInv'
    BY <1>1 DEF RefundInv, BalanceInv, OrderEffect
  <1>q. QED
    BY <1>2, <1>3

(***************************************************************************)
(* A step of one administrator leaves the requests of the others.          *)
(***************************************************************************)
LEMMA OthersWait ==
  ASSUME apc \in [Admins -> APcs], plan \in [Admins -> Plans], NEW a \in Admins,
         RefundStep(a) \/ RefundFault(a)
  PROVE  \A b \in Admins \ {a} : apc'[b] = apc[b] /\ plan'[b] = plan[b]
  <1> USE DEF AGoto
  <1>1. CASE RefundStep(a)
    BY <1>1 DEF RefundStep, PrepareRefund, LockRefund, DeductBalance, GatewayRefund,
                MarkRefundOk, MarkRefundPending, RollbackRefund, RestoreStatus, QueryRefund,
                FinalizeSuccess, FinalizeFailed
  <1>2. CASE RefundFault(a)
    BY <1>2 DEF RefundFault, AuditUnread, DeductError, RollbackError, FinalizeUnreturned,
                RefundCrash
  <1>q. QED
    BY <1>1, <1>2

(***************************************************************************)
(* The steps of a refund.                                                  *)
(***************************************************************************)
LEMMA RefundSteps ==
  ASSUME RefundInv, NEW a \in Admins, RefundStep(a), FreshPlan(a)
  PROVE  CashInv' /\ BalanceInv'
  <1> USE DEF AGoto, Locking
  <1>0. PaymentInv /\ CashInv /\ BalanceInv /\ OrderTypeOK /\ apc \in [Admins -> APcs]
        /\ plan \in [Admins -> Plans]
        /\ \A b \in Admins \ {a} :
                /\ apc[a] \in Locking => apc[b] \notin Locking
                /\ apc'[b] = apc[b] /\ plan'[b] = plan[b]
    <2>1. /\ PaymentInv /\ CashInv /\ BalanceInv /\ OrderTypeOK
          /\ apc \in [Admins -> APcs] /\ plan \in [Admins -> Plans]
      BY DEF RefundInv, PaymentInv, OrderInv, RefundTyped
    <2>2. \A b \in Admins \ {a} : apc[a] \in Locking => apc[b] \notin Locking
      BY <2>1 DEF PaymentInv, OneRefundInFlight
    <2>3. \A b \in Admins \ {a} : apc'[b] = apc[b] /\ plan'[b] = plan[b]
      BY <2>1, OthersWait
    <2>q. QED
      BY <2>1, <2>2, <2>3
  <1>1. ASSUME NEW amt \in 1..Amount, NEW force \in BOOLEAN, NEW deduct \in BOOLEAN,
               PrepareRefund(a, amt, force, deduct)
        PROVE  CashInv' /\ BalanceInv'
    <2>1. /\ plan'[a].cumulative = refundAmount + plan'[a].amount
          /\ plan'[a].deduct <= plan'[a].amount
      BY <1>0, <1>1, OrderAssumption DEF PrepareRefund, OrMin, OrderTypeOK
    <2>2. Deducted' = Deducted
      BY <1>1 DEF PrepareRefund, Deducted
    <2>3. CashInv'
      BY <1>0, <1>1, <2>1
      DEF PrepareRefund, CashInv, Pending, NonePending, AtGateway, Current, Refundable
    <2>4. BalanceInv'
      BY <1>0, <1>1, <2>2 DEF PrepareRefund, BalanceInv
    <2>q. QED
      BY <2>3, <2>4
  <1>2. CASE LockRefund(a)
    <2>1. \/ /\ order.status \in Refundable /\ order'.status = "REFUNDING"
             /\ apc' = [apc EXCEPT ![a] = "deduct"]
          \/ order' = order /\ apc' = [apc EXCEPT ![a] = "idle"]
      BY <1>0, <1>2, UpdatedRow DEF LockRefund, OrderTypeOK
    <2>2. Deducted' = Deducted
      BY <1>2 DEF LockRefund, Deducted
    <2>3. CashInv'
      <3>1. apc'[a] = "deduct" => Current(plan[a])
        BY <1>0, <1>2 DEF LockRefund, FreshPlan, CashInv, Current
      <3>2. order.status \in Refundable => \A b \in Admins : apc[b] \notin Locking
        BY <1>0 DEF PaymentInv, OneRefundInFlight, Refundable
      <3>q. QED
        BY <1>0, <1>2, <2>1, <3>1, <3>2
        DEF LockRefund, CashInv, Pending, NonePending, AtGateway, Current, Refundable
    <2>4. BalanceInv'
      BY <1>0, <1>2, <2>1, <2>2 DEF LockRefund, BalanceInv, Refundable
    <2>q. QED
      BY <2>3, <2>4
  <1>3. CASE DeductBalance(a)
    <2> DEFINE d == IF rollbackFailed THEN 0 ELSE OrMin(plan[a].deduct, balance)
    <2>1. plan[a].deduct \in 0..Amount /\ balance \in Nat /\ Amount \in Nat
      BY <1>0, PlanNumbers, Numbers DEF OrderTypeOK
    <2>2. /\ d \in 0..Amount /\ d <= plan[a].deduct /\ balance' = balance - d
          /\ rollbackFailed => d = 0
      BY <1>0, <1>3, <2>1 DEF DeductBalance, OrMin
    <2>3. plan' = [plan EXCEPT ![a] = [plan[a] EXCEPT !.deduct = d]]
      BY <1>3 DEF DeductBalance
    <2> HIDE DEF d
    <2>4. /\ plan'[a].deduct = d /\ plan'[a].amount = plan[a].amount
          /\ plan'[a].cumulative = plan[a].cumulative
      BY <1>0, <2>3 DEF Plans
    <2>5. Deducted' = Deducted + d
      BY <1>0, <1>3, <2>1, <2>2, BalanceNumbers DEF DeductBalance, Deducted
    <2>6. Current(plan[a]) /\ plan[a].amount \in 0..Amount
      BY <1>0, <1>3, PlanNumbers DEF DeductBalance, CashInv
    <2>7. CashInv'
      BY <1>0, <1>3, <2>1, <2>2, <2>4, <2>6
      DEF DeductBalance, CashInv, Pending, NonePending, AtGateway, Current
    <2>8. order.status = "REFUNDING"
      BY <1>0, <1>3 DEF DeductBalance, PaymentInv, OneRefundInFlight
    <2>9. BalanceInv'
      <3>1. Deducted <= refundAmount + lost /\ Deducted \in Int
        BY <1>0, <1>3, Numbers DEF DeductBalance, BalanceInv
      <3>2. Deducted' <= Amount + silent
        BY <1>0, <2>1, <2>2, <2>5, <2>6, <3>1, Numbers, PlanNumbers DEF BalanceInv, Current
      <3>3. Deducted' - plan'[a].deduct <= refundAmount + lost
        BY <1>0, <2>1, <2>2, <2>4, <2>5, <3>1, Numbers
      <3>q. QED
        BY <1>0, <1>3, <2>8, <3>2, <3>3 DEF DeductBalance, BalanceInv
    <2>q. QED
      BY <2>7, <2>9
  <1>4. CASE GatewayRefund(a)
    <2>0. \A b \in Admins \ {a} :
            apc[b] \notin Locking /\ apc'[b] = apc[b] /\ plan'[b] = plan[b]
      BY <1>0, <1>4 DEF GatewayRefund
    <2> DEFINE share == RefundCashDelta(plan[a])
               id == asked + 1
    <2>1. id \in 1..MaxRefunds /\ share \in 0..PayAmount /\ Current(plan[a])
          /\ NonePending /\ cash = CashOf(refundAmount) /\ order.status = "REFUNDING"
      BY SMTT(30), <1>0, <1>4, RefundAssumption, PlanNumbers
      DEF GatewayRefund, CashInv, PaymentInv, RefundTyped, OneRefundInFlight
    <2>2. plan' = [plan EXCEPT ![a] = [plan[a] EXCEPT !.id = id]] /\ asked' = id
      BY <1>4 DEF GatewayRefund
    <2>3. PICK answer \in {"success", "pending", "failed"} :
            /\ gateway' = [gateway EXCEPT ![id] = [status |-> answer, cash |-> share]]
            /\ cash' = IF answer = "success" THEN cash + share ELSE cash
            /\ apc' = [apc EXCEPT ![a] = CASE answer = "success" -> "ok"
                                           [] answer = "pending" -> "pending"
                                           [] answer = "failed" -> "rollback"]
      BY <1>4 DEF GatewayRefund
    <2>4. /\ plan'[a].id = id /\ plan'[a].amount = plan[a].amount
          /\ plan'[a].cumulative = plan[a].cumulative /\ plan'[a].deduct = plan[a].deduct
          /\ RefundCashDelta(plan'[a]) = share
      BY <1>0, <2>2 DEF Plans, RefundCashDelta
    <2>5. /\ refundAmount = plan[a].cumulative - plan[a].amount
          /\ share = CashOf(plan[a].cumulative) - cash
          /\ cash + share = CashOf(plan[a].cumulative) /\ cash + share <= PayAmount
          /\ cash <= PayAmount
      <3>1. /\ plan[a].amount \in Nat /\ plan[a].cumulative \in Nat /\ refundAmount \in Nat
            /\ CashOf(plan[a].cumulative) \in 0..PayAmount
            /\ CashOf(refundAmount) \in 0..PayAmount /\ PayAmount \in Nat
        BY <1>0, Numbers, PlanNumbers
      <3>2. refundAmount = plan[a].cumulative - plan[a].amount
        BY <2>1, <3>1 DEF Current
      <3>q. QED
        BY <2>1, <3>1, <3>2 DEF RefundCashDelta
    <2> HIDE DEF share
    <2>6. /\ gateway'[id].status = answer /\ gateway'[id].cash = share
          /\ \A n \in 1..MaxRefunds : n # id => gateway'[n] = gateway[n]
      BY <1>0, <2>1, <2>3 DEF PaymentInv, RefundTyped
    <2> HIDE DEF id
    <2>7. \A n \in 1..MaxRefunds : Pending(n)' => answer = "pending" /\ n = id
      BY <2>1, <2>6 DEF Pending, NonePending
    <2>8. \/ answer = "success" /\ apc'[a] = "ok" /\ cash' = cash + share
          \/ answer = "pending" /\ apc'[a] = "pending" /\ cash' = cash
          \/ answer = "failed" /\ apc'[a] = "rollback" /\ cash' = cash
      BY <1>0, <2>3
    <2>9. UNCHANGED <<order, refundAmount, detail, rollbackFailed, silent, lost>>
      BY <1>4 DEF GatewayRefund
    <2>10. Current(plan[a])'
      BY <2>1, <2>4, <2>9 DEF Current
    <2>11. AtGateway(plan[a])' \/ answer # "pending"
      BY <1>0, <2>1, <2>2, <2>4, <2>5, <2>6, <2>7, <2>8, Numbers DEF AtGateway
    <2>12. CashInv'
      BY <1>0, <2>0, <2>1, <2>4, <2>5, <2>6, <2>7, <2>8, <2>9, <2>10, <2>11
      DEF CashInv, NonePending
    <2>13. Deducted' = Deducted
      BY <1>4 DEF GatewayRefund, Deducted
    <2>14. BalanceInv'
      BY <1>0, <2>0, <1>4, <2>1, <2>4, <2>8, <2>9, <2>13 DEF GatewayRefund, BalanceInv
    <2>q. QED
      BY <2>12, <2>14
  <1>5. CASE MarkRefundOk(a)
    <2>0. \A b \in Admins \ {a} :
            apc[b] \notin Locking /\ apc'[b] = apc[b] /\ plan'[b] = plan[b]
      BY <1>0, <1>5 DEF MarkRefundOk
    <2>1. /\ order'.status \in {"PARTIALLY_REFUNDED", "REFUNDED"}
          /\ order.status = "REFUNDING" /\ apc'[a] = "idle"
      BY <1>0, <1>5, UpdatedRow DEF MarkRefundOk, FinalStatus, PaymentInv, OneRefundInFlight
    <2>2. /\ refundAmount' = plan[a].cumulative /\ Current(plan[a])
          /\ NonePending /\ cash = CashOf(plan[a].cumulative)
          /\ Deducted - plan[a].deduct <= refundAmount + lost
      BY <1>0, <1>5 DEF MarkRefundOk, CashInv, BalanceInv
    <2>3. UNCHANGED <<cash, gateway, asked, detail, rollbackFailed, silent, lost>>
      BY <1>5 DEF MarkRefundOk
    <2>4. Deducted' = Deducted
      BY <1>5 DEF MarkRefundOk, Deducted
    <2>5. CashInv'
      BY <1>0, <2>0, <2>1, <2>2, <2>3 DEF CashInv, Pending, NonePending
    <2>6. Deducted <= refundAmount' + lost
      BY <1>0, <2>2, Numbers, PlanNumbers DEF Current
    <2>7. BalanceInv'
      BY <1>0, <2>0, <2>1, <2>3, <2>4, <2>6 DEF BalanceInv
    <2>q. QED
      BY <2>5, <2>7
  <1>6. CASE MarkRefundPending(a)
    <2>0. \A b \in Admins \ {a} :
            apc[b] \notin Locking /\ apc'[b] = apc[b] /\ plan'[b] = plan[b]
      BY <1>0, <1>6 DEF MarkRefundPending
    <2>1. /\ order'.status = "REFUND_PENDING" /\ order.status = "REFUNDING"
          /\ apc'[a] = "idle"
      BY <1>0, <1>6, UpdatedRow DEF MarkRefundPending, PaymentInv, OneRefundInFlight
    <2>2. /\ refundAmount' = plan[a].cumulative /\ Current(plan[a]) /\ detail' = plan[a]
          /\ AtGateway(plan[a]) /\ Deducted - plan[a].deduct <= refundAmount + lost
      BY <1>0, <1>6 DEF MarkRefundPending, CashInv, BalanceInv
    <2>3. UNCHANGED <<cash, gateway, asked, plan, rollbackFailed, silent, lost>>
      BY <1>6 DEF MarkRefundPending
    <2>4. Deducted' = Deducted
      BY <1>6 DEF MarkRefundPending, Deducted
    <2>5. CashInv'
      BY <1>0, <2>0, <2>1, <2>2, <2>3 DEF CashInv, Pending, NonePending, AtGateway
    <2>6. /\ Deducted <= refundAmount' + lost
          /\ Deducted - plan[a].deduct <= refundAmount' - plan[a].amount + lost
      BY <1>0, <2>2, Numbers, PlanNumbers DEF Current
    <2>7. BalanceInv'
      BY <1>0, <2>0, <2>1, <2>2, <2>3, <2>4, <2>6 DEF BalanceInv
    <2>q. QED
      BY <2>5, <2>7
  <1>7. CASE RollbackRefund(a)
    <2>0. \A b \in Admins \ {a} :
            apc[b] \notin Locking /\ apc'[b] = apc[b] /\ plan'[b] = plan[b]
      BY <1>0, <1>7 DEF RollbackRefund
    <2>1. /\ order.status = "REFUNDING" /\ apc'[a] = "restore"
          /\ balance' = balance + plan[a].deduct
          /\ UNCHANGED <<order, cash, gateway, asked, plan, detail, refundAmount,
                         rollbackFailed, silent, lost, credits, spent>>
      BY <1>0, <1>7 DEF RollbackRefund, PaymentInv, OneRefundInFlight
    <2>2. CashInv'
      BY <1>0, <2>0, <1>7, <2>1 DEF RollbackRefund, CashInv, Pending, NonePending, AtGateway, Current
    <2>3. Deducted' = Deducted - plan[a].deduct
      <3>1. plan[a].deduct \in Nat
        BY <1>0, PlanNumbers
      <3>q. QED
        BY <1>0, <2>1, <3>1, BalanceNumbers DEF Deducted
    <2>4. Deducted' <= refundAmount + lost /\ Deducted' <= Amount + silent
      <3>1. Deducted - plan[a].deduct <= refundAmount + lost
        BY <1>0, <1>7 DEF RollbackRefund, BalanceInv
      <3>q. QED
        BY <1>0, <2>3, <3>1, Numbers, PlanNumbers DEF BalanceInv
    <2>5. BalanceInv'
      BY <1>0, <2>0, <2>1, <2>4 DEF BalanceInv
    <2>q. QED
      BY <2>2, <2>5
  <1>8. CASE RestoreStatus(a)
    <2>0. \A b \in Admins \ {a} :
            apc[b] \notin Locking /\ apc'[b] = apc[b] /\ plan'[b] = plan[b]
      BY <1>0, <1>8 DEF RestoreStatus
    <2>1. /\ order'.status \in {"REFUND_REQUESTED", "PARTIALLY_REFUNDED", "COMPLETED"}
          /\ order.status = "REFUNDING" /\ apc'[a] = "idle"
      BY <1>0, <1>8, UpdatedRow DEF RestoreStatus, PaymentInv, OneRefundInFlight
    <2>2. NonePending /\ cash = CashOf(refundAmount) /\ Deducted <= refundAmount + lost
      BY <1>0, <1>8 DEF RestoreStatus, CashInv, BalanceInv
    <2>3. UNCHANGED <<cash, gateway, asked, plan, detail, refundAmount, rollbackFailed,
                      silent, lost>>
      BY <1>8 DEF RestoreStatus
    <2>4. Deducted' = Deducted
      BY <1>8 DEF RestoreStatus, Deducted
    <2>5. CashInv'
      BY <1>0, <2>0, <2>1, <2>2, <2>3 DEF CashInv, Pending, NonePending
    <2>6. BalanceInv'
      BY <1>0, <2>0, <2>1, <2>2, <2>3, <2>4 DEF BalanceInv
    <2>q. QED
      BY <2>5, <2>6
  <1>9. CASE QueryRefund(a)
    <2>1. Deducted' = Deducted
      BY <1>9 DEF QueryRefund, Deducted
    <2>2. CashInv'
      BY <1>0, <1>9 DEF QueryRefund, CashInv, Pending, NonePending, AtGateway, Current
    <2>3. BalanceInv'
      BY <1>0, <1>9, <2>1 DEF QueryRefund, BalanceInv
    <2>q. QED
      BY <2>2, <2>3
  <1>10. CASE FinalizeSuccess(a)
    <2>1. CASE order.status = "REFUND_PENDING"
      <3>a. \A b \in Admins \ {a} :
              apc[b] \notin Locking /\ apc'[b] = apc[b] /\ plan'[b] = plan[b]
        BY <1>0, <2>1 DEF PaymentInv, OneRefundInFlight
      <3>0. plan[a] = detail
        BY <1>0, <1>10, <2>1, UpdatedRow DEF FinalizeSuccess, FreshPlan, FinalStatus
      <3>1. order.status = "REFUND_PENDING" /\ plan[a] = detail
            /\ AtGateway(detail) /\ refundAmount = detail.cumulative
        BY <1>0, <2>1, <3>0 DEF CashInv
      <3>2. /\ order'.status \in {"PARTIALLY_REFUNDED", "REFUNDED"} /\ apc'[a] = "idle"
            /\ refundAmount' = refundAmount /\ gateway[detail.id].status = "success"
        BY <1>0, <1>10, <3>1, UpdatedRow DEF FinalizeSuccess, FinalStatus
      <3>3. UNCHANGED <<cash, gateway, asked, plan, detail, rollbackFailed, silent, lost>>
        BY <1>10 DEF FinalizeSuccess
      <3>4. Deducted' = Deducted
        BY <1>10 DEF FinalizeSuccess, Deducted
      <3>5. NonePending /\ cash = CashOf(refundAmount)
        BY <3>1, <3>2 DEF NonePending, Pending, AtGateway
      <3>6. CashInv'
        BY <1>0, <3>a, <3>1, <3>2, <3>3, <3>5 DEF CashInv, Pending, NonePending
      <3>7. BalanceInv'
        BY <1>0, <3>a, <3>1, <3>2, <3>3, <3>4 DEF BalanceInv
      <3>q. QED
        BY <3>6, <3>7
    <2>2. CASE order.status # "REFUND_PENDING"
      <3>1. /\ UNCHANGED <<order, refundAmount, balance, cash, gateway, asked, plan, detail,
                           rollbackFailed, silent, lost, credits, spent>>
            /\ apc'[a] = "idle"
        BY <1>0, <1>10, <2>2 DEF FinalizeSuccess
      <3>2. Deducted' = Deducted
        BY <3>1 DEF Deducted
      <3>3. CashInv'
        BY <1>0, <3>1 DEF CashInv, Pending, NonePending, AtGateway, Current
      <3>4. BalanceInv'
        BY <1>0, <3>1, <3>2 DEF BalanceInv
      <3>q. QED
        BY <3>3, <3>4
    <2>q. QED
      BY <2>1, <2>2
  <1>11. CASE FinalizeFailed(a)
    <2>1. CASE order.status = "REFUND_PENDING"
      <3>a. \A b \in Admins \ {a} :
              apc[b] \notin Locking /\ apc'[b] = apc[b] /\ plan'[b] = plan[b]
        BY <1>0, <2>1 DEF PaymentInv, OneRefundInFlight
      <3>0. plan[a] = detail
        BY <1>0, <1>11, <2>1, UpdatedRow DEF FinalizeFailed, FreshPlan, FinalStatus
      <3>1. order.status = "REFUND_PENDING" /\ plan[a] = detail
            /\ AtGateway(detail) /\ refundAmount = detail.cumulative
            /\ Deducted - detail.deduct <= refundAmount - detail.amount + lost
        BY <1>0, <2>1, <3>0 DEF CashInv, BalanceInv
      <3>2. /\ order'.status = "REFUND_FAILED" /\ apc'[a] = "idle"
            /\ refundAmount' = detail.cumulative - detail.amount
            /\ balance' = balance + detail.deduct
            /\ gateway[detail.id].status = "failed"
        BY <1>0, <1>11, <3>1, UpdatedRow DEF FinalizeFailed
      <3>3. UNCHANGED <<cash, gateway, asked, plan, detail, rollbackFailed, silent, lost,
                        credits, spent>>
        BY <1>11 DEF FinalizeFailed
      <3>4. NonePending /\ cash = CashOf(refundAmount')
        BY <3>1, <3>2 DEF NonePending, Pending, AtGateway
      <3>5. CashInv'
        BY <1>0, <3>a, <3>1, <3>2, <3>3, <3>4 DEF CashInv, Pending, NonePending
      <3>6. Deducted' = Deducted - detail.deduct
        <4>1. detail.deduct \in Nat
          BY <1>0, PlanNumbers
        <4>q. QED
          BY <1>0, <3>2, <3>3, <4>1, BalanceNumbers DEF Deducted
      <3>7. Deducted' <= refundAmount' + lost /\ Deducted' <= Amount + silent
        BY <1>0, <3>1, <3>2, <3>6, Numbers, PlanNumbers DEF BalanceInv
      <3>8. BalanceInv'
        BY <1>0, <3>a, <3>2, <3>3, <3>7 DEF BalanceInv
      <3>q. QED
        BY <3>5, <3>8
    <2>2. CASE order.status # "REFUND_PENDING"
      <3>1. /\ UNCHANGED <<order, refundAmount, balance, cash, gateway, asked, plan, detail,
                           rollbackFailed, silent, lost, credits, spent>>
            /\ apc'[a] = "idle"
        BY <1>0, <1>11, <2>2 DEF FinalizeFailed
      <3>2. Deducted' = Deducted
        BY <3>1 DEF Deducted
      <3>3. CashInv'
        BY <1>0, <3>1 DEF CashInv, Pending, NonePending, AtGateway, Current
      <3>4. BalanceInv'
        BY <1>0, <3>1, <3>2 DEF BalanceInv
      <3>q. QED
        BY <3>3, <3>4
    <2>q. QED
      BY <2>1, <2>2
  <1>q. QED
    BY <1>1, <1>2, <1>3, <1>4, <1>5, <1>6, <1>7, <1>8, <1>9, <1>10, <1>11 DEF RefundStep

(***************************************************************************)
(* The steps of a refund that fail.                                        *)
(***************************************************************************)
LEMMA RefundFaults ==
  ASSUME RefundInv, NEW a \in Admins, RefundFault(a), FreshPlan(a)
  PROVE  CashInv' /\ BalanceInv'
  <1> USE DEF AGoto, Locking
  <1>0. PaymentInv /\ CashInv /\ BalanceInv /\ OrderTypeOK /\ apc \in [Admins -> APcs]
        /\ plan \in [Admins -> Plans]
        /\ \A b \in Admins \ {a} :
                /\ apc[a] \in Locking => apc[b] \notin Locking
                /\ apc'[b] = apc[b] /\ plan'[b] = plan[b]
    <2>1. /\ PaymentInv /\ CashInv /\ BalanceInv /\ OrderTypeOK
          /\ apc \in [Admins -> APcs] /\ plan \in [Admins -> Plans]
      BY DEF RefundInv, PaymentInv, OrderInv, RefundTyped
    <2>2. \A b \in Admins \ {a} : apc[a] \in Locking => apc[b] \notin Locking
      BY <2>1 DEF PaymentInv, OneRefundInFlight
    <2>3. \A b \in Admins \ {a} : apc'[b] = apc[b] /\ plan'[b] = plan[b]
      BY <2>1, OthersWait
    <2>q. QED
      BY <2>1, <2>2, <2>3
  <1>1. CASE DeductError(a)
    <2>1. Deducted' = Deducted
      BY <1>1 DEF DeductError, Deducted
    <2>2. CashInv'
      BY <1>0, <1>1 DEF DeductError, CashInv, Pending, NonePending, AtGateway, Current
    <2>3. BalanceInv'
      BY <1>0, <1>1, <2>1 DEF DeductError, BalanceInv
    <2>q. QED
      BY <2>2, <2>3
  <1>2. CASE RollbackError(a)
    <2>0. \A b \in Admins \ {a} :
            apc[b] \notin Locking /\ apc'[b] = apc[b] /\ plan'[b] = plan[b]
      BY <1>0, <1>2 DEF RollbackError
    <2>1. /\ order'.status = "REFUND_FAILED" /\ order.status = "REFUNDING"
          /\ apc'[a] = "idle"
      BY <1>0, <1>2, UpdatedRow DEF RollbackError, PaymentInv, OneRefundInFlight
    <2>2. /\ UNCHANGED <<cash, gateway, asked, plan, detail, refundAmount>>
          /\ lost' = lost + plan[a].deduct
          /\ \E recorded \in BOOLEAN :
                /\ rollbackFailed' = (rollbackFailed \/ recorded)
                /\ silent' = IF recorded THEN silent ELSE silent + plan[a].deduct
      BY <1>2 DEF RollbackError
    <2>3. /\ NonePending /\ cash = CashOf(refundAmount)
          /\ Deducted - plan[a].deduct <= refundAmount + lost
      BY <1>0, <1>2 DEF RollbackError, CashInv, BalanceInv
    <2>4. Deducted' = Deducted
      BY <1>2 DEF RollbackError, Deducted
    <2>5. CashInv'
      BY <1>0, <2>0, <2>1, <2>2, <2>3 DEF CashInv, Pending, NonePending
    <2>6. /\ rollbackFailed' \/ lost' = silent'
          /\ Deducted' <= Amount + silent' /\ Deducted' <= refundAmount + lost'
      <3>1. PICK recorded \in BOOLEAN :
                /\ rollbackFailed' = (rollbackFailed \/ recorded)
                /\ silent' = IF recorded THEN silent ELSE silent + plan[a].deduct
        BY <2>2
      <3>2. plan[a].deduct \in Nat /\ silent <= silent' /\ silent' \in Nat
        BY <1>0, <3>1, Numbers, PlanNumbers
      <3>3. rollbackFailed' \/ lost' = silent'
        BY <1>0, <2>2, <3>1 DEF BalanceInv
      <3>4. Deducted' <= Amount + silent'
        BY <1>0, <2>4, <3>2, Numbers DEF BalanceInv
      <3>5. Deducted' <= refundAmount + lost'
        BY <1>0, <2>2, <2>3, <2>4, <3>2, Numbers
      <3>q. QED
        BY <3>3, <3>4, <3>5
    <2>7. BalanceInv'
      BY <1>0, <2>0, <2>1, <2>2, <2>6 DEF BalanceInv
    <2>q. QED
      BY <2>5, <2>7
  <1>3. CASE FinalizeUnreturned(a)
    <2>1. CASE order.status = "REFUND_PENDING"
      <3>a. \A b \in Admins \ {a} :
              apc[b] \notin Locking /\ apc'[b] = apc[b] /\ plan'[b] = plan[b]
        BY <1>0, <2>1 DEF PaymentInv, OneRefundInFlight
      <3>0. plan[a] = detail
        BY <1>0, <1>3, <2>1, UpdatedRow DEF FinalizeUnreturned, FreshPlan, FinalStatus
      <3>1. order.status = "REFUND_PENDING" /\ plan[a] = detail
            /\ AtGateway(detail) /\ refundAmount = detail.cumulative
            /\ Deducted - detail.deduct <= refundAmount - detail.amount + lost
        BY <1>0, <2>1, <3>0 DEF CashInv, BalanceInv
      <3>2. /\ order'.status = "REFUND_FAILED" /\ apc'[a] = "idle"
            /\ refundAmount' = detail.cumulative - detail.amount
            /\ rollbackFailed' /\ lost' = lost + detail.deduct
            /\ gateway[detail.id].status = "failed"
        BY <1>0, <1>3, <3>1, UpdatedRow DEF FinalizeUnreturned
      <3>3. UNCHANGED <<cash, gateway, asked, plan, detail, silent>>
        BY <1>3 DEF FinalizeUnreturned
      <3>4. NonePending /\ cash = CashOf(refundAmount')
        BY <3>1, <3>2 DEF NonePending, Pending, AtGateway
      <3>5. CashInv'
        BY <1>0, <3>a, <3>1, <3>2, <3>3, <3>4 DEF CashInv, Pending, NonePending
      <3>6. Deducted' = Deducted
        BY <1>3 DEF FinalizeUnreturned, Deducted
      <3>7. Deducted' <= refundAmount' + lost' /\ Deducted' <= Amount + silent
        BY <1>0, <3>1, <3>2, <3>6, Numbers, PlanNumbers DEF BalanceInv
      <3>8. BalanceInv'
        BY <1>0, <3>a, <3>2, <3>3, <3>7 DEF BalanceInv
      <3>q. QED
        BY <3>5, <3>8
    <2>q. QED
      BY <1>3, <2>1 DEF FinalizeUnreturned
  <1>4. CASE RefundCrash(a)
    <2>1. Deducted' = Deducted
      BY <1>4 DEF RefundCrash, Deducted
    <2>2. CashInv'
      BY <1>0, <1>4 DEF RefundCrash, CashInv, Pending, NonePending, AtGateway, Current
    <2>3. BalanceInv'
      BY <1>0, <1>4, <2>1 DEF RefundCrash, BalanceInv
    <2>q. QED
      BY <2>2, <2>3
  <1>5. CASE AuditUnread(a)
    <2> DEFINE d == OrMin(plan[a].deduct, balance)
    <2>1. plan[a].deduct \in 0..Amount /\ balance \in Nat /\ Amount \in Nat
      BY <1>0, PlanNumbers, Numbers DEF OrderTypeOK
    <2>2. /\ d \in 0..Amount /\ d <= plan[a].deduct /\ balance' = balance - d
          /\ silent' = silent + d /\ rollbackFailed' /\ lost' = lost
      BY <1>0, <1>5, <2>1 DEF AuditUnread, OrMin
    <2>3. plan' = [plan EXCEPT ![a] = [plan[a] EXCEPT !.deduct = d]]
      BY <1>5 DEF AuditUnread
    <2> HIDE DEF d
    <2>4. /\ plan'[a].deduct = d /\ plan'[a].amount = plan[a].amount
          /\ plan'[a].cumulative = plan[a].cumulative
      BY <1>0, <2>3 DEF Plans
    <2>5. Deducted' = Deducted + d
      BY <1>0, <1>5, <2>1, <2>2, BalanceNumbers DEF AuditUnread, Deducted
    <2>6. Current(plan[a]) /\ plan[a].amount \in 0..Amount
      BY <1>0, <1>5, PlanNumbers DEF AuditUnread, CashInv
    <2>7. CashInv'
      BY <1>0, <1>5, <2>1, <2>2, <2>4, <2>6
      DEF AuditUnread, CashInv, Pending, NonePending, AtGateway, Current
    <2>8. order.status = "REFUNDING"
      BY <1>0, <1>5 DEF AuditUnread, PaymentInv, OneRefundInFlight
    <2>9. BalanceInv'
      <3>1. Deducted <= refundAmount + lost /\ Deducted <= Amount + silent /\ Deducted \in Int
        BY <1>0, <1>5, Numbers DEF AuditUnread, BalanceInv
      <3>2. Deducted' <= Amount + silent'
        BY <1>0, <2>1, <2>2, <2>5, <3>1, Numbers
      <3>3. Deducted' - plan'[a].deduct <= refundAmount + lost
        BY <1>0, <2>1, <2>2, <2>4, <2>5, <3>1, Numbers
      <3>q. QED
        BY <1>0, <1>5, <2>2, <2>8, <3>2, <3>3 DEF AuditUnread, BalanceInv
    <2>q. QED
      BY <2>7, <2>9
  <1>q. QED
    BY <1>1, <1>2, <1>3, <1>4, <1>5 DEF RefundFault

(***************************************************************************)
(* What the user and the gateway do.                                       *)
(***************************************************************************)
LEMMA RefundOutside ==
  ASSUME RefundInv, RequestRefund \/ UserSpends \/ GatewaySettles
  PROVE  CashInv' /\ BalanceInv'
  <1>0. PaymentInv /\ CashInv /\ BalanceInv /\ OrderTypeOK
    BY DEF RefundInv, PaymentInv, OrderInv
  <1>1. CASE RequestRefund
    <2>1. order'.status = "REFUND_REQUESTED" /\ order.status = "COMPLETED"
      BY <1>0, <1>1, UpdatedRow DEF RequestRefund
    <2>2. Deducted' = Deducted
      BY <1>1 DEF RequestRefund, Deducted
    <2>3. CashInv'
      BY <1>0, <1>1, <2>1
      DEF RequestRefund, CashInv, Pending, NonePending, AtGateway, Current, Refundable
    <2>4. BalanceInv'
      BY <1>0, <1>1, <2>1, <2>2 DEF RequestRefund, BalanceInv
    <2>q. QED
      BY <2>3, <2>4
  <1>2. CASE UserSpends
    <2>1. Deducted' = Deducted
      BY <1>0, <1>2, BalanceNumbers DEF UserSpends, Deducted
    <2>2. CashInv'
      BY <1>0, <1>2 DEF UserSpends, CashInv, Pending, NonePending, AtGateway, Current
    <2>3. BalanceInv'
      BY <1>0, <1>2, <2>1 DEF UserSpends, BalanceInv
    <2>q. QED
      BY <2>2, <2>3
  <1>3. CASE GatewaySettles
    <2>1. PICK n \in 1..asked, outcome \in {"success", "failed"} :
            /\ gateway[n].status = "pending"
            /\ gateway' = [gateway EXCEPT ![n].status = outcome]
            /\ cash' = IF outcome = "success" THEN cash + gateway[n].cash ELSE cash
      BY <1>3 DEF GatewaySettles
    <2>2. n \in 1..MaxRefunds
      BY <1>0, RefundAssumption DEF PaymentInv, RefundTyped
    <2>3. /\ gateway'[n].status = outcome /\ gateway'[n].cash = gateway[n].cash
          /\ \A m \in 1..MaxRefunds : m # n => gateway'[m] = gateway[m]
      BY <1>0, <2>1, <2>2 DEF PaymentInv, RefundTyped
    <2>4. NonePending' /\ cash' <= PayAmount
      BY <1>0, <2>1, <2>2, <2>3, Numbers DEF CashInv, Pending, NonePending
    <2>5. \A p \in Plans : AtGateway(p) => p.id = n
      BY <2>1, <2>2 DEF AtGateway, Pending
    <2>6. \A p \in Plans : AtGateway(p) /\ p.amount <= p.cumulative => AtGateway(p)'
      <3> SUFFICES ASSUME NEW p \in Plans, AtGateway(p), p.amount <= p.cumulative
                   PROVE  AtGateway(p)'
        OBVIOUS
      <3>1. /\ RefundCashDelta(p) \in 0..PayAmount /\ CashOf(p.cumulative) \in 0..PayAmount
            /\ CashOf(p.cumulative - p.amount) \in 0..PayAmount
        BY ShareBounds
      <3>2. p.id = n /\ cash = CashOf(p.cumulative - p.amount)
            /\ gateway[n].cash = CashOf(p.cumulative) - CashOf(p.cumulative - p.amount)
        BY <2>1, <2>5 DEF AtGateway, RefundCashDelta
      <3>3. cash' = IF outcome = "success" THEN CashOf(p.cumulative)
                    ELSE CashOf(p.cumulative - p.amount)
        BY <1>0, <2>1, <3>1, <3>2, Numbers
      <3>4. p.id <= asked' /\ asked' = asked
        BY <1>3 DEF GatewaySettles, AtGateway
      <3>q. QED
        BY <2>3, <2>4, <3>2, <3>3, <3>4 DEF AtGateway, NonePending
    <2>7. UNCHANGED <<order, refundAmount, detail, asked, apc, plan, rollbackFailed, silent,
                      lost>>
      BY <1>3 DEF GatewaySettles
    <2>8. ~NonePending
      BY <2>1, <2>2 DEF NonePending, Pending
    <2>9. CashInv'
      <3>1. /\ detail \in Plans /\ detail.amount <= detail.cumulative
            /\ \A a \in Admins : plan[a] \in Plans /\ plan[a].amount <= plan[a].cumulative
        BY <1>0, PlanNumbers
      <3>q. QED
        BY <1>0, <2>4, <2>6, <2>7, <2>8, <3>1 DEF CashInv, NonePending, Current
    <2>10. Deducted' = Deducted
      BY <1>3 DEF GatewaySettles, Deducted
    <2>11. BalanceInv'
      BY <1>0, <2>7, <2>10 DEF BalanceInv
    <2>q. QED
      BY <2>9, <2>11
  <1>q. QED
    BY <1>1, <1>2, <1>3

-----------------------------------------------------------------------------
\* The refund invariant holds initially.
LEMMA RefundInit == Init => RefundInv
  <1> SUFFICES ASSUME Init PROVE RefundInv
    OBVIOUS
  <1>1. PaymentInv
    BY PaymentInit
  <1>2. NonePending
    BY DEF Init, NonePending, Pending
  <1>3. CashInv
    BY <1>1, <1>2, CashOfWhole, Numbers
    DEF Init, OrderInit, CashInv, NonePending, Locking
  <1>4. Deducted = 0
    BY OrderAssumption, RefundAssumption DEF Init, OrderInit, Deducted
  <1>5. BalanceInv
    BY <1>1, <1>4, Numbers DEF Init, OrderInit, BalanceInv
  <1>q. QED
    BY <1>1, <1>3, <1>5 DEF RefundInv

\* The hypothesis on the plans takes steps away and adds none.
LEMMA FreshIsNext == [FreshNext]_vars => [Next]_vars
  BY DEF FreshNext, Next

\* Every step on a plan that is still true keeps the refund invariant.
LEMMA RefundInvStep == RefundInv /\ [FreshNext]_vars => RefundInv'
  <1> SUFFICES ASSUME RefundInv, [FreshNext]_vars PROVE RefundInv'
    OBVIOUS
  <1>0. PaymentInv'
    BY PaymentStep, FreshIsNext DEF RefundInv
  <1>1. CASE OrderNext /\ UNCHANGED refundVars
    BY <1>0, <1>1, OrderStep, RefundUnderOrder DEF RefundInv
  <1>2. CASE \E a \in Admins : RefundStep(a) /\ FreshPlan(a)
    BY <1>0, <1>2, RefundSteps DEF RefundInv
  <1>3. CASE \E a \in Admins : RefundFault(a) /\ FreshPlan(a)
    BY <1>0, <1>3, RefundFaults DEF RefundInv
  <1>4. CASE RequestRefund \/ UserSpends \/ GatewaySettles
    BY <1>0, <1>4, RefundOutside DEF RefundInv
  <1>5. CASE UNCHANGED vars
    <2>1. CashInv'
      BY <1>5 DEF vars, RefundInv, CashInv, Pending, NonePending, AtGateway, Current
    <2>2. BalanceInv'
      BY <1>5 DEF vars, RefundInv, BalanceInv, Deducted
    <2>q. QED
      BY <1>0, <2>1, <2>2 DEF RefundInv
  <1>q. QED
    BY <1>1, <1>2, <1>3, <1>4, <1>5 DEF FreshNext

\* The refund invariant holds in every behaviour whose plans are still true
\* when they are executed.
LEMMA RefundAlways == FreshSpec => []RefundInv
  BY RefundInit, RefundInvStep, PTL DEF FreshSpec

(***************************************************************************)
(* Any number of administrators, as long as each acts on a plan that is    *)
(* still true: unless a refund is being executed, the cash that the        *)
(* gateway returned is what refund_amount is worth, less a refund it has   *)
(* not paid, after any number of partial refunds, retries, lost answers    *)
(* and crashes (refundCashDelta, markRefundOk, finalizeRefundFailed).      *)
(***************************************************************************)
THEOREM RefundsRecorded == FreshSpec => []RefundRecorded
  <1>1. RefundInv => RefundRecorded
    <2> SUFFICES ASSUME RefundInv, order.status # "REFUNDING"
                 PROVE  cash = CashOf(refundAmount)
                           - (IF order.status = "REFUND_PENDING"
                                 /\ gateway[detail.id].status # "success"
                              THEN gateway[detail.id].cash ELSE 0)
      BY DEF RefundRecorded
    <2>0. PaymentInv /\ CashInv
      BY DEF RefundInv
    <2>1. CASE order.status # "REFUND_PENDING"
      BY <2>0, <2>1, Numbers DEF CashInv
    <2>2. CASE order.status = "REFUND_PENDING"
      <3>1. AtGateway(detail) /\ refundAmount = detail.cumulative
        BY <2>0, <2>2 DEF CashInv
      <3>q. QED
        BY <2>0, <2>2, <3>1, Numbers, PlanNumbers DEF AtGateway, RefundCashDelta
    <2>q. QED
      BY <2>1, <2>2
  <1>q. QED
    BY <1>1, RefundAlways, PTL

(***************************************************************************)
(* As long as each acts on a plan that is still true, refunds take from    *)
(* the user's balance no more than what was refunded, but for deductions   *)
(* that could not be returned, and never more than the order but for what  *)
(* the retry deducts when the audit log does not show these or cannot be   *)
(* read (ExecuteRefund, hasAuditLog, RollbackRefund).                      *)
(***************************************************************************)
THEOREM RefundsDeductOnce == FreshSpec => []NoDoubleDeduction
  <1>1. RefundInv => NoDoubleDeduction
    BY DEF RefundInv, BalanceInv, NoDoubleDeduction
  <1>q. QED
    BY <1>1, RefundAlways, PTL

(***************************************************************************)
(* Cumulative cash repayment never exceeds pay_amount as long as each      *)
(* administrator acts on a plan that is still true; it can where one does  *)
(* not.                                                                    *)
(***************************************************************************)
THEOREM RefundsWithinPayment == FreshSpec => []CashWithinPayment
  <1>1. RefundInv => CashWithinPayment
    BY DEF RefundInv, CashInv, CashWithinPayment
  <1>q. QED
    BY <1>1, RefundAlways, PTL

(***************************************************************************)
(* A step of the order and its refunds is a step of the ledger, or leaves  *)
(* it alone.                                                               *)
(***************************************************************************)
ledgerVars == <<provider.paid, credits, cash>>

\* A refund the gateway executes is a Repay of the ledger.
LEMMA RepayStep ==
  ASSUME RefundInv, order.status \in {"REFUNDING", "REFUND_PENDING"},
         UNCHANGED <<provider, credits>>,
         NEW n \in 0..(PayAmount - cash), cash' = cash + n
  PROVE  [Ledger!Next]_ledgerVars
  <1>1. credits = 1
    BY DEF RefundInv, PaymentInv, OrderInv, CreditInv
  <1>2. cash \in Nat /\ PayAmount \in Nat
    BY Numbers DEF RefundInv
  <1>3. CASE n = 0
    BY <1>2, <1>3 DEF ledgerVars
  <1>4. CASE n # 0
    BY <1>1, <1>2, <1>4 DEF Ledger!Next, Ledger!Repay, ledgerVars
  <1>q. QED
    BY <1>3, <1>4

\* Every step is a step of the ledger, or leaves the ledger alone.
LEMMA LedgerStep == RefundInv /\ RefundInv' /\ [Next]_vars => [Ledger!Next]_ledgerVars
  <1> SUFFICES ASSUME RefundInv, RefundInv', [Next]_vars PROVE [Ledger!Next]_ledgerVars
    OBVIOUS
  <1>0. PaymentInv /\ CashInv /\ cash \in Nat /\ cash' <= PayAmount
    BY Numbers DEF RefundInv, CashInv
  <1>1. CASE OrderNext /\ UNCHANGED refundVars
    <2>1. OrderEffect /\ cash' = cash
      BY <1>0, <1>1, OrderStep
    <2>2. provider.paid \in BOOLEAN /\ provider'.paid \in BOOLEAN
      BY DEF RefundInv, PaymentInv, OrderInv, OrderTypeOK
    <2>q. QED
      BY <2>1, <2>2 DEF OrderEffect, Ledger!Next, Ledger!Pay, Ledger!Credit, ledgerVars
  <1>2. ASSUME NEW a \in Admins, GatewayRefund(a)
        PROVE  [Ledger!Next]_ledgerVars
    <2>1. order.status = "REFUNDING" /\ UNCHANGED <<provider, credits>>
      BY <1>0, <1>2 DEF GatewayRefund, PaymentInv, OneRefundInFlight, Locking
    <2>2. cash' = cash + RefundCashDelta(plan[a]) \/ cash' = cash
      BY <1>2 DEF GatewayRefund
    <2>3. RefundCashDelta(plan[a]) \in Nat
      BY <1>0, PlanNumbers
    <2>q. QED
      BY <1>0, <2>1, <2>2, <2>3, RepayStep, Numbers DEF ledgerVars
  <1>3. CASE GatewaySettles
    <2>1. PICK n \in 1..MaxRefunds : Pending(n) /\ (cash' = cash + gateway[n].cash \/ cash' = cash)
      BY <1>0, <1>3, RefundAssumption
      DEF GatewaySettles, PaymentInv, RefundTyped, Pending
    <2>2. order.status \in {"REFUNDING", "REFUND_PENDING"} /\ UNCHANGED <<provider, credits>>
      BY <1>0, <1>3, <2>1 DEF GatewaySettles, CashInv, NonePending
    <2>q. QED
      BY <1>0, <2>1, <2>2, RepayStep, Numbers DEF ledgerVars
  <1>4. ASSUME UNCHANGED <<provider, credits, cash>>
        PROVE  [Ledger!Next]_ledgerVars
    BY <1>4 DEF ledgerVars
  <1>5. CASE \E a \in Admins : RefundStep(a)
    <2>1. PICK a \in Admins : RefundStep(a)
      BY <1>5
    <2>q. QED
      BY <1>2, <1>4, <2>1
      DEF RefundStep, PrepareRefund, LockRefund, DeductBalance, MarkRefundOk,
          MarkRefundPending, RollbackRefund, RestoreStatus, QueryRefund, FinalizeSuccess,
          FinalizeFailed
  <1>6. CASE \E a \in Admins : RefundFault(a)
    BY <1>4, <1>6
    DEF RefundFault, AuditUnread, DeductError, RollbackError, FinalizeUnreturned, RefundCrash
  <1>7. CASE RequestRefund \/ UserSpends
    BY <1>4, <1>7 DEF RequestRefund, UserSpends
  <1>8. CASE UNCHANGED vars
    BY <1>4, <1>8 DEF vars
  <1>q. QED
    BY <1>1, <1>3, <1>5, <1>6, <1>7, <1>8 DEF Next

(***************************************************************************)
(* The order and its refunds, on plans that are still true when they are   *)
(* executed, implement the ledger: one credit, after the payment, and cash *)
(* back only for a credited order and never more than was paid.            *)
(***************************************************************************)
THEOREM OrderImplementsLedger == FreshSpec => LedgerImplemented
  <1>1. Init => Ledger!Init
    BY DEF Init, OrderInit, Ledger!Init
  <1>2. /\ RefundInv /\ RefundInv' /\ [FreshNext]_vars
        => [Ledger!Next]_<<provider.paid, credits, cash>>
    BY LedgerStep, FreshIsNext DEF ledgerVars
  <1>q. QED
    BY <1>1, <1>2, RefundAlways, PTL DEF FreshSpec, LedgerImplemented, Ledger!Spec
=============================================================================
