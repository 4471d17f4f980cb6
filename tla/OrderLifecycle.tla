----------------------------- MODULE OrderLifecycle -----------------------------
(***************************************************************************)
(* The whole order group: settlement and refunds composed with the two     *)
(* handlers that cancel and advance orders, cancelOrderGroup and           *)
(* updateOrderStatus.  Which processes run is a matter of the constants.   *)
(***************************************************************************)
EXTENDS PaymentSettlement, RefundFlow

CONSTANT StaffTargets   \* the statuses staff ask for, a subset of OrderStatuses

ASSUME StaffAssumption == StaffTargets \subseteq OrderStatuses

(* cancelOrderGroup.  A customer's group with nothing committed is closed  *)
(* here; any other goes through requestRefund.                             *)
ReadCancel(p) ==
    /\ p \in Customers /\ pc[p] = "idle"
    /\ \E o \in Orders : order[o].status # "CANCELLED"
    /\ \A o \in Orders : order[o].status \notin NonCancellable
    /\ IF group \in NOTHING_COMMITTED_STATUSES
       THEN Goto(p, "closeWindow") /\ Hold(p, [loc[p] EXCEPT !.view = Statuses(order)])
       ELSE Goto(p, "request") /\ UNCHANGED loc
    /\ UNCHANGED <<docs, world>>

(* expirePendingOrderPayment is conditional on PENDING; its answer is not  *)
(* looked at.                                                              *)
ExpirePending(p) ==
    /\ pc[p] = "closeWindow"
    /\ payment' = [payment EXCEPT !.status = IF @ = "PENDING" THEN "EXPIRED" ELSE @]
    /\ Hold(p, [loc[p] EXCEPT !.todo = {o \in Orders : loc[p].view[o] # "CANCELLED"}])
    /\ Goto(p, "cancelOrders")
    /\ UNCHANGED <<group, cart, order, refund, world>>

CancelNext(p) ==
    /\ pc[p] = "cancelOrders"
    /\ \E o \in Orders :
          /\ NextIn(loc[p].todo, o)
          /\ order' = [order EXCEPT ![o] = RestoreStock([@ EXCEPT !.status = "CANCELLED"])]
          /\ Hold(p, [loc[p] EXCEPT !.todo = @ \ {o}])
    /\ UNCHANGED <<payment, group, cart, refund, world, pc>>

CancelGroup(p) ==
    /\ pc[p] = "cancelOrders" /\ loc[p].todo = {}
    /\ group' = "CANCELLED"
    /\ Finish(p)
    /\ UNCHANGED <<payment, cart, order, refund, world>>

-------------------------------------------------------------------------------
(* updateOrderStatus.  The id may be an order's or, when no order has it,  *)
(* the group's (direct = FALSE): the order is then found through the       *)
(* group, but the writes still go to the id, which no order has.           *)
ReadUpdate(p, o, status, direct) ==
    LET was == order[o].status
    IN  /\ p \in Staff /\ pc[p] = "idle"
        /\ MayUpdate(was, status)
        /\ Hold(p, [loc[p] EXCEPT !.target = o, !.next = status, !.staff = TRUE,
                              !.direct = direct])
        /\ Goto(p, IF status # "CANCELLED" THEN "writeStatus"
                   ELSE IF was \in NOTHING_COMMITTED_STATUSES THEN "cancelOne"
                   ELSE "request")
        /\ UNCHANGED <<docs, world>>

CancelOne(p) ==
    /\ pc[p] = "cancelOne"
    /\ order' = [order EXCEPT ![loc[p].target] =
                    RestoreStock(IF loc[p].direct THEN [@ EXCEPT !.status = "CANCELLED"] ELSE @)]
    /\ Goto(p, "siblings")
    /\ UNCHANGED <<payment, group, cart, refund, world, loc>>

WriteStatus(p) ==
    LET status == loc[p].next
        stamp(doc) == [doc EXCEPT !.status = status,
                                  !.delivered = IF status = "DELIVERED" THEN "recent" ELSE @]
    IN  /\ pc[p] = "writeStatus"
        /\ order' = [order EXCEPT ![loc[p].target] =
                        IF loc[p].direct THEN stamp(@) ELSE @]
        /\ Goto(p, IF status = "DELIVERED" THEN "sync" ELSE "siblings")
        /\ UNCHANGED <<payment, group, cart, refund, world, loc>>

(* Mutant: the consumption entry is not looked for. *)
ConsumeAlways(p) ==
    /\ pc[p] = "sync"
    /\ Goto(p, "deduct")
    /\ UNCHANGED <<docs, world, loc>>

(* deductInventoryForDeliveredOrder looks for this order's CONSUMPTION     *)
(* entry before it writes one.                                             *)
CheckConsumed(p) ==
    /\ pc[p] = "sync"
    /\ Goto(p, IF order[loc[p].target].consumed = 0 THEN "deduct" ELSE "siblings")
    /\ UNCHANGED <<docs, world, loc>>

(* A failure before the ledger entry is logged and swallowed. *)
SyncFails(p) ==
    /\ pc[p] \in {"sync", "deduct"}
    /\ Goto(p, "siblings")
    /\ UNCHANGED <<docs, world, loc>>

DeductInventory(p) ==
    /\ pc[p] = "deduct"
    /\ order' = [order EXCEPT ![loc[p].target].consumed = @ + 1]
    /\ Goto(p, "siblings")
    /\ UNCHANGED <<payment, group, cart, refund, world, loc>>

(* Time: DISPUTE_WINDOW_HOURS pass since the order's deliveredAt. *)
DisputeWindowCloses(o) ==
    /\ order[o].delivered = "recent"
    /\ order' = [order EXCEPT ![o].delivered = "old"]
    /\ UNCHANGED <<payment, group, cart, refund, world, pc, loc>>

LifecycleStep(p) ==
    \/ ReadCancel(p) \/ ExpirePending(p) \/ CancelNext(p) \/ CancelGroup(p)
    \/ \E o \in Orders, status \in StaffTargets, direct \in BOOLEAN :
          ReadUpdate(p, o, status, direct)
    \/ CancelOne(p) \/ WriteStatus(p) \/ CheckConsumed(p) \/ SyncFails(p)
    \/ DeductInventory(p)

Step(p) == SettlementStep(p) \/ RefundStep(p) \/ LifecycleStep(p)

Environment ==
    \/ \E t \in Txns : StartAttempt(t) \/ ResolveAttempt(t)
    \/ WindowPasses \/ DayPasses
    \/ \E r \in Refunds : RefundAges(r)
    \/ \E o \in Orders : DisputeWindowCloses(o)

Next == (\E p \in Proc : Step(p)) \/ Environment

Spec == Init /\ [][Next]_vars

-------------------------------------------------------------------------------
(* Fairness, for the liveness properties only.  A handler that has started *)
(* runs to its end (no crash); the crons tick for ever; an inquiry that is *)
(* retried at every tick is answered in the end; the gateway delivers the  *)
(* callback of a successful transaction; and time passes, but nothing says *)
(* how often the sweeper gets to ask before DayPasses.                     *)
Progress(p) == pc[p] # "idle" /\ Step(p)

FairSpec ==
    /\ Spec
    /\ \A p \in Proc : WF_vars(Progress(p))
    /\ \A p \in Sweepers : /\ WF_vars(ReadPending(p))
                           /\ SF_vars(InquireSettled(p)) /\ SF_vars(InquireUnsettled(p))
    /\ \A p \in Webhooks, t \in Txns :
          WF_vars(attempt[t] = "success" /\ ReceiveCallback(p, t))
    /\ \A p \in Reconcilers : /\ WF_vars(PickStuck(p))
                              /\ SF_vars(MatchChild(p)) /\ SF_vars(NoChildFound(p))
    /\ WF_vars(WindowPasses)
    /\ \A r \in Refunds : WF_vars(RefundAges(r))

-------------------------------------------------------------------------------
(* Four paths restock an order (payment failure, cancellation, refund,     *)
(* status update); whatever their order, its units go back at most once,   *)
(* and only under the stamp (restoreStockForOrder).                        *)
StockReturnedOnce ==
    \A o \in Orders : order[o].returned = IF order[o].restored THEN 1 ELSE 0

(* Money the gateway has sent back is always covered by the counter, and   *)
(* the counter by the amount paid: never more goes back than came in, and  *)
(* the headroom left is still with the merchant, also while calls time     *)
(* out.  The one exception is a refund that took effect although its call  *)
(* was answered with an error (executeRefund, reserveRefund).              *)
MovedIsReserved == MoneyOf(moved) <= payment.refunded /\ payment.refunded <= AmountPaid

(* The counter is what handlers hold between reserving and recording, plus *)
(* the rows that still speak for theirs.  A handler gives headroom back,   *)
(* or takes it for a settled row, one write before the status says so.     *)
InHand(p) == IF pc[p] = "create" THEN loc[p].amount
             ELSE IF pc[p] = "lateCreate" THEN AmountPaid ELSE 0

Reserving == {"REQUESTED", "APPROVED", "PROCESSING", "SUCCEEDED"}

At(labels, r) == \E p \in Proc : pc[p] \in labels /\ loc[p].rid = r

Counts(r) ==
    \/ refund[r].status \in Reserving /\ ~At({"rejectMark", "flagManual"}, r)
    \/ refund[r].status = "MANUAL_REQUIRED" /\ At({"settleMark"}, r)

Reserved(r) == IF Counts(r) THEN refund[r].amount ELSE 0

(* No reservation is leaked, forgotten or made twice on any path: headroom *)
(* that is gone without a row would refuse later refunds for good          *)
(* (reserveRefund, releaseRefundReservation and the writes around them).   *)
HeadroomAccounted ==
    IsCod \/ payment.refunded = SumFunction([p \in Proc |-> InHand(p)])
                                + SumFunction([r \in Refunds |-> Reserved(r)])

(* No refund row pays out twice, through retries or reviews (reviewRefund, *)
(* executeRefund, reconcileProcessingRefunds).                             *)
MovesOnce == \A r \in Refunds : Cardinality({k \in 1..MaxMoves : <<r, k>> \in Ledger}) <= 1

(* Two live refunds never name the same line item of an order, although    *)
(* the check and the creation are apart and rows are approved, rejected    *)
(* and settled in between (assertLineItemsNotAlreadyRefunded).  One refund *)
(* may name it twice.                                                      *)
LinesRefundedOnce ==
    \A r, s \in Refunds :
        /\ r # s /\ refund[r].target = refund[s].target
        /\ refund[r].status \in LiveRefund /\ refund[s].status \in LiveRefund
        => Named(refund[r].lines) \cap Named(refund[s].lines) = {}

(* A paid order is cancelled, or marked refunded, only after a refund that *)
(* covers it says SUCCEEDED: the customer never loses the goods on the     *)
(* books before the money is back (executeAndApply).                       *)
CancelledAfterMoneyBack ==
    [][\A o \in Orders :
          /\ order'[o].status # order[o].status
          /\ order'[o].status \in {"CANCELLED", "REFUNDED"}
          /\ payment.status = "PAID" \/ IsCod
          => \E r \in Refunds : /\ refund[r].status = "SUCCEEDED"
                                /\ refund[r].target \in {o, Whole}]_vars

(* An order the kitchen may be working on still holds its units: none of   *)
(* its stock has gone back to be sold again (onPaid against onFailed and   *)
(* against a cancellation during checkout).                                *)
LiveOrderKeepsStock ==
    \A o \in Orders : order[o].status \notin {"CANCELLED", "PAYMENT_FAILED", "AWAITING_PAYMENT"}
                         => ~order[o].restored

(* Nothing is promoted and no cart emptied unless the gateway captured the *)
(* money, however webhook, sweeper and payer interleave (onPaid).          *)
NothingFulfilledUnpaid ==
    cart = "empty" \/ (\E o \in Orders : order[o].status = "PENDING")
       => \E t \in Txns : attempt[t] = "success"

(* Once every handler has finished, a PAID payment has either promoted its *)
(* group or is being given back: money is never kept for nothing           *)
(* (applyTransactionOutcome, autoRefundLateSuccess, cancelOrderGroup).     *)
PaidIsAnswered ==
    payment.status = "PAID" /\ (\A p \in Proc : pc[p] = "idle")
       => \/ \E o \in Orders : order[o].status \notin TERMINAL
          \/ \E r \in Refunds : refund[r].status # "none"

(* A delivered order's ingredients leave the kitchen's stock once, also    *)
(* when it is delivered again after a partial refund                       *)
(* (deductInventoryForDeliveredOrder).                                     *)
DeductedOnce == \A o \in Orders : order[o].consumed <= 1

(* Between requests the group's status is the one computed from its        *)
(* children (computeOverallStatus, called by every handler that writes an  *)
(* order).                                                                 *)
GroupFollowsOrders ==
    (\A p \in Proc : pc[p] = "idle") => group = ComputeOverallStatus(Statuses(order))

(* No write takes an order back to an earlier kitchen status, although the *)
(* check and the write are apart (updateOrderStatus).                      *)
KitchenNeverReverts ==
    [][\A o \in Orders : ~Reverts(order[o].status, order'[o].status)]_vars

-------------------------------------------------------------------------------
(* Liveness.  A payment that succeeded within its window is settled by the *)
(* sweeper alone when its callback is lost, unless the inquiries keep      *)
(* failing until the payment is too old for it (sweepPendingPayments).     *)
LostCallbackIsRepaired ==
    \A t \in Txns : attempt[t] = "success" /\ ~expired /\ payment.status = "PENDING"
                        ~> payment.status = "PAID" \/ abandoned

(* A success is answered even when it comes after the payment expired: the *)
(* group is promoted or a refund has been executed                         *)
(* (applyTransactionOutcome, autoRefundLateSuccess).                       *)
SuccessIsAnswered ==
    \A t \in Txns : attempt[t] = "success"
                        ~> \/ \E o \in Orders : order[o].status \notin TERMINAL
                           \/ \E r \in Refunds : refund[r].status \notin {"none", "APPROVED"}

(* A failed payment gives every order's units back (onFailed).             *)
FailureReturnsStock ==
    payment.status = "FAILED" ~> \A o \in Orders : order[o].restored

(* A refund whose call timed out does not stay PROCESSING: the cron finds  *)
(* its transaction or hands it to a human (reconcileProcessingRefunds).    *)
TimedOutRefundResolved ==
    \A r \in Refunds : refund[r].status = "PROCESSING" ~> refund[r].status # "PROCESSING"

-------------------------------------------------------------------------------
(* What the repository's comments and messages claim and the code breaks.  *)

(* refunds.service.ts:450, "Stops the same line item being refunded twice. *)
(* Nothing else does".                                                     *)
LinePaidOnce ==
    \A o \in Orders, l \in Lines :
        SumFunction([r \in {r \in Refunds : /\ refund[r].status \in LiveRefund
                                            /\ refund[r].target = o}
                        |-> refund[r].lines[l]]) <= 1

(* payments.service.ts:524, "Definite rejection: give the headroom back":  *)
(* the row that is handed to a human moved no money.                       *)
RejectedMovedNothing ==
    \A r \in Refunds, k \in 1..MaxMoves :
        refund[r].status = "MANUAL_REQUIRED" => <<r, k>> \notin Ledger

(* payments-reconciliation.service.ts:67, "Expire it and let the fulfiller *)
(* compensate (restore stock, release the order)".                         *)
ExpiryReturnsStock ==
    payment.status = "EXPIRED" ~> \/ \A o \in Orders : order[o].restored
                                  \/ \E t \in Txns : attempt[t] = "success"

(* refund-policy.ts:105, "A delivered order becomes REFUNDED, never        *)
(* CANCELLED".                                                             *)
DeliveredNeverCancelled ==
    [][\A o \in Orders : order[o].delivered # "no" /\ order[o].status # "CANCELLED"
                            => order'[o].status # "CANCELLED"]_vars
===============================================================================
