--------------------------- MODULE PaymentSettlement ---------------------------
(***************************************************************************)
(* How a Payment settles: the webhook, the sweeper cron and the payer's    *)
(* own reconcile call each read the Payment, learn a transaction, and then *)
(* run applyTransactionOutcome on what they READ.  PAID and FAILED reach   *)
(* the order group through onPaid and onFailed; a success on an EXPIRED    *)
(* payment is refunded by autoRefundLateSuccess.                           *)
(***************************************************************************)
EXTENDS OrderMoney

(***************************************************************************)
(* The customer at the gateway's checkout page (external).  An attempt may *)
(* start only while the intention is alive, may stay pending (OTP, 3DS)    *)
(* past its end, and at most one attempt of an intention succeeds.         *)
(***************************************************************************)
StartAttempt(t) ==
    /\ payment.intention /\ ~expired
    /\ attempt[t] = "none"
    /\ \A u \in Txns : attempt[u] # "success"
    /\ attempt' = [attempt EXCEPT ![t] = "pending"]
    /\ UNCHANGED <<docs, moved, denied, expired, abandoned, aged, pc, loc>>

ResolveAttempt(t) ==
    /\ attempt[t] = "pending"
    /\ \E outcome \in {"success", "declined"} :
          /\ outcome = "success" => \A u \in Txns : attempt[u] # "success"
          /\ attempt' = [attempt EXCEPT ![t] = outcome]
    /\ UNCHANGED <<docs, moved, denied, expired, abandoned, aged, pc, loc>>

(* Time: PAYMENT_WINDOW_MINUTES pass since the Payment was created. *)
WindowPasses ==
    /\ ~expired /\ ~InitiallyPaid /\ ~IsCod
    /\ expired' = TRUE
    /\ UNCHANGED <<docs, attempt, moved, denied, abandoned, aged, pc, loc>>

(* Time: PENDING_MAX_AGE_MS (24 hours) pass since the Payment was created; *)
(* the window is shorter.                                                  *)
DayPasses ==
    /\ expired /\ ~abandoned
    /\ abandoned' = TRUE
    /\ UNCHANGED <<docs, attempt, moved, denied, expired, aged, pc, loc>>

-------------------------------------------------------------------------------
(* processCallback: the gateway may deliver a settled transaction's        *)
(* callback any number of times, in any order, or never.                   *)
ReceiveCallback(p, t) ==
    /\ p \in Webhooks /\ pc[p] = "idle"
    /\ attempt[t] \in {"success", "declined"}
    /\ Goto(p, "apply")
    /\ Hold(p, [loc[p] EXCEPT !.seen = payment.status, !.seenTxn = payment.txn,
                          !.tx = t])
    /\ UNCHANGED <<docs, world>>

(* sweepPendingPayments takes a payment that outlived its window but is    *)
(* less than 24 hours old, and reconcileByPaymobOrderId the payer's own,   *)
(* of any age; neither asks about a payment that is not PENDING, or that   *)
(* the gateway gave no order id.                                           *)
ReadPending(p) ==
    /\ p \in Sweepers \cup Payers /\ pc[p] = "idle"
    /\ payment.status = "PENDING" /\ payment.intention
    /\ p \in Sweepers => expired /\ ~abandoned
    /\ Goto(p, "inquire")
    /\ Hold(p, [loc[p] EXCEPT !.seen = payment.status, !.seenTxn = payment.txn])
    /\ UNCHANGED <<docs, world>>

(* Mutant: only a failure settles a payment. *)
SettledDeclinesOnly(t) == attempt[t] = "declined"

(* pickSettledTransaction: attempts still in flight are not considered,    *)
(* and a success is preferred to an earlier decline.                       *)
Settled(t) == \/ attempt[t] = "success"
              \/ attempt[t] = "declined" /\ \A u \in Txns : attempt[u] # "success"

InquireSettled(p) ==
    /\ pc[p] = "inquire"
    /\ \E t \in Txns :
          /\ Settled(t)
          /\ Hold(p, [loc[p] EXCEPT !.tx = t])
    /\ Goto(p, "apply")
    /\ UNCHANGED <<docs, world>>

InquireUnsettled(p) ==
    /\ pc[p] = "inquire"
    /\ \A t \in Txns : ~Settled(t)
    /\ IF p \in Sweepers
       THEN Goto(p, "expire") /\ UNCHANGED loc
       ELSE Finish(p)
    /\ UNCHANGED <<docs, world>>

(* An inquiry that throws changes nothing; the next tick asks again. *)
InquiryFails(p) ==
    /\ pc[p] = "inquire"
    /\ Finish(p)
    /\ UNCHANGED <<docs, world>>

(* The sweeper's write is by _id alone: it does not look at the status     *)
(* again, and it does not call the fulfiller.                              *)
ExpireUnpaid(p) ==
    /\ pc[p] = "expire"
    /\ payment' = [payment EXCEPT !.status = "EXPIRED"]
    /\ Finish(p)
    /\ UNCHANGED <<group, cart, order, refund, world>>

-------------------------------------------------------------------------------
(* Mutant: any transaction that is no longer pending counts as a success. *)
SucceededOrDeclined(p) == attempt[loc[p].tx] \in {"success", "declined"}

(* applyTransactionOutcome.  All its guards are on the Payment read by the *)
(* caller; its write is by _id alone.                                      *)
Succeeded(p)   == attempt[loc[p].tx] = "success"
Duplicate(p)   == loc[p].seenTxn = loc[p].tx
LateSuccess(p) == loc[p].seen = "EXPIRED" /\ Succeeded(p)

IgnoreOutcome(p) ==
    /\ pc[p] = "apply"
    /\ Duplicate(p) \/ (~LateSuccess(p) /\ loc[p].seen # "PENDING")
    /\ Finish(p)
    /\ UNCHANGED <<docs, world>>

DivertLateSuccess(p) ==
    /\ pc[p] = "apply"
    /\ ~Duplicate(p) /\ LateSuccess(p)
    /\ Goto(p, "lateRecord")
    /\ UNCHANGED <<docs, world, loc>>

SettlePayment(p) ==
    /\ pc[p] = "apply"
    /\ ~Duplicate(p) /\ loc[p].seen = "PENDING"
    /\ payment' = [payment EXCEPT !.status = IF Succeeded(p) THEN "PAID" ELSE "FAILED",
                                  !.txn = loc[p].tx]
    /\ Goto(p, IF Succeeded(p) THEN "onPaid" ELSE "onFailed")
    /\ UNCHANGED <<group, cart, order, refund, world, loc>>

(* Mutant: the bulk update loses its status filter. *)
AllBecome(status) == [o \in Orders |-> [order[o] EXCEPT !.status = status]]

(* updateMany on the children still awaiting payment. *)
AwaitingBecome(status) ==
    [o \in Orders |-> IF order[o].status = "AWAITING_PAYMENT"
                      THEN [order[o] EXCEPT !.status = status] ELSE order[o]]

(* onPaid reads the group, promotes its awaiting children, then writes the *)
(* group's status whatever it has become, and empties the cart.            *)
OnPaidNotAwaiting(p) ==
    /\ pc[p] = "onPaid" /\ group # "AWAITING_PAYMENT"
    /\ Finish(p)
    /\ UNCHANGED <<docs, world>>

PromoteOrders(p) ==
    /\ pc[p] = "onPaid" /\ group = "AWAITING_PAYMENT"
    /\ order' = AwaitingBecome("PENDING")
    /\ Goto(p, "promoteGroup")
    /\ UNCHANGED <<payment, group, cart, refund, world, loc>>

PromoteGroup(p) ==
    /\ pc[p] = "promoteGroup"
    /\ group' = "PENDING"
    /\ cart' = "empty"
    /\ Finish(p)
    /\ UNCHANGED <<payment, order, refund, world>>

(* Mutant: the failure path waits for a status the group never has yet. *)
ClaimFailureLate(p) ==
    /\ pc[p] = "onFailed"
    /\ IF group = "PAYMENT_FAILED"
       THEN Goto(p, "restock") /\ Hold(p, [loc[p] EXCEPT !.todo = Orders])
       ELSE Finish(p)
    /\ UNCHANGED <<docs, world>>

(* onFailed claims the group conditionally before it touches any stock. *)
ClaimFailure(p) ==
    /\ pc[p] = "onFailed"
    /\ IF group = "AWAITING_PAYMENT"
       THEN /\ group' = "PAYMENT_FAILED"
            /\ Goto(p, "restock")
            /\ Hold(p, [loc[p] EXCEPT !.todo = Orders])
       ELSE UNCHANGED group /\ Finish(p)
    /\ UNCHANGED <<payment, cart, order, refund, world>>

RestockNext(p) ==
    /\ pc[p] = "restock"
    /\ \E o \in Orders :
          /\ NextIn(loc[p].todo, o)
          /\ order' = [order EXCEPT ![o] = RestoreStock(@)]
          /\ Hold(p, [loc[p] EXCEPT !.todo = @ \ {o}])
    /\ UNCHANGED <<payment, group, cart, refund, world, pc>>

ParkOrders(p) ==
    /\ pc[p] = "restock" /\ loc[p].todo = {}
    /\ order' = AwaitingBecome("PAYMENT_FAILED")
    /\ Finish(p)
    /\ UNCHANGED <<payment, group, cart, refund, world>>

-------------------------------------------------------------------------------
(* Mutant: the late success is recorded and then forgotten. *)
RecordOnly(p) ==
    /\ pc[p] = "lateRecord"
    /\ payment' = [payment EXCEPT !.status = "PAID", !.txn = loc[p].tx]
    /\ Finish(p)
    /\ UNCHANGED <<group, cart, order, refund, world>>

(* autoRefundLateSuccess: record the transaction, reserve everything,      *)
(* create an approved refund, execute it.  The refund has no order         *)
(* consequences.                                                           *)
RecordLateSuccess(p) ==
    /\ pc[p] = "lateRecord"
    /\ payment' = [payment EXCEPT !.status = "PAID", !.txn = loc[p].tx]
    /\ Goto(p, "lateReserve")
    /\ UNCHANGED <<group, cart, order, refund, world, loc>>

ReserveLate(p) ==
    /\ pc[p] = "lateReserve"
    /\ IF CanReserve(AmountPaid)
       THEN Reserve(AmountPaid) /\ Goto(p, "lateCreate") /\ UNCHANGED loc
       ELSE UNCHANGED payment /\ Finish(p)
    /\ UNCHANGED <<group, cart, order, refund, world>>

CreateLate(p) ==
    /\ pc[p] = "lateCreate"
    /\ \E r \in Refunds :
          /\ CreateRow(p, r, [status |-> "APPROVED", target |-> Whole, lines |-> NoLines,
                              amount |-> AmountPaid, delivered |-> TRUE,
                              claim |-> NoChild])
          /\ Hold(p, [loc[p] EXCEPT !.rid = r, !.applies = FALSE])
    /\ Goto(p, "exec")
    /\ UNCHANGED <<payment, group, cart, order, world>>

SettlementStep(p) ==
    \/ \E t \in Txns : ReceiveCallback(p, t)
    \/ ReadPending(p) \/ InquireSettled(p) \/ InquireUnsettled(p) \/ InquiryFails(p)
    \/ ExpireUnpaid(p)
    \/ IgnoreOutcome(p) \/ DivertLateSuccess(p) \/ SettlePayment(p)
    \/ OnPaidNotAwaiting(p) \/ PromoteOrders(p) \/ PromoteGroup(p)
    \/ ClaimFailure(p) \/ RestockNext(p) \/ ParkOrders(p)
    \/ RecordLateSuccess(p) \/ ReserveLate(p) \/ CreateLate(p)
===============================================================================
