------------------------------ MODULE RefundFlow ------------------------------
(***************************************************************************)
(* Refunds: requestRefund and reviewRefund, the execution of an approved   *)
(* refund at the gateway, its consequences for the orders, and the cron    *)
(* that resolves refunds whose gateway call timed out.                     *)
(***************************************************************************)
EXTENDS OrderMoney

Covered(target) == IF target = Whole THEN Orders ELSE {target}

(* The refund statuses that keep a line item spoken for. *)
LiveRefund == RefundStatuses \ {"REJECTED"}

(* Mutant: only a finished refund takes its line. *)
LinePaidOut(o, l) == \E r \in Refunds : /\ refund[r].status = "SUCCEEDED"
                                        /\ refund[r].target = o
                                        /\ l \in Named(refund[r].lines)

(* assertLineItemsNotAlreadyRefunded looks at the other rows only, not for  *)
(* a line the request itself names twice.                                  *)
LineTaken(o, l) == \E r \in Refunds : /\ refund[r].status \in LiveRefund
                                      /\ refund[r].target = o
                                      /\ l \in Named(refund[r].lines)

(* resolveAmountCents: every occurrence of a line counts, and a whole-group *)
(* refund of an online group takes what the Payment it read still has.     *)
AmountOf(target, lines) ==
    IF lines # NoLines THEN SumFunction([l \in Lines |-> lines[l] * LineTotal[target][l]])
    ELSE IF target # Whole THEN OrderTotal[target]
    ELSE AmountPaid - (IF IsCod THEN 0 ELSE payment.refunded)

(* decideRefund on the orders as read.  deliveredAtOf counts only orders    *)
(* that are DELIVERED now.                                                 *)
Decision(target, lines, staff) ==
    LET covered == Covered(target)
    IN  DecideRefund(staff, MostAdvancedStatus(Statuses(order), covered),
                     \E o \in covered : /\ order[o].status = "DELIVERED"
                                        /\ order[o].delivered = "recent",
                     lines # NoLines)

RequestAllowed(target, lines, staff) ==
    /\ lines # NoLines => target # Whole
    /\ \A l \in Named(lines) : ~LineTaken(target, l)
    /\ Decision(target, lines, staff) # "forbidden"
    /\ IsCod \/ payment.status = "PAID"
    /\ AmountOf(target, lines) > 0

(* requestRefund up to its first write.  orderWasDelivered is taken from   *)
(* the durable stamp, so it also counts a partially refunded order.        *)
ReadRequest(p, target, lines, staff) ==
    /\ RequestAllowed(target, lines, staff)
    /\ Goto(p, IF IsCod THEN "create" ELSE "reserve")
    /\ Hold(p, [loc[p] EXCEPT
                  !.target = target, !.lines = lines,
                  !.amount = AmountOf(target, lines),
                  !.auto = (Decision(target, lines, staff) = "auto"),
                  !.delivered = \E o \in Covered(target) : order[o].delivered # "no"])

(* POST group/:groupId/refunds, an admin endpoint. *)
RequestRefund(p) ==
    /\ p \in Admins /\ pc[p] = "idle"
    /\ \E target \in Orders \cup {Whole}, lines \in [Lines -> 0..MaxNamed] :
          /\ SumFunction(lines) <= MaxNamed
          /\ ReadRequest(p, target, lines, TRUE)
    /\ UNCHANGED <<docs, world>>

(* requestRefund called by cancelOrderGroup or updateOrderStatus. *)
RoutedRequest(p) ==
    /\ pc[p] = "request"
    /\ ReadRequest(p, loc[p].target, NoLines, loc[p].staff)
    /\ UNCHANGED <<docs, world>>

(* The same call refused by a guard: the caller's request fails. *)
RefuseRequest(p) ==
    /\ pc[p] = "request"
    /\ ~RequestAllowed(loc[p].target, NoLines, loc[p].staff)
    /\ Finish(p)
    /\ UNCHANGED <<docs, world>>

ReserveHeadroom(p) ==
    /\ pc[p] = "reserve"
    /\ IF CanReserve(loc[p].amount)
       THEN Reserve(loc[p].amount) /\ Goto(p, "create") /\ UNCHANGED loc
       ELSE UNCHANGED payment /\ Finish(p)
    /\ UNCHANGED <<group, cart, order, refund, world>>

CreateRefund(p) ==
    /\ pc[p] = "create"
    /\ \E r \in Refunds :
          /\ CreateRow(p, r, [status |-> IF loc[p].auto THEN "APPROVED" ELSE "REQUESTED",
                              target |-> loc[p].target, lines |-> loc[p].lines,
                              amount |-> loc[p].amount, delivered |-> loc[p].delivered,
                              claim |-> NoChild])
          /\ IF loc[p].auto
             THEN /\ Goto(p, "exec")
                  /\ Hold(p, [loc[p] EXCEPT !.rid = r, !.applies = TRUE])
             ELSE Finish(p)
    /\ UNCHANGED <<payment, group, cart, order, world>>

-------------------------------------------------------------------------------
(* executeRefund.  Its branch for a Payment without a transaction is dead: *)
(* a row only exists for a Payment that recorded one when it became PAID.  *)
ExecuteOffline(p) ==
    /\ pc[p] = "exec" /\ IsCod
    /\ IF Row(p).delivered
       THEN SetRow(p, "MANUAL_REQUIRED") /\ Finish(p)
       ELSE SetRow(p, "SUCCEEDED") /\ Goto(p, "consequences") /\ UNCHANGED loc
    /\ UNCHANGED <<payment, group, cart, order, world>>

SendToGateway(p) ==
    /\ pc[p] = "exec" /\ ~IsCod
    /\ SetRow(p, "PROCESSING")
    /\ Goto(p, "gateway")
    /\ UNCHANGED <<payment, group, cart, order, world, loc>>

(* The gateway (external) books a child transaction for the refund, or for *)
(* the void that follows a refused full refund; it never returns more than *)
(* it captured.                                                            *)
MoneyOf(children) == SumFunction([c \in children |-> refund[c[1]].amount])

Bookable(p, k) == /\ <<loc[p].rid, k>> \notin Ledger
                  /\ MoneyOf(Ledger) + Row(p).amount <= AmountPaid

Book(p, k) == Bookable(p, k) /\ moved' = moved \cup {<<loc[p].rid, k>>}

GatewayAccepts(p) ==
    /\ pc[p] \in {"gateway", "void"}
    /\ \E k \in 1..MaxMoves :
          /\ Book(p, k)
          /\ Hold(p, [loc[p] EXCEPT !.claim = <<loc[p].rid, k>>])
    /\ Goto(p, "settle")
    /\ UNCHANGED <<docs, attempt, denied, expired, abandoned, aged>>

(* Mutants: a timeout is taken for a rejection, or for a success. *)
TimeoutReleases(p) ==
    /\ pc[p] \in {"gateway", "void"}
    /\ UNCHANGED moved \/ \E k \in 1..MaxMoves : Book(p, k)
    /\ Goto(p, "release")
    /\ UNCHANGED <<docs, attempt, denied, expired, abandoned, aged, loc>>

TimeoutApplies(p) ==
    /\ pc[p] \in {"gateway", "void"}
    /\ UNCHANGED moved \/ \E k \in 1..MaxMoves : Book(p, k)
    /\ Goto(p, "consequences")
    /\ UNCHANGED <<docs, attempt, denied, expired, abandoned, aged, loc>>

(* PaymobTimeoutError: the call took effect, or it never arrived; the row  *)
(* stays PROCESSING and the reservation stays taken.                       *)
GatewayTimesOut(p) ==
    /\ pc[p] \in {"gateway", "void"}
    /\ UNCHANGED moved \/ \E k \in 1..MaxMoves : Book(p, k)
    /\ Finish(p)
    /\ UNCHANGED <<docs, attempt, denied, expired, abandoned, aged>>

(* Any other error counts as a definite rejection and falls back to a void *)
(* for a full amount, once.  But request() throws as well on a 5xx, a      *)
(* reset connection or a reply it cannot parse, and the call may have      *)
(* taken effect before: a refund so booked is noticed by nobody.           *)
GatewayRejects(p) ==
    /\ pc[p] \in {"gateway", "void"}
    /\ \/ UNCHANGED denied
       \/ \E k \in 1..MaxMoves : /\ Bookable(p, k)
                                 /\ denied' = denied \cup {<<loc[p].rid, k>>}
    /\ Goto(p, IF pc[p] = "gateway" /\ Row(p).amount = AmountPaid
               THEN "void" ELSE "release")
    /\ UNCHANGED <<docs, attempt, moved, expired, abandoned, aged, loc>>

(* settleRefund(SUCCEEDED), by the executing handler or by the cron. *)
SettleSucceeded(p) ==
    /\ pc[p] = "settle"
    /\ refund' = [refund EXCEPT ![loc[p].rid].status = "SUCCEEDED",
                                ![loc[p].rid].claim = loc[p].claim]
    /\ IF loc[p].applies THEN Goto(p, "consequences") /\ UNCHANGED loc ELSE Finish(p)
    /\ UNCHANGED <<payment, group, cart, order, world>>

ReleaseHeadroom(p) ==
    /\ pc[p] = "release"
    /\ Release(Row(p).amount)
    /\ Goto(p, "flagManual")
    /\ UNCHANGED <<group, cart, order, refund, world, loc>>

FlagManual(p) ==
    /\ pc[p] = "flagManual"
    /\ SetRow(p, "MANUAL_REQUIRED")
    /\ Finish(p)
    /\ UNCHANGED <<payment, group, cart, order, world>>

-------------------------------------------------------------------------------
(* applyOrderConsequences: the children are read once; each target is      *)
(* written from what was read.                                             *)
ReadTargets(p) ==
    /\ pc[p] = "consequences"
    /\ Hold(p, [loc[p] EXCEPT !.view = Statuses(order),
                          !.todo = Covered(Row(p).target)])
    /\ Goto(p, "applyTargets")
    /\ UNCHANGED <<docs, world>>

Finished == {"CANCELLED", "REFUNDED"}

(* A line refund, and a refund of a DELIVERED order, return no stock. *)
ApplyTarget(doc, was, isLine) ==
    LET written == [doc EXCEPT !.status = StatusAfterRefund(was, isLine)]
    IN  IF was \in Finished THEN doc
        ELSE IF isLine \/ was = "DELIVERED" THEN written
        ELSE RestoreStock(written)

ApplyConsequence(p) ==
    /\ pc[p] = "applyTargets"
    /\ \E o \in Orders :
          /\ NextIn(loc[p].todo, o)
          /\ order' = [order EXCEPT ![o] =
                          ApplyTarget(@, loc[p].view[o], Row(p).lines # NoLines)]
          /\ Hold(p, [loc[p] EXCEPT !.todo = @ \ {o}])
    /\ UNCHANGED <<payment, group, cart, refund, world, pc>>

(* Mutants: the group's status is written to its orders as well, or the    *)
(* group is not written at all.                                            *)
RecomputeCascades(p) ==
    /\ pc[p] = "recompute"
    /\ group' = loc[p].next
    /\ order' = [o \in Orders |-> [order[o] EXCEPT !.status = loc[p].next]]
    /\ Finish(p)
    /\ UNCHANGED <<payment, cart, refund, world>>

RecomputeForgotten(p) ==
    /\ pc[p] = "recompute"
    /\ Finish(p)
    /\ UNCHANGED <<docs, world>>

(* Recomputing the group: read the siblings, then write.  Shared with the  *)
(* status update, which enters it at "siblings".                           *)
ReadSiblings(p) ==
    /\ \/ pc[p] = "applyTargets" /\ loc[p].todo = {}
       \/ pc[p] = "siblings"
    /\ Hold(p, [loc[p] EXCEPT !.next = ComputeOverallStatus(Statuses(order))])
    /\ Goto(p, "recompute")
    /\ UNCHANGED <<docs, world>>

RecomputeGroup(p) ==
    /\ pc[p] = "recompute"
    /\ group' = loc[p].next
    /\ Finish(p)
    /\ UNCHANGED <<payment, cart, order, refund, world>>

-------------------------------------------------------------------------------
(* Mutant: a review that approves whatever is not rejected.                *)
ReviewAnything(p) ==
    /\ p \in Admins /\ pc[p] = "idle"
    /\ \E r \in Refunds :
          /\ refund[r].status \notin {"none", "REJECTED"}
          /\ Hold(p, [loc[p] EXCEPT !.rid = r])
    /\ Goto(p, "approveMark")
    /\ UNCHANGED <<docs, world>>

(* reviewRefund reads the row, checks the status it read, and then writes  *)
(* by _id alone.                                                           *)
ReadReview(p) ==
    /\ p \in Admins /\ pc[p] = "idle"
    /\ \E r \in Refunds :
          /\ \/ /\ refund[r].status = "MANUAL_REQUIRED"
                /\ Goto(p, IF IsCod THEN "settleMark" ELSE "settleReserve")
             \/ /\ refund[r].status = "REQUESTED"
                /\ \/ Goto(p, IF IsCod THEN "rejectMark" ELSE "rejectRelease")
                   \/ Goto(p, "approveMark")
          /\ Hold(p, [loc[p] EXCEPT !.rid = r])
    /\ UNCHANGED <<docs, world>>

(* decision 'settle': a human handed the money over. *)
SettleReserve(p) ==
    /\ pc[p] = "settleReserve"
    /\ IF CanReserve(Row(p).amount)
       THEN Reserve(Row(p).amount) /\ Goto(p, "settleMark") /\ UNCHANGED loc
       ELSE UNCHANGED payment /\ Finish(p)
    /\ UNCHANGED <<group, cart, order, refund, world>>

SettleMark(p) ==
    /\ pc[p] = "settleMark"
    /\ SetRow(p, "SUCCEEDED")
    /\ Goto(p, "consequences")
    /\ UNCHANGED <<payment, group, cart, order, world, loc>>

(* Mutant: a rejected request keeps its headroom. *)
RejectKeeps(p) ==
    /\ pc[p] = "rejectRelease"
    /\ Goto(p, "rejectMark")
    /\ UNCHANGED <<docs, world, loc>>

RejectRelease(p) ==
    /\ pc[p] = "rejectRelease"
    /\ Release(Row(p).amount)
    /\ Goto(p, "rejectMark")
    /\ UNCHANGED <<group, cart, order, refund, world, loc>>

RejectMark(p) ==
    /\ pc[p] = "rejectMark"
    /\ SetRow(p, "REJECTED")
    /\ Finish(p)
    /\ UNCHANGED <<payment, group, cart, order, world>>

ApproveMark(p) ==
    /\ pc[p] = "approveMark"
    /\ SetRow(p, "APPROVED")
    /\ Goto(p, "exec")
    /\ Hold(p, [loc[p] EXCEPT !.applies = TRUE])
    /\ UNCHANGED <<payment, group, cart, order, world>>

-------------------------------------------------------------------------------
(* reconcileProcessingRefunds.  The cron selects by createdAt, the age of  *)
(* the ROW; a refund approved after a long review is old when it is sent.  *)
InCall(r) == \E p \in Proc : /\ loc[p].rid = r
                             /\ pc[p] \in {"exec", "gateway", "void", "settle", "release",
                                           "flagManual"}

(* Time: ten minutes pass, longer than the two calls of one execution. *)
RefundAges(r) ==
    /\ refund[r].status # "none" /\ ~aged[r]
    /\ ~InCall(r)
    /\ aged' = [aged EXCEPT ![r] = TRUE]
    /\ UNCHANGED <<docs, attempt, moved, denied, expired, abandoned, pc, loc>>

(* Mutant: the cron looks for refunds in the status before the call. *)
PickApproved(p) ==
    /\ p \in Reconcilers /\ pc[p] = "idle"
    /\ \E r \in Refunds :
          /\ refund[r].status = "APPROVED" /\ aged[r] /\ ~InCall(r)
          /\ Hold(p, [loc[p] EXCEPT !.rid = r])
    /\ Goto(p, "refundInquiry")
    /\ UNCHANGED <<docs, world>>

PickStuck(p) ==
    /\ p \in Reconcilers /\ pc[p] = "idle"
    /\ \E r \in Refunds :
          /\ refund[r].status = "PROCESSING" /\ aged[r]
          /\ CallsOutrunCron => ~InCall(r)
          /\ Hold(p, [loc[p] EXCEPT !.rid = r])
    /\ Goto(p, "refundInquiry")
    /\ UNCHANGED <<docs, world>>

(* A child of the right amount that no refund row has claimed. *)
Unclaimed(p) == {c \in Ledger : /\ refund[c[1]].amount = Row(p).amount
                                /\ \A r \in Refunds : refund[r].claim # c}

MatchChild(p) ==
    /\ pc[p] = "refundInquiry"
    /\ \E c \in Unclaimed(p) : Hold(p, [loc[p] EXCEPT !.claim = c, !.applies = FALSE])
    /\ Goto(p, "settle")
    /\ UNCHANGED <<docs, world>>

NoChildFound(p) ==
    /\ pc[p] = "refundInquiry"
    /\ Unclaimed(p) = {}
    /\ Goto(p, "release")
    /\ UNCHANGED <<docs, world, loc>>

RefundInquiryFails(p) ==
    /\ pc[p] = "refundInquiry"
    /\ Finish(p)
    /\ UNCHANGED <<docs, world>>

RefundStep(p) ==
    \/ RequestRefund(p) \/ RoutedRequest(p) \/ RefuseRequest(p)
    \/ ReserveHeadroom(p) \/ CreateRefund(p)
    \/ ExecuteOffline(p) \/ SendToGateway(p)
    \/ GatewayAccepts(p) \/ GatewayTimesOut(p) \/ GatewayRejects(p)
    \/ SettleSucceeded(p) \/ ReleaseHeadroom(p) \/ FlagManual(p)
    \/ ReadTargets(p) \/ ApplyConsequence(p) \/ ReadSiblings(p) \/ RecomputeGroup(p)
    \/ ReadReview(p) \/ SettleReserve(p) \/ SettleMark(p)
    \/ RejectRelease(p) \/ RejectMark(p) \/ ApproveMark(p)
    \/ PickStuck(p) \/ MatchChild(p) \/ NoChildFound(p) \/ RefundInquiryFails(p)
===============================================================================
