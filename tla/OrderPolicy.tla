----------------------------- MODULE OrderPolicy -----------------------------
(***************************************************************************)
(* The pure rules of the order and refund services: which statuses exist,  *)
(* how the overall status of a group follows from its child orders, who    *)
(* may refund what, and what a refund does to an order.  No state: the     *)
(* stateful modules evaluate these operators on the documents they read.   *)
(***************************************************************************)
EXTENDS Integers, FiniteSets

(* OrderStatusEnum *)
OrderStatuses ==
    { "AWAITING_PAYMENT", "PAYMENT_FAILED", "PENDING", "CONFIRMED", "PREPARING",
      "READY", "OUT_FOR_DELIVERY", "DELIVERED", "CANCELLED", "REFUNDED",
      "PARTIALLY_REFUNDED" }

(* OrderGroup.overallStatus also takes three values no single order has. *)
GroupStatuses ==
    OrderStatuses \cup {"Partially Delivered", "Partially Cancelled", "Processing"}

RefundStatuses ==
    {"REQUESTED", "APPROVED", "PROCESSING", "SUCCEEDED", "MANUAL_REQUIRED", "REJECTED"}

PaymentStatuses == {"PENDING", "PAID", "FAILED", "EXPIRED"}

NOTHING_COMMITTED_STATUSES == {"AWAITING_PAYMENT", "PAYMENT_FAILED"}

TERMINAL == NOTHING_COMMITTED_STATUSES \cup {"CANCELLED", "REFUNDED"}

CUSTOMER_AUTO_REFUNDABLE == {"PENDING", "CONFIRMED"}

FinalStatuses == {"DELIVERED", "CANCELLED", "REFUNDED"}

NonCancellable ==
    {"PREPARING", "READY", "OUT_FOR_DELIVERY", "DELIVERED", "REFUNDED"}

-------------------------------------------------------------------------------
(* The kitchen's order of progress; a status outside it has no rank.       *)
Progression ==
    <<"PENDING", "CONFIRMED", "PREPARING", "READY", "OUT_FOR_DELIVERY", "DELIVERED">>

Ranked == {Progression[i] : i \in 1..6}

Rank(s) == CHOOSE i \in 1..6 : Progression[i] = s

(* An order never goes back to an earlier rank; a status without a rank    *)
(* (Awaiting Payment, Payment Failed, Partially Refunded) is not ordered.  *)
Reverts(from, to) == /\ from \in Ranked
                     /\ to \in Ranked
                     /\ Rank(to) < Rank(from)

(* Mutant: the rank comparison is lost. *)
MayUpdateAnywhere(from, to) == from # to /\ from \notin FinalStatuses

(* The check at the top of updateOrderStatus, on the order it has read. *)
MayUpdate(from, to) == /\ from # to
                       /\ from \notin FinalStatuses
                       /\ to # "CANCELLED" => ~Reverts(from, to)

-------------------------------------------------------------------------------
(* computeOverallStatus; st maps the positions 1..n of a group's child     *)
(* orders to their statuses, and a group always has a child.               *)
ComputeOverallStatus(st) ==
    LET seen == {st[i] : i \in DOMAIN st}
    IN  IF seen = {st[1]} THEN st[1]
        ELSE IF "DELIVERED" \in seen THEN "Partially Delivered"
        ELSE IF "CANCELLED" \in seen THEN "Partially Cancelled"
        ELSE "Processing"

(* mostAdvancedStatus: the furthest status in the fixed precedence list,   *)
(* or, when no target has a status of that list, the first target's.       *)
Precedence == [s \in Ranked \cup {"AWAITING_PAYMENT"} |->
                    IF s = "AWAITING_PAYMENT" THEN 0 ELSE Rank(s)]

MostAdvancedStatus(st, targets) ==
    LET placed == {st[i] : i \in targets} \cap DOMAIN Precedence
        first  == CHOOSE i \in targets : \A j \in targets : i <= j
    IN  IF placed = {} THEN st[first]
        ELSE CHOOSE s \in placed : \A u \in placed : Precedence[u] <= Precedence[s]

(* decideRefund, for a requester who is staff or owns the group.           *)
(* inWindow: a stamped delivery less than DISPUTE_WINDOW_HOURS old.        *)
DecideRefund(isStaff, status, inWindow, isLine) ==
    IF \/ status \in TERMINAL
       \/ isLine /\ ~isStaff
       \/ status = "DELIVERED" /\ ~(isStaff /\ inWindow)
    THEN "forbidden"
    ELSE IF isStaff \/ status \in CUSTOMER_AUTO_REFUNDABLE
         THEN "auto" ELSE "needs_approval"

StatusAfterRefund(current, isLine) ==
    IF isLine THEN "PARTIALLY_REFUNDED"
    ELSE IF current = "DELIVERED" THEN "REFUNDED" ELSE "CANCELLED"
===============================================================================
