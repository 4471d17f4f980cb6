------------------------------ MODULE OrderMoney ------------------------------
(***************************************************************************)
(* One order group and every document its money touches: the group, its    *)
(* child orders (one per restaurant), the single Payment behind it, the    *)
(* Refund rows against that payment, and the ledger of the gateway         *)
(* (Paymob).  Groups share nothing but offers and the customer's cart, so  *)
(* one group is the whole system for the properties stated here.           *)
(*                                                                         *)
(* Every request, webhook and cron iteration is a process.  A process runs *)
(* one handler at a time; each step of a handler is one database write or  *)
(* one gateway call together with the reads just before it, and its        *)
(* locals are what the handler holds across an await.                      *)
(***************************************************************************)
EXTENDS OrderPolicy, FiniteSetsExt, TLC

CONSTANTS
    NumOrders,          \* child orders of the group, in the order of orderIds
    Lines,              \* line items of an order
    OrderTotal,         \* OrderTotal[o]: finalTotalPrice of o, in piasters
    LineTotal,          \* LineTotal[o][l]: lineTotal of a line, in piasters
    AmountPaid,         \* Payment.amountCents, the group's total
    IsCod,              \* TRUE: cash on delivery, there is no Payment
    InitiallyPaid,      \* TRUE: start from a settled and promoted group
    Txns,               \* checkout attempts the customer can make
    Refunds,            \* ids of the Refund rows that can be created
    NoTxn, NoRefund,    \* absent ids
    Webhooks, Sweepers, Payers, Customers, Staff, Admins, Reconcilers,
    CallsOutrunCron,    \* TRUE: no refund cron tick falls into an open gateway call
    MaxNamed            \* bound: how many line indexes one request may list

Orders == 1..NumOrders
Whole  == 0             \* a refund of the whole group names no order

(* The line items a refund names: lineItemIndexes is a list of indexes,    *)
(* not a set, so it is kept as the number of times each line occurs.       *)
LineLists == [Lines -> Nat]
NoLines   == [l \in Lines |-> 0]     \* a refund of a whole order names no line
Named(lines) == {l \in Lines : lines[l] > 0}

(* The two crons, the webhook endpoint, and the HTTP clients by role. *)
Proc == UNION {Webhooks, Sweepers, Payers, Customers, Staff, Admins, Reconcilers}

(* A booked refund is a child transaction at the gateway: <<r, k>> is the  *)
(* k-th time the money of refund r moved.  MaxMoves bounds k.              *)
MaxMoves == 2
Children == Refunds \X (1..MaxMoves)
NoChild  == <<NoRefund, 0>>

ASSUME MoneyAssumption ==
    /\ NumOrders \in Nat \ {0}
    /\ IsFiniteSet(Lines) /\ MaxNamed \in Nat
    /\ OrderTotal \in [Orders -> Nat]
    /\ LineTotal \in [Orders -> [Lines -> Nat]]
    /\ AmountPaid \in Nat \ {0}
    /\ IsCod \in BOOLEAN /\ InitiallyPaid \in BOOLEAN /\ CallsOutrunCron \in BOOLEAN
    /\ NoTxn \notin Txns /\ NoRefund \notin Refunds
    /\ InitiallyPaid => Txns # {}

VARIABLES
    payment,    \* [status, txn, refunded, intention]: the Payment document
    group,      \* OrderGroup.overallStatus
    cart,       \* "full" while the customer's cart still holds the basket
    order,      \* order[o]: [status, delivered, restored, returned, consumed]
    refund,     \* refund[r]: [status, target, lines, amount, delivered, claim]
    attempt,    \* attempt[t]: what the gateway knows of a checkout attempt
    moved,      \* child transactions booked by a call that was answered or timed out
    denied,     \* child transactions booked by a call that was answered with an error
    expired,    \* TRUE once the payment window has passed
    abandoned,  \* TRUE once the Payment is too old for the sweeper (24 hours)
    aged,       \* aged[r]: Refund.createdAt is more than REFUND_STUCK_MS ago
    pc,         \* where each process is in its handler
    loc         \* what its handler holds

docs    == <<payment, group, cart, order, refund>>
world   == <<attempt, moved, denied, expired, abandoned, aged>>
vars    == <<payment, group, cart, order, refund, attempt, moved, denied, expired, abandoned,
             aged, pc, loc>>

(* Every child transaction the gateway has booked. *)
Ledger == moved \cup denied

-------------------------------------------------------------------------------
(* An order's document.  delivered is the age of deliveredAt against the   *)
(* dispute window; returned and consumed count how often the order's units *)
(* went back to its offers and were taken out of the kitchen's stock.      *)
OrderDoc == [status : OrderStatuses, delivered : {"no", "recent", "old"},
             restored : BOOLEAN, returned : Nat, consumed : Nat]

PaymentDoc == [status : PaymentStatuses, txn : Txns \cup {NoTxn},
               refunded : Int, intention : BOOLEAN]

RefundDoc == [status : RefundStatuses \cup {"none"}, target : Orders \cup {Whole},
              lines : LineLists, amount : Nat, delivered : BOOLEAN,
              claim : Children \cup {NoChild}]

NoRow == [status |-> "none", target |-> Whole, lines |-> NoLines, amount |-> 0,
          delivered |-> FALSE, claim |-> NoChild]

(* What a handler holds: the Payment it read (status, txn), the gateway    *)
(* transaction, the refund row, the order statuses it read, the orders its *)
(* loop has left, the refund or update it was asked for, the status it is  *)
(* about to write, and whether order consequences follow the refund.       *)
Locals == [seen : PaymentStatuses, seenTxn : Txns \cup {NoTxn},
           tx : Txns \cup {NoTxn}, rid : Refunds \cup {NoRefund},
           view : [Orders -> OrderStatuses], todo : SUBSET Orders,
           target : Orders \cup {Whole}, lines : LineLists,
           amount : Nat, staff : BOOLEAN, auto : BOOLEAN, delivered : BOOLEAN,
           claim : Children \cup {NoChild}, next : GroupStatuses,
           direct : BOOLEAN, applies : BOOLEAN]

NoLocals == [seen |-> "PENDING", seenTxn |-> NoTxn, tx |-> NoTxn, rid |-> NoRefund,
             view |-> [o \in Orders |-> "PENDING"], todo |-> {},
             target |-> Whole, lines |-> NoLines, amount |-> 0, staff |-> FALSE,
             auto |-> FALSE, delivered |-> FALSE, claim |-> NoChild,
             next |-> "PENDING", direct |-> TRUE, applies |-> FALSE]

Labels ==
    { "idle",
      \* settlement of the payment
      "inquire", "expire", "apply", "onPaid", "promoteGroup", "onFailed", "restock",
      "lateRecord", "lateReserve", "lateCreate",
      \* refunds
      "request", "reserve", "create", "exec", "gateway", "void", "settle", "release",
      "flagManual", "consequences", "applyTargets", "recompute",
      "settleReserve", "settleMark", "rejectRelease", "rejectMark", "approveMark",
      "refundInquiry",
      \* cancellation and status updates
      "closeWindow", "cancelOrders", "cancelOne", "writeStatus", "sync", "deduct",
      "siblings" }

(* Between which steps a handler works on a refund row it has found. *)
RowLabels ==
    { "exec", "gateway", "void", "settle", "release", "flagManual", "consequences",
      "applyTargets", "settleReserve", "settleMark", "rejectRelease", "rejectMark",
      "approveMark", "refundInquiry" }

DocsOK ==
    /\ payment \in PaymentDoc
    /\ group \in GroupStatuses
    /\ cart \in {"full", "empty"}
    /\ order \in [Orders -> OrderDoc]
    /\ refund \in [Refunds -> RefundDoc]

WorldOK ==
    /\ attempt \in [Txns -> {"none", "pending", "success", "declined"}]
    /\ moved \subseteq Children /\ denied \subseteq Children
    /\ expired \in BOOLEAN /\ abandoned \in BOOLEAN
    /\ aged \in [Refunds -> BOOLEAN]

ControlOK ==
    /\ pc \in [Proc -> Labels]
    /\ loc \in [Proc -> Locals]
    /\ \A p \in Proc : /\ pc[p] \in RowLabels => loc[p].rid \in Refunds
                       /\ pc[p] = "writeStatus" => loc[p].next \in OrderStatuses

TypeOK == DocsOK /\ WorldOK /\ ControlOK

-------------------------------------------------------------------------------
(* createOrder leaves the stock reserved, the group and its orders in the  *)
(* initial status of the payment method, and (online) a PENDING Payment;   *)
(* intention is FALSE when createIntention failed after the row existed.   *)
(* A paid start is the group after a settlement and onPaid.  A group paid  *)
(* in cash has no Payment: its record is a placeholder no step writes.     *)
InitialStatus == IF IsCod \/ InitiallyPaid THEN "PENDING" ELSE "AWAITING_PAYMENT"

Init ==
    /\ group = InitialStatus
    /\ cart = IF InitialStatus = "PENDING" THEN "empty" ELSE "full"
    /\ order = [o \in Orders |-> [status |-> InitialStatus, delivered |-> "no",
                                  restored |-> FALSE, returned |-> 0, consumed |-> 0]]
    /\ refund = [r \in Refunds |-> NoRow]
    /\ \E t \in Txns \cup {NoTxn}, i \in BOOLEAN :
          /\ IF InitiallyPaid /\ ~IsCod THEN t # NoTxn /\ i ELSE t = NoTxn
          /\ payment = [status |-> IF t = NoTxn THEN "PENDING" ELSE "PAID",
                        txn |-> t, refunded |-> 0, intention |-> i /\ ~IsCod]
          /\ attempt = [u \in Txns |-> IF u = t THEN "success" ELSE "none"]
    /\ moved = {} /\ denied = {}
    /\ expired = FALSE /\ abandoned = FALSE
    /\ aged = [r \in Refunds |-> FALSE]
    /\ pc = [p \in Proc |-> "idle"]
    /\ loc = [p \in Proc |-> NoLocals]

-------------------------------------------------------------------------------
(* Control of a process. *)
Finish(p) == /\ pc' = [pc EXCEPT ![p] = "idle"]
             /\ loc' = [loc EXCEPT ![p] = NoLocals]

Hold(p, held) == loc' = [loc EXCEPT ![p] = held]

Goto(p, label) == pc' = [pc EXCEPT ![p] = label]

Statuses(ord) == [o \in Orders |-> ord[o].status]

(* The order a loop takes next: loops walk the children in orderIds order. *)
NextIn(todo, o) == o \in todo /\ \A q \in todo : o <= q

(* Mutant: the restock forgets its claim. *)
RestoreStockUnclaimed(doc) == [doc EXCEPT !.restored = TRUE, !.returned = @ + 1]

(* restoreStockForOrder: the claim on stockRestoredAt is a conditional     *)
(* update, so only the first caller returns the units to the offers.       *)
RestoreStock(doc) == IF doc.restored THEN doc
                     ELSE [doc EXCEPT !.restored = TRUE, !.returned = @ + 1]

(* reserveRefund: one conditional $inc of refundedAmountCents. *)
CanReserve(amount) == payment.refunded <= AmountPaid - amount
Reserve(amount)    == payment' = [payment EXCEPT !.refunded = @ + amount]

(* releaseRefundReservation: the floor is part of the filter. *)
Release(amount) == payment' = IF payment.refunded >= amount
                              THEN [payment EXCEPT !.refunded = @ - amount]
                              ELSE payment

Row(p) == refund[loc[p].rid]

SetRow(p, status) == refund' = [refund EXCEPT ![loc[p].rid].status = status]

(* A new Refund row under a fresh id. *)
CreateRow(p, r, row) == /\ refund[r].status = "none"
                        /\ refund' = [refund EXCEPT ![r] = row]
===============================================================================
