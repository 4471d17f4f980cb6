------------------------- MODULE OrderLifecycle_proofs -------------------------
(***************************************************************************)
(* What holds of an order group for every number of orders, amount of      *)
(* money and set of concurrent requests: type correctness (with what a     *)
(* handler holds between its steps), the bounds of the refund counter, and *)
(* that an order's units go back to its offers at most once.               *)
(***************************************************************************)
EXTENDS OrderLifecycle, SumTheorems, TLAPS

(* Locals.  Each lemma types what a step makes of a handler's locals. *)

LEMMA NoLinesTyped == NoLines \in LineLists /\ Named(NoLines) = {}
BY DEF NoLines, LineLists, Named

LEMMA NoLocalsTyped == NoLocals \in Locals
BY NoLinesTyped
DEF NoLocals, Locals, PaymentStatuses, OrderStatuses, GroupStatuses, Whole, NoChild

LEMMA HeldPayment ==
    ASSUME NEW held \in Locals, NEW s \in PaymentStatuses, NEW t \in Txns \cup {NoTxn}
    PROVE  /\ [held EXCEPT !.seen = s, !.seenTxn = t] \in Locals
           /\ \A u \in Txns : [held EXCEPT !.seen = s, !.seenTxn = t, !.tx = u] \in Locals
BY DEF Locals

LEMMA HeldTxn ==
    ASSUME NEW held \in Locals, NEW t \in Txns
    PROVE  [held EXCEPT !.tx = t] \in Locals
BY DEF Locals

LEMMA HeldTodo ==
    ASSUME NEW held \in Locals, NEW S \in SUBSET Orders
    PROVE  /\ [held EXCEPT !.todo = S] \in Locals
           /\ [held EXCEPT !.todo = S].rid = held.rid
           /\ [held EXCEPT !.todo = S].next = held.next
BY DEF Locals

LEMMA HeldLess ==
    ASSUME NEW held \in Locals, NEW o \in Orders
    PROVE  /\ [held EXCEPT !.todo = @ \ {o}] \in Locals
           /\ [held EXCEPT !.todo = @ \ {o}].rid = held.rid
           /\ [held EXCEPT !.todo = @ \ {o}].next = held.next
<1>1. held.todo \ {o} \in SUBSET Orders BY DEF Locals
<1> QED BY <1>1, HeldTodo

LEMMA HeldRow ==
    ASSUME NEW held \in Locals, NEW r \in Refunds
    PROVE  /\ [held EXCEPT !.rid = r] \in Locals
           /\ [held EXCEPT !.rid = r].rid = r
           /\ \A b \in BOOLEAN : /\ [held EXCEPT !.rid = r, !.applies = b] \in Locals
                                 /\ [held EXCEPT !.rid = r, !.applies = b].rid = r
BY DEF Locals

LEMMA HeldApplies ==
    ASSUME NEW held \in Locals, NEW b \in BOOLEAN
    PROVE  /\ [held EXCEPT !.applies = b] \in Locals
           /\ [held EXCEPT !.applies = b].rid = held.rid
BY DEF Locals

LEMMA HeldClaim ==
    ASSUME NEW held \in Locals, NEW c \in Children
    PROVE  /\ [held EXCEPT !.claim = c] \in Locals
           /\ [held EXCEPT !.claim = c].rid = held.rid
           /\ [held EXCEPT !.claim = c, !.applies = FALSE] \in Locals
           /\ [held EXCEPT !.claim = c, !.applies = FALSE].rid = held.rid
BY DEF Locals

LEMMA HeldView ==
    ASSUME NEW held \in Locals, NEW v \in [Orders -> OrderStatuses], NEW S \in SUBSET Orders
    PROVE  /\ [held EXCEPT !.view = v] \in Locals
           /\ [held EXCEPT !.view = v, !.todo = S] \in Locals
           /\ [held EXCEPT !.view = v, !.todo = S].rid = held.rid
BY DEF Locals

LEMMA HeldNext ==
    ASSUME NEW held \in Locals, NEW s \in GroupStatuses
    PROVE  [held EXCEPT !.next = s] \in Locals
BY DEF Locals

LEMMA HeldUpdate ==
    ASSUME NEW held \in Locals, NEW o \in Orders, NEW s \in OrderStatuses, NEW d \in BOOLEAN
    PROVE  [held EXCEPT !.target = o, !.next = s, !.staff = TRUE, !.direct = d] \in Locals
BY DEF Locals, GroupStatuses

LEMMA HeldRequest ==
    ASSUME NEW held \in Locals, NEW g \in Orders \cup {Whole}, NEW l \in LineLists,
           NEW n \in Nat, NEW a \in BOOLEAN, NEW d \in BOOLEAN
    PROVE  [held EXCEPT !.target = g, !.lines = l, !.amount = n, !.auto = a, !.delivered = d]
               \in Locals
BY DEF Locals

-------------------------------------------------------------------------------
(* Control.  ControlOK is kept by the four ways a step moves its process.  *)

LEMMA LabelSets ==
    /\ RowLabels \subseteq Labels
    /\ { "idle", "inquire", "expire", "apply", "onPaid", "promoteGroup", "onFailed",
         "restock", "lateRecord", "lateReserve", "lateCreate", "request", "reserve",
         "create", "recompute", "closeWindow", "cancelOrders", "cancelOne", "sync",
         "deduct", "siblings", "writeStatus" } \subseteq Labels \ RowLabels
    /\ "writeStatus" \notin RowLabels
BY DEF RowLabels, Labels

LEMMA MoveTyped ==
    ASSUME ControlOK, NEW p \in Proc, NEW label \in Labels, NEW held \in Locals,
           Goto(p, label), Hold(p, held),
           label \in RowLabels => held.rid \in Refunds,
           label = "writeStatus" => held.next \in OrderStatuses
    PROVE  ControlOK'
BY DEF ControlOK, Goto, Hold

LEMMA GotoTyped ==
    ASSUME ControlOK, NEW p \in Proc, NEW label \in Labels, Goto(p, label), UNCHANGED loc,
           label \in RowLabels => loc[p].rid \in Refunds,
           label # "writeStatus"
    PROVE  ControlOK'
BY DEF ControlOK, Goto

LEMMA HoldTyped ==
    ASSUME ControlOK, NEW p \in Proc, NEW held \in Locals, Hold(p, held), UNCHANGED pc,
           held.rid = loc[p].rid, held.next = loc[p].next
    PROVE  ControlOK'
BY DEF ControlOK, Hold

LEMMA FinishTyped ==
    ASSUME ControlOK, NEW p \in Proc, Finish(p)
    PROVE  ControlOK'
BY NoLocalsTyped, LabelSets DEF ControlOK, Finish

LEMMA LocalsTyped ==
    ASSUME ControlOK, NEW p \in Proc
    PROVE  /\ loc[p] \in Locals
           /\ pc[p] \in RowLabels => loc[p].rid \in Refunds
BY DEF ControlOK

(* A step that writes nothing shared, and one that writes documents only.  *)
LEMMA ReadOnly ==
    ASSUME TypeOK, UNCHANGED <<docs, world>>, ControlOK'
    PROVE  TypeOK'
BY DEF TypeOK, DocsOK, WorldOK, docs, world

LEMMA Write ==
    ASSUME TypeOK, UNCHANGED world, DocsOK', ControlOK'
    PROVE  TypeOK'
BY DEF TypeOK, WorldOK, world

-------------------------------------------------------------------------------
(* Documents.  What each kind of write leaves well typed.                  *)

LEMMA StatusTyped ==
    ASSUME NEW doc \in OrderDoc, NEW s \in OrderStatuses
    PROVE  [doc EXCEPT !.status = s] \in OrderDoc
BY DEF OrderDoc

LEMMA RestoreTyped ==
    ASSUME NEW doc \in OrderDoc
    PROVE  RestoreStock(doc) \in OrderDoc
<1>1. doc.returned + 1 \in Nat BY DEF OrderDoc
<1>2. \A n \in Nat : [doc EXCEPT !.restored = TRUE, !.returned = n] \in OrderDoc
  BY DEF OrderDoc
<1> QED BY <1>1, <1>2 DEF RestoreStock

LEMMA OrderWrite ==
    ASSUME DocsOK, UNCHANGED <<payment, group, cart, refund>>,
           order' \in [Orders -> OrderDoc]
    PROVE  DocsOK'
BY DEF DocsOK

LEMMA OneOrderWrite ==
    ASSUME DocsOK, UNCHANGED <<payment, group, cart, refund>>,
           NEW o \in Orders, NEW doc \in OrderDoc, order' = [order EXCEPT ![o] = doc]
    PROVE  DocsOK'
BY DEF DocsOK

LEMMA AwaitingTyped ==
    ASSUME DocsOK, NEW s \in OrderStatuses
    PROVE  AwaitingBecome(s) \in [Orders -> OrderDoc]
BY StatusTyped DEF AwaitingBecome, DocsOK

LEMMA PaymentWrite ==
    ASSUME DocsOK, UNCHANGED <<group, cart, order, refund>>, payment' \in PaymentDoc
    PROVE  DocsOK'
BY DEF DocsOK

LEMMA ReserveTyped ==
    ASSUME DocsOK, NEW n \in Nat, Reserve(n), UNCHANGED <<group, cart, order, refund>>
    PROVE  DocsOK'
<1>1. payment' \in PaymentDoc BY DEF DocsOK, PaymentDoc, Reserve
<1> QED BY <1>1, PaymentWrite

LEMMA ReleaseTyped ==
    ASSUME DocsOK, NEW n \in Nat, Release(n), UNCHANGED <<group, cart, order, refund>>
    PROVE  DocsOK'
<1>1. payment' \in PaymentDoc BY DEF DocsOK, PaymentDoc, Release
<1> QED BY <1>1, PaymentWrite

LEMMA RefundWrite ==
    ASSUME DocsOK, UNCHANGED <<payment, group, cart, order>>,
           NEW r \in Refunds, NEW row \in RefundDoc, refund' = [refund EXCEPT ![r] = row]
    PROVE  DocsOK'
BY DEF DocsOK

LEMMA RowStatusWrite ==
    ASSUME DocsOK, NEW p \in Proc, loc[p].rid \in Refunds, NEW s \in RefundStatuses,
           SetRow(p, s), UNCHANGED <<payment, group, cart, order>>
    PROVE  DocsOK'
<1>1. [refund[loc[p].rid] EXCEPT !.status = s] \in RefundDoc
  BY DEF DocsOK, RefundDoc
<1> QED BY <1>1, RefundWrite DEF SetRow

LEMMA RowTyped ==
    ASSUME DocsOK, NEW p \in Proc, loc[p].rid \in Refunds
    PROVE  /\ Row(p) \in RefundDoc
           /\ Row(p).amount \in Nat
           /\ Covered(Row(p).target) \in SUBSET Orders
BY DEF DocsOK, Row, RefundDoc, Covered

LEMMA StatusesTyped ==
    ASSUME DocsOK
    PROVE  Statuses(order) \in [Orders -> OrderStatuses]
BY DEF DocsOK, Statuses, OrderDoc

(* The status computed for a group is one a group can have                 *)
(* (computeOverallStatus).                                                 *)
LEMMA OverallTyped ==
    ASSUME NEW st \in [Orders -> OrderStatuses]
    PROVE  ComputeOverallStatus(st) \in GroupStatuses
<1>1. 1 \in Orders BY MoneyAssumption DEF Orders
<1> QED BY <1>1 DEF ComputeOverallStatus, GroupStatuses

-------------------------------------------------------------------------------
(* Type correctness, action by action.                                     *)

LEMMA SettlementTyped ==
    ASSUME TypeOK, NEW p \in Proc, SettlementStep(p)
    PROVE  TypeOK'
<1> USE LabelSets
<1>a. DocsOK /\ WorldOK /\ ControlOK /\ loc[p] \in Locals
  BY LocalsTyped DEF TypeOK
<1>b. /\ payment.status \in PaymentStatuses
      /\ payment.txn \in Txns \cup {NoTxn}
  BY <1>a DEF DocsOK, PaymentDoc
<1>c. loc[p].tx \in Txns \cup {NoTxn} /\ loc[p].todo \in SUBSET Orders
  BY <1>a DEF Locals
<1>1. ASSUME NEW t \in Txns, ReceiveCallback(p, t) PROVE TypeOK'
  <2> DEFINE held == [loc[p] EXCEPT !.seen = payment.status, !.seenTxn = payment.txn, !.tx = t]
  <2>1. held \in Locals BY <1>a, <1>b, HeldPayment
  <2>2. Goto(p, "apply") /\ Hold(p, held) BY <1>1 DEF ReceiveCallback
  <2> HIDE DEF held
  <2>3. ControlOK' BY <1>a, <2>1, <2>2, MoveTyped
  <2> QED BY <1>1, <2>3, ReadOnly DEF ReceiveCallback
<1>2. CASE ReadPending(p)
  <2> DEFINE held == [loc[p] EXCEPT !.seen = payment.status, !.seenTxn = payment.txn]
  <2>1. held \in Locals BY <1>a, <1>b, HeldPayment
  <2>2. Goto(p, "inquire") /\ Hold(p, held) BY <1>2 DEF ReadPending
  <2> HIDE DEF held
  <2>3. ControlOK' BY <1>a, <2>1, <2>2, MoveTyped
  <2> QED BY <1>2, <2>3, ReadOnly DEF ReadPending
<1>3. CASE InquireSettled(p)
  <2>1. PICK t \in Txns : Hold(p, [loc[p] EXCEPT !.tx = t]) BY <1>3 DEF InquireSettled
  <2> DEFINE held == [loc[p] EXCEPT !.tx = t]
  <2>2. held \in Locals BY <1>a, HeldTxn
  <2>3. Goto(p, "apply") /\ Hold(p, held) BY <1>3, <2>1 DEF InquireSettled
  <2> HIDE DEF held
  <2>4. ControlOK' BY <1>a, <2>2, <2>3, MoveTyped
  <2> QED BY <1>3, <2>4, ReadOnly DEF InquireSettled
<1>4. CASE InquireUnsettled(p)
  <2>1. \/ Goto(p, "expire") /\ UNCHANGED loc
        \/ Finish(p)
    BY <1>4 DEF InquireUnsettled
  <2>2. ControlOK' BY <1>a, <2>1, GotoTyped, FinishTyped
  <2> QED BY <1>4, <2>2, ReadOnly DEF InquireUnsettled
<1>5. CASE InquiryFails(p)
  <2>1. ControlOK' BY <1>5, <1>a, FinishTyped DEF InquiryFails
  <2> QED BY <1>5, <2>1, ReadOnly DEF InquiryFails
<1>6. CASE ExpireUnpaid(p)
  <2>1. payment' \in PaymentDoc
    BY <1>6, <1>a DEF ExpireUnpaid, DocsOK, PaymentDoc, PaymentStatuses
  <2>2. ControlOK' BY <1>6, <1>a, FinishTyped DEF ExpireUnpaid
  <2>3. DocsOK' BY <1>6, <1>a, <2>1, PaymentWrite DEF ExpireUnpaid
  <2> QED BY <1>6, <2>2, <2>3, Write DEF ExpireUnpaid
<1>7. CASE IgnoreOutcome(p)
  <2>1. ControlOK' BY <1>7, <1>a, FinishTyped DEF IgnoreOutcome
  <2> QED BY <1>7, <2>1, ReadOnly DEF IgnoreOutcome
<1>8. CASE DivertLateSuccess(p)
  <2>1. ControlOK' BY <1>8, <1>a, GotoTyped DEF DivertLateSuccess
  <2> QED BY <1>8, <2>1, ReadOnly DEF DivertLateSuccess
<1>9. CASE SettlePayment(p)
  <2>1. payment' \in PaymentDoc
    BY <1>9, <1>a, <1>c DEF SettlePayment, DocsOK, PaymentDoc, PaymentStatuses
  <2>2. ControlOK'
    <3>1. \/ Goto(p, "onPaid") /\ UNCHANGED loc
          \/ Goto(p, "onFailed") /\ UNCHANGED loc
      BY <1>9 DEF SettlePayment
    <3> QED BY <1>a, <3>1, GotoTyped
  <2>3. DocsOK' BY <1>9, <1>a, <2>1, PaymentWrite DEF SettlePayment
  <2> QED BY <1>9, <2>2, <2>3, Write DEF SettlePayment
<1>10. CASE OnPaidNotAwaiting(p)
  <2>1. ControlOK' BY <1>10, <1>a, FinishTyped DEF OnPaidNotAwaiting
  <2> QED BY <1>10, <2>1, ReadOnly DEF OnPaidNotAwaiting
<1>11. CASE PromoteOrders(p)
  <2>1. order' \in [Orders -> OrderDoc]
    BY <1>11, <1>a, AwaitingTyped DEF PromoteOrders, OrderStatuses
  <2>2. ControlOK' BY <1>11, <1>a, GotoTyped DEF PromoteOrders
  <2>3. DocsOK' BY <1>11, <1>a, <2>1, OrderWrite DEF PromoteOrders
  <2> QED BY <1>11, <2>2, <2>3, Write DEF PromoteOrders
<1>12. CASE PromoteGroup(p)
  <2>1. ControlOK' BY <1>12, <1>a, FinishTyped DEF PromoteGroup
  <2>2. DocsOK' BY <1>12, <1>a DEF PromoteGroup, DocsOK, GroupStatuses, OrderStatuses
  <2> QED BY <1>12, <2>1, <2>2, Write DEF PromoteGroup
<1>13. CASE ClaimFailure(p)
  <2>1. [loc[p] EXCEPT !.todo = Orders] \in Locals BY <1>a, HeldTodo
  <2>2. \/ Goto(p, "restock") /\ Hold(p, [loc[p] EXCEPT !.todo = Orders])
        \/ Finish(p)
    BY <1>13 DEF ClaimFailure
  <2>3. ControlOK' BY <1>a, <2>1, <2>2, MoveTyped, FinishTyped
  <2>4. DocsOK' BY <1>13, <1>a DEF ClaimFailure, DocsOK, GroupStatuses, OrderStatuses
  <2> QED BY <1>13, <2>3, <2>4, Write DEF ClaimFailure
<1>14. CASE RestockNext(p)
  <2>1. PICK o \in Orders : /\ order' = [order EXCEPT ![o] = RestoreStock(order[o])]
                            /\ Hold(p, [loc[p] EXCEPT !.todo = @ \ {o}])
    BY <1>14 DEF RestockNext
  <2>2. RestoreStock(order[o]) \in OrderDoc BY <1>a, RestoreTyped DEF DocsOK
  <2>3. DocsOK' BY <1>14, <1>a, <2>1, <2>2, OneOrderWrite DEF RestockNext
  <2>4. ControlOK' BY <1>14, <1>a, <2>1, HeldLess, HoldTyped DEF RestockNext
  <2> QED BY <1>14, <2>3, <2>4, Write DEF RestockNext
<1>15. CASE ParkOrders(p)
  <2>1. order' \in [Orders -> OrderDoc]
    BY <1>15, <1>a, AwaitingTyped DEF ParkOrders, OrderStatuses
  <2>2. ControlOK' BY <1>15, <1>a, FinishTyped DEF ParkOrders
  <2>3. DocsOK' BY <1>15, <1>a, <2>1, OrderWrite DEF ParkOrders
  <2> QED BY <1>15, <2>2, <2>3, Write DEF ParkOrders
<1>16. CASE RecordLateSuccess(p)
  <2>1. payment' \in PaymentDoc
    BY <1>16, <1>a, <1>c DEF RecordLateSuccess, DocsOK, PaymentDoc, PaymentStatuses
  <2>2. ControlOK' BY <1>16, <1>a, GotoTyped DEF RecordLateSuccess
  <2>3. DocsOK' BY <1>16, <1>a, <2>1, PaymentWrite DEF RecordLateSuccess
  <2> QED BY <1>16, <2>2, <2>3, Write DEF RecordLateSuccess
<1>17. CASE ReserveLate(p)
  <2>1. \/ Goto(p, "lateCreate") /\ UNCHANGED loc
        \/ Finish(p)
    BY <1>17 DEF ReserveLate
  <2>2. ControlOK' BY <1>a, <2>1, GotoTyped, FinishTyped
  <2>3. DocsOK'
    <3>1. CASE Reserve(AmountPaid)
      BY <1>17, <1>a, <3>1, ReserveTyped, MoneyAssumption DEF ReserveLate
    <3>2. CASE UNCHANGED payment
      BY <1>17, <1>a, <3>2 DEF ReserveLate, DocsOK
    <3> QED BY <1>17, <3>1, <3>2 DEF ReserveLate
  <2> QED BY <1>17, <2>2, <2>3, Write DEF ReserveLate
<1>18. CASE CreateLate(p)
  <2> DEFINE row == [status |-> "APPROVED", target |-> Whole, lines |-> NoLines,
                     amount |-> AmountPaid, delivered |-> TRUE, claim |-> NoChild]
  <2>1. PICK r \in Refunds : /\ CreateRow(p, r, row)
                             /\ Hold(p, [loc[p] EXCEPT !.rid = r, !.applies = FALSE])
    BY <1>18 DEF CreateLate
  <2> DEFINE held == [loc[p] EXCEPT !.rid = r, !.applies = FALSE]
  <2>2. held \in Locals /\ held.rid = r BY <1>a, HeldRow
  <2>3. Goto(p, "exec") /\ Hold(p, held) BY <1>18, <2>1 DEF CreateLate
  <2>4. row \in RefundDoc
    BY MoneyAssumption, NoLinesTyped DEF RefundDoc, RefundStatuses
  <2> HIDE DEF held, row
  <2>5. ControlOK'
    <3>1. "exec" \in Labels BY DEF Labels
    <3> QED BY <1>a, <2>2, <2>3, <3>1, MoveTyped
  <2>6. DocsOK' BY <1>18, <1>a, <2>1, <2>4, RefundWrite DEF CreateLate, CreateRow
  <2> QED BY <1>18, <2>5, <2>6, Write DEF CreateLate
<1> QED
  BY <1>1, <1>2, <1>3, <1>4, <1>5, <1>6, <1>7, <1>8, <1>9, <1>10, <1>11, <1>12, <1>13,
     <1>14, <1>15, <1>16, <1>17, <1>18 DEF SettlementStep

(* The price of a list of lines. *)
LEMMA LinesCost ==
    ASSUME NEW g \in Orders, NEW l \in LineLists
    PROVE  SumFunction([x \in Lines |-> l[x] * LineTotal[g][x]]) \in Nat
<1> DEFINE f == [x \in Lines |-> l[x] * LineTotal[g][x]]
<1>1. \A x \in Lines : f[x] \in Nat
  <2> SUFFICES ASSUME NEW x \in Lines PROVE l[x] * LineTotal[g][x] \in Nat OBVIOUS
  <2>1. l[x] \in Nat /\ LineTotal[g][x] \in Nat BY MoneyAssumption DEF LineLists
  <2> QED BY <2>1
<1>2. SumFunction(f) = SumFunctionOnSet(f, Lines) BY SumOfFunction
<1> HIDE DEF f
<1>3. SumFunctionOnSet(f, Lines) \in Nat BY <1>1, MoneyAssumption, SumNat
<1> QED BY <1>2, <1>3 DEF f

(* What a guarded requestRefund takes into its locals is well typed: its   *)
(* amount is positive and its lines belong to an order.                    *)
LEMMA RequestTyped ==
    ASSUME TypeOK, NEW p \in Proc, NEW g \in Orders \cup {Whole},
           NEW l \in LineLists, NEW b \in BOOLEAN, ReadRequest(p, g, l, b)
    PROVE  ControlOK'
<1> DEFINE held == [loc[p] EXCEPT
                      !.target = g, !.lines = l, !.amount = AmountOf(g, l),
                      !.auto = (Decision(g, l, b) = "auto"),
                      !.delivered = \E o \in Covered(g) : order[o].delivered # "no"]
<1>1. AmountOf(g, l) \in Nat
  <2>1. payment.refunded \in Int BY DEF TypeOK, DocsOK, PaymentDoc
  <2>2. l # NoLines => g \in Orders
    BY DEF ReadRequest, RequestAllowed
  <2>3. AmountOf(g, l) > 0 BY DEF ReadRequest, RequestAllowed
  <2>4. AmountOf(g, l) \in Int
    BY <2>1, <2>2, LinesCost, MoneyAssumption DEF AmountOf
  <2> QED BY <2>3, <2>4
<1>2. held \in Locals BY <1>1, LocalsTyped, HeldRequest DEF TypeOK
<1>3. /\ Hold(p, held)
      /\ Goto(p, "create") \/ Goto(p, "reserve")
  BY DEF ReadRequest
<1> HIDE DEF held
<1> QED BY <1>2, <1>3, MoveTyped, LabelSets DEF TypeOK

LEMMA RefundTyped ==
    ASSUME TypeOK, NEW p \in Proc, RefundStep(p)
    PROVE  TypeOK'
<1> USE LabelSets
<1>a. /\ DocsOK /\ WorldOK /\ ControlOK /\ loc[p] \in Locals
      /\ pc[p] \in RowLabels => loc[p].rid \in Refunds
  BY LocalsTyped DEF TypeOK
<1>b. \A s \in {"exec", "gateway", "void", "settle", "release", "flagManual",
               "consequences", "applyTargets", "settleReserve", "settleMark",
               "rejectRelease", "rejectMark", "approveMark", "refundInquiry"} :
         s \in RowLabels /\ s \in Labels /\ s # "writeStatus"
  BY DEF RowLabels, Labels
<1>c. \A s \in {"APPROVED", "PROCESSING", "SUCCEEDED", "MANUAL_REQUIRED", "REJECTED"} :
         s \in RefundStatuses
  BY DEF RefundStatuses
<1>1. CASE RequestRefund(p)
  <2>1. PICK g \in Orders \cup {Whole}, l \in LineLists : ReadRequest(p, g, l, TRUE)
    <3>1. PICK g \in Orders \cup {Whole}, l \in [Lines -> 0..MaxNamed] : ReadRequest(p, g, l, TRUE)
      BY <1>1 DEF RequestRefund
    <3>2. l \in LineLists BY MoneyAssumption DEF LineLists
    <3> QED BY <3>1, <3>2
  <2>2. ControlOK' BY <2>1, RequestTyped
  <2> QED BY <1>1, <2>2, ReadOnly DEF RequestRefund
<1>2. CASE RoutedRequest(p)
  <2>1. loc[p].target \in Orders \cup {Whole} /\ loc[p].staff \in BOOLEAN
    BY <1>a DEF Locals
  <2>2. ReadRequest(p, loc[p].target, NoLines, loc[p].staff) BY <1>2 DEF RoutedRequest
  <2>3. ControlOK' BY <2>1, <2>2, NoLinesTyped, RequestTyped
  <2> QED BY <1>2, <2>3, ReadOnly DEF RoutedRequest
<1>3. CASE RefuseRequest(p)
  <2>1. ControlOK' BY <1>3, <1>a, FinishTyped DEF RefuseRequest
  <2> QED BY <1>3, <2>1, ReadOnly DEF RefuseRequest
<1>4. CASE ReserveHeadroom(p)
  <2>1. \/ Goto(p, "create") /\ UNCHANGED loc
        \/ Finish(p)
    BY <1>4 DEF ReserveHeadroom
  <2>2. ControlOK' BY <1>a, <2>1, GotoTyped, FinishTyped
  <2>3. DocsOK'
    <3>1. CASE Reserve(loc[p].amount)
      <4>1. loc[p].amount \in Nat BY <1>a DEF Locals
      <4> QED BY <1>4, <1>a, <3>1, <4>1, ReserveTyped DEF ReserveHeadroom
    <3>2. CASE UNCHANGED payment
      BY <1>4, <1>a, <3>2 DEF ReserveHeadroom, DocsOK
    <3> QED BY <1>4, <3>1, <3>2 DEF ReserveHeadroom
  <2> QED BY <1>4, <2>2, <2>3, Write DEF ReserveHeadroom
<1>5. CASE CreateRefund(p)
  <2> DEFINE row == [status |-> IF loc[p].auto THEN "APPROVED" ELSE "REQUESTED",
                     target |-> loc[p].target, lines |-> loc[p].lines,
                     amount |-> loc[p].amount, delivered |-> loc[p].delivered,
                     claim |-> NoChild]
  <2>1. PICK r \in Refunds :
          /\ CreateRow(p, r, row)
          /\ \/ Goto(p, "exec") /\ Hold(p, [loc[p] EXCEPT !.rid = r, !.applies = TRUE])
             \/ Finish(p)
    BY <1>5 DEF CreateRefund
  <2> DEFINE held == [loc[p] EXCEPT !.rid = r, !.applies = TRUE]
  <2>2. held \in Locals /\ held.rid = r BY <1>a, HeldRow
  <2>3. \/ Goto(p, "exec") /\ Hold(p, held)
        \/ Finish(p)
    BY <2>1 DEF held
  <2>4. row \in RefundDoc
    BY <1>a DEF RefundDoc, RefundStatuses, Locals
  <2> HIDE DEF held, row
  <2>5. ControlOK'
    BY <1>a, <1>b, <2>2, <2>3, MoveTyped, FinishTyped
  <2>6. DocsOK' BY <1>5, <1>a, <2>1, <2>4, RefundWrite DEF CreateRefund, CreateRow
  <2> QED BY <1>5, <2>5, <2>6, Write DEF CreateRefund
<1>6. CASE ExecuteOffline(p)
  <2>1. \/ SetRow(p, "MANUAL_REQUIRED") /\ Finish(p)
        \/ SetRow(p, "SUCCEEDED") /\ Goto(p, "consequences") /\ UNCHANGED loc
    BY <1>6 DEF ExecuteOffline
  <2>2. loc[p].rid \in Refunds BY <1>6, <1>a, <1>b DEF ExecuteOffline
  <2>3. DocsOK' BY <1>6, <1>a, <1>c, <2>1, <2>2, RowStatusWrite DEF ExecuteOffline
  <2>4. ControlOK' BY <1>a, <1>b, <2>1, <2>2, GotoTyped, FinishTyped
  <2> QED BY <1>6, <2>3, <2>4, Write DEF ExecuteOffline
<1>7. CASE SendToGateway(p)
  <2>1. loc[p].rid \in Refunds BY <1>7, <1>a, <1>b DEF SendToGateway
  <2>2. DocsOK' BY <1>7, <1>a, <1>c, <2>1, RowStatusWrite DEF SendToGateway
  <2>3. ControlOK' BY <1>7, <1>a, <1>b, <2>1, GotoTyped DEF SendToGateway
  <2> QED BY <1>7, <2>2, <2>3, Write DEF SendToGateway
<1>8. CASE GatewayAccepts(p)
  <2>1. loc[p].rid \in Refunds BY <1>8, <1>a, <1>b DEF GatewayAccepts
  <2>2. PICK k \in 1..MaxMoves : /\ Book(p, k)
                                 /\ Hold(p, [loc[p] EXCEPT !.claim = <<loc[p].rid, k>>])
    BY <1>8 DEF GatewayAccepts
  <2>3. <<loc[p].rid, k>> \in Children BY <2>1 DEF Children
  <2> DEFINE held == [loc[p] EXCEPT !.claim = <<loc[p].rid, k>>]
  <2>4. held \in Locals /\ held.rid = loc[p].rid BY <1>a, <2>3, HeldClaim
  <2>5. Goto(p, "settle") /\ Hold(p, held) BY <1>8, <2>2 DEF GatewayAccepts
  <2> HIDE DEF held
  <2>6. ControlOK' BY <1>a, <1>b, <2>1, <2>4, <2>5, MoveTyped
  <2>7. WorldOK' BY <1>8, <1>a, <2>2, <2>3 DEF GatewayAccepts, WorldOK, Book
  <2> QED BY <1>8, <1>a, <2>6, <2>7 DEF GatewayAccepts, TypeOK, DocsOK, docs
<1>9. CASE GatewayTimesOut(p)
  <2>1. loc[p].rid \in Refunds BY <1>9, <1>a, <1>b DEF GatewayTimesOut
  <2>2. moved' \subseteq Children
    <3>1. CASE UNCHANGED moved BY <1>a, <3>1 DEF WorldOK
    <3>2. ASSUME NEW k \in 1..MaxMoves, Book(p, k) PROVE moved' \subseteq Children
      <4>1. <<loc[p].rid, k>> \in Children BY <2>1 DEF Children
      <4> QED BY <1>a, <3>2, <4>1 DEF Book, WorldOK
    <3> QED BY <1>9, <3>1, <3>2 DEF GatewayTimesOut
  <2>3. ControlOK' BY <1>9, <1>a, FinishTyped DEF GatewayTimesOut
  <2>4. WorldOK' BY <1>9, <1>a, <2>2 DEF GatewayTimesOut, WorldOK
  <2> QED BY <1>9, <1>a, <2>3, <2>4 DEF GatewayTimesOut, TypeOK, DocsOK, docs
<1>10. CASE GatewayRejects(p)
  <2>1. loc[p].rid \in Refunds BY <1>10, <1>a, <1>b DEF GatewayRejects
  <2>2. /\ Goto(p, "void") \/ Goto(p, "release")
        /\ UNCHANGED loc
    BY <1>10 DEF GatewayRejects
  <2>3. ControlOK' BY <1>a, <1>b, <2>1, <2>2, GotoTyped
  <2>4. denied' \subseteq Children
    <3>1. \A k \in 1..MaxMoves : <<loc[p].rid, k>> \in Children BY <2>1 DEF Children
    <3> QED BY <1>10, <1>a, <3>1 DEF GatewayRejects, WorldOK
  <2>5. WorldOK' BY <1>10, <1>a, <2>4 DEF GatewayRejects, WorldOK
  <2> QED BY <1>10, <1>a, <2>3, <2>5 DEF GatewayRejects, TypeOK, DocsOK, docs
<1>11. CASE SettleSucceeded(p)
  <2>1. loc[p].rid \in Refunds BY <1>11, <1>a, <1>b DEF SettleSucceeded
  <2> DEFINE row == [refund[loc[p].rid] EXCEPT !.status = "SUCCEEDED", !.claim = loc[p].claim]
  <2>2. row \in RefundDoc
    <3>1. refund[loc[p].rid] \in RefundDoc BY <1>a, <2>1 DEF DocsOK
    <3>2. loc[p].claim \in Children \cup {NoChild} BY <1>a DEF Locals
    <3> QED BY <3>1, <3>2, <1>c DEF RefundDoc
  <2>3. refund' = [refund EXCEPT ![loc[p].rid] = row]
    BY <1>11, <1>a, <2>1 DEF SettleSucceeded, DocsOK
  <2> HIDE DEF row
  <2>4. DocsOK' BY <1>11, <1>a, <2>1, <2>2, <2>3, RefundWrite DEF SettleSucceeded
  <2>5. \/ Goto(p, "consequences") /\ UNCHANGED loc
        \/ Finish(p)
    BY <1>11 DEF SettleSucceeded
  <2>6. ControlOK' BY <1>a, <1>b, <2>1, <2>5, GotoTyped, FinishTyped
  <2> QED BY <1>11, <2>4, <2>6, Write DEF SettleSucceeded
<1>12. CASE ReleaseHeadroom(p)
  <2>1. loc[p].rid \in Refunds BY <1>12, <1>a, <1>b DEF ReleaseHeadroom
  <2>2. Row(p).amount \in Nat BY <1>a, <2>1, RowTyped
  <2>3. DocsOK' BY <1>12, <1>a, <2>2, ReleaseTyped DEF ReleaseHeadroom
  <2>4. ControlOK' BY <1>12, <1>a, <1>b, <2>1, GotoTyped DEF ReleaseHeadroom
  <2> QED BY <1>12, <2>3, <2>4, Write DEF ReleaseHeadroom
<1>13. CASE FlagManual(p)
  <2>1. loc[p].rid \in Refunds BY <1>13, <1>a, <1>b DEF FlagManual
  <2>2. DocsOK' BY <1>13, <1>a, <1>c, <2>1, RowStatusWrite DEF FlagManual
  <2>3. ControlOK' BY <1>13, <1>a, FinishTyped DEF FlagManual
  <2> QED BY <1>13, <2>2, <2>3, Write DEF FlagManual
<1>14. CASE ReadTargets(p)
  <2>1. loc[p].rid \in Refunds BY <1>14, <1>a, <1>b DEF ReadTargets
  <2>2. Statuses(order) \in [Orders -> OrderStatuses] BY <1>a, StatusesTyped
  <2>3. Covered(Row(p).target) \in SUBSET Orders BY <1>a, <2>1, RowTyped
  <2> DEFINE held == [loc[p] EXCEPT !.view = Statuses(order), !.todo = Covered(Row(p).target)]
  <2>4. held \in Locals /\ held.rid = loc[p].rid BY <1>a, <2>2, <2>3, HeldView
  <2>5. Goto(p, "applyTargets") /\ Hold(p, held) BY <1>14 DEF ReadTargets
  <2> HIDE DEF held
  <2>6. ControlOK' BY <1>a, <1>b, <2>1, <2>4, <2>5, MoveTyped
  <2> QED BY <1>14, <2>6, ReadOnly DEF ReadTargets
<1>15. CASE ApplyConsequence(p)
  <2>1. PICK o \in Orders :
          /\ order' = [order EXCEPT ![o] =
                          ApplyTarget(order[o], loc[p].view[o], Row(p).lines # NoLines)]
          /\ Hold(p, [loc[p] EXCEPT !.todo = @ \ {o}])
    BY <1>15 DEF ApplyConsequence
  <2>2. ApplyTarget(order[o], loc[p].view[o], Row(p).lines # NoLines) \in OrderDoc
    <3>1. order[o] \in OrderDoc BY <1>a DEF DocsOK
    <3>2. \A was, isLine : StatusAfterRefund(was, isLine) \in OrderStatuses
      BY DEF StatusAfterRefund, OrderStatuses
    <3> QED BY <3>1, <3>2, StatusTyped, RestoreTyped DEF ApplyTarget
  <2>3. DocsOK' BY <1>15, <1>a, <2>1, <2>2, OneOrderWrite DEF ApplyConsequence
  <2>4. ControlOK' BY <1>15, <1>a, <2>1, HeldLess, HoldTyped DEF ApplyConsequence
  <2> QED BY <1>15, <2>3, <2>4, Write DEF ApplyConsequence
<1>16. CASE ReadSiblings(p)
  <2> DEFINE held == [loc[p] EXCEPT !.next = ComputeOverallStatus(Statuses(order))]
  <2>1. held \in Locals BY <1>a, StatusesTyped, OverallTyped, HeldNext
  <2>2. Goto(p, "recompute") /\ Hold(p, held) BY <1>16 DEF ReadSiblings
  <2> HIDE DEF held
  <2>3. ControlOK' BY <1>a, <2>1, <2>2, MoveTyped
  <2> QED BY <1>16, <2>3, ReadOnly DEF ReadSiblings
<1>17. CASE RecomputeGroup(p)
  <2>1. ControlOK' BY <1>17, <1>a, FinishTyped DEF RecomputeGroup
  <2>2. DocsOK' BY <1>17, <1>a DEF RecomputeGroup, DocsOK, Locals
  <2> QED BY <1>17, <2>1, <2>2, Write DEF RecomputeGroup
<1>18. CASE ReadReview(p)
  <2>1. PICK r \in Refunds :
          /\ Hold(p, [loc[p] EXCEPT !.rid = r])
          /\ \E s \in {"settleMark", "settleReserve", "rejectMark", "rejectRelease",
                      "approveMark"} : Goto(p, s)
    BY <1>18 DEF ReadReview
  <2> DEFINE held == [loc[p] EXCEPT !.rid = r]
  <2>2. held \in Locals /\ held.rid = r BY <1>a, HeldRow
  <2>3. Hold(p, held) BY <2>1
  <2> HIDE DEF held
  <2>4. ControlOK' BY <1>a, <1>b, <2>1, <2>2, <2>3, MoveTyped
  <2> QED BY <1>18, <2>4, ReadOnly DEF ReadReview
<1>19. CASE SettleReserve(p)
  <2>1. loc[p].rid \in Refunds BY <1>19, <1>a, <1>b DEF SettleReserve
  <2>2. \/ Goto(p, "settleMark") /\ UNCHANGED loc
        \/ Finish(p)
    BY <1>19 DEF SettleReserve
  <2>3. ControlOK' BY <1>a, <1>b, <2>1, <2>2, GotoTyped, FinishTyped
  <2>4. DocsOK'
    <3>1. CASE Reserve(Row(p).amount)
      BY <1>19, <1>a, <2>1, <3>1, RowTyped, ReserveTyped DEF SettleReserve
    <3>2. CASE UNCHANGED payment
      BY <1>19, <1>a, <3>2 DEF SettleReserve, DocsOK
    <3> QED BY <1>19, <3>1, <3>2 DEF SettleReserve
  <2> QED BY <1>19, <2>3, <2>4, Write DEF SettleReserve
<1>20. CASE SettleMark(p)
  <2>1. loc[p].rid \in Refunds BY <1>20, <1>a, <1>b DEF SettleMark
  <2>2. DocsOK' BY <1>20, <1>a, <1>c, <2>1, RowStatusWrite DEF SettleMark
  <2>3. ControlOK' BY <1>20, <1>a, <1>b, <2>1, GotoTyped DEF SettleMark
  <2> QED BY <1>20, <2>2, <2>3, Write DEF SettleMark
<1>21. CASE RejectRelease(p)
  <2>1. loc[p].rid \in Refunds BY <1>21, <1>a, <1>b DEF RejectRelease
  <2>2. Row(p).amount \in Nat BY <1>a, <2>1, RowTyped
  <2>3. DocsOK' BY <1>21, <1>a, <2>2, ReleaseTyped DEF RejectRelease
  <2>4. ControlOK' BY <1>21, <1>a, <1>b, <2>1, GotoTyped DEF RejectRelease
  <2> QED BY <1>21, <2>3, <2>4, Write DEF RejectRelease
<1>22. CASE RejectMark(p)
  <2>1. loc[p].rid \in Refunds BY <1>22, <1>a, <1>b DEF RejectMark
  <2>2. DocsOK' BY <1>22, <1>a, <1>c, <2>1, RowStatusWrite DEF RejectMark
  <2>3. ControlOK' BY <1>22, <1>a, FinishTyped DEF RejectMark
  <2> QED BY <1>22, <2>2, <2>3, Write DEF RejectMark
<1>23. CASE ApproveMark(p)
  <2>1. loc[p].rid \in Refunds BY <1>23, <1>a, <1>b DEF ApproveMark
  <2>2. DocsOK' BY <1>23, <1>a, <1>c, <2>1, RowStatusWrite DEF ApproveMark
  <2> DEFINE held == [loc[p] EXCEPT !.applies = TRUE]
  <2>3. held \in Locals /\ held.rid = loc[p].rid BY <1>a, HeldApplies
  <2>4. Goto(p, "exec") /\ Hold(p, held) BY <1>23 DEF ApproveMark
  <2> HIDE DEF held
  <2>5. ControlOK' BY <1>a, <1>b, <2>1, <2>3, <2>4, MoveTyped
  <2> QED BY <1>23, <2>2, <2>5, Write DEF ApproveMark
<1>24. CASE PickStuck(p)
  <2>1. PICK r \in Refunds : Hold(p, [loc[p] EXCEPT !.rid = r]) BY <1>24 DEF PickStuck
  <2> DEFINE held == [loc[p] EXCEPT !.rid = r]
  <2>2. held \in Locals /\ held.rid = r BY <1>a, HeldRow
  <2>3. Goto(p, "refundInquiry") /\ Hold(p, held) BY <1>24, <2>1 DEF PickStuck
  <2> HIDE DEF held
  <2>4. ControlOK' BY <1>a, <1>b, <2>2, <2>3, MoveTyped
  <2> QED BY <1>24, <2>4, ReadOnly DEF PickStuck
<1>25. CASE MatchChild(p)
  <2>1. loc[p].rid \in Refunds BY <1>25, <1>a, <1>b DEF MatchChild
  <2>2. PICK c \in Unclaimed(p) : Hold(p, [loc[p] EXCEPT !.claim = c, !.applies = FALSE])
    BY <1>25 DEF MatchChild
  <2>3. c \in Children BY <1>a, <2>2 DEF Unclaimed, Ledger, WorldOK
  <2> DEFINE held == [loc[p] EXCEPT !.claim = c, !.applies = FALSE]
  <2>4. held \in Locals /\ held.rid = loc[p].rid BY <1>a, <2>3, HeldClaim
  <2>5. Goto(p, "settle") /\ Hold(p, held) BY <1>25, <2>2 DEF MatchChild
  <2> HIDE DEF held
  <2>6. ControlOK' BY <1>a, <1>b, <2>1, <2>4, <2>5, MoveTyped
  <2> QED BY <1>25, <2>6, ReadOnly DEF MatchChild
<1>26. CASE NoChildFound(p)
  <2>1. loc[p].rid \in Refunds BY <1>26, <1>a, <1>b DEF NoChildFound
  <2>2. ControlOK' BY <1>26, <1>a, <1>b, <2>1, GotoTyped DEF NoChildFound
  <2> QED BY <1>26, <2>2, ReadOnly DEF NoChildFound
<1>27. CASE RefundInquiryFails(p)
  <2>1. ControlOK' BY <1>27, <1>a, FinishTyped DEF RefundInquiryFails
  <2> QED BY <1>27, <2>1, ReadOnly DEF RefundInquiryFails
<1> QED
  BY <1>1, <1>2, <1>3, <1>4, <1>5, <1>6, <1>7, <1>8, <1>9, <1>10, <1>11, <1>12, <1>13,
     <1>14, <1>15, <1>16, <1>17, <1>18, <1>19, <1>20, <1>21, <1>22, <1>23, <1>24, <1>25,
     <1>26, <1>27 DEF RefundStep

LEMMA LifecycleTyped ==
    ASSUME TypeOK, NEW p \in Proc, LifecycleStep(p)
    PROVE  TypeOK'
<1> USE LabelSets
<1>a. DocsOK /\ WorldOK /\ ControlOK /\ loc[p] \in Locals
  BY LocalsTyped DEF TypeOK
<1>b. Statuses(order) \in [Orders -> OrderStatuses] BY <1>a, StatusesTyped
<1>c. "CANCELLED" \in OrderStatuses /\ "CANCELLED" \in GroupStatuses
  BY DEF OrderStatuses, GroupStatuses
<1>1. CASE ReadCancel(p)
  <2> DEFINE held == [loc[p] EXCEPT !.view = Statuses(order)]
  <2>1. held \in Locals
    <3>1. {} \in SUBSET Orders OBVIOUS
    <3> QED BY <1>a, <1>b, <3>1, HeldView
  <2>2. \/ Goto(p, "closeWindow") /\ Hold(p, held)
        \/ Goto(p, "request") /\ UNCHANGED loc
    BY <1>1 DEF ReadCancel
  <2> HIDE DEF held
  <2>3. ControlOK' BY <1>a, <2>1, <2>2, MoveTyped, GotoTyped
  <2> QED BY <1>1, <2>3, ReadOnly DEF ReadCancel
<1>2. CASE ExpirePending(p)
  <2> DEFINE held == [loc[p] EXCEPT !.todo = {o \in Orders : loc[p].view[o] # "CANCELLED"}]
  <2>1. held \in Locals
    <3>1. {o \in Orders : loc[p].view[o] # "CANCELLED"} \in SUBSET Orders OBVIOUS
    <3> QED BY <1>a, <3>1, HeldTodo
  <2>2. Goto(p, "cancelOrders") /\ Hold(p, held) BY <1>2 DEF ExpirePending
  <2> HIDE DEF held
  <2>3. ControlOK' BY <1>a, <2>1, <2>2, MoveTyped
  <2>4. payment' \in PaymentDoc
    BY <1>2, <1>a DEF ExpirePending, DocsOK, PaymentDoc, PaymentStatuses
  <2>5. DocsOK' BY <1>2, <1>a, <2>4, PaymentWrite DEF ExpirePending
  <2> QED BY <1>2, <2>3, <2>5, Write DEF ExpirePending
<1>3. CASE CancelNext(p)
  <2>1. PICK o \in Orders :
          /\ order' = [order EXCEPT ![o] = RestoreStock([order[o] EXCEPT !.status = "CANCELLED"])]
          /\ Hold(p, [loc[p] EXCEPT !.todo = @ \ {o}])
    BY <1>3 DEF CancelNext
  <2>2. RestoreStock([order[o] EXCEPT !.status = "CANCELLED"]) \in OrderDoc
    BY <1>a, <1>c, StatusTyped, RestoreTyped DEF DocsOK
  <2>3. DocsOK' BY <1>3, <1>a, <2>1, <2>2, OneOrderWrite DEF CancelNext
  <2>4. ControlOK' BY <1>3, <1>a, <2>1, HeldLess, HoldTyped DEF CancelNext
  <2> QED BY <1>3, <2>3, <2>4, Write DEF CancelNext
<1>4. CASE CancelGroup(p)
  <2>1. ControlOK' BY <1>4, <1>a, FinishTyped DEF CancelGroup
  <2>2. DocsOK' BY <1>4, <1>a, <1>c DEF CancelGroup, DocsOK
  <2> QED BY <1>4, <2>1, <2>2, Write DEF CancelGroup
<1>5. ASSUME NEW o \in Orders, NEW s \in StaffTargets, NEW d \in BOOLEAN,
             ReadUpdate(p, o, s, d)
      PROVE  TypeOK'
  <2>1. s \in OrderStatuses BY StaffAssumption
  <2> DEFINE held == [loc[p] EXCEPT !.target = o, !.next = s, !.staff = TRUE, !.direct = d]
  <2>2. held \in Locals BY <1>a, <2>1, HeldUpdate
  <2>5. held.next = s
    <3>1. "next" \in DOMAIN loc[p] BY <1>a DEF Locals
    <3> QED BY <3>1
  <2>3. /\ Hold(p, held)
        /\ Goto(p, "writeStatus") \/ Goto(p, "cancelOne") \/ Goto(p, "request")
    BY <1>5 DEF ReadUpdate
  <2> HIDE DEF held
  <2>4. ControlOK' BY <1>a, <2>1, <2>2, <2>3, <2>5, MoveTyped
  <2> QED BY <1>5, <2>4, ReadOnly DEF ReadUpdate
<1>6. CASE CancelOne(p)
  <2> DEFINE o == loc[p].target
             doc == IF loc[p].direct THEN [order[o] EXCEPT !.status = "CANCELLED"]
                    ELSE order[o]
  <2>1. order' = [order EXCEPT ![o] = RestoreStock(doc)] BY <1>6 DEF CancelOne
  <2>2. order' \in [Orders -> OrderDoc]
    <3>1. CASE o \in Orders
      <4>1. doc \in OrderDoc BY <1>a, <1>c, <3>1, StatusTyped DEF DocsOK
      <4>2. RestoreStock(doc) \in OrderDoc BY <4>1, RestoreTyped
      <4> HIDE DEF doc
      <4> QED BY <1>a, <2>1, <3>1, <4>2 DEF DocsOK
    <3>2. CASE o \notin Orders
      <4> HIDE DEF doc
      <4> QED BY <1>a, <2>1, <3>2 DEF DocsOK
    <3> QED BY <3>1, <3>2
  <2>3. DocsOK' BY <1>6, <1>a, <2>2, OrderWrite DEF CancelOne
  <2>4. ControlOK' BY <1>6, <1>a, GotoTyped DEF CancelOne
  <2> QED BY <1>6, <2>3, <2>4, Write DEF CancelOne
<1>7. CASE WriteStatus(p)
  <2> DEFINE o == loc[p].target
             s == loc[p].next
             doc == IF loc[p].direct
                    THEN [order[o] EXCEPT
                            !.status = s,
                            !.delivered = IF s = "DELIVERED" THEN "recent" ELSE @]
                    ELSE order[o]
  <2>1. order' = [order EXCEPT ![o] = doc] BY <1>7 DEF WriteStatus
  <2>2. s \in OrderStatuses BY <1>7, <1>a DEF WriteStatus, ControlOK
  <2>3. order' \in [Orders -> OrderDoc]
    <3>1. CASE o \in Orders
      <4>1. order[o] \in OrderDoc BY <1>a, <3>1 DEF DocsOK
      <4>2. doc \in OrderDoc BY <2>2, <4>1 DEF OrderDoc
      <4> HIDE DEF doc
      <4> QED BY <1>a, <2>1, <3>1, <4>2 DEF DocsOK
    <3>2. CASE o \notin Orders
      <4> HIDE DEF doc
      <4> QED BY <1>a, <2>1, <3>2 DEF DocsOK
    <3> QED BY <3>1, <3>2
  <2>4. DocsOK' BY <1>7, <1>a, <2>3, OrderWrite DEF WriteStatus
  <2>5. /\ Goto(p, "sync") \/ Goto(p, "siblings")
        /\ UNCHANGED loc
    BY <1>7 DEF WriteStatus
  <2>6. ControlOK' BY <1>a, <2>5, GotoTyped
  <2> QED BY <1>7, <2>4, <2>6, Write DEF WriteStatus
<1>8. CASE CheckConsumed(p)
  <2>1. /\ Goto(p, "deduct") \/ Goto(p, "siblings")
        /\ UNCHANGED loc
    BY <1>8 DEF CheckConsumed
  <2>2. ControlOK' BY <1>a, <2>1, GotoTyped
  <2> QED BY <1>8, <2>2, ReadOnly DEF CheckConsumed
<1>9. CASE SyncFails(p)
  <2>1. ControlOK' BY <1>9, <1>a, GotoTyped DEF SyncFails
  <2> QED BY <1>9, <2>1, ReadOnly DEF SyncFails
<1>10. CASE DeductInventory(p)
  <2>1. order' \in [Orders -> OrderDoc]
    <3> DEFINE o == loc[p].target
               doc == [order[o] EXCEPT !.consumed = @ + 1]
    <3>1. order' = [order EXCEPT ![o] = doc] BY <1>10, <1>a DEF DeductInventory, DocsOK
    <3>2. CASE o \in Orders
      <4>1. order[o] \in OrderDoc BY <1>a, <3>2 DEF DocsOK
      <4>2. order[o].consumed + 1 \in Nat BY <4>1 DEF OrderDoc
      <4>3. \A n \in Nat : [order[o] EXCEPT !.consumed = n] \in OrderDoc BY <4>1 DEF OrderDoc
      <4>4. doc \in OrderDoc BY <4>2, <4>3
      <4> HIDE DEF doc
      <4> QED BY <1>a, <3>1, <3>2, <4>4 DEF DocsOK
    <3>3. CASE o \notin Orders
      <4> HIDE DEF doc
      <4> QED BY <1>a, <3>1, <3>3 DEF DocsOK
    <3> QED BY <3>2, <3>3
  <2>2. DocsOK' BY <1>10, <1>a, <2>1, OrderWrite DEF DeductInventory
  <2>3. ControlOK' BY <1>10, <1>a, GotoTyped DEF DeductInventory
  <2> QED BY <1>10, <2>2, <2>3, Write DEF DeductInventory
<1> QED
  BY <1>1, <1>2, <1>3, <1>4, <1>5, <1>6, <1>7, <1>8, <1>9, <1>10 DEF LifecycleStep

LEMMA EnvironmentTyped ==
    ASSUME TypeOK, Environment
    PROVE  TypeOK'
<1>1. ASSUME NEW t \in Txns, StartAttempt(t) \/ ResolveAttempt(t) PROVE TypeOK'
  BY <1>1 DEF StartAttempt, ResolveAttempt, TypeOK, DocsOK, WorldOK, ControlOK, docs
<1>2. CASE WindowPasses \/ DayPasses
  BY <1>2 DEF WindowPasses, DayPasses, TypeOK, DocsOK, WorldOK, ControlOK, docs
<1>3. ASSUME NEW r \in Refunds, RefundAges(r) PROVE TypeOK'
  BY <1>3 DEF RefundAges, TypeOK, DocsOK, WorldOK, ControlOK, docs
<1>4. ASSUME NEW o \in Orders, DisputeWindowCloses(o) PROVE TypeOK'
  <2> DEFINE doc == [order[o] EXCEPT !.delivered = "old"]
  <2>1. doc \in OrderDoc BY DEF TypeOK, DocsOK, OrderDoc
  <2>2. order' = [order EXCEPT ![o] = doc] BY <1>4 DEF DisputeWindowCloses
  <2> HIDE DEF doc
  <2>3. DocsOK' BY <1>4, <2>1, <2>2, OneOrderWrite DEF DisputeWindowCloses, TypeOK
  <2> QED BY <1>4, <2>3 DEF DisputeWindowCloses, TypeOK, WorldOK, ControlOK, world
<1> QED BY <1>1, <1>2, <1>3, <1>4 DEF Environment
-------------------------------------------------------------------------------

LEMMA InitTyped == Init => TypeOK
<1> SUFFICES ASSUME Init PROVE TypeOK OBVIOUS
<1>1. InitialStatus \in OrderStatuses /\ InitialStatus \in GroupStatuses
  BY DEF InitialStatus, OrderStatuses, GroupStatuses
<1>2. DocsOK
  <2>1. NoRow \in RefundDoc BY NoLinesTyped DEF NoRow, RefundDoc
  <2>2. refund \in [Refunds -> RefundDoc] BY <2>1 DEF Init
  <2>3. order \in [Orders -> OrderDoc] BY <1>1 DEF Init, OrderDoc
  <2>4. payment \in PaymentDoc
    BY MoneyAssumption DEF Init, PaymentDoc, PaymentStatuses
  <2>5. group \in GroupStatuses /\ cart \in {"full", "empty"} BY <1>1 DEF Init
  <2> QED BY <2>2, <2>3, <2>4, <2>5 DEF DocsOK
<1>3. WorldOK BY DEF Init, WorldOK
<1>4. ControlOK
  BY NoLocalsTyped, LabelSets DEF Init, ControlOK
<1> QED BY <1>2, <1>3, <1>4 DEF TypeOK

LEMMA NextTyped == TypeOK /\ [Next]_vars => TypeOK'
<1> SUFFICES ASSUME TypeOK, [Next]_vars PROVE TypeOK' OBVIOUS
<1>1. ASSUME NEW p \in Proc, Step(p) PROVE TypeOK'
  BY <1>1, SettlementTyped, RefundTyped, LifecycleTyped DEF Step
<1>2. CASE Environment BY <1>2, EnvironmentTyped
<1>3. CASE UNCHANGED vars
  BY <1>3 DEF vars, TypeOK, DocsOK, WorldOK, ControlOK
<1> QED BY <1>1, <1>2, <1>3 DEF Next

(* Every document, every gateway record and every handler's locals keep    *)
(* their types in every reachable state, and a handler between the steps   *)
(* of RowLabels holds a refund row that exists.                            *)
THEOREM TypeCorrect == Spec => []TypeOK
BY InitTyped, NextTyped, PTL DEF Spec

-------------------------------------------------------------------------------
(* The refund counter never leaves 0..amountCents, whoever reserves and    *)
(* releases concurrently.                                                  *)
HeadroomBounded == payment.refunded \in 0..AmountPaid

(* Given types, HeadroomBounded is inductive: the two                      *)
(* conditional updates are the only writes, and each carries its bound.    *)

LEMMA ReserveBounded ==
    ASSUME HeadroomBounded, NEW n \in Nat, CanReserve(n), Reserve(n), payment \in PaymentDoc
    PROVE  HeadroomBounded'
<1>1. payment'.refunded = payment.refunded + n BY DEF Reserve, PaymentDoc
<1> QED BY <1>1, MoneyAssumption DEF HeadroomBounded, CanReserve

LEMMA ReleaseBounded ==
    ASSUME HeadroomBounded, NEW n \in Nat, Release(n), payment \in PaymentDoc
    PROVE  HeadroomBounded'
<1>1. CASE payment.refunded >= n
  <2>1. payment'.refunded = payment.refunded - n BY <1>1 DEF Release, PaymentDoc
  <2> QED BY <1>1, <2>1, MoneyAssumption DEF HeadroomBounded
<1>2. CASE ~(payment.refunded >= n) BY <1>2 DEF Release, HeadroomBounded
<1> QED BY <1>1, <1>2

LEMMA CounterUntouched ==
    ASSUME HeadroomBounded, payment'.refunded = payment.refunded
    PROVE  HeadroomBounded'
BY DEF HeadroomBounded

LEMMA SettlementBounded ==
    ASSUME TypeOK, HeadroomBounded, NEW p \in Proc, SettlementStep(p)
    PROVE  HeadroomBounded'
<1>a. payment \in PaymentDoc BY DEF TypeOK, DocsOK
<1>1. CASE ExpireUnpaid(p)
  BY <1>1, <1>a, CounterUntouched DEF ExpireUnpaid, PaymentDoc
<1>2. CASE SettlePayment(p)
  BY <1>2, <1>a, CounterUntouched DEF SettlePayment, PaymentDoc
<1>3. CASE RecordLateSuccess(p)
  BY <1>3, <1>a, CounterUntouched DEF RecordLateSuccess, PaymentDoc
<1>4. CASE ReserveLate(p)
  <2>1. CASE CanReserve(AmountPaid) /\ Reserve(AmountPaid)
    BY <1>a, <2>1, ReserveBounded, MoneyAssumption
  <2>2. CASE UNCHANGED payment BY <2>2, CounterUntouched
  <2> QED BY <1>4, <2>1, <2>2 DEF ReserveLate
<1>5. CASE UNCHANGED payment BY <1>5, CounterUntouched
<1> QED
  BY <1>1, <1>2, <1>3, <1>4, <1>5
  DEF SettlementStep, ReceiveCallback, ReadPending, InquireSettled, InquireUnsettled,
      InquiryFails, IgnoreOutcome, DivertLateSuccess, OnPaidNotAwaiting, PromoteOrders,
      PromoteGroup, ClaimFailure, RestockNext, ParkOrders, CreateLate, docs

LEMMA RefundBounded ==
    ASSUME TypeOK, HeadroomBounded, NEW p \in Proc, RefundStep(p)
    PROVE  HeadroomBounded'
<1>a. /\ payment \in PaymentDoc /\ loc[p].amount \in Nat
      /\ pc[p] \in RowLabels => Row(p).amount \in Nat
  BY LocalsTyped, RowTyped DEF TypeOK, DocsOK, Locals
<1>1. CASE ReserveHeadroom(p)
  <2>1. CASE CanReserve(loc[p].amount) /\ Reserve(loc[p].amount)
    BY <1>a, <2>1, ReserveBounded
  <2>2. CASE UNCHANGED payment BY <2>2, CounterUntouched
  <2> QED BY <1>1, <2>1, <2>2 DEF ReserveHeadroom
<1>2. CASE SettleReserve(p)
  <2>1. CASE CanReserve(Row(p).amount) /\ Reserve(Row(p).amount)
    BY <1>2, <1>a, <2>1, ReserveBounded DEF SettleReserve, RowLabels
  <2>2. CASE UNCHANGED payment BY <2>2, CounterUntouched
  <2> QED BY <1>2, <2>1, <2>2 DEF SettleReserve
<1>3. CASE ReleaseHeadroom(p)
  BY <1>3, <1>a, ReleaseBounded DEF ReleaseHeadroom, RowLabels
<1>4. CASE RejectRelease(p)
  BY <1>4, <1>a, ReleaseBounded DEF RejectRelease, RowLabels
<1>5. CASE UNCHANGED payment BY <1>5, CounterUntouched
<1> QED
  BY <1>1, <1>2, <1>3, <1>4, <1>5
  DEF RefundStep, RequestRefund, RoutedRequest, RefuseRequest, CreateRefund,
      ExecuteOffline, SendToGateway, GatewayAccepts, GatewayTimesOut, GatewayRejects,
      SettleSucceeded, FlagManual, ReadTargets, ApplyConsequence, ReadSiblings,
      RecomputeGroup, ReadReview, SettleMark, RejectMark, ApproveMark, PickStuck,
      MatchChild, NoChildFound, RefundInquiryFails, docs

LEMMA LifecycleBounded ==
    ASSUME TypeOK, HeadroomBounded, NEW p \in Proc, LifecycleStep(p)
    PROVE  HeadroomBounded'
<1>1. CASE ExpirePending(p)
  BY <1>1, CounterUntouched DEF ExpirePending, TypeOK, DocsOK, PaymentDoc
<1>2. CASE UNCHANGED payment BY <1>2, CounterUntouched
<1> QED
  BY <1>1, <1>2
  DEF LifecycleStep, ReadCancel, CancelNext, CancelGroup, ReadUpdate, CancelOne,
      WriteStatus, CheckConsumed, SyncFails, DeductInventory, docs

(* However many requests, reviews, webhooks and cron ticks reserve and     *)
(* release at once, refundedAmountCents stays between 0 and the amount     *)
(* paid.                                                                   *)
THEOREM HeadroomCorrect == Spec => []HeadroomBounded
<1>1. Init => HeadroomBounded
  BY MoneyAssumption DEF Init, HeadroomBounded
<1>2. TypeOK /\ HeadroomBounded /\ [Next]_vars => HeadroomBounded'
  <2> SUFFICES ASSUME TypeOK, HeadroomBounded, [Next]_vars PROVE HeadroomBounded' OBVIOUS
  <2>1. ASSUME NEW p \in Proc, Step(p) PROVE HeadroomBounded'
    BY <2>1, SettlementBounded, RefundBounded, LifecycleBounded DEF Step
  <2>2. CASE Environment \/ UNCHANGED vars
    <3>1. UNCHANGED payment
      BY <2>2 DEF Environment, StartAttempt, ResolveAttempt, WindowPasses, DayPasses, RefundAges,
                  DisputeWindowCloses, docs, vars
    <3> QED BY <3>1, CounterUntouched
  <2> QED BY <2>1, <2>2 DEF Next
<1> QED BY <1>1, <1>2, TypeCorrect, PTL DEF Spec

-------------------------------------------------------------------------------
(* Stock.  Accounted is what each order's document keeps on its own: the   *)
(* number of returns is told by the stamp.                                 *)
Accounted(doc) == doc.returned = IF doc.restored THEN 1 ELSE 0

LEMMA RestoreAccounted ==
    ASSUME NEW doc \in OrderDoc, Accounted(doc)
    PROVE  Accounted(RestoreStock(doc))
BY DEF OrderDoc, Accounted, RestoreStock

LEMMA StatusAccounted ==
    ASSUME NEW doc \in OrderDoc, Accounted(doc), NEW s
    PROVE  Accounted([doc EXCEPT !.status = s])
BY DEF OrderDoc, Accounted

(* One order written, with a document that is accounted for if the old one *)
(* was, keeps the invariant.                                               *)
LEMMA OneAccounted ==
    ASSUME StockReturnedOnce, order \in [Orders -> OrderDoc], NEW o, NEW doc,
           order' = [order EXCEPT ![o] = doc],
           o \in Orders => Accounted(doc)
    PROVE  StockReturnedOnce'
BY DEF StockReturnedOnce, Accounted

LEMMA AwaitingAccounted ==
    ASSUME StockReturnedOnce, order \in [Orders -> OrderDoc], NEW s \in OrderStatuses,
           order' = AwaitingBecome(s)
    PROVE  StockReturnedOnce'
<1>1. \A o \in Orders : Accounted(order[o])
  BY DEF StockReturnedOnce, Accounted
<1>2. \A o \in Orders : Accounted(AwaitingBecome(s)[o])
  BY <1>1, StatusAccounted DEF AwaitingBecome
<1> QED BY <1>2 DEF StockReturnedOnce, Accounted

LEMMA StepAccounted ==
    ASSUME TypeOK, StockReturnedOnce, NEW p \in Proc, Step(p)
    PROVE  StockReturnedOnce'
<1>a. /\ order \in [Orders -> OrderDoc]
      /\ \A o \in Orders : order[o] \in OrderDoc /\ Accounted(order[o])
  BY DEF TypeOK, DocsOK, StockReturnedOnce, Accounted
<1>b. \A o \in Orders, s \in OrderStatuses :
         /\ [order[o] EXCEPT !.status = s] \in OrderDoc
         /\ Accounted([order[o] EXCEPT !.status = s])
  BY <1>a, StatusTyped, StatusAccounted
<1>c. "CANCELLED" \in OrderStatuses /\ "PENDING" \in OrderStatuses
      /\ "PAYMENT_FAILED" \in OrderStatuses
  BY DEF OrderStatuses
<1>1. CASE PromoteOrders(p)
  BY <1>1, <1>a, <1>c, AwaitingAccounted DEF PromoteOrders
<1>2. CASE ParkOrders(p)
  BY <1>2, <1>a, <1>c, AwaitingAccounted DEF ParkOrders
<1>3. CASE RestockNext(p)
  <2>1. PICK o \in Orders : order' = [order EXCEPT ![o] = RestoreStock(order[o])]
    BY <1>3 DEF RestockNext
  <2> QED BY <1>a, <2>1, RestoreAccounted, OneAccounted
<1>4. CASE ApplyConsequence(p)
  <2>1. PICK o \in Orders :
          order' = [order EXCEPT ![o] =
                      ApplyTarget(order[o], loc[p].view[o], Row(p).lines # NoLines)]
    BY <1>4 DEF ApplyConsequence
  <2>2. \A was, isLine : StatusAfterRefund(was, isLine) \in OrderStatuses
    BY DEF StatusAfterRefund, OrderStatuses
  <2>3. Accounted(ApplyTarget(order[o], loc[p].view[o], Row(p).lines # NoLines))
    BY <1>a, <1>b, <2>2, RestoreAccounted DEF ApplyTarget
  <2> QED BY <1>a, <2>1, <2>3, OneAccounted
<1>5. CASE CancelNext(p)
  <2>1. PICK o \in Orders :
          order' = [order EXCEPT ![o] = RestoreStock([order[o] EXCEPT !.status = "CANCELLED"])]
    BY <1>5 DEF CancelNext
  <2>2. Accounted(RestoreStock([order[o] EXCEPT !.status = "CANCELLED"]))
    BY <1>b, <1>c, RestoreAccounted
  <2> QED BY <1>a, <2>1, <2>2, OneAccounted
<1>6. CASE CancelOne(p)
  <2> DEFINE o == loc[p].target
             doc == RestoreStock(IF loc[p].direct
                                 THEN [order[o] EXCEPT !.status = "CANCELLED"] ELSE order[o])
  <2>1. order' = [order EXCEPT ![o] = doc] BY <1>6 DEF CancelOne
  <2>2. o \in Orders => Accounted(doc) BY <1>a, <1>b, <1>c, RestoreAccounted
  <2> HIDE DEF doc
  <2> QED BY <1>a, <2>1, <2>2, OneAccounted
<1>7. CASE WriteStatus(p)
  <2> DEFINE o == loc[p].target
             doc == IF loc[p].direct
                    THEN [order[o] EXCEPT
                            !.status = loc[p].next,
                            !.delivered = IF loc[p].next = "DELIVERED" THEN "recent" ELSE @]
                    ELSE order[o]
  <2>1. order' = [order EXCEPT ![o] = doc] BY <1>7 DEF WriteStatus
  <2>2. o \in Orders => Accounted(doc) BY <1>a DEF Accounted, OrderDoc
  <2> HIDE DEF doc
  <2> QED BY <1>a, <2>1, <2>2, OneAccounted
<1>8. CASE DeductInventory(p)
  <2> DEFINE o == loc[p].target
             doc == [order[o] EXCEPT !.consumed = @ + 1]
  <2>1. order' = [order EXCEPT ![o] = doc] BY <1>8 DEF DeductInventory
  <2>2. o \in Orders => Accounted(doc) BY <1>a DEF Accounted, OrderDoc
  <2> HIDE DEF doc
  <2> QED BY <1>a, <2>1, <2>2, OneAccounted
<1>9. CASE UNCHANGED order BY <1>9 DEF StockReturnedOnce
<1>10. SettlementStep(p) => StockReturnedOnce'
  BY <1>1, <1>2, <1>3, <1>9
  DEF SettlementStep, ReceiveCallback, ReadPending, InquireSettled, InquireUnsettled,
      InquiryFails, ExpireUnpaid, IgnoreOutcome, DivertLateSuccess, SettlePayment,
      OnPaidNotAwaiting, PromoteGroup, ClaimFailure, RecordLateSuccess, ReserveLate,
      CreateLate, docs
<1>11. RefundStep(p) => StockReturnedOnce'
  BY <1>4, <1>9
  DEF RefundStep, RequestRefund, RoutedRequest, RefuseRequest, ReserveHeadroom,
      CreateRefund, ExecuteOffline, SendToGateway, GatewayAccepts, GatewayTimesOut,
      GatewayRejects, SettleSucceeded, ReleaseHeadroom, FlagManual, ReadTargets,
      ReadSiblings, RecomputeGroup, ReadReview, SettleReserve, SettleMark, RejectRelease,
      RejectMark, ApproveMark, PickStuck, MatchChild, NoChildFound, RefundInquiryFails,
      docs
<1>12. LifecycleStep(p) => StockReturnedOnce'
  BY <1>5, <1>6, <1>7, <1>8, <1>9
  DEF LifecycleStep, ReadCancel, ExpirePending, CancelGroup, ReadUpdate, CheckConsumed,
      SyncFails, docs
<1> QED BY <1>10, <1>11, <1>12 DEF Step

(* Cancellation, payment failure, refund and status update may all restock *)
(* the same order, in any interleaving: its units go back at most once.    *)
THEOREM StockCorrect == Spec => []StockReturnedOnce
<1>1. Init => StockReturnedOnce
  BY DEF Init, StockReturnedOnce
<1>2. TypeOK /\ StockReturnedOnce /\ [Next]_vars => StockReturnedOnce'
  <2> SUFFICES ASSUME TypeOK, StockReturnedOnce, [Next]_vars PROVE StockReturnedOnce' OBVIOUS
  <2>1. ASSUME NEW p \in Proc, Step(p) PROVE StockReturnedOnce'
    BY <2>1, StepAccounted
  <2>2. ASSUME NEW o \in Orders, DisputeWindowCloses(o) PROVE StockReturnedOnce'
    <3> DEFINE doc == [order[o] EXCEPT !.delivered = "old"]
    <3>1. order' = [order EXCEPT ![o] = doc] BY <2>2 DEF DisputeWindowCloses
    <3>2. order \in [Orders -> OrderDoc] BY DEF TypeOK, DocsOK
    <3>3. Accounted(doc) BY <3>2 DEF StockReturnedOnce, Accounted, OrderDoc
    <3> HIDE DEF doc
    <3> QED BY <3>1, <3>2, <3>3, OneAccounted
  <2>3. CASE UNCHANGED order BY <2>3 DEF StockReturnedOnce
  <2> QED
    BY <2>1, <2>2, <2>3
    DEF Next, Environment, StartAttempt, ResolveAttempt, WindowPasses, DayPasses, RefundAges,
        docs, vars
<1> QED BY <1>1, <1>2, TypeCorrect, PTL DEF Spec
===============================================================================
