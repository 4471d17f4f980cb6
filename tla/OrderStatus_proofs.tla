-------------------------- MODULE OrderStatus_proofs --------------------------
(***************************************************************************)
(* What the orders of a group go through, for every number of orders and   *)
(* every set of concurrent requests.                                       *)
(***************************************************************************)
EXTENDS OrderLifecycle_proofs

(* Control flow.  A step moves its own process only, along an edge of its  *)
(* handler.                                                                *)
Edge(p, from, to) == pc[p] \in from /\ pc'[p] \in to

ReviewLabels == {"settleMark", "settleReserve", "rejectMark", "rejectRelease", "approveMark"}

LEMMA Lands ==
    ASSUME ControlOK, NEW p \in Proc
    PROVE  /\ \A x : Goto(p, x) => pc'[p] = x
           /\ \A h : Hold(p, h) => loc'[p] = h
           /\ Finish(p) => pc'[p] = "idle" /\ loc'[p] = NoLocals
           /\ UNCHANGED pc => pc'[p] = pc[p]
BY DEF ControlOK, Goto, Hold, Finish

LEMMA KeepsOthers ==
    ASSUME ControlOK, NEW p \in Proc, NEW q \in Proc, q # p
    PROVE  /\ \A x : Goto(p, x) => pc'[q] = pc[q]
           /\ \A h : Hold(p, h) => loc'[q] = loc[q]
           /\ Finish(p) => pc'[q] = pc[q] /\ loc'[q] = loc[q]
           /\ UNCHANGED pc => pc'[q] = pc[q]
           /\ UNCHANGED loc => loc'[q] = loc[q]
BY DEF ControlOK, Goto, Hold, Finish

LEMMA SettlementEdges ==
    ASSUME ControlOK, NEW p \in Proc
    PROVE  /\ \A t \in Txns : ReceiveCallback(p, t) => Edge(p, {"idle"}, {"apply"})
           /\ ReadPending(p) => Edge(p, {"idle"}, {"inquire"})
           /\ InquireSettled(p) => Edge(p, {"inquire"}, {"apply"})
           /\ InquireUnsettled(p) => Edge(p, {"inquire"}, {"expire", "idle"})
           /\ InquiryFails(p) => Edge(p, {"inquire"}, {"idle"})
           /\ ExpireUnpaid(p) => Edge(p, {"expire"}, {"idle"})
           /\ IgnoreOutcome(p) => Edge(p, {"apply"}, {"idle"})
           /\ DivertLateSuccess(p) => Edge(p, {"apply"}, {"lateRecord"})
           /\ SettlePayment(p) => Edge(p, {"apply"}, {"onPaid", "onFailed"})
           /\ OnPaidNotAwaiting(p) => Edge(p, {"onPaid"}, {"idle"})
           /\ PromoteOrders(p) => Edge(p, {"onPaid"}, {"promoteGroup"})
           /\ PromoteGroup(p) => Edge(p, {"promoteGroup"}, {"idle"})
           /\ ClaimFailure(p) => Edge(p, {"onFailed"}, {"restock", "idle"})
           /\ RestockNext(p) => Edge(p, {"restock"}, {"restock"})
           /\ ParkOrders(p) => Edge(p, {"restock"}, {"idle"})
           /\ RecordLateSuccess(p) => Edge(p, {"lateRecord"}, {"lateReserve"})
           /\ ReserveLate(p) => Edge(p, {"lateReserve"}, {"lateCreate", "idle"})
           /\ CreateLate(p) => Edge(p, {"lateCreate"}, {"exec"})
<1>1. \A t \in Txns : ReceiveCallback(p, t) => Edge(p, {"idle"}, {"apply"}) BY Lands DEF Edge, ReceiveCallback
<1>2. ReadPending(p) => Edge(p, {"idle"}, {"inquire"}) BY Lands DEF Edge, ReadPending
<1>3. InquireSettled(p) => Edge(p, {"inquire"}, {"apply"}) BY Lands DEF Edge, InquireSettled
<1>4. InquireUnsettled(p) => Edge(p, {"inquire"}, {"expire", "idle"}) BY Lands DEF Edge, InquireUnsettled
<1>5. InquiryFails(p) => Edge(p, {"inquire"}, {"idle"}) BY Lands DEF Edge, InquiryFails
<1>6. ExpireUnpaid(p) => Edge(p, {"expire"}, {"idle"}) BY Lands DEF Edge, ExpireUnpaid
<1>7. IgnoreOutcome(p) => Edge(p, {"apply"}, {"idle"}) BY Lands DEF Edge, IgnoreOutcome
<1>8. DivertLateSuccess(p) => Edge(p, {"apply"}, {"lateRecord"}) BY Lands DEF Edge, DivertLateSuccess
<1>9. SettlePayment(p) => Edge(p, {"apply"}, {"onPaid", "onFailed"}) BY Lands DEF Edge, SettlePayment
<1>10. OnPaidNotAwaiting(p) => Edge(p, {"onPaid"}, {"idle"}) BY Lands DEF Edge, OnPaidNotAwaiting
<1>11. PromoteOrders(p) => Edge(p, {"onPaid"}, {"promoteGroup"}) BY Lands DEF Edge, PromoteOrders
<1>12. PromoteGroup(p) => Edge(p, {"promoteGroup"}, {"idle"}) BY Lands DEF Edge, PromoteGroup
<1>13. ClaimFailure(p) => Edge(p, {"onFailed"}, {"restock", "idle"}) BY Lands DEF Edge, ClaimFailure
<1>14. RestockNext(p) => Edge(p, {"restock"}, {"restock"}) BY Lands DEF Edge, RestockNext
<1>15. ParkOrders(p) => Edge(p, {"restock"}, {"idle"}) BY Lands DEF Edge, ParkOrders
<1>16. RecordLateSuccess(p) => Edge(p, {"lateRecord"}, {"lateReserve"}) BY Lands DEF Edge, RecordLateSuccess
<1>17. ReserveLate(p) => Edge(p, {"lateReserve"}, {"lateCreate", "idle"}) BY Lands DEF Edge, ReserveLate
<1>18. CreateLate(p) => Edge(p, {"lateCreate"}, {"exec"}) BY Lands DEF Edge, CreateLate
<1> QED BY <1>1, <1>2, <1>3, <1>4, <1>5, <1>6, <1>7, <1>8, <1>9, <1>10, <1>11, <1>12, <1>13, <1>14, <1>15, <1>16, <1>17, <1>18

LEMMA RefundEdges ==
    ASSUME ControlOK, NEW p \in Proc
    PROVE  /\ RequestRefund(p) => Edge(p, {"idle"}, {"create", "reserve"})
           /\ RoutedRequest(p) => Edge(p, {"request"}, {"create", "reserve"})
           /\ RefuseRequest(p) => Edge(p, {"request"}, {"idle"})
           /\ ReserveHeadroom(p) => Edge(p, {"reserve"}, {"create", "idle"})
           /\ CreateRefund(p) => Edge(p, {"create"}, {"exec", "idle"})
           /\ ExecuteOffline(p) => Edge(p, {"exec"}, {"consequences", "idle"})
           /\ SendToGateway(p) => Edge(p, {"exec"}, {"gateway"})
           /\ GatewayAccepts(p) => Edge(p, {"gateway", "void"}, {"settle"})
           /\ GatewayTimesOut(p) => Edge(p, {"gateway", "void"}, {"idle"})
           /\ GatewayRejects(p) => Edge(p, {"gateway", "void"}, {"void", "release"})
           /\ SettleSucceeded(p) => Edge(p, {"settle"}, {"consequences", "idle"})
           /\ ReleaseHeadroom(p) => Edge(p, {"release"}, {"flagManual"})
           /\ FlagManual(p) => Edge(p, {"flagManual"}, {"idle"})
           /\ ReadTargets(p) => Edge(p, {"consequences"}, {"applyTargets"})
           /\ ApplyConsequence(p) => Edge(p, {"applyTargets"}, {"applyTargets"})
           /\ ReadSiblings(p) => Edge(p, {"applyTargets", "siblings"}, {"recompute"})
           /\ RecomputeGroup(p) => Edge(p, {"recompute"}, {"idle"})
           /\ ReadReview(p) => Edge(p, {"idle"}, ReviewLabels)
           /\ SettleReserve(p) => Edge(p, {"settleReserve"}, {"settleMark", "idle"})
           /\ SettleMark(p) => Edge(p, {"settleMark"}, {"consequences"})
           /\ RejectRelease(p) => Edge(p, {"rejectRelease"}, {"rejectMark"})
           /\ RejectMark(p) => Edge(p, {"rejectMark"}, {"idle"})
           /\ ApproveMark(p) => Edge(p, {"approveMark"}, {"exec"})
           /\ PickStuck(p) => Edge(p, {"idle"}, {"refundInquiry"})
           /\ MatchChild(p) => Edge(p, {"refundInquiry"}, {"settle"})
           /\ NoChildFound(p) => Edge(p, {"refundInquiry"}, {"release"})
           /\ RefundInquiryFails(p) => Edge(p, {"refundInquiry"}, {"idle"})
<1>1. RequestRefund(p) => Edge(p, {"idle"}, {"create", "reserve"}) BY Lands DEF Edge, RequestRefund, ReadRequest
<1>2. RoutedRequest(p) => Edge(p, {"request"}, {"create", "reserve"}) BY Lands DEF Edge, RoutedRequest, ReadRequest
<1>3. RefuseRequest(p) => Edge(p, {"request"}, {"idle"}) BY Lands DEF Edge, RefuseRequest
<1>4. ReserveHeadroom(p) => Edge(p, {"reserve"}, {"create", "idle"}) BY Lands DEF Edge, ReserveHeadroom
<1>5. CreateRefund(p) => Edge(p, {"create"}, {"exec", "idle"}) BY Lands DEF Edge, CreateRefund
<1>6. ExecuteOffline(p) => Edge(p, {"exec"}, {"consequences", "idle"}) BY Lands DEF Edge, ExecuteOffline
<1>7. SendToGateway(p) => Edge(p, {"exec"}, {"gateway"}) BY Lands DEF Edge, SendToGateway
<1>8. GatewayAccepts(p) => Edge(p, {"gateway", "void"}, {"settle"}) BY Lands DEF Edge, GatewayAccepts
<1>9. GatewayTimesOut(p) => Edge(p, {"gateway", "void"}, {"idle"}) BY Lands DEF Edge, GatewayTimesOut
<1>10. GatewayRejects(p) => Edge(p, {"gateway", "void"}, {"void", "release"}) BY Lands DEF Edge, GatewayRejects
<1>11. SettleSucceeded(p) => Edge(p, {"settle"}, {"consequences", "idle"}) BY Lands DEF Edge, SettleSucceeded
<1>12. ReleaseHeadroom(p) => Edge(p, {"release"}, {"flagManual"}) BY Lands DEF Edge, ReleaseHeadroom
<1>13. FlagManual(p) => Edge(p, {"flagManual"}, {"idle"}) BY Lands DEF Edge, FlagManual
<1>14. ReadTargets(p) => Edge(p, {"consequences"}, {"applyTargets"}) BY Lands DEF Edge, ReadTargets
<1>15. ApplyConsequence(p) => Edge(p, {"applyTargets"}, {"applyTargets"}) BY Lands DEF Edge, ApplyConsequence
<1>16. ReadSiblings(p) => Edge(p, {"applyTargets", "siblings"}, {"recompute"}) BY Lands DEF Edge, ReadSiblings
<1>17. RecomputeGroup(p) => Edge(p, {"recompute"}, {"idle"}) BY Lands DEF Edge, RecomputeGroup
<1>18. ReadReview(p) => Edge(p, {"idle"}, ReviewLabels) BY Lands DEF Edge, ReadReview, ReviewLabels
<1>19. SettleReserve(p) => Edge(p, {"settleReserve"}, {"settleMark", "idle"}) BY Lands DEF Edge, SettleReserve
<1>20. SettleMark(p) => Edge(p, {"settleMark"}, {"consequences"}) BY Lands DEF Edge, SettleMark
<1>21. RejectRelease(p) => Edge(p, {"rejectRelease"}, {"rejectMark"}) BY Lands DEF Edge, RejectRelease
<1>22. RejectMark(p) => Edge(p, {"rejectMark"}, {"idle"}) BY Lands DEF Edge, RejectMark
<1>23. ApproveMark(p) => Edge(p, {"approveMark"}, {"exec"}) BY Lands DEF Edge, ApproveMark
<1>24. PickStuck(p) => Edge(p, {"idle"}, {"refundInquiry"}) BY Lands DEF Edge, PickStuck
<1>25. MatchChild(p) => Edge(p, {"refundInquiry"}, {"settle"}) BY Lands DEF Edge, MatchChild
<1>26. NoChildFound(p) => Edge(p, {"refundInquiry"}, {"release"}) BY Lands DEF Edge, NoChildFound
<1>27. RefundInquiryFails(p) => Edge(p, {"refundInquiry"}, {"idle"}) BY Lands DEF Edge, RefundInquiryFails
<1> QED BY <1>1, <1>2, <1>3, <1>4, <1>5, <1>6, <1>7, <1>8, <1>9, <1>10, <1>11, <1>12, <1>13, <1>14, <1>15, <1>16, <1>17, <1>18, <1>19, <1>20, <1>21, <1>22, <1>23, <1>24, <1>25, <1>26, <1>27

LEMMA LifecycleEdges ==
    ASSUME ControlOK, NEW p \in Proc
    PROVE  /\ ReadCancel(p) => Edge(p, {"idle"}, {"closeWindow", "request"})
           /\ ExpirePending(p) => Edge(p, {"closeWindow"}, {"cancelOrders"})
           /\ CancelNext(p) => Edge(p, {"cancelOrders"}, {"cancelOrders"})
           /\ CancelGroup(p) => Edge(p, {"cancelOrders"}, {"idle"})
           /\ \A o \in Orders, s \in StaffTargets, direct \in BOOLEAN : ReadUpdate(p, o, s, direct) => Edge(p, {"idle"}, {"writeStatus", "cancelOne", "request"})
           /\ CancelOne(p) => Edge(p, {"cancelOne"}, {"siblings"})
           /\ WriteStatus(p) => Edge(p, {"writeStatus"}, {"sync", "siblings"})
           /\ CheckConsumed(p) => Edge(p, {"sync"}, {"deduct", "siblings"})
           /\ SyncFails(p) => Edge(p, {"sync", "deduct"}, {"siblings"})
           /\ DeductInventory(p) => Edge(p, {"deduct"}, {"siblings"})
<1>1. ReadCancel(p) => Edge(p, {"idle"}, {"closeWindow", "request"}) BY Lands DEF Edge, ReadCancel
<1>2. ExpirePending(p) => Edge(p, {"closeWindow"}, {"cancelOrders"}) BY Lands DEF Edge, ExpirePending
<1>3. CancelNext(p) => Edge(p, {"cancelOrders"}, {"cancelOrders"}) BY Lands DEF Edge, CancelNext
<1>4. CancelGroup(p) => Edge(p, {"cancelOrders"}, {"idle"}) BY Lands DEF Edge, CancelGroup
<1>5. \A o \in Orders, s \in StaffTargets, direct \in BOOLEAN : ReadUpdate(p, o, s, direct) => Edge(p, {"idle"}, {"writeStatus", "cancelOne", "request"}) BY Lands DEF Edge, ReadUpdate
<1>6. CancelOne(p) => Edge(p, {"cancelOne"}, {"siblings"}) BY Lands DEF Edge, CancelOne
<1>7. WriteStatus(p) => Edge(p, {"writeStatus"}, {"sync", "siblings"}) BY Lands DEF Edge, WriteStatus
<1>8. CheckConsumed(p) => Edge(p, {"sync"}, {"deduct", "siblings"}) BY Lands DEF Edge, CheckConsumed
<1>9. SyncFails(p) => Edge(p, {"sync", "deduct"}, {"siblings"}) BY Lands DEF Edge, SyncFails
<1>10. DeductInventory(p) => Edge(p, {"deduct"}, {"siblings"}) BY Lands DEF Edge, DeductInventory
<1> QED BY <1>1, <1>2, <1>3, <1>4, <1>5, <1>6, <1>7, <1>8, <1>9, <1>10

LEMMA OthersStay ==
    ASSUME ControlOK, NEW p \in Proc, NEW q \in Proc, q # p, Step(p)
    PROVE  pc'[q] = pc[q] /\ loc'[q] = loc[q]
<1>1. CASE SettlementStep(p)
  BY <1>1, KeepsOthers DEF SettlementStep, ReceiveCallback, ReadPending, InquireSettled,
     InquireUnsettled, InquiryFails, ExpireUnpaid, IgnoreOutcome, DivertLateSuccess,
     SettlePayment, OnPaidNotAwaiting, PromoteOrders, PromoteGroup, ClaimFailure, RestockNext,
     ParkOrders, RecordLateSuccess, ReserveLate, CreateLate
<1>2. CASE RefundStep(p)
  BY <1>2, KeepsOthers DEF RefundStep, RequestRefund, RoutedRequest, ReadRequest, RefuseRequest,
     ReserveHeadroom, CreateRefund, ExecuteOffline, SendToGateway, GatewayAccepts, GatewayTimesOut,
     GatewayRejects, SettleSucceeded, ReleaseHeadroom, FlagManual, ReadTargets, ApplyConsequence,
     ReadSiblings, RecomputeGroup, ReadReview, SettleReserve, SettleMark, RejectRelease,
     RejectMark, ApproveMark, PickStuck, MatchChild, NoChildFound, RefundInquiryFails
<1>3. CASE LifecycleStep(p)
  BY <1>3, KeepsOthers DEF LifecycleStep, ReadCancel, ExpirePending, CancelNext, CancelGroup,
     ReadUpdate, CancelOne, WriteStatus, CheckConsumed, SyncFails, DeductInventory
<1> QED BY <1>1, <1>2, <1>3 DEF Step

(* Which steps bring a process to a label.                                 *)
LEMMA Arrivals ==
    ASSUME ControlOK, NEW p \in Proc, Step(p)
    PROVE  /\ pc'[p] = "apply" => (\E t \in Txns : ReceiveCallback(p, t)) \/ InquireSettled(p)
           /\ pc'[p] = "inquire" => ReadPending(p)
           /\ pc'[p] = "expire" => InquireUnsettled(p)
           /\ pc'[p] = "lateRecord" => DivertLateSuccess(p)
           /\ pc'[p] = "onPaid" => SettlePayment(p)
           /\ pc'[p] = "onFailed" => SettlePayment(p)
           /\ pc'[p] = "promoteGroup" => PromoteOrders(p)
           /\ pc'[p] = "restock" => ClaimFailure(p) \/ RestockNext(p)
           /\ pc'[p] = "lateReserve" => RecordLateSuccess(p)
           /\ pc'[p] = "lateCreate" => ReserveLate(p)
           /\ pc'[p] = "exec" => CreateLate(p) \/ CreateRefund(p) \/ ApproveMark(p)
           /\ pc'[p] = "create" => RequestRefund(p) \/ RoutedRequest(p) \/ ReserveHeadroom(p)
           /\ pc'[p] = "reserve" => RequestRefund(p) \/ RoutedRequest(p)
           /\ pc'[p] = "consequences" => ExecuteOffline(p) \/ SettleSucceeded(p) \/ SettleMark(p)
           /\ pc'[p] = "gateway" => SendToGateway(p)
           /\ pc'[p] = "settle" => GatewayAccepts(p) \/ MatchChild(p)
           /\ pc'[p] = "void" => GatewayRejects(p)
           /\ pc'[p] = "release" => GatewayRejects(p) \/ NoChildFound(p)
           /\ pc'[p] = "flagManual" => ReleaseHeadroom(p)
           /\ pc'[p] = "applyTargets" => ReadTargets(p) \/ ApplyConsequence(p)
           /\ pc'[p] = "recompute" => ReadSiblings(p)
           /\ pc'[p] = "settleMark" => ReadReview(p) \/ SettleReserve(p)
           /\ pc'[p] = "settleReserve" => ReadReview(p)
           /\ pc'[p] = "rejectMark" => ReadReview(p) \/ RejectRelease(p)
           /\ pc'[p] = "rejectRelease" => ReadReview(p)
           /\ pc'[p] = "approveMark" => ReadReview(p)
           /\ pc'[p] = "refundInquiry" => PickStuck(p)
           /\ pc'[p] = "closeWindow" => ReadCancel(p)
           /\ pc'[p] = "request" => ReadCancel(p) \/ (\E o \in Orders, s \in StaffTargets, direct \in BOOLEAN : ReadUpdate(p, o, s, direct))
           /\ pc'[p] = "cancelOrders" => ExpirePending(p) \/ CancelNext(p)
           /\ pc'[p] = "writeStatus" => (\E o \in Orders, s \in StaffTargets, direct \in BOOLEAN : ReadUpdate(p, o, s, direct))
           /\ pc'[p] = "cancelOne" => (\E o \in Orders, s \in StaffTargets, direct \in BOOLEAN : ReadUpdate(p, o, s, direct))
           /\ pc'[p] = "siblings" => CancelOne(p) \/ WriteStatus(p) \/ CheckConsumed(p) \/ SyncFails(p) \/ DeductInventory(p)
           /\ pc'[p] = "sync" => WriteStatus(p)
           /\ pc'[p] = "deduct" => CheckConsumed(p)
<1>1. pc'[p] = "apply" => (\E t \in Txns : ReceiveCallback(p, t)) \/ InquireSettled(p)
  BY SettlementEdges, RefundEdges, LifecycleEdges DEF Edge, ReviewLabels, Step, SettlementStep, RefundStep, LifecycleStep
<1>2. pc'[p] = "inquire" => ReadPending(p)
  BY SettlementEdges, RefundEdges, LifecycleEdges DEF Edge, ReviewLabels, Step, SettlementStep, RefundStep, LifecycleStep
<1>3. pc'[p] = "expire" => InquireUnsettled(p)
  BY SettlementEdges, RefundEdges, LifecycleEdges DEF Edge, ReviewLabels, Step, SettlementStep, RefundStep, LifecycleStep
<1>4. pc'[p] = "lateRecord" => DivertLateSuccess(p)
  BY SettlementEdges, RefundEdges, LifecycleEdges DEF Edge, ReviewLabels, Step, SettlementStep, RefundStep, LifecycleStep
<1>5. pc'[p] = "onPaid" => SettlePayment(p)
  BY SettlementEdges, RefundEdges, LifecycleEdges DEF Edge, ReviewLabels, Step, SettlementStep, RefundStep, LifecycleStep
<1>6. pc'[p] = "onFailed" => SettlePayment(p)
  BY SettlementEdges, RefundEdges, LifecycleEdges DEF Edge, ReviewLabels, Step, SettlementStep, RefundStep, LifecycleStep
<1>7. pc'[p] = "promoteGroup" => PromoteOrders(p)
  BY SettlementEdges, RefundEdges, LifecycleEdges DEF Edge, ReviewLabels, Step, SettlementStep, RefundStep, LifecycleStep
<1>8. pc'[p] = "restock" => ClaimFailure(p) \/ RestockNext(p)
  BY SettlementEdges, RefundEdges, LifecycleEdges DEF Edge, ReviewLabels, Step, SettlementStep, RefundStep, LifecycleStep
<1>9. pc'[p] = "lateReserve" => RecordLateSuccess(p)
  BY SettlementEdges, RefundEdges, LifecycleEdges DEF Edge, ReviewLabels, Step, SettlementStep, RefundStep, LifecycleStep
<1>10. pc'[p] = "lateCreate" => ReserveLate(p)
  BY SettlementEdges, RefundEdges, LifecycleEdges DEF Edge, ReviewLabels, Step, SettlementStep, RefundStep, LifecycleStep
<1>11. pc'[p] = "exec" => CreateLate(p) \/ CreateRefund(p) \/ ApproveMark(p)
  BY SettlementEdges, RefundEdges, LifecycleEdges DEF Edge, ReviewLabels, Step, SettlementStep, RefundStep, LifecycleStep
<1>12. pc'[p] = "create" => RequestRefund(p) \/ RoutedRequest(p) \/ ReserveHeadroom(p)
  BY SettlementEdges, RefundEdges, LifecycleEdges DEF Edge, ReviewLabels, Step, SettlementStep, RefundStep, LifecycleStep
<1>13. pc'[p] = "reserve" => RequestRefund(p) \/ RoutedRequest(p)
  BY SettlementEdges, RefundEdges, LifecycleEdges DEF Edge, ReviewLabels, Step, SettlementStep, RefundStep, LifecycleStep
<1>14. pc'[p] = "consequences" => ExecuteOffline(p) \/ SettleSucceeded(p) \/ SettleMark(p)
  BY SettlementEdges, RefundEdges, LifecycleEdges DEF Edge, ReviewLabels, Step, SettlementStep, RefundStep, LifecycleStep
<1>15. pc'[p] = "gateway" => SendToGateway(p)
  BY SettlementEdges, RefundEdges, LifecycleEdges DEF Edge, ReviewLabels, Step, SettlementStep, RefundStep, LifecycleStep
<1>16. pc'[p] = "settle" => GatewayAccepts(p) \/ MatchChild(p)
  BY SettlementEdges, RefundEdges, LifecycleEdges DEF Edge, ReviewLabels, Step, SettlementStep, RefundStep, LifecycleStep
<1>17. pc'[p] = "void" => GatewayRejects(p)
  BY SettlementEdges, RefundEdges, LifecycleEdges DEF Edge, ReviewLabels, Step, SettlementStep, RefundStep, LifecycleStep
<1>18. pc'[p] = "release" => GatewayRejects(p) \/ NoChildFound(p)
  BY SettlementEdges, RefundEdges, LifecycleEdges DEF Edge, ReviewLabels, Step, SettlementStep, RefundStep, LifecycleStep
<1>19. pc'[p] = "flagManual" => ReleaseHeadroom(p)
  BY SettlementEdges, RefundEdges, LifecycleEdges DEF Edge, ReviewLabels, Step, SettlementStep, RefundStep, LifecycleStep
<1>20. pc'[p] = "applyTargets" => ReadTargets(p) \/ ApplyConsequence(p)
  BY SettlementEdges, RefundEdges, LifecycleEdges DEF Edge, ReviewLabels, Step, SettlementStep, RefundStep, LifecycleStep
<1>21. pc'[p] = "recompute" => ReadSiblings(p)
  BY SettlementEdges, RefundEdges, LifecycleEdges DEF Edge, ReviewLabels, Step, SettlementStep, RefundStep, LifecycleStep
<1>22. pc'[p] = "settleMark" => ReadReview(p) \/ SettleReserve(p)
  BY SettlementEdges, RefundEdges, LifecycleEdges DEF Edge, ReviewLabels, Step, SettlementStep, RefundStep, LifecycleStep
<1>23. pc'[p] = "settleReserve" => ReadReview(p)
  BY SettlementEdges, RefundEdges, LifecycleEdges DEF Edge, ReviewLabels, Step, SettlementStep, RefundStep, LifecycleStep
<1>24. pc'[p] = "rejectMark" => ReadReview(p) \/ RejectRelease(p)
  BY SettlementEdges, RefundEdges, LifecycleEdges DEF Edge, ReviewLabels, Step, SettlementStep, RefundStep, LifecycleStep
<1>25. pc'[p] = "rejectRelease" => ReadReview(p)
  BY SettlementEdges, RefundEdges, LifecycleEdges DEF Edge, ReviewLabels, Step, SettlementStep, RefundStep, LifecycleStep
<1>26. pc'[p] = "approveMark" => ReadReview(p)
  BY SettlementEdges, RefundEdges, LifecycleEdges DEF Edge, ReviewLabels, Step, SettlementStep, RefundStep, LifecycleStep
<1>27. pc'[p] = "refundInquiry" => PickStuck(p)
  BY SettlementEdges, RefundEdges, LifecycleEdges DEF Edge, ReviewLabels, Step, SettlementStep, RefundStep, LifecycleStep
<1>28. pc'[p] = "closeWindow" => ReadCancel(p)
  BY SettlementEdges, RefundEdges, LifecycleEdges DEF Edge, ReviewLabels, Step, SettlementStep, RefundStep, LifecycleStep
<1>29. pc'[p] = "request" => ReadCancel(p) \/ (\E o \in Orders, s \in StaffTargets, direct \in BOOLEAN : ReadUpdate(p, o, s, direct))
  BY SettlementEdges, RefundEdges, LifecycleEdges DEF Edge, ReviewLabels, Step, SettlementStep, RefundStep, LifecycleStep
<1>30. pc'[p] = "cancelOrders" => ExpirePending(p) \/ CancelNext(p)
  BY SettlementEdges, RefundEdges, LifecycleEdges DEF Edge, ReviewLabels, Step, SettlementStep, RefundStep, LifecycleStep
<1>31. pc'[p] = "writeStatus" => (\E o \in Orders, s \in StaffTargets, direct \in BOOLEAN : ReadUpdate(p, o, s, direct))
  BY SettlementEdges, RefundEdges, LifecycleEdges DEF Edge, ReviewLabels, Step, SettlementStep, RefundStep, LifecycleStep
<1>32. pc'[p] = "cancelOne" => (\E o \in Orders, s \in StaffTargets, direct \in BOOLEAN : ReadUpdate(p, o, s, direct))
  BY SettlementEdges, RefundEdges, LifecycleEdges DEF Edge, ReviewLabels, Step, SettlementStep, RefundStep, LifecycleStep
<1>33. pc'[p] = "siblings" => CancelOne(p) \/ WriteStatus(p) \/ CheckConsumed(p) \/ SyncFails(p) \/ DeductInventory(p)
  BY SettlementEdges, RefundEdges, LifecycleEdges DEF Edge, ReviewLabels, Step, SettlementStep, RefundStep, LifecycleStep
<1>34. pc'[p] = "sync" => WriteStatus(p)
  BY SettlementEdges, RefundEdges, LifecycleEdges DEF Edge, ReviewLabels, Step, SettlementStep, RefundStep, LifecycleStep
<1>35. pc'[p] = "deduct" => CheckConsumed(p)
  BY SettlementEdges, RefundEdges, LifecycleEdges DEF Edge, ReviewLabels, Step, SettlementStep, RefundStep, LifecycleStep
<1> QED BY <1>1, <1>2, <1>3, <1>4, <1>5, <1>6, <1>7, <1>8, <1>9, <1>10, <1>11, <1>12, <1>13, <1>14, <1>15, <1>16, <1>17, <1>18, <1>19, <1>20, <1>21, <1>22, <1>23, <1>24, <1>25, <1>26, <1>27, <1>28, <1>29, <1>30, <1>31, <1>32, <1>33, <1>34, <1>35

(* The Payment.                                                            *)
LEMMA PaymentWriters ==
    ASSUME NEW p \in Proc, Step(p)
    PROVE  \/ UNCHANGED payment
           \/ ExpireUnpaid(p) \/ SettlePayment(p) \/ RecordLateSuccess(p) \/ ReserveLate(p)
           \/ ReserveHeadroom(p) \/ ReleaseHeadroom(p) \/ SettleReserve(p) \/ RejectRelease(p)
           \/ ExpirePending(p)
<1>1. CASE SettlementStep(p)
  BY <1>1 DEF SettlementStep, ReceiveCallback, ReadPending, InquireSettled, InquireUnsettled,
     InquiryFails, IgnoreOutcome, DivertLateSuccess, OnPaidNotAwaiting, PromoteOrders,
     PromoteGroup, ClaimFailure, RestockNext, ParkOrders, CreateLate, docs, world
<1>2. CASE RefundStep(p)
  BY <1>2 DEF RefundStep, RequestRefund, RoutedRequest, RefuseRequest, CreateRefund,
     ExecuteOffline, SendToGateway, GatewayAccepts, GatewayTimesOut, GatewayRejects,
     SettleSucceeded, FlagManual, ReadTargets, ApplyConsequence, ReadSiblings, RecomputeGroup,
     ReadReview, SettleMark, RejectMark, ApproveMark, PickStuck, MatchChild, NoChildFound,
     RefundInquiryFails, docs, world
<1>3. CASE LifecycleStep(p)
  BY <1>3 DEF LifecycleStep, ReadCancel, CancelNext, CancelGroup, ReadUpdate, CancelOne,
     WriteStatus, CheckConsumed, SyncFails, DeductInventory, docs, world
<1> QED BY <1>1, <1>2, <1>3 DEF Step

(* The group and the cart.                                                 *)
LEMMA GroupWriters ==
    ASSUME NEW p \in Proc, Step(p)
    PROVE  \/ UNCHANGED group
           \/ PromoteGroup(p) \/ ClaimFailure(p) \/ CancelGroup(p) \/ RecomputeGroup(p)
<1>1. CASE SettlementStep(p)
  BY <1>1 DEF SettlementStep, ReceiveCallback, ReadPending, InquireSettled, InquireUnsettled,
     InquiryFails, ExpireUnpaid, IgnoreOutcome, DivertLateSuccess, SettlePayment,
     OnPaidNotAwaiting, PromoteOrders, RestockNext, ParkOrders, RecordLateSuccess, ReserveLate,
     CreateLate, docs, world
<1>2. CASE RefundStep(p)
  BY <1>2 DEF RefundStep, RequestRefund, RoutedRequest, RefuseRequest, ReserveHeadroom,
     CreateRefund, ExecuteOffline, SendToGateway, GatewayAccepts, GatewayTimesOut,
     GatewayRejects, SettleSucceeded, ReleaseHeadroom, FlagManual, ReadTargets,
     ApplyConsequence, ReadSiblings, ReadReview, SettleReserve, SettleMark, RejectRelease,
     RejectMark, ApproveMark, PickStuck, MatchChild, NoChildFound, RefundInquiryFails, docs,
     world
<1>3. CASE LifecycleStep(p)
  BY <1>3 DEF LifecycleStep, ReadCancel, ExpirePending, CancelNext, ReadUpdate, CancelOne,
     WriteStatus, CheckConsumed, SyncFails, DeductInventory, docs, world
<1> QED BY <1>1, <1>2, <1>3 DEF Step

LEMMA CartWriters ==
    ASSUME NEW p \in Proc, Step(p)
    PROVE  \/ UNCHANGED cart
           \/ PromoteGroup(p)
<1>1. CASE SettlementStep(p)
  BY <1>1 DEF SettlementStep, ReceiveCallback, ReadPending, InquireSettled, InquireUnsettled,
     InquiryFails, ExpireUnpaid, IgnoreOutcome, DivertLateSuccess, SettlePayment,
     OnPaidNotAwaiting, PromoteOrders, ClaimFailure, RestockNext, ParkOrders,
     RecordLateSuccess, ReserveLate, CreateLate, docs, world
<1>2. CASE RefundStep(p)
  BY <1>2 DEF RefundStep, RequestRefund, RoutedRequest, RefuseRequest, ReserveHeadroom,
     CreateRefund, ExecuteOffline, SendToGateway, GatewayAccepts, GatewayTimesOut,
     GatewayRejects, SettleSucceeded, ReleaseHeadroom, FlagManual, ReadTargets,
     ApplyConsequence, ReadSiblings, RecomputeGroup, ReadReview, SettleReserve, SettleMark,
     RejectRelease, RejectMark, ApproveMark, PickStuck, MatchChild, NoChildFound,
     RefundInquiryFails, docs, world
<1>3. CASE LifecycleStep(p)
  BY <1>3 DEF LifecycleStep, ReadCancel, ExpirePending, CancelNext, CancelGroup, ReadUpdate,
     CancelOne, WriteStatus, CheckConsumed, SyncFails, DeductInventory, docs, world
<1> QED BY <1>1, <1>2, <1>3 DEF Step

(* The refund rows.                                                        *)
LEMMA RefundWriters ==
    ASSUME NEW p \in Proc, Step(p)
    PROVE  \/ UNCHANGED refund
           \/ CreateLate(p) \/ CreateRefund(p) \/ ExecuteOffline(p) \/ SendToGateway(p)
           \/ SettleSucceeded(p) \/ FlagManual(p) \/ SettleMark(p) \/ RejectMark(p)
           \/ ApproveMark(p)
<1>1. CASE SettlementStep(p)
  BY <1>1 DEF SettlementStep, ReceiveCallback, ReadPending, InquireSettled, InquireUnsettled,
     InquiryFails, ExpireUnpaid, IgnoreOutcome, DivertLateSuccess, SettlePayment,
     OnPaidNotAwaiting, PromoteOrders, PromoteGroup, ClaimFailure, RestockNext, ParkOrders,
     RecordLateSuccess, ReserveLate, docs, world
<1>2. CASE RefundStep(p)
  BY <1>2 DEF RefundStep, RequestRefund, RoutedRequest, RefuseRequest, ReserveHeadroom,
     GatewayAccepts, GatewayTimesOut, GatewayRejects, ReleaseHeadroom, ReadTargets,
     ApplyConsequence, ReadSiblings, RecomputeGroup, ReadReview, SettleReserve, RejectRelease,
     PickStuck, MatchChild, NoChildFound, RefundInquiryFails, docs, world
<1>3. CASE LifecycleStep(p)
  BY <1>3 DEF LifecycleStep, ReadCancel, ExpirePending, CancelNext, CancelGroup, ReadUpdate,
     CancelOne, WriteStatus, CheckConsumed, SyncFails, DeductInventory, docs, world
<1> QED BY <1>1, <1>2, <1>3 DEF Step

(* The gateway.                                                            *)
LEMMA GatewayWriters ==
    ASSUME NEW p \in Proc, Step(p)
    PROVE  /\ UNCHANGED <<attempt, expired, abandoned, aged>>
           /\ \/ UNCHANGED <<moved, denied>>
              \/ (GatewayAccepts(p) \/ GatewayTimesOut(p)) /\ UNCHANGED denied
              \/ GatewayRejects(p) /\ UNCHANGED moved
<1>1. CASE SettlementStep(p)
  BY <1>1 DEF SettlementStep, ReceiveCallback, ReadPending, InquireSettled, InquireUnsettled,
     InquiryFails, ExpireUnpaid, IgnoreOutcome, DivertLateSuccess, SettlePayment,
     OnPaidNotAwaiting, PromoteOrders, PromoteGroup, ClaimFailure, RestockNext, ParkOrders,
     RecordLateSuccess, ReserveLate, CreateLate, docs, world
<1>2. CASE RefundStep(p)
  <2>1. CASE GatewayAccepts(p) \/ GatewayTimesOut(p) \/ GatewayRejects(p)
    BY <2>1 DEF GatewayAccepts, GatewayTimesOut, GatewayRejects
  <2> QED
    BY <1>2, <2>1 DEF RefundStep, RequestRefund, RoutedRequest, RefuseRequest, ReserveHeadroom,
       CreateRefund, ExecuteOffline, SendToGateway, SettleSucceeded,
       ReleaseHeadroom, FlagManual, ReadTargets, ApplyConsequence, ReadSiblings, RecomputeGroup,
       ReadReview, SettleReserve, SettleMark, RejectRelease, RejectMark, ApproveMark, PickStuck,
       MatchChild, NoChildFound, RefundInquiryFails, docs, world
<1>3. CASE LifecycleStep(p)
  BY <1>3 DEF LifecycleStep, ReadCancel, ExpirePending, CancelNext, CancelGroup, ReadUpdate,
     CancelOne, WriteStatus, CheckConsumed, SyncFails, DeductInventory, docs, world
<1> QED BY <1>1, <1>2, <1>3 DEF Step

-------------------------------------------------------------------------------
(* Orders.  Eight kinds of step write one; any other leaves them alone.    *)
LEMMA OrderWriters ==
    ASSUME NEW p \in Proc, Step(p)
    PROVE  \/ UNCHANGED order
           \/ PromoteOrders(p) \/ ParkOrders(p) \/ RestockNext(p)
           \/ ApplyConsequence(p)
           \/ CancelNext(p) \/ CancelOne(p) \/ WriteStatus(p) \/ DeductInventory(p)
<1>1. CASE SettlementStep(p)
  BY <1>1 DEF SettlementStep, ReceiveCallback, ReadPending, InquireSettled, InquireUnsettled,
     InquiryFails, ExpireUnpaid, IgnoreOutcome, DivertLateSuccess, SettlePayment,
     OnPaidNotAwaiting, PromoteGroup, ClaimFailure, RecordLateSuccess, ReserveLate, CreateLate, docs
<1>2. CASE RefundStep(p)
  BY <1>2 DEF RefundStep, RequestRefund, RoutedRequest, RefuseRequest, ReserveHeadroom,
     CreateRefund, ExecuteOffline, SendToGateway, GatewayAccepts, GatewayTimesOut, GatewayRejects,
     SettleSucceeded, ReleaseHeadroom, FlagManual, ReadTargets, ReadSiblings, RecomputeGroup,
     ReadReview, SettleReserve, SettleMark, RejectRelease, RejectMark, ApproveMark, PickStuck,
     MatchChild, NoChildFound, RefundInquiryFails, docs
<1>3. CASE LifecycleStep(p)
  BY <1>3 DEF LifecycleStep, ReadCancel, ExpirePending, CancelGroup, ReadUpdate, CheckConsumed,
     SyncFails, docs
<1> QED BY <1>1, <1>2, <1>3 DEF Step

LEMMA OrdersTyped ==
    ASSUME TypeOK, NEW o \in Orders
    PROVE  order \in [Orders -> OrderDoc] /\ order[o] \in OrderDoc
BY DEF TypeOK, DocsOK

LEMMA OneWritten ==
    ASSUME TypeOK, NEW o \in Orders, NEW t, NEW doc, order' = [order EXCEPT ![t] = doc]
    PROVE  order'[o] = IF o = t THEN doc ELSE order[o]
BY OrdersTyped

LEMMA RestoreKeeps ==
    ASSUME NEW doc \in OrderDoc
    PROVE  RestoreStock(doc).status = doc.status /\ RestoreStock(doc).consumed = doc.consumed
BY DEF RestoreStock, OrderDoc

LEMMA StatusSet ==
    ASSUME NEW doc \in OrderDoc, NEW s \in OrderStatuses
    PROVE  /\ [doc EXCEPT !.status = s] \in OrderDoc
           /\ [doc EXCEPT !.status = s].status = s
           /\ [doc EXCEPT !.status = s].consumed = doc.consumed
           /\ [doc EXCEPT !.status = s].restored = doc.restored
BY DEF OrderDoc

LEMMA CancelledDoc ==
    ASSUME NEW doc \in OrderDoc
    PROVE  LET new == RestoreStock([doc EXCEPT !.status = "CANCELLED"])
           IN  new.status = "CANCELLED" /\ new.consumed = doc.consumed
<1>1. "CANCELLED" \in OrderStatuses BY DEF OrderStatuses
<1> QED BY <1>1, StatusSet, RestoreKeeps

AfterRefund == {"CANCELLED", "REFUNDED", "PARTIALLY_REFUNDED"}

(* What a step may make of the status of an order, and where it comes from *)
StatusMove(p, o) ==
    \/ order'[o].status = order[o].status
    \/ /\ pc[p] = "onPaid" /\ order[o].status = "AWAITING_PAYMENT"
       /\ order'[o].status = "PENDING"
    \/ /\ pc[p] = "restock" /\ order[o].status = "AWAITING_PAYMENT"
       /\ order'[o].status = "PAYMENT_FAILED"
    \/ /\ pc[p] \in {"applyTargets", "cancelOrders", "cancelOne"}
       /\ order'[o].status \in AfterRefund
    \/ pc[p] = "writeStatus" /\ loc[p].target = o /\ order'[o].status = loc[p].next

LEMMA AwaitingMoves ==
    ASSUME TypeOK, NEW o \in Orders, NEW s \in OrderStatuses, order' = AwaitingBecome(s)
    PROVE  /\ order[o].status # "AWAITING_PAYMENT" => order'[o] = order[o]
           /\ order[o].status = "AWAITING_PAYMENT" =>
                 order'[o].status = s /\ order'[o].restored = order[o].restored
           /\ order'[o].consumed = order[o].consumed
<1>1. order[o] \in OrderDoc BY OrdersTyped
<1>2. order'[o] = IF order[o].status = "AWAITING_PAYMENT"
                  THEN [order[o] EXCEPT !.status = s] ELSE order[o]
  BY DEF AwaitingBecome
<1> QED BY <1>1, <1>2, StatusSet

LEMMA ConsequenceWrites ==
    ASSUME NEW doc \in OrderDoc, NEW was, NEW isLine \in BOOLEAN
    PROVE  LET new == ApplyTarget(doc, was, isLine)
           IN  /\ new.status = doc.status \/ new.status \in AfterRefund
               /\ new.consumed = doc.consumed
<1> DEFINE s == StatusAfterRefund(was, isLine)
<1>1. s \in AfterRefund /\ s \in OrderStatuses
  BY DEF StatusAfterRefund, AfterRefund, OrderStatuses
<1> HIDE DEF s
<1>2. /\ [doc EXCEPT !.status = s] \in OrderDoc
      /\ [doc EXCEPT !.status = s].status = s
      /\ [doc EXCEPT !.status = s].consumed = doc.consumed
  BY <1>1, StatusSet
<1>3. ApplyTarget(doc, was, isLine) \in
         {doc, [doc EXCEPT !.status = s], RestoreStock([doc EXCEPT !.status = s])}
  BY DEF ApplyTarget, s
<1> QED BY <1>1, <1>2, <1>3, RestoreKeeps

LEMMA OrderMoves ==
    ASSUME TypeOK, NEW p \in Proc, NEW o \in Orders, Step(p)
    PROVE  /\ StatusMove(p, o)
           /\ \/ order'[o].consumed = order[o].consumed
              \/ /\ pc[p] = "deduct" /\ loc[p].target = o
                 /\ order'[o].consumed = order[o].consumed + 1
<1>a. order[o] \in OrderDoc BY OrdersTyped
<1>b. "CANCELLED" \in OrderStatuses /\ "PENDING" \in OrderStatuses /\ "PAYMENT_FAILED" \in OrderStatuses
  BY DEF OrderStatuses
<1>1. CASE UNCHANGED order BY <1>1 DEF StatusMove
<1>2. CASE PromoteOrders(p)
  BY <1>2, <1>b, AwaitingMoves DEF PromoteOrders, StatusMove
<1>3. CASE ParkOrders(p)
  BY <1>3, <1>b, AwaitingMoves DEF ParkOrders, StatusMove
<1>4. CASE RestockNext(p)
  <2>1. PICK t \in Orders : order' = [order EXCEPT ![t] = RestoreStock(order[t])]
    BY <1>4 DEF RestockNext
  <2> QED BY <1>a, <2>1, OneWritten, RestoreKeeps DEF StatusMove
<1>5. CASE ApplyConsequence(p)
  <2>1. PICK t \in Orders :
          order' = [order EXCEPT ![t] = ApplyTarget(order[t], loc[p].view[t], Row(p).lines # NoLines)]
    BY <1>5 DEF ApplyConsequence
  <2>2. pc[p] = "applyTargets" BY <1>5 DEF ApplyConsequence
  <2>3. order'[o] = IF o = t THEN ApplyTarget(order[t], loc[p].view[t], Row(p).lines # NoLines)
                    ELSE order[o]
    BY <2>1, OneWritten
  <2>4. CASE o = t
    <3>1. LET new == ApplyTarget(order[o], loc[p].view[o], Row(p).lines # NoLines)
          IN  /\ new.status = order[o].status \/ new.status \in AfterRefund
              /\ new.consumed = order[o].consumed
      BY <1>a, ConsequenceWrites
    <3> QED BY <2>2, <2>3, <2>4, <3>1 DEF StatusMove
  <2> QED BY <2>3, <2>4 DEF StatusMove
<1>6. CASE CancelNext(p)
  <2>1. PICK t \in Orders :
          order' = [order EXCEPT ![t] = RestoreStock([order[t] EXCEPT !.status = "CANCELLED"])]
    BY <1>6 DEF CancelNext
  <2>2. pc[p] = "cancelOrders" BY <1>6 DEF CancelNext
  <2> QED BY <1>a, <2>1, <2>2, OneWritten, CancelledDoc DEF StatusMove, AfterRefund
<1>7. CASE CancelOne(p)
  <2> DEFINE t == loc[p].target
             doc == RestoreStock(IF loc[p].direct THEN [order[t] EXCEPT !.status = "CANCELLED"]
                                 ELSE order[t])
  <2>1. order' = [order EXCEPT ![t] = doc] /\ pc[p] = "cancelOne" BY <1>7 DEF CancelOne
  <2>2. t = o => /\ doc.status \in {"CANCELLED", order[o].status}
                 /\ doc.consumed = order[o].consumed
    BY <1>a, CancelledDoc, RestoreKeeps
  <2> HIDE DEF doc
  <2> QED BY <2>1, <2>2, OneWritten DEF StatusMove, AfterRefund
<1>8. CASE WriteStatus(p)
  <2> DEFINE t == loc[p].target
             doc == IF loc[p].direct
                    THEN [order[t] EXCEPT
                            !.status = loc[p].next,
                            !.delivered = IF loc[p].next = "DELIVERED" THEN "recent" ELSE @]
                    ELSE order[t]
  <2>1. order' = [order EXCEPT ![t] = doc] /\ pc[p] = "writeStatus" BY <1>8 DEF WriteStatus
  <2>2. t = o => /\ doc.status \in {order[o].status, loc[p].next}
                 /\ doc.consumed = order[o].consumed
    BY <1>a DEF OrderDoc
  <2> HIDE DEF doc
  <2> QED BY <2>1, <2>2, OneWritten DEF StatusMove
<1>9. CASE DeductInventory(p)
  <2> DEFINE t == loc[p].target
             doc == [order[t] EXCEPT !.consumed = @ + 1]
  <2>1. order' = [order EXCEPT ![t] = doc] /\ pc[p] = "deduct" BY <1>9 DEF DeductInventory
  <2>2. t = o => doc.status = order[o].status /\ doc.consumed = order[o].consumed + 1
    BY <1>a DEF OrderDoc
  <2> HIDE DEF doc
  <2> QED BY <2>1, <2>2, OneWritten DEF StatusMove
<1> QED BY <1>1, <1>2, <1>3, <1>4, <1>5, <1>6, <1>7, <1>8, <1>9, OrderWriters

-------------------------------------------------------------------------------
(* The environment moves time and the customer's attempts, and a settled   *)
(* attempt stays as it is.                                                 *)
SameOrder(o) == /\ order'[o].status = order[o].status
                /\ order'[o].restored = order[o].restored
                /\ order'[o].consumed = order[o].consumed

LEMMA EnvironmentFrame ==
    ASSUME TypeOK, Environment \/ UNCHANGED vars
    PROVE  /\ UNCHANGED <<payment, group, cart, refund, moved, denied, pc, loc>>
           /\ \A o \in Orders : SameOrder(o)
<1>1. /\ UNCHANGED <<payment, group, cart, refund, moved, denied, pc, loc>>
      /\ \/ UNCHANGED order
         \/ \E o \in Orders : order' = [order EXCEPT ![o].delivered = "old"]
  <2>1. CASE UNCHANGED <<docs, moved, denied, pc, loc>> BY <2>1 DEF docs
  <2>2. ASSUME NEW o \in Orders, DisputeWindowCloses(o)
        PROVE  /\ UNCHANGED <<payment, group, cart, refund, moved, denied, pc, loc>>
               /\ order' = [order EXCEPT ![o].delivered = "old"]
    BY <2>2 DEF DisputeWindowCloses, world
  <2>3. CASE UNCHANGED vars BY <2>3 DEF vars
  <2> QED
    BY <2>1, <2>2, <2>3 DEF Environment, StartAttempt, ResolveAttempt, WindowPasses,
       DayPasses, RefundAges
<1>2. ASSUME NEW t \in Orders, order' = [order EXCEPT ![t].delivered = "old"],
             NEW o \in Orders
      PROVE  SameOrder(o)
  BY <1>2, OrdersTyped DEF SameOrder, OrderDoc
<1>3. CASE UNCHANGED order BY <1>1, <1>3 DEF SameOrder
<1> QED BY <1>1, <1>2, <1>3

LEMMA SettledStays ==
    ASSUME TypeOK, [Next]_vars, NEW t \in Txns, attempt[t] \in {"success", "declined"}
    PROVE  attempt'[t] = attempt[t]
<1>1. attempt \in [Txns -> {"none", "pending", "success", "declined"}] BY DEF TypeOK, WorldOK
<1>2. ASSUME NEW p \in Proc, Step(p) PROVE attempt'[t] = attempt[t]
  BY <1>2, GatewayWriters
<1>3. ASSUME NEW u \in Txns, StartAttempt(u) PROVE attempt'[t] = attempt[t]
  BY <1>1, <1>3 DEF StartAttempt
<1>4. ASSUME NEW u \in Txns, ResolveAttempt(u) PROVE attempt'[t] = attempt[t]
  BY <1>1, <1>4 DEF ResolveAttempt
<1>5. CASE UNCHANGED attempt BY <1>5
<1> QED
  BY <1>2, <1>3, <1>4, <1>5
  DEF Next, Environment, WindowPasses, DayPasses, RefundAges, DisputeWindowCloses, docs, world, vars

-------------------------------------------------------------------------------
(* Fulfilment.  UnpaidInv adds what the handlers between settling and      *)
(* promoting rely on: they hold a transaction the gateway settled.         *)
PaidFor == \E t \in Txns : attempt[t] = "success"

Promoting(p) == /\ pc[p] \in {"onPaid", "promoteGroup"} => PaidFor
                /\ pc[p] = "apply" => loc[p].tx \in Txns
                /\ pc[p] = "writeStatus" => loc[p].next # "PENDING"

UnpaidInv == /\ cart = "empty" => PaidFor
             /\ \A o \in Orders : order[o].status = "PENDING" => PaidFor
             /\ \A p \in Proc : Promoting(p)

LEMMA PaidForStays == ASSUME TypeOK, [Next]_vars, PaidFor PROVE PaidFor'
BY SettledStays DEF PaidFor

LEMMA TakesTxn ==
    ASSUME TypeOK, NEW p \in Proc, Step(p), pc'[p] = "apply"
    PROVE  \E t \in Txns : loc'[p] = [loc[p] EXCEPT !.tx = t]
                           \/ loc'[p] = [loc[p] EXCEPT !.seen = payment.status,
                                                       !.seenTxn = payment.txn, !.tx = t]
<1>1. ControlOK BY DEF TypeOK
<1> QED BY <1>1, Arrivals, Lands DEF ReceiveCallback, InquireSettled

(* What updateOrderStatus takes along when it is accepted. *)
LEMMA UpdateHeld ==
    ASSUME TypeOK, NEW p \in Proc, Step(p), pc'[p] \in {"writeStatus", "cancelOne"}
    PROVE  /\ p \in Staff
           /\ loc'[p].target \in Orders
           /\ loc'[p].next \in StaffTargets
           /\ MayUpdate(order[loc'[p].target].status, loc'[p].next)
           /\ pc'[p] = "writeStatus" => loc'[p].next # "CANCELLED"
           /\ UNCHANGED <<docs, world>>
<1>1. ControlOK /\ loc[p] \in Locals BY LocalsTyped DEF TypeOK
<1>2. PICK o \in Orders, s \in StaffTargets, direct \in BOOLEAN : ReadUpdate(p, o, s, direct)
  BY <1>1, Arrivals
<1> DEFINE held == [loc[p] EXCEPT !.target = o, !.next = s, !.staff = TRUE, !.direct = direct]
<1>3. held.target = o /\ held.next = s BY <1>1 DEF Locals
<1>4. loc'[p] = held BY <1>1, <1>2, Lands DEF ReadUpdate
<1> HIDE DEF held
<1>5. pc'[p] = "writeStatus" => s # "CANCELLED"
  BY <1>1, <1>2, Lands DEF ReadUpdate
<1> QED BY <1>2, <1>3, <1>4, <1>5 DEF ReadUpdate

LEMMA PromotingKept ==
    ASSUME TypeOK, UnpaidInv, "PENDING" \notin StaffTargets,
           NEW p \in Proc, Step(p), NEW q \in Proc
    PROVE  Promoting(q)'
<1>1. ControlOK /\ loc[p] \in Locals BY LocalsTyped DEF TypeOK
<1>2. Next BY DEF Next
<1>3. PaidFor => PaidFor' BY <1>2, PaidForStays
<1>4. CASE q # p BY <1>1, <1>3, <1>4, OthersStay DEF UnpaidInv, Promoting
<1>5. CASE q = p
  <2>1. pc'[p] = "onPaid" => PaidFor
    BY <1>1, Arrivals, Lands DEF SettlePayment, Succeeded, PaidFor, UnpaidInv, Promoting
  <2>2. pc'[p] = "promoteGroup" => PaidFor
    BY <1>1, Arrivals DEF PromoteOrders, UnpaidInv, Promoting
  <2>3. pc'[p] = "apply" => loc'[p].tx \in Txns
    <3> SUFFICES ASSUME pc'[p] = "apply" PROVE loc'[p].tx \in Txns OBVIOUS
    <3>1. PICK t \in Txns : loc'[p] = [loc[p] EXCEPT !.tx = t]
                             \/ loc'[p] = [loc[p] EXCEPT !.seen = payment.status,
                                                         !.seenTxn = payment.txn, !.tx = t]
      BY TakesTxn
    <3> QED BY <1>1, <3>1 DEF Locals
  <2>4. pc'[p] = "writeStatus" => loc'[p].next # "PENDING"
    BY <1>1, UpdateHeld
  <2> QED BY <1>3, <1>5, <2>1, <2>2, <2>3, <2>4 DEF Promoting
<1> QED BY <1>4, <1>5

LEMMA UnpaidStep ==
    ASSUME TypeOK, UnpaidInv, "PENDING" \notin StaffTargets, NEW p \in Proc, Step(p)
    PROVE  UnpaidInv'
<1>1. Next BY DEF Next
<1>2. PaidFor => PaidFor' BY <1>1, PaidForStays
<1>3. cart' = "empty" => PaidFor'
  BY <1>2, CartWriters DEF PromoteGroup, UnpaidInv, Promoting
<1>4. ASSUME NEW o \in Orders, order'[o].status = "PENDING" PROVE PaidFor'
  BY <1>2, <1>4, OrderMoves DEF StatusMove, AfterRefund, UnpaidInv, Promoting
<1> QED BY <1>3, <1>4, PromotingKept DEF UnpaidInv

(* The cart is emptied and orders are promoted only once the gateway has   *)
(* captured the money, however webhook, sweeper, payer, staff, reviewers   *)
(* and crons interleave.  Cash orders start promoted, and staff can put an *)
(* order to PENDING by hand, so the theorem is about the other groups.     *)
THEOREM UnpaidCorrect ==
    ASSUME ~IsCod, "PENDING" \notin StaffTargets
    PROVE  Spec => []NothingFulfilledUnpaid
<1>1. Init => UnpaidInv
  <2> SUFFICES ASSUME Init PROVE UnpaidInv OBVIOUS
  <2>1. \A p \in Proc : Promoting(p) BY DEF Init, Promoting
  <2>2. CASE InitiallyPaid
    <3>1. PaidFor BY <2>2 DEF Init, PaidFor
    <3> QED BY <2>1, <3>1 DEF UnpaidInv
  <2>3. CASE ~InitiallyPaid
    BY <2>1, <2>3 DEF Init, InitialStatus, UnpaidInv
  <2> QED BY <2>2, <2>3 DEF Init, MoneyAssumption
<1>2. TypeOK /\ UnpaidInv /\ [Next]_vars => UnpaidInv'
  <2> SUFFICES ASSUME TypeOK, UnpaidInv, [Next]_vars PROVE UnpaidInv' OBVIOUS
  <2>1. ASSUME NEW p \in Proc, Step(p) PROVE UnpaidInv'
    BY <2>1, UnpaidStep
  <2>2. CASE Environment \/ UNCHANGED vars
    BY <2>2, EnvironmentFrame, PaidForStays DEF SameOrder, UnpaidInv, Promoting
  <2> QED BY <2>1, <2>2 DEF Next
<1>3. UnpaidInv => NothingFulfilledUnpaid BY DEF UnpaidInv, NothingFulfilledUnpaid, PaidFor
<1> QED BY <1>1, <1>2, <1>3, TypeCorrect, PTL DEF Spec

-------------------------------------------------------------------------------
(* Staff.  From reading an order to writing it, a status update keeps its  *)
(* target; only staff are at these labels.                                 *)
Updating == {"writeStatus", "cancelOne", "sync", "deduct"}

StaffInv == \A p \in Proc : pc[p] \in Updating => p \in Staff /\ loc[p].target \in Orders

(* No two of them update one order at a time.                              *)
UpdatesApart == \A p, q \in Proc :
    /\ pc[p] \in Updating /\ pc[q] \in Updating
    /\ loc[p].target = loc[q].target
    => p = q

LEMMA StaffKept ==
    ASSUME TypeOK, StaffInv, NEW p \in Proc, Step(p), NEW q \in Proc, pc'[q] \in Updating
    PROVE  q \in Staff /\ loc'[q].target \in Orders
<1>1. ControlOK BY DEF TypeOK
<1>2. CASE q # p BY <1>1, <1>2, OthersStay DEF StaffInv
<1>3. CASE q = p
  <2>1. CASE pc'[p] \in {"writeStatus", "cancelOne"} BY <1>3, <2>1, UpdateHeld
  <2>2. CASE pc'[p] = "sync"
    BY <1>1, <1>3, <2>2, Arrivals DEF WriteStatus, StaffInv, Updating
  <2>3. CASE pc'[p] = "deduct"
    BY <1>1, <1>3, <2>3, Arrivals DEF CheckConsumed, StaffInv, Updating
  <2> QED BY <1>3, <2>1, <2>2, <2>3 DEF Updating
<1> QED BY <1>2, <1>3

DeductedInv ==
    /\ StaffInv
    /\ DeductedOnce
    /\ \A p \in Proc : pc[p] = "deduct" => order[loc[p].target].consumed = 0

LEMMA DeductedStep ==
    ASSUME TypeOK, DeductedInv, UpdatesApart, NEW p \in Proc, Step(p)
    PROVE  DeductedInv'
<1>1. ControlOK BY DEF TypeOK
<1>2. StaffInv' BY StaffKept DEF StaffInv, DeductedInv
<1>3. ASSUME NEW o \in Orders PROVE order'[o].consumed <= 1
  <2>1. order[o].consumed \in Nat /\ order[o].consumed <= 1
    BY OrdersTyped DEF OrderDoc, DeductedInv, DeductedOnce
  <2> QED BY <2>1, OrderMoves DEF DeductedInv
<1>4. ASSUME NEW q \in Proc, pc'[q] = "deduct" PROVE order'[loc'[q].target].consumed = 0
  <2>1. CASE q = p
    <3>1. CheckConsumed(p) BY <1>1, <1>4, <2>1, Arrivals
    <3>2. order[loc[p].target].consumed = 0 BY <1>1, <1>4, <2>1, <3>1, Lands DEF CheckConsumed
    <3> QED BY <2>1, <3>1, <3>2 DEF CheckConsumed, docs
  <2>2. CASE q # p
    <3>1. pc[q] = "deduct" /\ loc'[q] = loc[q] BY <1>1, <1>4, <2>2, OthersStay
    <3>2. ~(pc[p] = "deduct" /\ loc[p].target = loc[q].target) /\ loc[q].target \in Orders
      BY <2>2, <3>1 DEF UpdatesApart, DeductedInv, StaffInv, Updating
    <3>3. order'[loc[q].target].consumed = order[loc[q].target].consumed
      BY <3>2, OrderMoves
    <3> QED BY <3>1, <3>3 DEF DeductedInv
  <2> QED BY <2>1, <2>2
<1> QED BY <1>2, <1>3, <1>4 DEF DeductedInv, DeductedOnce

(* As long as no two updates of one order overlap, its ingredients leave   *)
(* the kitchen's stock once, whatever customers, reviewers and crons do to *)
(* the order in the meantime (deductInventoryForDeliveredOrder).           *)
THEOREM DeductedCorrect == Spec /\ []UpdatesApart => []DeductedOnce
<1>1. Init => DeductedInv
  BY DEF Init, DeductedInv, DeductedOnce, StaffInv, Updating
<1>2. TypeOK /\ DeductedInv /\ UpdatesApart /\ [Next]_vars => DeductedInv'
  <2> SUFFICES ASSUME TypeOK, DeductedInv, UpdatesApart, [Next]_vars PROVE DeductedInv' OBVIOUS
  <2>1. ASSUME NEW p \in Proc, Step(p) PROVE DeductedInv'
    BY <2>1, DeductedStep
  <2>2. CASE Environment \/ UNCHANGED vars
    BY <2>2, EnvironmentFrame
    DEF SameOrder, DeductedInv, DeductedOnce, StaffInv, Updating
  <2> QED BY <2>1, <2>2 DEF Next
<1>3. DeductedInv => DeductedOnce BY DEF DeductedInv
<1> QED BY <1>1, <1>2, <1>3, TypeCorrect, PTL DEF Spec

-------------------------------------------------------------------------------
(* The kitchen's progression.                                              *)
LEMMA Ranks ==
    /\ Rank("PENDING") = 1
    /\ \A s \in Ranked : Rank(s) \in 1..6
    /\ "PENDING" \in Ranked /\ "AWAITING_PAYMENT" \notin Ranked
    /\ \A s \in AfterRefund \cup {"PAYMENT_FAILED"} : s \notin Ranked
<1>1. \A i \in 1..6 : Progression[i] = "PENDING" <=> i = 1 BY DEF Progression
<1>2. Rank("PENDING") = 1 BY <1>1 DEF Rank
<1>3. \A s \in Ranked : Rank(s) \in 1..6 BY DEF Rank, Ranked
<1>4. "PENDING" \in Ranked BY <1>1 DEF Ranked
<1>5. "AWAITING_PAYMENT" \notin Ranked BY DEF Ranked, Progression
<1>6. \A s \in AfterRefund \cup {"PAYMENT_FAILED"} : s \notin Ranked
  BY DEF Ranked, Progression, AfterRefund
<1> QED BY <1>2, <1>3, <1>4, <1>5, <1>6

(* Leaving a status that is not ranked, or entering one, takes nothing     *)
(* back.                                                                   *)
LEMMA Forward ==
    ASSUME NEW from, NEW to,
           \/ from = to
           \/ from \notin Ranked
           \/ to \in AfterRefund \cup {"PAYMENT_FAILED"}
    PROVE  ~Reverts(from, to)
<1>1. CASE from = to /\ to \in Ranked BY <1>1, Ranks DEF Reverts
<1> QED BY <1>1, Ranks DEF Reverts

ForwardInv ==
    /\ StaffInv
    /\ \A p \in Proc : pc[p] = "writeStatus" =>
          ~Reverts(order[loc[p].target].status, loc[p].next)

LEMMA UpdateStillForward ==
    ASSUME TypeOK, ForwardInv, UpdatesApart, NEW p \in Proc, Step(p),
           NEW q \in Proc, pc'[q] = "writeStatus"
    PROVE  ~Reverts(order'[loc'[q].target].status, loc'[q].next)
<1>1. ControlOK BY DEF TypeOK
<1>2. CASE q = p
  <2>1. /\ MayUpdate(order[loc'[p].target].status, loc'[p].next)
        /\ loc'[p].next # "CANCELLED"
        /\ UNCHANGED order
    BY <1>2, UpdateHeld DEF docs
  <2> QED BY <1>2, <2>1 DEF MayUpdate
<1>3. CASE q # p
  <2> DEFINE o == loc[q].target
             s == loc[q].next
  <2>1. pc[q] = "writeStatus" /\ loc'[q] = loc[q] BY <1>1, <1>3, OthersStay
  <2>2. ~(pc[p] = "writeStatus" /\ loc[p].target = o) /\ o \in Orders
    BY <1>3, <2>1 DEF UpdatesApart, ForwardInv, StaffInv, Updating
  <2>3. \/ order'[o].status = order[o].status
        \/ order'[o].status \in AfterRefund \cup {"PENDING", "PAYMENT_FAILED"}
    BY <2>2, OrderMoves DEF StatusMove
  <2>4. ~Reverts(order[o].status, s) BY <2>1 DEF ForwardInv
  <2>5. \A t \in AfterRefund \cup {"PENDING", "PAYMENT_FAILED"} : ~Reverts(t, s)
    BY Ranks DEF Reverts
  <2> HIDE DEF o, s
  <2>6. ~Reverts(order'[o].status, s) BY <2>3, <2>4, <2>5
  <2> QED BY <2>1, <2>6 DEF o, s
<1> QED BY <1>2, <1>3

(* As long as no two updates of one order overlap, no write takes it back  *)
(* to an earlier kitchen status, although the check and the write are      *)
(* apart and refunds, cancellations and settlements write the same order   *)
(* in between (updateOrderStatus).                                         *)
THEOREM ForwardCorrect == Spec /\ []UpdatesApart => KitchenNeverReverts
<1>1. Init => ForwardInv
  BY DEF Init, ForwardInv, StaffInv, Updating
<1>2. TypeOK /\ ForwardInv /\ UpdatesApart /\ [Next]_vars => ForwardInv'
  <2> SUFFICES ASSUME TypeOK, ForwardInv, UpdatesApart, [Next]_vars PROVE ForwardInv' OBVIOUS
  <2>1. ASSUME NEW p \in Proc, Step(p) PROVE ForwardInv'
    BY <2>1, StaffKept, UpdateStillForward DEF ForwardInv, StaffInv
  <2>2. CASE Environment \/ UNCHANGED vars
    BY <2>2, EnvironmentFrame DEF SameOrder, ForwardInv, StaffInv, Updating
  <2> QED BY <2>1, <2>2 DEF Next
<1>3. TypeOK /\ ForwardInv /\ [Next]_vars
         => \A o \in Orders : ~Reverts(order[o].status, order'[o].status)
  <2> SUFFICES ASSUME TypeOK, ForwardInv, [Next]_vars, NEW o \in Orders
               PROVE  ~Reverts(order[o].status, order'[o].status)
    OBVIOUS
  <2>1. ASSUME NEW p \in Proc, Step(p) PROVE ~Reverts(order[o].status, order'[o].status)
    <3>1. StatusMove(p, o) BY <2>1, OrderMoves
    <3>2. CASE pc[p] = "writeStatus" /\ loc[p].target = o /\ order'[o].status = loc[p].next
      BY <3>2 DEF ForwardInv
    <3> QED BY <3>1, <3>2, Forward, Ranks DEF StatusMove
  <2>2. CASE Environment \/ UNCHANGED vars
    BY <2>2, EnvironmentFrame, Forward DEF SameOrder
  <2> QED BY <2>1, <2>2 DEF Next
<1> QED BY <1>1, <1>2, <1>3, TypeCorrect, PTL DEF Spec, KitchenNeverReverts

-------------------------------------------------------------------------------
(* Refund rows.  A handler writes the status (and the claim) of the row it *)
(* holds, or a new row.                                                    *)
StatusWrites ==
    [ l \in {"exec", "settle", "flagManual", "settleMark", "rejectMark", "approveMark"} |->
        CASE l = "exec"        -> {"MANUAL_REQUIRED", "SUCCEEDED", "PROCESSING"}
          [] l = "settle"      -> {"SUCCEEDED"}
          [] l = "flagManual"  -> {"MANUAL_REQUIRED"}
          [] l = "settleMark"  -> {"SUCCEEDED"}
          [] l = "rejectMark"  -> {"REJECTED"}
          [] l = "approveMark" -> {"APPROVED"} ]

SameTerms(r) == /\ refund'[r].target = refund[r].target
                /\ refund'[r].lines = refund[r].lines
                /\ refund'[r].amount = refund[r].amount

RowCreated(p, r) ==
    /\ refund[r].status = "none"
    /\ \/ pc[p] = "lateCreate" /\ refund'[r].status = "APPROVED" /\ refund'[r].lines = NoLines
       \/ /\ pc[p] = "create"
          /\ refund'[r].status = IF loc[p].auto THEN "APPROVED" ELSE "REQUESTED"
          /\ refund'[r].lines = loc[p].lines
          /\ refund'[r].target = loc[p].target
    /\ pc'[p] = "exec" => loc'[p].rid = r
    /\ \A s \in Refunds : s # r => refund'[s] = refund[s]

RowMove(p, r) ==
    /\ r = loc[p].rid
    /\ pc[p] \in DOMAIN StatusWrites
    /\ refund'[r].status \in StatusWrites[pc[p]]
    /\ SameTerms(r)

LEMMA RowsTyped ==
    ASSUME TypeOK, NEW r \in Refunds
    PROVE  refund \in [Refunds -> RefundDoc] /\ refund[r] \in RefundDoc
BY DEF TypeOK, DocsOK

LEMMA RowSet ==
    ASSUME TypeOK, NEW p \in Proc, loc[p].rid \in Refunds, NEW s, SetRow(p, s), NEW r \in Refunds
    PROVE  /\ r # loc[p].rid => refund'[r] = refund[r]
           /\ r = loc[p].rid => refund'[r].status = s /\ SameTerms(r)
BY RowsTyped DEF SetRow, SameTerms, RefundDoc

LEMMA RowMoves ==
    ASSUME TypeOK, NEW p \in Proc, NEW r \in Refunds, Step(p)
    PROVE  refund'[r] = refund[r] \/ RowCreated(p, r) \/ RowMove(p, r)
<1>a. ControlOK /\ loc[p] \in Locals BY LocalsTyped DEF TypeOK
<1>b. pc[p] \in RowLabels => loc[p].rid \in Refunds BY <1>a DEF ControlOK
<1>0. CASE UNCHANGED refund BY <1>0
<1>1. CASE CreateLate(p)
  <2> DEFINE row == [status |-> "APPROVED", target |-> Whole, lines |-> NoLines,
                     amount |-> AmountPaid, delivered |-> TRUE, claim |-> NoChild]
  <2>1. PICK s \in Refunds : CreateRow(p, s, row)
                             /\ Hold(p, [loc[p] EXCEPT !.rid = s, !.applies = FALSE])
    BY <1>1 DEF CreateLate
  <2>2. row.status = "APPROVED" /\ row.lines = NoLines OBVIOUS
  <2>3. loc'[p].rid = s BY <1>a, <2>1, Lands DEF Locals
  <2> HIDE DEF row
  <2>4. CASE r # s BY <2>1, <2>4, RowsTyped DEF CreateRow
  <2>5. CASE r = s
    BY <1>1, <2>1, <2>2, <2>3, <2>5, RowsTyped DEF CreateRow, CreateLate, RowCreated
  <2> QED BY <2>4, <2>5
<1>2. CASE CreateRefund(p)
  <2> DEFINE row == [status |-> IF loc[p].auto THEN "APPROVED" ELSE "REQUESTED",
                     target |-> loc[p].target, lines |-> loc[p].lines,
                     amount |-> loc[p].amount, delivered |-> loc[p].delivered,
                     claim |-> NoChild]
  <2>1. PICK s \in Refunds :
          /\ CreateRow(p, s, row)
          /\ IF loc[p].auto
             THEN Goto(p, "exec") /\ Hold(p, [loc[p] EXCEPT !.rid = s, !.applies = TRUE])
             ELSE Finish(p)
    BY <1>2 DEF CreateRefund
  <2>2. /\ row.status = IF loc[p].auto THEN "APPROVED" ELSE "REQUESTED"
        /\ row.lines = loc[p].lines /\ row.target = loc[p].target
    OBVIOUS
  <2> HIDE DEF row
  <2>3. pc'[p] = "exec" => loc'[p].rid = s
    BY <1>a, <2>1, Lands DEF Locals
  <2>4. CASE r # s BY <2>1, <2>4, RowsTyped DEF CreateRow
  <2>5. CASE r = s
    BY <1>2, <2>1, <2>2, <2>3, <2>5, RowsTyped DEF CreateRow, CreateRefund, RowCreated
  <2> QED BY <2>4, <2>5
<1>3. CASE ExecuteOffline(p)
  BY <1>3, <1>b, RowSet DEF ExecuteOffline, RowMove, StatusWrites, RowLabels
<1>4. CASE SendToGateway(p)
  BY <1>4, <1>b, RowSet DEF SendToGateway, RowMove, StatusWrites, RowLabels
<1>5. CASE SettleSucceeded(p)
  <2>1. loc[p].rid \in Refunds /\ pc[p] = "settle"
    BY <1>5, <1>b DEF SettleSucceeded, RowLabels
  <2>2. refund' = [refund EXCEPT ![loc[p].rid] =
                     [refund[loc[p].rid] EXCEPT !.status = "SUCCEEDED", !.claim = loc[p].claim]]
    BY <1>5, <2>1, RowsTyped DEF SettleSucceeded
  <2>3. r # loc[p].rid => refund'[r] = refund[r] BY <2>2, RowsTyped
  <2>4. r = loc[p].rid => refund'[r].status = "SUCCEEDED" /\ SameTerms(r)
    BY <2>1, <2>2, RowsTyped DEF RefundDoc, SameTerms
  <2> QED BY <2>1, <2>3, <2>4 DEF RowMove, StatusWrites
<1>6. CASE FlagManual(p)
  BY <1>6, <1>b, RowSet DEF FlagManual, RowMove, StatusWrites, RowLabels
<1>7. CASE SettleMark(p)
  BY <1>7, <1>b, RowSet DEF SettleMark, RowMove, StatusWrites, RowLabels
<1>8. CASE RejectMark(p)
  BY <1>8, <1>b, RowSet DEF RejectMark, RowMove, StatusWrites, RowLabels
<1>9. CASE ApproveMark(p)
  BY <1>9, <1>b, RowSet DEF ApproveMark, RowMove, StatusWrites, RowLabels
<1> QED BY <1>0, <1>1, <1>2, <1>3, <1>4, <1>5, <1>6, <1>7, <1>8, <1>9, RefundWriters

(* A handler that has ended holds nothing. *)
LEMMA IdleArrivals ==
    ASSUME ControlOK, NEW p \in Proc, Step(p), pc'[p] = "idle"
    PROVE  \/ InquireUnsettled(p) \/ InquiryFails(p) \/ ExpireUnpaid(p) \/ IgnoreOutcome(p)
           \/ OnPaidNotAwaiting(p) \/ PromoteGroup(p) \/ ClaimFailure(p) \/ ParkOrders(p)
           \/ ReserveLate(p) \/ RefuseRequest(p) \/ ReserveHeadroom(p) \/ CreateRefund(p)
           \/ ExecuteOffline(p) \/ GatewayTimesOut(p) \/ SettleSucceeded(p) \/ FlagManual(p)
           \/ RecomputeGroup(p) \/ SettleReserve(p) \/ RejectMark(p) \/ RefundInquiryFails(p)
           \/ CancelGroup(p)
BY SettlementEdges, RefundEdges, LifecycleEdges
   DEF Edge, ReviewLabels, Step, SettlementStep, RefundStep, LifecycleStep

LEMMA IdleHoldsNothing ==
    ASSUME ControlOK, NEW p \in Proc, Step(p), pc'[p] = "idle"
    PROVE  loc'[p] = NoLocals
<1>1. CASE InquireUnsettled(p) \/ InquiryFails(p) \/ ExpireUnpaid(p) \/ IgnoreOutcome(p)
  BY <1>1, Lands DEF InquireUnsettled, InquiryFails, ExpireUnpaid, IgnoreOutcome
<1>2. CASE OnPaidNotAwaiting(p) \/ PromoteGroup(p) \/ ClaimFailure(p) \/ ParkOrders(p)
  BY <1>2, Lands DEF OnPaidNotAwaiting, PromoteGroup, ClaimFailure, ParkOrders
<1>3. CASE ReserveLate(p) \/ RefuseRequest(p) \/ ReserveHeadroom(p) \/ CreateRefund(p)
  BY <1>3, Lands DEF ReserveLate, RefuseRequest, ReserveHeadroom, CreateRefund
<1>4. CASE ExecuteOffline(p) \/ GatewayTimesOut(p) \/ SettleSucceeded(p) \/ FlagManual(p)
  BY <1>4, Lands DEF ExecuteOffline, GatewayTimesOut, SettleSucceeded, FlagManual
<1>5. CASE RecomputeGroup(p) \/ SettleReserve(p) \/ RejectMark(p) \/ RefundInquiryFails(p)
  BY <1>5, Lands DEF RecomputeGroup, SettleReserve, RejectMark, RefundInquiryFails
<1>6. CASE CancelGroup(p)
  BY <1>6, Lands DEF CancelGroup
<1> QED BY <1>1, <1>2, <1>3, <1>4, <1>5, <1>6, IdleArrivals

(* What a request for a refund takes along: from an admin, or from a       *)
(* cancellation, which never names a line.                                 *)
Requesting == {"reserve", "create"}

LEMMA RequestHeld ==
    ASSUME TypeOK, NEW p \in Proc, Step(p), pc'[p] \in Requesting
    PROVE  \/ pc[p] = "reserve" /\ loc'[p] = loc[p] /\ UNCHANGED refund
           \/ /\ UNCHANGED <<docs, world>>
              /\ pc[p] \in {"idle", "request"}
              /\ loc'[p].lines # NoLines => p \in Admins
              /\ \A l \in Named(loc'[p].lines) : ~LineTaken(loc'[p].target, l)
<1>a. ControlOK /\ loc[p] \in Locals BY LocalsTyped DEF TypeOK
<1>b. ASSUME NEW t, NEW l, NEW s, ReadRequest(p, t, l, s)
      PROVE  /\ loc'[p].target = t /\ loc'[p].lines = l
             /\ \A x \in Named(l) : ~LineTaken(t, x)
  <2> DEFINE held == [loc[p] EXCEPT !.target = t, !.lines = l, !.amount = AmountOf(t, l),
                                    !.auto = (Decision(t, l, s) = "auto"),
                                    !.delivered = \E o \in Covered(t) : order[o].delivered # "no"]
  <2>1. held.target = t /\ held.lines = l BY <1>a DEF Locals
  <2>2. loc'[p] = held BY <1>a, <1>b, Lands DEF ReadRequest
  <2> HIDE DEF held
  <2>3. loc'[p].target = t /\ loc'[p].lines = l BY <2>1, <2>2
  <2> QED BY <1>b, <2>3 DEF ReadRequest, RequestAllowed
<1>1. CASE RequestRefund(p)
  <2>1. PICK t, l : ReadRequest(p, t, l, TRUE) BY <1>1 DEF RequestRefund
  <2> QED BY <1>1, <1>b, <2>1 DEF RequestRefund
<1>2. CASE RoutedRequest(p)
  BY <1>2, <1>b DEF RoutedRequest
<1>3. CASE ReserveHeadroom(p)
  <2>1. CASE CanReserve(loc[p].amount) BY <1>3, <2>1 DEF ReserveHeadroom
  <2>2. CASE ~CanReserve(loc[p].amount) BY <1>3, <1>a, <2>2, Lands DEF ReserveHeadroom, Requesting
  <2> QED BY <2>1, <2>2
<1> QED BY <1>a, <1>1, <1>2, <1>3, Arrivals DEF Requesting

-------------------------------------------------------------------------------
(* Stock during checkout.  Without staff an order has one of four statuses *)
(* and a refund covers whole orders; where the attempts agree the group is *)
(* either sold or declined, never both.                                    *)
Declined == \E t \in Txns : attempt[t] = "declined"
Sold     == PaidFor \/ IsCod
CheckoutStatuses == {"AWAITING_PAYMENT", "PENDING", "PAYMENT_FAILED", "CANCELLED"}

CashInv == IsCod => ~payment.intention /\ \A t \in Txns : attempt[t] = "none"

CheckoutOrder(o) ==
    /\ order[o].status \in CheckoutStatuses
    /\ order[o].status = "PENDING" => Sold /\ ~order[o].restored
    /\ order[o].status = "AWAITING_PAYMENT" /\ order[o].restored => Declined

CheckoutStep(p) ==
    /\ pc[p] = "apply" => loc[p].tx \in Txns /\ attempt[loc[p].tx] \in {"success", "declined"}
    /\ pc[p] = "onPaid" => PaidFor
    /\ pc[p] \in {"onFailed", "restock"} => Declined
    /\ pc[p] \in Requesting => loc[p].lines = NoLines
    /\ pc[p] = "applyTargets" => \A o \in Orders : loc[p].view[o] \in CheckoutStatuses

StockInv == /\ CashInv
            /\ StaffInv
            /\ \A o \in Orders : CheckoutOrder(o)
            /\ \A r \in Refunds : refund[r].lines = NoLines
            /\ \A p \in Proc : CheckoutStep(p)

(* The attempts of the checkout agree: none succeeds beside a declined one *)
AttemptsAgree == ~(PaidFor /\ Declined)

LEMMA SoldOrDeclined == ASSUME AttemptsAgree, CashInv PROVE ~(Sold /\ Declined)
BY DEF AttemptsAgree, CashInv, Sold, Declined

LEMMA OutcomesStay ==
    ASSUME TypeOK, [Next]_vars
    PROVE  (PaidFor => PaidFor') /\ (Declined => Declined') /\ (Sold => Sold')
BY SettledStays DEF PaidFor, Declined, Sold

LEMMA IntentionStays ==
    ASSUME TypeOK, NEW p \in Proc, Step(p)
    PROVE  payment'.intention = payment.intention
<1>1. payment \in PaymentDoc BY DEF TypeOK, DocsOK
<1> QED
  BY <1>1, PaymentWriters
  DEF PaymentDoc, ExpireUnpaid, SettlePayment, RecordLateSuccess, ReserveLate, ReserveHeadroom,
      ReleaseHeadroom, SettleReserve, RejectRelease, ExpirePending, Reserve, Release

LEMMA CashKept == ASSUME TypeOK, CashInv, [Next]_vars PROVE CashInv'
<1>1. ASSUME NEW p \in Proc, Step(p) PROVE CashInv'
  BY <1>1, IntentionStays, GatewayWriters DEF CashInv
<1>2. CASE Environment \/ UNCHANGED vars
  <2>1. UNCHANGED payment BY <1>2, EnvironmentFrame
  <2> SUFFICES ASSUME IsCod PROVE UNCHANGED attempt BY <2>1 DEF CashInv
  <2> QED
    BY <1>2
    DEF CashInv, Environment, StartAttempt, ResolveAttempt, WindowPasses, DayPasses, RefundAges,
        DisputeWindowCloses, world, vars
<1> QED BY <1>1, <1>2 DEF Next

LEMMA WholeConsequence ==
    ASSUME NEW doc \in OrderDoc, NEW was \in CheckoutStatuses, NEW isLine \in BOOLEAN, ~isLine
    PROVE  \/ ApplyTarget(doc, was, isLine) = doc
           \/ ApplyTarget(doc, was, isLine).status = "CANCELLED"
BY CancelledDoc DEF ApplyTarget, StatusAfterRefund, CheckoutStatuses

LEMMA CheckoutOrderKept ==
    ASSUME TypeOK, StockInv, Staff = {}, AttemptsAgree, NEW p \in Proc, Step(p), NEW o \in Orders
    PROVE  CheckoutOrder(o)'
<1>a. /\ order[o] \in OrderDoc /\ CheckoutOrder(o) /\ CheckoutStep(p)
      /\ ~(Sold /\ Declined)
  BY OrdersTyped, SoldOrDeclined DEF StockInv
<1>b. (PaidFor => PaidFor') /\ (Declined => Declined') /\ (Sold => Sold')
  BY OutcomesStay DEF Next
<1>c. pc[p] \notin Updating BY DEF StockInv, StaffInv
<1>d. "PENDING" \in OrderStatuses /\ "PAYMENT_FAILED" \in OrderStatuses BY DEF OrderStatuses
<1>0. CASE order'[o] = order[o] BY <1>0, <1>a, <1>b DEF CheckoutOrder
<1>9. CASE order'[o].status = "CANCELLED" BY <1>9 DEF CheckoutOrder, CheckoutStatuses
<1>1. CASE PromoteOrders(p)
  <2>1. Sold BY <1>1, <1>a DEF PromoteOrders, CheckoutStep, Sold
  <2>2. order[o].status = "AWAITING_PAYMENT" =>
          order'[o].status = "PENDING" /\ order'[o].restored = order[o].restored
    BY <1>1, <1>d, AwaitingMoves DEF PromoteOrders
  <2>3. order[o].status # "AWAITING_PAYMENT" => order'[o] = order[o]
    BY <1>1, <1>d, AwaitingMoves DEF PromoteOrders
  <2> QED BY <1>0, <1>a, <1>b, <2>1, <2>2, <2>3 DEF CheckoutOrder, CheckoutStatuses, OrderDoc
<1>2. CASE ParkOrders(p)
  <2>1. order[o].status = "AWAITING_PAYMENT" => order'[o].status = "PAYMENT_FAILED"
    BY <1>2, <1>d, AwaitingMoves DEF ParkOrders
  <2>2. order[o].status # "AWAITING_PAYMENT" => order'[o] = order[o]
    BY <1>2, <1>d, AwaitingMoves DEF ParkOrders
  <2> QED BY <1>0, <2>1, <2>2 DEF CheckoutOrder, CheckoutStatuses
<1>3. CASE RestockNext(p)
  <2>1. PICK t \in Orders : order' = [order EXCEPT ![t] = RestoreStock(order[t])]
    BY <1>3 DEF RestockNext
  <2>2. order'[o].status = order[o].status BY <1>a, <2>1, OneWritten, RestoreKeeps
  <2>3. Declined BY <1>3, <1>a DEF RestockNext, CheckoutStep
  <2> QED BY <1>a, <1>b, <2>2, <2>3 DEF CheckoutOrder
<1>4. CASE ApplyConsequence(p)
  <2>1. PICK t \in Orders :
          order' = [order EXCEPT ![t] = ApplyTarget(order[t], loc[p].view[t], Row(p).lines # NoLines)]
    BY <1>4 DEF ApplyConsequence
  <2>2. Row(p).lines = NoLines /\ loc[p].view[o] \in CheckoutStatuses
    BY <1>4, <1>a DEF ApplyConsequence, StockInv, CheckoutStep, Row, TypeOK, ControlOK, RowLabels
  <2> DEFINE doc == ApplyTarget(order[o], loc[p].view[o], Row(p).lines # NoLines)
  <2>3. order'[o] = order[o] \/ order'[o] = doc BY <2>1, OneWritten
  <2>4. doc = order[o] \/ doc.status = "CANCELLED" BY <1>a, <2>2, WholeConsequence
  <2> HIDE DEF doc
  <2> QED BY <1>0, <1>9, <2>3, <2>4
<1>5. CASE CancelNext(p)
  <2>1. PICK t \in Orders :
          order' = [order EXCEPT ![t] = RestoreStock([order[t] EXCEPT !.status = "CANCELLED"])]
    BY <1>5 DEF CancelNext
  <2> QED BY <1>0, <1>9, <1>a, <2>1, OneWritten, CancelledDoc
<1>6. CASE CancelOne(p) \/ WriteStatus(p) \/ DeductInventory(p)
  BY <1>6, <1>c DEF CancelOne, WriteStatus, DeductInventory, Updating
<1> QED BY <1>0, <1>1, <1>2, <1>3, <1>4, <1>5, <1>6, OrderWriters

LEMMA CheckoutStepKept ==
    ASSUME TypeOK, StockInv, Admins = {} \/ Lines = {}, NEW p \in Proc, Step(p), NEW q \in Proc
    PROVE  CheckoutStep(q)'
<1>a. ControlOK /\ loc[p] \in Locals BY LocalsTyped DEF TypeOK
<1>b. (PaidFor => PaidFor') /\ (Declined => Declined') /\ UNCHANGED attempt
  BY OutcomesStay, GatewayWriters DEF Next
<1>1. CASE q # p BY <1>1, <1>a, <1>b, OthersStay DEF StockInv, CheckoutStep
<1>2. CASE q = p
  <2> USE <1>a
  <2>1. pc'[p] = "apply" => loc'[p].tx \in Txns /\ attempt[loc'[p].tx] \in {"success", "declined"}
    <3> SUFFICES ASSUME pc'[p] = "apply"
                 PROVE  loc'[p].tx \in Txns /\ attempt[loc'[p].tx] \in {"success", "declined"}
      OBVIOUS
    <3>1. PICK t \in Txns : /\ attempt[t] \in {"success", "declined"}
                            /\ \/ loc'[p] = [loc[p] EXCEPT !.tx = t]
                               \/ loc'[p] = [loc[p] EXCEPT !.seen = payment.status,
                                                           !.seenTxn = payment.txn, !.tx = t]
      BY Arrivals, Lands DEF ReceiveCallback, InquireSettled, Settled
    <3>2. loc'[p].tx = t BY <3>1 DEF Locals
    <3> QED BY <3>1, <3>2
  <2>2. /\ pc'[p] = "onPaid" => PaidFor
        /\ pc'[p] = "onFailed" => Declined
    BY Arrivals, Lands DEF SettlePayment, Succeeded, PaidFor, Declined, StockInv, CheckoutStep
  <2>3. pc'[p] = "restock" => Declined
    BY Arrivals DEF ClaimFailure, RestockNext, StockInv, CheckoutStep
  <2>4. pc'[p] \in Requesting => loc'[p].lines = NoLines
    <3>1. TypeOK' BY NextTyped DEF Next
    <3>2. loc'[p].lines \in LineLists BY <3>1 DEF TypeOK, ControlOK, Locals
    <3>3. Lines = {} => loc'[p].lines = NoLines BY <3>2 DEF LineLists, NoLines
    <3> QED BY <3>3, RequestHeld DEF StockInv, CheckoutStep, Requesting
  <2>5. ASSUME pc'[p] = "applyTargets", NEW o \in Orders
        PROVE  loc'[p].view[o] \in CheckoutStatuses
    <3>1. CASE ReadTargets(p)
      <4> DEFINE S == Covered(Row(p).target)
                 v == Statuses(order)
      <4>1. [loc[p] EXCEPT !.view = v, !.todo = S].view = v BY DEF Locals
      <4>2. loc'[p].view = Statuses(order)
        BY <3>1, <4>1, Lands DEF ReadTargets
      <4> QED BY <4>2 DEF Statuses, StockInv, CheckoutOrder
    <3>2. CASE ApplyConsequence(p)
      <4>1. PICK t \in Orders : loc'[p] = [loc[p] EXCEPT !.todo = @ \ {t}]
        BY <3>2, Lands DEF ApplyConsequence
      <4>2. loc'[p].view = loc[p].view BY <4>1 DEF Locals
      <4> QED BY <3>2, <4>2 DEF ApplyConsequence, StockInv, CheckoutStep
    <3> QED BY <2>5, <3>1, <3>2, Arrivals
  <2> QED BY <1>2, <1>b, <2>1, <2>2, <2>3, <2>4, <2>5 DEF CheckoutStep
<1> QED BY <1>1, <1>2

LEMMA StockStep ==
    ASSUME TypeOK, StockInv, Staff = {}, Admins = {} \/ Lines = {}, AttemptsAgree,
           NEW p \in Proc, Step(p)
    PROVE  StockInv'
<1>1. CashInv' BY CashKept DEF StockInv, Next
<1>2. StaffInv' BY StaffKept DEF StaffInv, StockInv
<1>3. ASSUME NEW r \in Refunds PROVE refund'[r].lines = NoLines
  BY RowMoves DEF RowCreated, RowMove, SameTerms, StockInv, CheckoutStep, Requesting
<1> QED BY <1>1, <1>2, <1>3, CheckoutOrderKept, CheckoutStepKept DEF StockInv

(* Where the attempts agree and no kitchen is at work, an order that is    *)
(* being prepared has not given its units back, whatever callbacks,        *)
(* sweeps, payers, cancellations, whole-order refunds and reviews          *)
(* interleave (onPaid, onFailed, cancelOrderGroup,                         *)
(* applyOrderConsequences).                                                *)
THEOREM LiveStockCorrect ==
    ASSUME Staff = {}, Admins = {} \/ Lines = {}
    PROVE  Spec /\ []AttemptsAgree => []LiveOrderKeepsStock
<1>1. Init => StockInv
  <2> SUFFICES ASSUME Init PROVE StockInv OBVIOUS
  <2>1. ASSUME IsCod PROVE ~payment.intention /\ \A t \in Txns : attempt[t] = "none"
    <3>1. PICK t \in Txns \cup {NoTxn}, i \in BOOLEAN :
            /\ IF InitiallyPaid /\ ~IsCod THEN t # NoTxn /\ i ELSE t = NoTxn
            /\ payment = [status |-> IF t = NoTxn THEN "PENDING" ELSE "PAID",
                          txn |-> t, refunded |-> 0, intention |-> i /\ ~IsCod]
            /\ attempt = [u \in Txns |-> IF u = t THEN "success" ELSE "none"]
      BY DEF Init
    <3>2. \A u \in Txns : attempt[u] = "none" BY <2>1, <3>1, MoneyAssumption
    <3>3. (i /\ ~IsCod) = FALSE BY <2>1
    <3>4. payment.intention = FALSE BY <3>1, <3>3
    <3> QED BY <3>2, <3>4
  <2>2. /\ StaffInv
        /\ \A r \in Refunds : refund[r].lines = NoLines
        /\ \A p \in Proc : CheckoutStep(p)
    BY DEF Init, StaffInv, Updating, Requesting, CheckoutStep, NoRow
  <2>3. InitiallyPaid /\ ~IsCod => PaidFor BY DEF Init, PaidFor
  <2>4. \A o \in Orders : CheckoutOrder(o)
    BY <2>3, MoneyAssumption DEF Init, InitialStatus, CheckoutOrder, CheckoutStatuses, Sold
  <2> QED BY <2>1, <2>2, <2>4 DEF StockInv, CashInv
<1>2. TypeOK /\ StockInv /\ AttemptsAgree /\ [Next]_vars => StockInv'
  <2> SUFFICES ASSUME TypeOK, StockInv, AttemptsAgree, [Next]_vars PROVE StockInv' OBVIOUS
  <2>1. ASSUME NEW p \in Proc, Step(p) PROVE StockInv'
    BY <2>1, StockStep
  <2>2. CASE Environment \/ UNCHANGED vars
    <3>1. CashInv' BY CashKept DEF StockInv
    <3>2. (PaidFor => PaidFor') /\ (Declined => Declined') /\ (Sold => Sold') BY OutcomesStay
    <3>3. \A t \in Txns : attempt[t] \in {"success", "declined"} => attempt'[t] = attempt[t]
      BY SettledStays
    <3>4. \A o \in Orders : CheckoutOrder(o)'
      BY <2>2, <3>2, EnvironmentFrame DEF SameOrder, StockInv, CheckoutOrder
    <3>5. \A p \in Proc : CheckoutStep(p)'
      BY <2>2, <3>2, <3>3, EnvironmentFrame DEF StockInv, CheckoutStep
    <3> QED BY <2>2, <3>1, <3>4, <3>5, EnvironmentFrame DEF StockInv, StaffInv
  <2> QED BY <2>1, <2>2 DEF Next
<1>3. TypeOK /\ StockInv => LiveOrderKeepsStock
  BY DEF StockInv, CheckoutOrder, CheckoutStatuses, LiveOrderKeepsStock
<1> QED BY <1>1, <1>2, <1>3, TypeCorrect, PTL DEF Spec

-------------------------------------------------------------------------------
(* A captured payment.  Without customers, staff and admins a handler      *)
(* reaches only the labels of settlement and of the automatic refund.      *)
Manned == { "request", "reserve", "create", "consequences", "applyTargets", "recompute",
            "closeWindow", "cancelOrders", "siblings" } \cup ReviewLabels \cup Updating

Answering == {"onPaid", "promoteGroup", "lateReserve", "lateCreate"}

RowExists == \E r \in Refunds : refund[r].status # "none"

Answered == \/ \E p \in Proc : pc[p] \in Answering
            \/ group = "PENDING"
            \/ RowExists

AnswerStep(p) ==
    /\ pc[p] \notin Manned
    /\ pc[p] = "apply" => loc[p].tx \in Txns /\ attempt[loc[p].tx] \in {"success", "declined"}
    /\ pc[p] \in Answering \cup {"lateRecord"} => PaidFor
    /\ pc[p] \in {"onFailed", "restock"} => Declined
    /\ pc[p] = "promoteGroup" => \A o \in Orders : order[o].status = "PENDING"
    /\ pc[p] \in RowLabels \cup {"idle"} => ~loc[p].applies

Standing ==
    /\ group \in {"AWAITING_PAYMENT", "PENDING"}
    /\ \A o \in Orders : order[o].status \in {"AWAITING_PAYMENT", "PENDING"}
    /\ group = "PENDING" => \A o \in Orders : order[o].status = "PENDING"

AnswerInv ==
    /\ \A p \in Proc : AnswerStep(p)
    /\ ~Declined => Standing
    /\ payment.status = "PAID" => PaidFor /\ Answered
    /\ payment.refunded > 0 => (\E p \in Proc : pc[p] = "lateCreate") \/ RowExists

Unmanned == Customers = {} /\ Staff = {} /\ Admins = {}

LEMMA PaidNotDeclined == ASSUME AttemptsAgree, PaidFor PROVE ~Declined
BY DEF AttemptsAgree

LEMMA UnmannedKept ==
    ASSUME TypeOK, Unmanned, ~IsCod, NEW p \in Proc, Step(p), AnswerStep(p)
    PROVE  pc'[p] \notin Manned
<1>a. ControlOK BY DEF TypeOK
<1>b. p \notin Customers /\ p \notin Staff /\ p \notin Admins BY DEF Unmanned
<1>c. pc[p] \notin Manned /\ (pc[p] \in RowLabels => ~loc[p].applies) BY DEF AnswerStep
<1>1. pc'[p] \notin Updating
  <2>1. pc'[p] \notin {"writeStatus", "cancelOne"} BY <1>b, UpdateHeld
  <2>2. pc'[p] # "sync" BY <1>a, <1>c, Arrivals DEF WriteStatus, Manned, Updating
  <2>3. pc'[p] # "deduct" BY <1>a, <1>c, Arrivals DEF CheckConsumed, Manned, Updating
  <2> QED BY <2>1, <2>2, <2>3 DEF Updating
<1>2. pc'[p] \notin ReviewLabels
  <2>1. ~ReadReview(p) BY <1>b DEF ReadReview
  <2>2. ~SettleReserve(p) /\ ~RejectRelease(p)
    BY <1>c DEF SettleReserve, RejectRelease, Manned, ReviewLabels
  <2> QED BY <1>a, <2>1, <2>2, Arrivals DEF ReviewLabels
<1>3. pc'[p] \notin {"request", "closeWindow", "cancelOrders"}
  <2>1. ~ReadCancel(p) BY <1>b DEF ReadCancel
  <2>2. \A o \in Orders, s \in StaffTargets, direct \in BOOLEAN : ~ReadUpdate(p, o, s, direct)
    BY <1>b DEF ReadUpdate
  <2>3. ~ExpirePending(p) /\ ~CancelNext(p) BY <1>c DEF ExpirePending, CancelNext, Manned
  <2> QED BY <1>a, <2>1, <2>2, <2>3, Arrivals
<1>4. pc'[p] \notin {"reserve", "create"}
  <2>1. ~RequestRefund(p) /\ ~RoutedRequest(p) /\ ~ReserveHeadroom(p)
    BY <1>b, <1>c DEF RequestRefund, RoutedRequest, ReserveHeadroom, Manned
  <2> QED BY <1>a, <2>1, Arrivals
<1>5. pc'[p] # "consequences"
  <2>1. ~ExecuteOffline(p) /\ ~SettleMark(p)
    BY <1>c DEF ExecuteOffline, SettleMark, Manned, ReviewLabels
  <2>2. ASSUME SettleSucceeded(p) PROVE pc'[p] = "idle"
    <3>1. ~loc[p].applies BY <1>c, <2>2 DEF SettleSucceeded, RowLabels
    <3> QED BY <1>a, <2>2, <3>1, Lands DEF SettleSucceeded
  <2> QED BY <1>a, <2>1, <2>2, Arrivals
<1>6. pc'[p] \notin {"applyTargets", "recompute", "siblings"}
  <2>1. ~ReadTargets(p) /\ ~ApplyConsequence(p) /\ ~ReadSiblings(p)
    BY <1>c DEF ReadTargets, ApplyConsequence, ReadSiblings, Manned
  <2>2. /\ ~CancelOne(p) /\ ~WriteStatus(p) /\ ~CheckConsumed(p) /\ ~SyncFails(p)
        /\ ~DeductInventory(p)
    BY <1>c DEF CancelOne, WriteStatus, CheckConsumed, SyncFails, DeductInventory, Manned, Updating
  <2> QED BY <1>a, <2>1, <2>2, Arrivals
<1> QED BY <1>1, <1>2, <1>3, <1>4, <1>5, <1>6 DEF Manned

(* Which orders and group statuses there are: only settlement writes them. *)
LEMMA StandingKept ==
    ASSUME TypeOK, AnswerInv, AttemptsAgree, NEW p \in Proc, Step(p), ~Declined
    PROVE  Standing'
<1>a. Standing /\ AnswerStep(p) BY DEF AnswerInv
<1>b. pc[p] \notin {"applyTargets", "cancelOrders", "cancelOne", "writeStatus", "restock", "onFailed"}
  BY <1>a DEF AnswerStep, Manned, Updating
<1>1. ASSUME NEW o \in Orders
      PROVE  /\ order'[o].status \in {"AWAITING_PAYMENT", "PENDING"}
             /\ order[o].status = "PENDING" => order'[o].status = "PENDING"
  BY <1>a, <1>b, OrderMoves DEF StatusMove, Standing
<1>2. UNCHANGED group \/ PromoteGroup(p)
  BY <1>a, GroupWriters
  DEF ClaimFailure, CancelGroup, RecomputeGroup, AnswerStep, Manned
<1> QED BY <1>a, <1>1, <1>2 DEF PromoteGroup, Standing, AnswerStep

LEMMA RowStays == ASSUME TypeOK, NEW p \in Proc, Step(p), RowExists PROVE RowExists'
<1>1. PICK r \in Refunds : refund[r].status # "none" BY DEF RowExists
<1>2. refund'[r].status # "none"
  BY <1>1, RowMoves DEF RowCreated, RowMove, StatusWrites
<1> QED BY <1>2 DEF RowExists

LEMMA CreateLateRow ==
    ASSUME TypeOK, NEW p \in Proc, CreateLate(p)
    PROVE  RowExists'
<1>1. PICK r \in Refunds :
        CreateRow(p, r, [status |-> "APPROVED", target |-> Whole, lines |-> NoLines,
                         amount |-> AmountPaid, delivered |-> TRUE, claim |-> NoChild])
  BY DEF CreateLate
<1>2. refund'[r].status = "APPROVED" BY <1>1, RowsTyped DEF CreateRow
<1> QED BY <1>2 DEF RowExists

LEMMA AnswerStepKept ==
    ASSUME TypeOK, AnswerInv, Unmanned, AttemptsAgree, ~IsCod, NEW p \in Proc, Step(p), NEW q \in Proc
    PROVE  AnswerStep(q)'
<1>a. ControlOK /\ loc[p] \in Locals BY LocalsTyped DEF TypeOK
<1>b. (PaidFor => PaidFor') /\ (Declined => Declined') /\ UNCHANGED attempt
  BY OutcomesStay, GatewayWriters DEF Next
<1>c. AnswerStep(p) BY DEF AnswerInv
<1>d. PaidFor => Standing /\ Standing'
  BY PaidNotDeclined, StandingKept DEF AnswerInv
<1>e. \A o \in Orders : PaidFor /\ order[o].status = "PENDING" => order'[o].status = "PENDING"
  <2> SUFFICES ASSUME NEW o \in Orders, PaidFor, order[o].status = "PENDING"
               PROVE  order'[o].status = "PENDING"
    OBVIOUS
  <2>1. pc[p] \notin {"applyTargets", "cancelOrders", "cancelOne", "writeStatus"}
    BY <1>c DEF AnswerStep, Manned, Updating
  <2> QED BY <2>1, OrderMoves DEF StatusMove
<1>1. CASE q # p
  <2>1. pc'[q] = pc[q] /\ loc'[q] = loc[q] /\ AnswerStep(q) BY <1>1, <1>a, OthersStay DEF AnswerInv
  <2> QED BY <1>b, <1>e, <2>1 DEF AnswerStep, Answering
<1>2. CASE q = p
  <2> USE <1>a
  <2>1. pc'[p] \notin Manned BY <1>c, UnmannedKept
  <2>2. pc'[p] = "apply" => loc'[p].tx \in Txns /\ attempt[loc'[p].tx] \in {"success", "declined"}
    <3> SUFFICES ASSUME pc'[p] = "apply"
                 PROVE  loc'[p].tx \in Txns /\ attempt[loc'[p].tx] \in {"success", "declined"}
      OBVIOUS
    <3>1. PICK t \in Txns : /\ attempt[t] \in {"success", "declined"}
                            /\ \/ loc'[p] = [loc[p] EXCEPT !.tx = t]
                               \/ loc'[p] = [loc[p] EXCEPT !.seen = payment.status,
                                                           !.seenTxn = payment.txn, !.tx = t]
      BY Arrivals, Lands DEF ReceiveCallback, InquireSettled, Settled
    <3>2. loc'[p].tx = t BY <3>1 DEF Locals
    <3> QED BY <3>1, <3>2
  <2>3. /\ pc'[p] = "onPaid" => PaidFor
        /\ pc'[p] = "onFailed" => Declined
        /\ pc'[p] = "lateRecord" => PaidFor
    BY <1>c, Arrivals, Lands
    DEF SettlePayment, DivertLateSuccess, LateSuccess, Succeeded, PaidFor, Declined, AnswerStep
  <2>4. /\ pc'[p] \in {"promoteGroup", "lateReserve", "lateCreate"} => PaidFor
        /\ pc'[p] = "restock" => Declined
    BY <1>c, Arrivals
    DEF PromoteOrders, RecordLateSuccess, ReserveLate, ClaimFailure, RestockNext, AnswerStep, Answering
  <2>5. ASSUME pc'[p] = "promoteGroup", NEW o \in Orders PROVE order'[o].status = "PENDING"
    <3>1. order' = AwaitingBecome("PENDING") BY <2>5, Arrivals DEF PromoteOrders
    <3>2. order'[o].status \in {"AWAITING_PAYMENT", "PENDING"} /\ order[o].status \in {"AWAITING_PAYMENT", "PENDING"}
      BY <1>d, <2>4, <2>5 DEF Standing
    <3>3. "PENDING" \in OrderStatuses BY DEF OrderStatuses
    <3> QED BY <3>1, <3>2, <3>3, AwaitingMoves
  <2>6. ASSUME pc'[p] \in RowLabels PROVE ~loc'[p].applies
    <3>1. pc'[p] \in {"exec", "gateway", "void", "settle", "release", "flagManual", "refundInquiry"}
      BY <2>1, <2>6 DEF RowLabels, Manned, ReviewLabels
    <3>2. CASE CreateLate(p)
      <4>1. PICK r \in Refunds : loc'[p] = [loc[p] EXCEPT !.rid = r, !.applies = FALSE]
        BY <3>2, Lands DEF CreateLate
      <4> QED BY <4>1 DEF Locals
    <3>3. CASE MatchChild(p)
      <4>1. PICK c \in Unclaimed(p) : loc'[p] = [loc[p] EXCEPT !.claim = c, !.applies = FALSE]
        BY <3>3, Lands DEF MatchChild
      <4> QED BY <4>1 DEF Locals
    <3>4. CASE GatewayAccepts(p)
      <4>1. \E k \in 1..MaxMoves : loc'[p] = [loc[p] EXCEPT !.claim = <<loc[p].rid, k>>]
        BY <3>4, Lands DEF GatewayAccepts
      <4>2. loc'[p].applies = loc[p].applies BY <4>1 DEF Locals
      <4> QED BY <1>c, <3>4, <4>2 DEF GatewayAccepts, AnswerStep, RowLabels
    <3>5. CASE SendToGateway(p) \/ GatewayRejects(p) \/ ReleaseHeadroom(p) \/ NoChildFound(p)
      BY <1>c, <3>5 DEF SendToGateway, GatewayRejects, ReleaseHeadroom, NoChildFound, AnswerStep, RowLabels
    <3>6. CASE PickStuck(p)
      <4>1. PICK r \in Refunds : loc'[p] = [loc[p] EXCEPT !.rid = r]
        BY <3>6, Lands DEF PickStuck
      <4>2. loc'[p].applies = loc[p].applies BY <4>1 DEF Locals
      <4> QED BY <1>c, <3>6, <4>2 DEF PickStuck, AnswerStep
    <3>7. ~CreateRefund(p) /\ ~ApproveMark(p)
      BY <1>c DEF CreateRefund, ApproveMark, AnswerStep, Manned, ReviewLabels
    <3> QED BY <3>1, <3>2, <3>3, <3>4, <3>5, <3>6, <3>7, Arrivals
  <2>7. pc'[p] = "idle" => ~loc'[p].applies BY IdleHoldsNothing DEF NoLocals
  <2> QED
    BY <1>2, <1>b, <2>1, <2>2, <2>3, <2>4, <2>5, <2>6, <2>7 DEF AnswerStep, Answering
<1> QED BY <1>1, <1>2

(* A PAID payment stays answered: each handler on the way hands over to    *)
(* the next, to the promoted group or to a refund row.                     *)
LEMMA AnsweredStays ==
    ASSUME TypeOK, AnswerInv, AttemptsAgree, NEW p \in Proc, Step(p), PaidFor, Answered
    PROVE  Answered'
<1>a. ControlOK /\ AnswerStep(p) BY DEF TypeOK, AnswerInv
<1>b. Standing /\ Standing' BY PaidNotDeclined, StandingKept DEF AnswerInv
<1>c. group = "PENDING" => group' = "PENDING"
  <2>1. ~ClaimFailure(p) BY <1>a, PaidNotDeclined DEF ClaimFailure, AnswerStep
  <2>2. ~CancelGroup(p) /\ ~RecomputeGroup(p)
    BY <1>a DEF CancelGroup, RecomputeGroup, AnswerStep, Manned
  <2> QED BY <2>1, <2>2, GroupWriters DEF PromoteGroup
<1>1. CASE RowExists BY <1>1, RowStays DEF Answered
<1>2. CASE group = "PENDING" BY <1>2, <1>c DEF Answered
<1>3. ASSUME NEW q \in Proc, pc[q] \in Answering, q # p PROVE Answered'
  BY <1>3, <1>a, OthersStay DEF Answered
<1>4. CASE pc[p] \in Answering /\ ~RowExists /\ group # "PENDING"
  <2>a. group = "AWAITING_PAYMENT" BY <1>4, <1>b DEF Standing
  <2>1. ASSUME pc'[p] \in Answering PROVE Answered' BY <2>1 DEF Answered
  <2>2. CASE PromoteOrders(p) BY <2>2, <1>a, <2>1, Lands DEF PromoteOrders, Answering
  <2>3. CASE PromoteGroup(p) BY <2>3 DEF PromoteGroup, Answered
  <2>4. CASE CreateLate(p) BY <2>4, CreateLateRow DEF Answered
  <2>5. CASE ReserveLate(p)
    <3>1. CASE CanReserve(AmountPaid)
      BY <2>5, <3>1, <1>a, <2>1, Lands DEF ReserveLate, Answering
    <3>2. CASE ~CanReserve(AmountPaid)
      <4>1. payment.refunded > 0
        BY <3>2, MoneyAssumption DEF CanReserve, TypeOK, DocsOK, PaymentDoc
      <4>2. PICK q \in Proc : pc[q] = "lateCreate" BY <1>4, <4>1 DEF AnswerInv
      <4>3. q # p BY <2>5, <4>2 DEF ReserveLate
      <4> QED BY <1>3, <4>2, <4>3 DEF Answering
    <3> QED BY <3>1, <3>2
  <2>6. PromoteOrders(p) \/ PromoteGroup(p) \/ CreateLate(p) \/ ReserveLate(p)
    <3>1. ~OnPaidNotAwaiting(p) BY <2>a DEF OnPaidNotAwaiting
    <3>2. pc[p] \in {"onPaid", "promoteGroup", "lateReserve", "lateCreate"} BY <1>4 DEF Answering
    <3> QED
      BY <1>a, <3>1, <3>2, SettlementEdges, RefundEdges, LifecycleEdges
      DEF Edge, Step, SettlementStep, RefundStep, LifecycleStep
  <2> QED BY <2>2, <2>3, <2>4, <2>5, <2>6
<1> QED BY <1>1, <1>2, <1>3, <1>4 DEF Answered

LEMMA CounterExplained ==
    ASSUME TypeOK, AnswerInv, NEW p \in Proc, Step(p), payment'.refunded > 0
    PROVE  (\E q \in Proc : pc'[q] = "lateCreate") \/ RowExists'
<1>a. ControlOK /\ AnswerStep(p) BY DEF TypeOK, AnswerInv
<1>b. payment \in PaymentDoc /\ payment.refunded \in Int BY DEF TypeOK, DocsOK, PaymentDoc
<1>1. CASE payment.refunded > 0
  <2>1. CASE RowExists BY <2>1, RowStays
  <2>2. ASSUME NEW q \in Proc, pc[q] = "lateCreate", q # p
        PROVE  \E s \in Proc : pc'[s] = "lateCreate"
    BY <1>a, <2>2, OthersStay
  <2>3. CASE pc[p] = "lateCreate"
    <3>1. CreateLate(p)
      BY <1>a, <2>3, SettlementEdges, RefundEdges, LifecycleEdges
      DEF Edge, Step, SettlementStep, RefundStep, LifecycleStep
    <3> QED BY <3>1, CreateLateRow
  <2> QED BY <1>1, <2>1, <2>2, <2>3 DEF AnswerInv
<1>2. CASE payment.refunded <= 0
  <2>a. payment'.refunded # payment.refunded BY <1>2, <1>b
  <2>1. CASE ReserveLate(p) /\ CanReserve(AmountPaid)
    BY <1>a, <2>1, Lands DEF ReserveLate
  <2>2. CASE ReserveLate(p) /\ ~CanReserve(AmountPaid)
    BY <2>a, <2>2 DEF ReserveLate
  <2>3. CASE ReserveHeadroom(p) \/ SettleReserve(p) \/ RejectRelease(p) \/ ExpirePending(p)
    BY <1>a, <2>3
    DEF ReserveHeadroom, SettleReserve, RejectRelease, ExpirePending, AnswerStep, Manned, ReviewLabels
  <2>4. CASE ReleaseHeadroom(p)
    <3>1. Row(p).amount \in Nat
      BY <2>4, <1>a, RowTyped DEF ReleaseHeadroom, ControlOK, RowLabels, TypeOK
    <3>2. payment' = payment \/ payment'.refunded = payment.refunded - Row(p).amount
      BY <2>4, <1>b DEF ReleaseHeadroom, Release, PaymentDoc
    <3> QED BY <1>2, <1>b, <3>1, <3>2
  <2>5. CASE ExpireUnpaid(p) \/ SettlePayment(p) \/ RecordLateSuccess(p)
    <3>1. payment'.refunded = payment.refunded
      BY <1>b, <2>5 DEF ExpireUnpaid, SettlePayment, RecordLateSuccess, PaymentDoc
    <3> QED BY <2>a, <3>1
  <2>6. CASE UNCHANGED payment BY <2>a, <2>6
  <2> QED BY <2>1, <2>2, <2>3, <2>4, <2>5, <2>6, PaymentWriters
<1> QED BY <1>1, <1>2, <1>b

LEMMA PaidStep ==
    ASSUME TypeOK, AnswerInv, AttemptsAgree, NEW p \in Proc, Step(p), payment'.status = "PAID"
    PROVE  PaidFor' /\ Answered'
<1>a. ControlOK /\ AnswerStep(p) BY DEF TypeOK, AnswerInv
<1>b. payment \in PaymentDoc BY DEF TypeOK, DocsOK
<1>c. PaidFor => PaidFor' BY OutcomesStay DEF Next
<1>1. CASE payment.status = "PAID" BY <1>1, <1>c, AnsweredStays DEF AnswerInv
<1>2. CASE SettlePayment(p)
  <2>1. Succeeded(p) BY <1>2, <1>b DEF SettlePayment, PaymentDoc
  <2>2. PaidFor BY <1>a, <1>2, <2>1 DEF SettlePayment, Succeeded, AnswerStep, PaidFor
  <2>3. pc'[p] = "onPaid" BY <1>2, <1>a, <2>1, Lands DEF SettlePayment
  <2> QED BY <1>c, <2>2, <2>3 DEF Answered, Answering
<1>3. CASE RecordLateSuccess(p)
  <2>1. PaidFor BY <1>3, <1>a DEF RecordLateSuccess, AnswerStep
  <2>2. pc'[p] = "lateReserve" BY <1>3, <1>a, Lands DEF RecordLateSuccess
  <2> QED BY <1>c, <2>1, <2>2 DEF Answered, Answering
<1>4. CASE payment.status # "PAID" /\ ~SettlePayment(p) /\ ~RecordLateSuccess(p)
  BY <1>4, <1>b, PaymentWriters
  DEF PaymentDoc, ExpireUnpaid, ReserveLate, ReserveHeadroom, ReleaseHeadroom, SettleReserve,
      RejectRelease, ExpirePending, Reserve, Release
<1> QED BY <1>1, <1>2, <1>3, <1>4

(* Where the attempts agree and nobody but the gateway's callbacks, the    *)
(* crons and the payer at work, a PAID payment has promoted its group or   *)
(* has a refund row once every handler has ended: success, expiry and late *)
(* success may race in any order (applyTransactionOutcome, sweeper,        *)
(* autoRefundLateSuccess).                                                 *)
THEOREM AnswerCorrect ==
    ASSUME Unmanned, ~IsCod
    PROVE  Spec /\ []AttemptsAgree => []PaidIsAnswered
<1>1. Init => AnswerInv
  <2> SUFFICES ASSUME Init PROVE AnswerInv OBVIOUS
  <2>1. \A p \in Proc : AnswerStep(p)
    BY DEF Init, AnswerStep, Manned, ReviewLabels, Updating, Answering, RowLabels, NoLocals
  <2>2. Standing BY DEF Init, Standing, InitialStatus
  <2>3. payment.status = "PAID" => PaidFor /\ group = "PENDING"
    <3>1. PICK t \in Txns \cup {NoTxn}, i \in BOOLEAN :
            /\ IF InitiallyPaid /\ ~IsCod THEN t # NoTxn /\ i ELSE t = NoTxn
            /\ payment = [status |-> IF t = NoTxn THEN "PENDING" ELSE "PAID",
                          txn |-> t, refunded |-> 0, intention |-> i /\ ~IsCod]
            /\ attempt = [u \in Txns |-> IF u = t THEN "success" ELSE "none"]
      BY DEF Init
    <3>2. payment.status = IF t = NoTxn THEN "PENDING" ELSE "PAID" BY <3>1
    <3>3. CASE t = NoTxn BY <3>2, <3>3
    <3>4. CASE t # NoTxn BY <3>1, <3>4 DEF Init, InitialStatus, PaidFor
    <3> QED BY <3>3, <3>4
  <2>4. payment.refunded = 0 BY DEF Init
  <2> QED BY <2>1, <2>2, <2>3, <2>4 DEF AnswerInv, Answered
<1>2. TypeOK /\ AnswerInv /\ AttemptsAgree /\ [Next]_vars => AnswerInv'
  <2> SUFFICES ASSUME TypeOK, AnswerInv, AttemptsAgree, [Next]_vars PROVE AnswerInv' OBVIOUS
  <2>1. ASSUME NEW p \in Proc, Step(p) PROVE AnswerInv'
    <3>1. \A q \in Proc : AnswerStep(q)' BY <2>1, AnswerStepKept
    <3>2. Declined <=> Declined' BY <2>1, GatewayWriters DEF Declined
    <3>3. ~Declined' => Standing' BY <2>1, <3>2, StandingKept
    <3>4. payment'.status = "PAID" => PaidFor' /\ Answered' BY <2>1, PaidStep
    <3>5. payment'.refunded > 0 => (\E q \in Proc : pc'[q] = "lateCreate") \/ RowExists'
      BY <2>1, CounterExplained
    <3> QED BY <3>1, <3>3, <3>4, <3>5 DEF AnswerInv
  <2>2. CASE Environment \/ UNCHANGED vars
    <3>1. UNCHANGED <<payment, group, cart, refund, moved, denied, pc, loc>>
          /\ \A o \in Orders : order'[o].status = order[o].status
      BY <2>2, EnvironmentFrame DEF SameOrder
    <3>2. (PaidFor => PaidFor') /\ (Declined => Declined') BY OutcomesStay
    <3>3. \A t \in Txns : attempt[t] \in {"success", "declined"} => attempt'[t] = attempt[t]
      BY SettledStays
    <3>4. \A p \in Proc : AnswerStep(p)' BY <3>1, <3>2, <3>3 DEF AnswerInv, AnswerStep
    <3>5. ~Declined' => Standing' BY <3>1, <3>2 DEF AnswerInv, Standing
    <3>6. Answered => Answered' BY <3>1 DEF Answered, RowExists
    <3>7. payment'.refunded > 0 => (\E q \in Proc : pc'[q] = "lateCreate") \/ RowExists'
      BY <3>1 DEF AnswerInv, RowExists
    <3> QED BY <3>1, <3>2, <3>4, <3>5, <3>6, <3>7 DEF AnswerInv
  <2> QED BY <2>1, <2>2 DEF Next
<1>3. AnswerInv /\ AttemptsAgree => PaidIsAnswered
  <2> SUFFICES ASSUME AnswerInv, AttemptsAgree, payment.status = "PAID", \A p \in Proc : pc[p] = "idle"
               PROVE  \/ \E o \in Orders : order[o].status \notin TERMINAL
                      \/ \E r \in Refunds : refund[r].status # "none"
    BY DEF PaidIsAnswered
  <2>1. group = "PENDING" \/ RowExists BY DEF AnswerInv, Answered, Answering
  <2>2. Standing BY PaidNotDeclined DEF AnswerInv
  <2>3. 1 \in Orders BY MoneyAssumption DEF Orders
  <2> QED
    BY <2>1, <2>2, <2>3 DEF Standing, RowExists, TERMINAL, NOTHING_COMMITTED_STATUSES
<1> QED BY <1>1, <1>2, <1>3, TypeCorrect, PTL DEF Spec

-------------------------------------------------------------------------------
(* The group's status.  In a serial run it is the one computed from the    *)
(* children whenever no handler is between its order writes and its group  *)
(* write; each such gap has its own promise.                               *)
Serial == \A p, q \in Proc : pc[p] # "idle" /\ pc[q] # "idle" => p = q

Computed == ComputeOverallStatus(Statuses(order))

Gaps == {"promoteGroup", "restock", "cancelOrders", "applyTargets", "sync", "deduct",
         "siblings", "recompute"}

AllAre(s) == \A o \in Orders : order[o].status = s

Following(p) ==
    /\ pc[p] \notin Gaps => group = Computed
    /\ pc[p] = "promoteGroup" => AllAre("PENDING")
    /\ pc[p] = "restock" => group = "PAYMENT_FAILED" /\ AllAre("AWAITING_PAYMENT")
    /\ pc[p] = "closeWindow" => loc[p].view = Statuses(order)
    /\ pc[p] = "cancelOrders" =>
          \A o \in Orders : order[o].status # "CANCELLED" => o \in loc[p].todo
    /\ pc[p] = "recompute" => loc[p].next = Computed

(* Children that agree give the group their status, and a group with the   *)
(* status of an order has children that agree.                             *)
LEMMA UniformOverall ==
    ASSUME NEW st, DOMAIN st = Orders, NEW s \in OrderStatuses
    PROVE  ComputeOverallStatus(st) = s <=> \A o \in Orders : st[o] = s
<1>1. 1 \in Orders BY MoneyAssumption DEF Orders
<1> DEFINE seen == {st[i] : i \in DOMAIN st}
<1>2. ComputeOverallStatus(st) = IF seen = {st[1]} THEN st[1]
                 ELSE IF "DELIVERED" \in seen THEN "Partially Delivered"
                 ELSE IF "CANCELLED" \in seen THEN "Partially Cancelled"
                 ELSE "Processing"
  BY DEF ComputeOverallStatus
<1>3. (\A o \in Orders : st[o] = s) => seen = {st[1]} /\ st[1] = s BY <1>1
<1>4. seen = {st[1]} => \A o \in Orders : st[o] = st[1] OBVIOUS
<1>5. s \notin {"Partially Delivered", "Partially Cancelled", "Processing"} BY DEF OrderStatuses
<1> HIDE DEF seen
<1> QED BY <1>2, <1>3, <1>4, <1>5

LEMMA ComputedUniform ==
    ASSUME NEW s \in OrderStatuses
    PROVE  /\ Computed = s <=> AllAre(s)
           /\ Computed' = s <=> AllAre(s)'
<1>1. Computed = s <=> AllAre(s) BY UniformOverall DEF Computed, AllAre, Statuses
<1>2. DOMAIN Statuses(order)' = Orders /\ \A o \in Orders : Statuses(order)'[o] = order'[o].status
  BY DEF Statuses
<1>3. Computed' = ComputeOverallStatus(Statuses(order)') BY DEF Computed, ComputeOverallStatus
<1>4. Computed' = s <=> \A o \in Orders : Statuses(order)'[o] = s
  BY <1>2, <1>3, UniformOverall
<1> QED BY <1>1, <1>2, <1>4 DEF AllAre

LEMMA SameComputed ==
    ASSUME \A o \in Orders : order'[o].status = order[o].status
    PROVE  Statuses(order)' = Statuses(order) /\ Computed' = Computed
<1>1. Statuses(order)' = Statuses(order) BY DEF Statuses
<1> QED BY <1>1 DEF Computed

(* A handler leaves a gap by the write that closes it. *)
LEMMA GapClosed ==
    ASSUME ControlOK, NEW p \in Proc, Step(p), pc[p] \in Gaps, pc'[p] \notin Gaps
    PROVE  PromoteGroup(p) \/ ParkOrders(p) \/ CancelGroup(p) \/ RecomputeGroup(p)
<1>1. CASE SettlementStep(p)
  BY <1>1, SettlementEdges DEF SettlementStep, Edge, Gaps
<1>2. CASE RefundStep(p)
  BY <1>2, RefundEdges DEF RefundStep, Edge, Gaps, ReviewLabels
<1>3. CASE LifecycleStep(p)
  BY <1>3, LifecycleEdges DEF LifecycleStep, Edge, Gaps
<1> QED BY <1>1, <1>2, <1>3 DEF Step

(* Outside the gaps, a handler that writes an order opens one. *)
LEMMA NoGapNoWrite ==
    ASSUME ControlOK, NEW p \in Proc, Step(p), pc[p] \notin Gaps, pc'[p] \notin Gaps
    PROVE  UNCHANGED <<order, group>>
<1>1. UNCHANGED order
  <2>1. PromoteOrders(p) => pc'[p] = "promoteGroup" BY SettlementEdges DEF Edge
  <2>2. ParkOrders(p) \/ RestockNext(p) => pc[p] = "restock" BY SettlementEdges DEF Edge
  <2>3. ApplyConsequence(p) => pc[p] = "applyTargets" BY RefundEdges DEF Edge
  <2>4. CancelNext(p) => pc[p] = "cancelOrders" BY LifecycleEdges DEF Edge
  <2>5. CancelOne(p) \/ WriteStatus(p) \/ DeductInventory(p) => pc'[p] \in {"sync", "siblings"}
    BY LifecycleEdges DEF Edge
  <2> QED BY <2>1, <2>2, <2>3, <2>4, <2>5, OrderWriters DEF Gaps
<1>2. UNCHANGED group
  <2>1. PromoteGroup(p) => pc[p] = "promoteGroup" BY SettlementEdges DEF Edge
  <2>2. CancelGroup(p) => pc[p] = "cancelOrders" BY LifecycleEdges DEF Edge
  <2>3. RecomputeGroup(p) => pc[p] = "recompute" BY RefundEdges DEF Edge
  <2>4. ClaimFailure(p) => UNCHANGED group \/ pc'[p] = "restock" BY Lands DEF ClaimFailure
  <2> QED BY <2>1, <2>2, <2>3, <2>4, GroupWriters DEF Gaps
<1> QED BY <1>1, <1>2

LEMMA GroupKept ==
    ASSUME TypeOK, NEW p \in Proc, Following(p), Step(p), pc'[p] \notin Gaps
    PROVE  group' = Computed'
<1>a. ControlOK BY DEF TypeOK
<1>b. {"PENDING", "CANCELLED", "PAYMENT_FAILED"} \subseteq OrderStatuses BY DEF OrderStatuses
<1>1. CASE PromoteGroup(p)
  <2>1. pc[p] = "promoteGroup" /\ group' = "PENDING" /\ UNCHANGED order
    BY <1>1 DEF PromoteGroup
  <2> QED BY <1>b, <2>1, SameComputed, ComputedUniform DEF Following
<1>2. CASE ParkOrders(p)
  <2>1. pc[p] = "restock" /\ UNCHANGED group /\ order' = AwaitingBecome("PAYMENT_FAILED")
    BY <1>2 DEF ParkOrders
  <2>2. AllAre("PAYMENT_FAILED")'
    BY <1>b, <2>1, AwaitingMoves DEF Following, AllAre
  <2> QED BY <1>b, <2>1, <2>2, ComputedUniform DEF Following
<1>3. CASE CancelGroup(p)
  <2>1. pc[p] = "cancelOrders" /\ loc[p].todo = {} /\ group' = "CANCELLED" /\ UNCHANGED order
    BY <1>3 DEF CancelGroup
  <2>2. AllAre("CANCELLED") BY <2>1 DEF Following, AllAre
  <2> QED BY <1>b, <2>1, <2>2, SameComputed, ComputedUniform
<1>4. CASE RecomputeGroup(p)
  <2>1. pc[p] = "recompute" /\ group' = loc[p].next /\ UNCHANGED order
    BY <1>4 DEF RecomputeGroup
  <2> QED BY <2>1, SameComputed DEF Following
<1>5. CASE pc[p] \notin Gaps
  BY <1>a, <1>5, NoGapNoWrite, SameComputed DEF Following
<1> QED BY <1>1, <1>2, <1>3, <1>4, <1>5, <1>a, GapClosed

LEMMA AwaitingAgree ==
    ASSUME NEW p \in Proc, Following(p), pc[p] \notin Gaps, group = "AWAITING_PAYMENT"
    PROVE  AllAre("AWAITING_PAYMENT")
<1>1. "AWAITING_PAYMENT" \in OrderStatuses BY DEF OrderStatuses
<1> QED BY <1>1, ComputedUniform DEF Following

LEMMA FollowingKept ==
    ASSUME TypeOK, NEW p \in Proc, Following(p), Step(p)
    PROVE  Following(p)'
<1>a. ControlOK /\ loc[p] \in Locals BY LocalsTyped DEF TypeOK
<1>b. "PENDING" \in OrderStatuses BY DEF OrderStatuses
<1>1. pc'[p] = "promoteGroup" => AllAre("PENDING")'
  <2> SUFFICES ASSUME PromoteOrders(p) PROVE AllAre("PENDING")' BY <1>a, Arrivals
  <2>1. pc[p] = "onPaid" /\ group = "AWAITING_PAYMENT" /\ order' = AwaitingBecome("PENDING")
    BY DEF PromoteOrders
  <2>2. AllAre("AWAITING_PAYMENT") BY <2>1, AwaitingAgree DEF Gaps
  <2> QED BY <1>b, <2>1, <2>2, AwaitingMoves DEF AllAre
<1>2. pc'[p] = "restock" => group' = "PAYMENT_FAILED" /\ AllAre("AWAITING_PAYMENT")'
  <2>1. CASE ClaimFailure(p) /\ pc'[p] = "restock"
    <3>1. pc[p] = "onFailed" /\ group = "AWAITING_PAYMENT" /\ group' = "PAYMENT_FAILED"
          /\ UNCHANGED order
      BY <1>a, <2>1, Lands DEF ClaimFailure
    <3>2. AllAre("AWAITING_PAYMENT") BY <3>1, AwaitingAgree DEF Gaps
    <3> QED BY <3>1, <3>2 DEF AllAre
  <2>2. CASE RestockNext(p)
    <3>1. PICK t \in Orders : order' = [order EXCEPT ![t] = RestoreStock(order[t])]
      BY <2>2 DEF RestockNext
    <3>2. pc[p] = "restock" /\ UNCHANGED group BY <2>2 DEF RestockNext
    <3>3. \A o \in Orders : order'[o].status = order[o].status
      BY <3>1, OneWritten, OrdersTyped, RestoreKeeps
    <3> QED BY <3>2, <3>3 DEF Following, AllAre
  <2> QED BY <1>a, <2>1, <2>2, Arrivals
<1>3. pc'[p] = "closeWindow" => loc'[p].view = Statuses(order)'
  <2> SUFFICES ASSUME ReadCancel(p), pc'[p] = "closeWindow"
               PROVE  loc'[p].view = Statuses(order)'
    BY <1>a, Arrivals
  <2> DEFINE held == [loc[p] EXCEPT !.view = Statuses(order)]
  <2>1. held.view = Statuses(order) BY <1>a DEF Locals
  <2>2. loc'[p] = held BY <1>a, Lands DEF ReadCancel
  <2> HIDE DEF held
  <2>3. Statuses(order)' = Statuses(order) BY DEF ReadCancel, docs, Statuses
  <2> QED BY <2>1, <2>2, <2>3
<1>4. pc'[p] = "cancelOrders" =>
        \A o \in Orders : order'[o].status # "CANCELLED" => o \in loc'[p].todo
  <2>1. CASE ExpirePending(p)
    <3> DEFINE left == {o \in Orders : loc[p].view[o] # "CANCELLED"}
               held == [loc[p] EXCEPT !.todo = left]
    <3>1. held.todo = left BY <1>a DEF Locals
    <3>2. loc'[p] = held BY <1>a, <2>1, Lands DEF ExpirePending
    <3> HIDE DEF held
    <3>3. pc[p] = "closeWindow" /\ UNCHANGED order BY <2>1 DEF ExpirePending
    <3>4. \A o \in Orders : loc[p].view[o] = order[o].status
      BY <3>3 DEF Following, Statuses
    <3> QED BY <3>1, <3>2, <3>3, <3>4
  <2>2. CASE CancelNext(p)
    <3>1. PICK t \in Orders :
            /\ order' = [order EXCEPT ![t] = RestoreStock([order[t] EXCEPT !.status = "CANCELLED"])]
            /\ Hold(p, [loc[p] EXCEPT !.todo = @ \ {t}])
      BY <2>2 DEF CancelNext
    <3>2. loc'[p].todo = loc[p].todo \ {t} BY <1>a, <3>1, Lands DEF Locals
    <3>3. order'[t].status = "CANCELLED" BY <3>1, OneWritten, OrdersTyped, CancelledDoc
    <3>4. \A o \in Orders : o # t => order'[o] = order[o] BY <3>1, OneWritten
    <3>5. pc[p] = "cancelOrders" BY <2>2 DEF CancelNext
    <3> QED BY <3>2, <3>3, <3>4, <3>5 DEF Following
  <2> QED BY <1>a, <2>1, <2>2, Arrivals
<1>5. pc'[p] = "recompute" => loc'[p].next = Computed'
  <2> SUFFICES ASSUME ReadSiblings(p) PROVE loc'[p].next = Computed' BY <1>a, Arrivals
  <2> DEFINE held == [loc[p] EXCEPT !.next = Computed]
  <2>1. held.next = Computed BY <1>a DEF Locals
  <2>2. loc'[p] = held BY <1>a, Lands DEF ReadSiblings, Computed
  <2> HIDE DEF held
  <2>3. Computed' = Computed BY SameComputed DEF ReadSiblings, docs
  <2> QED BY <2>1, <2>2, <2>3
<1> QED BY <1>1, <1>2, <1>3, <1>4, <1>5, GroupKept DEF Following

Alone(p) == \A q \in Proc : q # p => pc[q] = "idle"

FollowInv == /\ \A p \in Proc : Alone(p) => Following(p)
             /\ Proc = {} => group = Computed

LEMMA FollowStep ==
    ASSUME TypeOK, FollowInv, Serial, Serial', NEW p \in Proc, Step(p)
    PROVE  FollowInv'
<1>a. ControlOK BY DEF TypeOK
<1>b. \A q \in Proc : q # p => pc'[q] = pc[q] /\ loc'[q] = loc[q] BY <1>a, OthersStay
<1>1. CASE Alone(p)
  <2>1. Following(p)' BY <1>1, FollowingKept DEF FollowInv
  <2>2. ASSUME NEW q \in Proc, q # p, Alone(q)' PROVE Following(q)'
    <3>1. pc'[p] = "idle" /\ pc'[q] = "idle" BY <1>1, <1>b, <2>2 DEF Alone
    <3>2. group' = Computed' BY <2>1, <3>1 DEF Following, Gaps
    <3> QED BY <3>1, <3>2 DEF Following
  <2> QED BY <2>1, <2>2 DEF FollowInv
<1>2. CASE ~Alone(p)
  <2>1. PICK q \in Proc : q # p /\ pc[q] # "idle" BY <1>2 DEF Alone
  <2>2. pc[p] = "idle" /\ pc'[p] = "idle" BY <1>b, <2>1 DEF Serial
  <2>3. UNCHANGED <<order, group>> BY <1>a, <2>2, NoGapNoWrite DEF Gaps
  <2>4. Following(q) BY <2>1 DEF FollowInv, Alone, Serial
  <2>5. Following(q)'
    <3>1. Computed' = Computed /\ Statuses(order)' = Statuses(order)
      BY <2>3 DEF Computed, Statuses
    <3> QED BY <1>b, <2>1, <2>3, <2>4, <3>1 DEF Following, AllAre
  <2>6. ASSUME NEW v \in Proc, Alone(v)' PROVE v = q BY <1>b, <2>1, <2>6 DEF Alone
  <2> QED BY <2>5, <2>6 DEF FollowInv
<1> QED BY <1>1, <1>2

(* Requests that do not overlap, by any number of processes, leave every   *)
(* group with the status computed from its children, whatever they do:     *)
(* settle, fail, cancel, advance, refund or review, in a group of any size *)
(* (computeOverallStatus, called by every handler that writes an order).   *)
THEOREM GroupCorrect == Spec /\ []Serial => []GroupFollowsOrders
<1>1. Init => FollowInv
  <2> SUFFICES ASSUME Init PROVE FollowInv OBVIOUS
  <2>1. InitialStatus \in OrderStatuses /\ AllAre(InitialStatus) /\ group = InitialStatus
    BY DEF Init, InitialStatus, OrderStatuses, AllAre
  <2>2. group = Computed BY <2>1, ComputedUniform
  <2>3. \A p \in Proc : pc[p] = "idle" BY DEF Init
  <2> QED BY <2>2, <2>3 DEF Following, FollowInv
<1>2. TypeOK /\ FollowInv /\ Serial /\ Serial' /\ [Next]_vars => FollowInv'
  <2> SUFFICES ASSUME TypeOK, FollowInv, Serial, Serial', [Next]_vars PROVE FollowInv'
    OBVIOUS
  <2>1. ASSUME NEW p \in Proc, Step(p) PROVE FollowInv' BY <2>1, FollowStep
  <2>2. CASE Environment \/ UNCHANGED vars
    <3>1. UNCHANGED <<group, pc, loc>> /\ \A o \in Orders : order'[o].status = order[o].status
      BY <2>2, EnvironmentFrame DEF SameOrder
    <3>2. Statuses(order)' = Statuses(order) /\ Computed' = Computed BY <3>1, SameComputed
    <3>3. ASSUME NEW q \in Proc, Alone(q)' PROVE Following(q)'
      <4>1. Following(q) BY <3>1, <3>3 DEF FollowInv, Alone
      <4> QED BY <3>1, <3>2, <4>1 DEF Following, AllAre
    <3> QED BY <3>1, <3>2, <3>3 DEF FollowInv
  <2> QED BY <2>1, <2>2 DEF Next
<1>3. FollowInv => GroupFollowsOrders
  <2> SUFFICES ASSUME FollowInv, \A p \in Proc : pc[p] = "idle" PROVE group = Computed
    BY DEF GroupFollowsOrders, Computed
  <2> QED BY DEF FollowInv, Alone, Following, Gaps
<1> QED BY <1>1, <1>2, <1>3, TypeCorrect, PTL DEF Spec
===============================================================================
