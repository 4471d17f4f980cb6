--------------------------- MODULE RefundFlow_proofs ---------------------------
(***************************************************************************)
(* Refunds, for every number of rows, handlers and cron ticks: the money   *)
(* of a row moves once, a line is refunded once, and an order is cancelled *)
(* only after a refund that covers it succeeded.                           *)
(***************************************************************************)
EXTENDS OrderStatus_proofs, SumTheorems

(* No two admins review one refund, no two ask for one line, and no two    *)
(* ticks look into one refund at a time.                                   *)
ReviewsApart == \A p, q \in Proc :
    /\ pc[p] \in ReviewLabels /\ pc[q] \in ReviewLabels
    /\ loc[p].rid = loc[q].rid
    => p = q

LineRequestsApart == \A p, q \in Proc :
    /\ pc[p] \in Requesting /\ pc[q] \in Requesting
    /\ loc[p].target = loc[q].target /\ Named(loc[p].lines) \cap Named(loc[q].lines) # {}
    => p = q

TicksApart == \A p, q \in Proc :
    /\ pc[p] = "refundInquiry" /\ pc[q] = "refundInquiry"
    /\ loc[p].rid = loc[q].rid
    => p = q

(* A reviewer has read a row that asks for approval; a sender is about to  *)
(* move the money of its row; Before holds the statuses of a row whose     *)
(* money nobody has begun to move.                                         *)
Reviewing == {"rejectRelease", "rejectMark", "approveMark"}
Sending   == {"exec", "gateway", "void"}
Before    == {"none", "REQUESTED", "REJECTED"}

Working(p) ==
    /\ pc[p] \in RowLabels \ Reviewing => refund[loc[p].rid].status \notin Before
    /\ pc[p] \in Reviewing => p \in Admins /\ refund[loc[p].rid].status = "REQUESTED"
    /\ pc[p] \in {"exec", "gateway"} => \A k \in 1..MaxMoves : <<loc[p].rid, k>> \notin Ledger
    /\ pc[p] = "void" => Row(p).amount = AmountPaid

OneSender ==
    \A p, q \in Proc : /\ pc[p] \in Sending /\ pc[q] \in Sending
                       /\ loc[p].rid = loc[q].rid
                       => p = q

MovedOnce ==
    \A r \in Refunds, k, l \in 1..MaxMoves :
        <<r, k>> \in Ledger => /\ refund[r].status \notin Before
                               /\ <<r, l>> \in Ledger => k = l

OnceInv == /\ \A p \in Proc : Working(p)
           /\ OneSender /\ MovedOnce /\ IsFiniteSet(Ledger)

-------------------------------------------------------------------------------
(* Which row a step hands over.                                            *)
LEMMA RowHeld ==
    ASSUME TypeOK, NEW p \in Proc, Step(p), pc'[p] \in RowLabels
    PROVE  \/ pc[p] \in RowLabels /\ loc'[p].rid = loc[p].rid
           \/ /\ pc[p] = "idle" /\ UNCHANGED <<docs, world>>
              /\ \/ /\ ReadReview(p) /\ p \in Admins
                    /\ pc'[p] \in Reviewing => refund[loc'[p].rid].status = "REQUESTED"
                    /\ pc'[p] \in {"settleMark", "settleReserve"} =>
                          refund[loc'[p].rid].status = "MANUAL_REQUIRED"
                 \/ /\ PickStuck(p) /\ p \in Reconcilers
                    /\ refund[loc'[p].rid].status = "PROCESSING"
                    /\ CallsOutrunCron => ~InCall(loc'[p].rid)
           \/ /\ pc[p] \in {"create", "lateCreate"} /\ pc'[p] = "exec"
              /\ refund[loc'[p].rid].status = "none"
              /\ refund'[loc'[p].rid].status = "APPROVED"
<1>a. ControlOK /\ loc[p] \in Locals BY LocalsTyped DEF TypeOK
<1>b. pc[p] \in RowLabels => loc[p].rid \in Refunds BY <1>a DEF ControlOK
<1>1. CASE CreateLate(p)
  <2> DEFINE row == [status |-> "APPROVED", target |-> Whole, lines |-> NoLines,
                     amount |-> AmountPaid, delivered |-> TRUE, claim |-> NoChild]
  <2>1. PICK r \in Refunds : CreateRow(p, r, row) /\ loc'[p] = [loc[p] EXCEPT !.rid = r, !.applies = FALSE]
    BY <1>1, <1>a, Lands DEF CreateLate
  <2>2. loc'[p].rid = r BY <1>a, <2>1 DEF Locals
  <2>3. row.status = "APPROVED" OBVIOUS
  <2> HIDE DEF row
  <2> QED BY <1>1, <1>a, <2>1, <2>2, <2>3, Lands, RowsTyped DEF CreateLate, CreateRow
<1>2. CASE CreateRefund(p)
  <2> DEFINE row == [status |-> IF loc[p].auto THEN "APPROVED" ELSE "REQUESTED",
                     target |-> loc[p].target, lines |-> loc[p].lines,
                     amount |-> loc[p].amount, delivered |-> loc[p].delivered,
                     claim |-> NoChild]
  <2>1. PICK r \in Refunds :
          /\ CreateRow(p, r, row)
          /\ IF loc[p].auto
             THEN Goto(p, "exec") /\ Hold(p, [loc[p] EXCEPT !.rid = r, !.applies = TRUE])
             ELSE Finish(p)
    BY <1>2 DEF CreateRefund
  <2>2. loc[p].auto /\ pc'[p] = "exec" BY <1>a, <2>1, Lands DEF RowLabels
  <2>3. loc'[p].rid = r BY <1>a, <2>1, <2>2, Lands DEF Locals
  <2>4. row.status = "APPROVED" BY <2>2
  <2> HIDE DEF row
  <2> QED BY <1>2, <2>1, <2>2, <2>3, <2>4, RowsTyped DEF CreateRefund, CreateRow
<1>3. CASE ReadReview(p)
  <2>1. PICK r \in Refunds :
          /\ \/ refund[r].status = "MANUAL_REQUIRED" /\ pc'[p] \in {"settleMark", "settleReserve"}
             \/ refund[r].status = "REQUESTED" /\ pc'[p] \in Reviewing
          /\ loc'[p] = [loc[p] EXCEPT !.rid = r]
    BY <1>3, <1>a, Lands DEF ReadReview, Reviewing
  <2>2. loc'[p].rid = r BY <1>a, <2>1 DEF Locals
  <2> QED BY <1>3, <2>1, <2>2 DEF ReadReview, Reviewing
<1>4. CASE PickStuck(p)
  <2>1. PICK r \in Refunds : /\ refund[r].status = "PROCESSING"
                             /\ CallsOutrunCron => ~InCall(r)
                             /\ loc'[p] = [loc[p] EXCEPT !.rid = r]
    BY <1>4, <1>a, Lands DEF PickStuck
  <2>2. loc'[p].rid = r BY <1>a, <2>1 DEF Locals
  <2> QED BY <1>4, <2>1, <2>2 DEF PickStuck
<1>5. CASE GatewayAccepts(p)
  <2>1. \E k \in 1..MaxMoves : loc'[p] = [loc[p] EXCEPT !.claim = <<loc[p].rid, k>>]
    BY <1>5, <1>a, Lands DEF GatewayAccepts
  <2> QED BY <1>5, <1>a, <2>1 DEF GatewayAccepts, Locals, RowLabels
<1>6. CASE MatchChild(p)
  <2>1. \E c \in Unclaimed(p) : loc'[p] = [loc[p] EXCEPT !.claim = c, !.applies = FALSE]
    BY <1>6, <1>a, Lands DEF MatchChild
  <2> QED BY <1>6, <1>a, <2>1 DEF MatchChild, Locals, RowLabels
<1>7. CASE ReadTargets(p)
  <2> DEFINE v == Statuses(order)
             S == Covered(Row(p).target)
  <2>1. [loc[p] EXCEPT !.view = v, !.todo = S].rid = loc[p].rid BY <1>a DEF Locals
  <2>2. loc'[p].rid = loc[p].rid BY <1>7, <1>a, <2>1, Lands DEF ReadTargets
  <2> QED BY <1>7, <2>2 DEF ReadTargets, RowLabels
<1>8. CASE ApplyConsequence(p)
  <2>1. \E o \in Orders : loc'[p] = [loc[p] EXCEPT !.todo = @ \ {o}]
    BY <1>8, <1>a, Lands DEF ApplyConsequence
  <2> QED BY <1>8, <1>a, <2>1 DEF ApplyConsequence, Locals, RowLabels
<1>9. CASE ApproveMark(p)
  <2>1. loc'[p] = [loc[p] EXCEPT !.applies = TRUE] BY <1>9, <1>a, Lands DEF ApproveMark
  <2> QED BY <1>9, <1>a, <2>1 DEF ApproveMark, Locals, RowLabels
<1>10. CASE \/ ExecuteOffline(p) \/ SendToGateway(p) \/ GatewayRejects(p) \/ SettleSucceeded(p)
            \/ ReleaseHeadroom(p) \/ SettleReserve(p) \/ SettleMark(p) \/ RejectRelease(p)
            \/ NoChildFound(p)
  <2>1. pc[p] \in RowLabels
    BY <1>10
    DEF ExecuteOffline, SendToGateway, GatewayRejects, SettleSucceeded, ReleaseHeadroom,
        SettleReserve, SettleMark, RejectRelease, NoChildFound, RowLabels
  <2>2. UNCHANGED loc
    BY <1>10, <1>a, Lands
    DEF ExecuteOffline, SendToGateway, GatewayRejects, SettleSucceeded, ReleaseHeadroom,
        SettleReserve, SettleMark, RejectRelease, NoChildFound, RowLabels
  <2> QED BY <2>1, <2>2
<1>11. \/ CreateLate(p) \/ CreateRefund(p) \/ ReadReview(p) \/ PickStuck(p)
       \/ GatewayAccepts(p) \/ MatchChild(p) \/ ReadTargets(p) \/ ApplyConsequence(p)
       \/ ApproveMark(p)
       \/ ExecuteOffline(p) \/ SendToGateway(p) \/ GatewayRejects(p) \/ SettleSucceeded(p)
       \/ ReleaseHeadroom(p) \/ SettleReserve(p) \/ SettleMark(p) \/ RejectRelease(p)
       \/ NoChildFound(p)
  BY <1>a, Arrivals DEF RowLabels
<1> QED BY <1>1, <1>2, <1>3, <1>4, <1>5, <1>6, <1>7, <1>8, <1>9, <1>10, <1>11

-------------------------------------------------------------------------------
(* The gateway books a child for a row that has none: a full refund whose  *)
(* refused call had its effect leaves nothing for the void that follows.   *)
LEMMA BookedFirst ==
    ASSUME TypeOK, OnceInv, NEW p \in Proc, pc[p] \in {"gateway", "void"},
           NEW k \in 1..MaxMoves, Bookable(p, k)
    PROVE  \A l \in 1..MaxMoves : <<loc[p].rid, l>> \notin Ledger
<1>a. Working(p) /\ IsFiniteSet(Ledger) BY DEF OnceInv
<1>1. CASE pc[p] = "gateway" BY <1>1, <1>a DEF Working
<1>2. CASE pc[p] = "void"
  <2> SUFFICES ASSUME NEW l \in 1..MaxMoves, <<loc[p].rid, l>> \in Ledger PROVE FALSE
    BY <1>2
  <2> DEFINE f == [c \in Ledger |-> refund[c[1]].amount]
             c == <<loc[p].rid, l>>
  <2>1. \A d \in Ledger : f[d] \in Nat
    <3>1. \A d \in Ledger : d[1] \in Refunds BY DEF TypeOK, WorldOK, Ledger, Children
    <3> QED BY <3>1, RowsTyped DEF RefundDoc
  <2>2. MoneyOf(Ledger) = SumFunctionOnSet(f, Ledger) BY SumOfFunction DEF MoneyOf
  <2>3. f[c] = AmountPaid /\ c \in Ledger BY <1>2, <1>a DEF Working, Row
  <2>4. SumFunctionOnSet(f, Ledger) + AmountPaid <= AmountPaid
    BY <1>2, <1>a, <2>2 DEF Bookable, Working
  <2> HIDE DEF f, c
  <2>5. f[c] <= SumFunctionOnSet(f, Ledger) BY <1>a, <2>1, <2>3, SumTerm
  <2>6. SumFunctionOnSet(f, Ledger) \in Nat BY <1>a, <2>1, SumNat
  <2> QED BY <2>3, <2>4, <2>5, <2>6, MoneyAssumption
<1> QED BY <1>1, <1>2

(* One child at a time, for the row of a sender: a call that is answered   *)
(* or times out ends the sending, one that is answered with an error may   *)
(* not.                                                                    *)
LEMMA Books ==
    ASSUME TypeOK, OnceInv, NEW p \in Proc, Step(p)
    PROVE  \/ UNCHANGED <<moved, denied>>
           \/ /\ pc[p] \in {"gateway", "void"} /\ loc[p].rid \in Refunds /\ UNCHANGED refund
              /\ \A l \in 1..MaxMoves : <<loc[p].rid, l>> \notin Ledger
              /\ \E k \in 1..MaxMoves :
                    \/ /\ moved' = moved \cup {<<loc[p].rid, k>>} /\ UNCHANGED denied
                       /\ pc'[p] \notin Sending
                       /\ GatewayAccepts(p) \/ GatewayTimesOut(p)
                    \/ /\ denied' = denied \cup {<<loc[p].rid, k>>} /\ UNCHANGED moved
                       /\ GatewayRejects(p)
<1>a. ControlOK BY DEF TypeOK
<1>b. pc[p] \in {"gateway", "void"} => loc[p].rid \in Refunds BY <1>a DEF ControlOK, RowLabels
<1>1. CASE (GatewayAccepts(p) \/ GatewayTimesOut(p)) /\ UNCHANGED denied /\ moved' # moved
  <2>1. /\ pc[p] \in {"gateway", "void"} /\ pc'[p] \notin Sending /\ UNCHANGED refund
        /\ \E k \in 1..MaxMoves : Book(p, k)
    BY <1>1, <1>a, Lands DEF GatewayAccepts, GatewayTimesOut, Sending, docs
  <2>2. PICK k \in 1..MaxMoves : Bookable(p, k) /\ moved' = moved \cup {<<loc[p].rid, k>>}
    BY <2>1 DEF Book
  <2> QED BY <1>1, <1>b, <2>1, <2>2, BookedFirst
<1>2. CASE GatewayRejects(p) /\ UNCHANGED moved /\ denied' # denied
  <2>1. pc[p] \in {"gateway", "void"} /\ UNCHANGED refund BY <1>2 DEF GatewayRejects, docs
  <2>2. PICK k \in 1..MaxMoves : Bookable(p, k) /\ denied' = denied \cup {<<loc[p].rid, k>>}
    BY <1>2 DEF GatewayRejects
  <2> QED BY <1>2, <1>b, <2>1, <2>2, BookedFirst
<1> QED BY <1>1, <1>2, GatewayWriters

LEMMA LedgerGrows ==
    ASSUME TypeOK, OnceInv, NEW p \in Proc, Step(p)
    PROVE  \/ UNCHANGED <<moved, denied>> /\ Ledger' = Ledger
           \/ /\ pc[p] \in {"gateway", "void"} /\ loc[p].rid \in Refunds /\ UNCHANGED refund
              /\ \A l \in 1..MaxMoves : <<loc[p].rid, l>> \notin Ledger
              /\ \E k \in 1..MaxMoves : Ledger' = Ledger \cup {<<loc[p].rid, k>>}
BY Books DEF Ledger

(* The status a handler's label and its reading of the row leave to a      *)
(* concurrent step of another handler.                                     *)
LEMMA RowSeenByOther ==
    ASSUME TypeOK, OnceInv, ReviewsApart, NEW p \in Proc, NEW q \in Proc, q # p, Step(p),
           pc[q] \in RowLabels
    PROVE  LET r == loc[q].rid
           IN  /\ pc[q] \in RowLabels \ Reviewing => refund'[r].status \notin Before
               /\ pc[q] \in Reviewing => refund'[r].status = "REQUESTED"
<1> DEFINE r == loc[q].rid
<1>a. r \in Refunds BY DEF TypeOK, ControlOK
<1>b. Working(p) /\ Working(q) BY DEF OnceInv
<1>c. \A l \in DOMAIN StatusWrites : l \in RowLabels BY DEF StatusWrites, RowLabels
<1>d. refund'[r] = refund[r] \/ RowCreated(p, r) \/ RowMove(p, r) BY <1>a, RowMoves
<1> HIDE DEF r
<1>1. CASE pc[q] \in RowLabels \ Reviewing
  <2>1. refund[r].status \notin Before BY <1>1, <1>b DEF Working, r
  <2>2. ~RowCreated(p, r) BY <2>1 DEF RowCreated, Before
  <2>3. ASSUME RowMove(p, r) PROVE refund'[r].status \notin Before
    <3>1. pc[p] \notin Reviewing BY <1>b, <2>1, <2>3 DEF RowMove, Working, Before
    <3> QED BY <2>3, <3>1 DEF RowMove, StatusWrites, Reviewing, Before
  <2> QED BY <1>1, <1>d, <2>1, <2>2, <2>3 DEF r
<1>2. CASE pc[q] \in Reviewing
  <2>1. refund[r].status = "REQUESTED" /\ q \in Admins BY <1>2, <1>b DEF Working, r
  <2>2. ~RowCreated(p, r) BY <2>1 DEF RowCreated
  <2>3. ~RowMove(p, r)
    <3> SUFFICES ASSUME RowMove(p, r) PROVE FALSE OBVIOUS
    <3>1. pc[p] \in RowLabels /\ loc[p].rid = r BY <1>c DEF RowMove
    <3>2. pc[p] \in Reviewing BY <1>b, <2>1, <3>1 DEF Working, Before
    <3> QED BY <1>2, <3>1, <3>2 DEF ReviewsApart, Reviewing, ReviewLabels, r
  <2> QED BY <1>2, <1>d, <2>1, <2>2, <2>3 DEF r
<1> QED BY <1>1, <1>2

LEMMA WorkingKept ==
    ASSUME TypeOK, OnceInv, ReviewsApart, NEW p \in Proc, NEW q \in Proc, Step(p)
    PROVE  Working(q)'
<1>a. ControlOK /\ Working(p) /\ Working(q) /\ MovedOnce BY DEF TypeOK, OnceInv
<1>b. Sending \subseteq RowLabels \ Reviewing /\ Reviewing \subseteq RowLabels
  BY DEF Sending, RowLabels, Reviewing
<1>1. CASE q # p
  <2>1. pc'[q] = pc[q] /\ loc'[q] = loc[q] BY <1>1, <1>a, OthersStay
  <2>2. ASSUME pc[q] \in {"exec", "gateway"}, NEW k \in 1..MaxMoves
        PROVE  <<loc[q].rid, k>> \notin Ledger'
    <3>1. <<loc[q].rid, k>> \notin Ledger BY <1>a, <2>2 DEF Working
    <3>2. pc[p] \in {"gateway", "void"} => loc[p].rid # loc[q].rid
      BY <1>1, <2>2 DEF OnceInv, OneSender, Sending
    <3> QED BY <3>1, <3>2, LedgerGrows
  <2>3. ASSUME pc[q] = "void" PROVE refund'[loc[q].rid].amount = AmountPaid
    <3>1. loc[q].rid \in Refunds BY <1>a, <2>3 DEF ControlOK, RowLabels
    <3>2. refund[loc[q].rid].status # "none" /\ refund[loc[q].rid].amount = AmountPaid
      BY <1>a, <1>b, <2>3 DEF Working, Sending, Before, Row
    <3> QED BY <3>1, <3>2, RowMoves DEF RowCreated, RowMove, SameTerms
  <2> QED BY <1>1, <1>a, <1>b, <2>1, <2>2, <2>3, RowSeenByOther DEF Working, Row
<1>2. CASE q = p /\ pc'[p] \in RowLabels
  <2> DEFINE r == loc'[p].rid
  <2>a. \A k \in 1..MaxMoves : r \in Refunds /\ refund[r].status \in Before => <<r, k>> \notin Ledger
    BY <1>a DEF MovedOnce
  <2>b. r \in Refunds
    <3>1. TypeOK' BY NextTyped DEF Next
    <3> QED BY <1>2, <3>1 DEF TypeOK, ControlOK
  <2>1. CASE pc[p] = "idle"
    <3>1. pc'[p] \in Reviewing => p \in Admins /\ refund[r].status = "REQUESTED"
      BY <1>2, <2>1, <1>a, RowHeld, RefundEdges DEF Edge, Reviewing, RowLabels
    <3>2. pc'[p] \notin Sending /\ UNCHANGED <<docs, world>>
      BY <1>2, <2>1, <1>a, RowHeld, RefundEdges DEF Edge, Sending, ReviewLabels, RowLabels
    <3>3. pc'[p] \in RowLabels \ Reviewing => refund[r].status \notin Before
      BY <1>2, <2>1, <1>a, RowHeld, RefundEdges
      DEF Edge, Reviewing, ReviewLabels, RowLabels, Before
    <3> QED BY <1>2, <3>1, <3>2, <3>3 DEF Working, Sending, docs
  <2>2. CASE pc[p] \in {"create", "lateCreate"}
    <3>1. /\ pc'[p] = "exec"
          /\ refund[r].status = "none"
          /\ refund'[r].status = "APPROVED"
      BY <1>2, <2>2, RowHeld DEF RowLabels
    <3>2. Ledger' = Ledger BY <2>2, LedgerGrows
    <3>3. \A k \in 1..MaxMoves : <<r, k>> \notin Ledger BY <2>a, <2>b, <3>1 DEF Before
    <3> QED BY <1>2, <3>1, <3>2, <3>3 DEF Working, Before, Reviewing
  <2>3. CASE pc[p] \in RowLabels
    <3>1. r = loc[p].rid BY <1>2, <2>3, RowHeld DEF RowLabels
    <3> HIDE DEF r
    <3>2. refund'[r] = refund[r] \/ RowMove(p, r)
      BY <2>b, <2>3, RowMoves DEF RowCreated, RowLabels
    <3>3. ASSUME pc[p] = "approveMark"
          PROVE  pc'[p] = "exec" /\ refund'[r].status = "APPROVED"
      <4>1. ApproveMark(p)
        BY <1>a, <3>3, SettlementEdges, RefundEdges, LifecycleEdges
        DEF Edge, Step, SettlementStep, RefundStep, LifecycleStep
      <4> QED BY <1>a, <2>b, <3>1, <4>1, Lands, RowSet DEF ApproveMark
    <3>4. pc'[p] \in Reviewing => pc[p] = "rejectRelease" /\ UNCHANGED refund
      BY <1>a, <2>3, Arrivals DEF Reviewing, ReadReview, RejectRelease, RowLabels
    <3>5. pc[p] \in Reviewing => p \in Admins /\ refund[r].status = "REQUESTED"
      BY <1>a, <3>1 DEF Working
    <3>6. ASSUME pc'[p] \in RowLabels \ Reviewing PROVE refund'[r].status \notin Before
      <4>1. CASE pc[p] = "approveMark" BY <3>3, <4>1 DEF Before
      <4>2. CASE pc[p] \in {"rejectRelease", "rejectMark"}
        BY <1>a, <3>6, <4>2, SettlementEdges, RefundEdges, LifecycleEdges
        DEF Edge, Step, SettlementStep, RefundStep, LifecycleStep, RowLabels, Reviewing
      <4>3. CASE pc[p] \in RowLabels \ Reviewing
        <5>1. refund[r].status \notin Before BY <1>a, <3>1, <4>3 DEF Working
        <5> QED BY <3>2, <4>3, <5>1 DEF RowMove, StatusWrites, Reviewing, Before
      <4> QED BY <2>3, <4>1, <4>2, <4>3 DEF Reviewing
    <3>7. ASSUME pc'[p] \in {"exec", "gateway"}, NEW k \in 1..MaxMoves PROVE <<r, k>> \notin Ledger'
      <4>0. pc[p] \in {"approveMark", "exec"}
        BY <1>a, <2>3, <3>7, Arrivals
        DEF RowLabels, CreateLate, CreateRefund, ApproveMark, SendToGateway
      <4>1. Ledger' = Ledger BY <4>0, LedgerGrows
      <4>2. CASE pc[p] = "approveMark"
        BY <2>a, <2>b, <3>5, <4>1, <4>2 DEF Before, Reviewing, r
      <4>3. CASE pc[p] = "exec" BY <1>a, <3>1, <4>1, <4>3 DEF Working
      <4> QED BY <4>0, <4>2, <4>3
    <3>8. ASSUME pc'[p] = "void" PROVE refund'[r].amount = AmountPaid
      <4>1. GatewayRejects(p) BY <1>a, <3>8, Arrivals
      <4> QED BY <1>a, <3>1, <3>8, <4>1, Lands DEF GatewayRejects, Row, docs
    <3> QED BY <1>2, <3>4, <3>5, <3>6, <3>7, <3>8 DEF Working, Row, Reviewing, r
  <2> QED BY <1>2, <2>1, <2>2, <2>3, RowHeld
<1>3. CASE q = p /\ pc'[p] \notin RowLabels
  BY <1>3, <1>b DEF Working, Sending
<1> QED BY <1>1, <1>2, <1>3

LEMMA OneSenderKept ==
    ASSUME TypeOK, OnceInv, NEW p \in Proc, Step(p)
    PROVE  OneSender'
<1>a. ControlOK /\ OneSender /\ \A q \in Proc : Working(q) BY DEF TypeOK, OnceInv
<1>b. Sending \subseteq RowLabels \ Reviewing BY DEF Sending, RowLabels, Reviewing
<1>1. ASSUME NEW q \in Proc, q # p, pc'[p] \in Sending, pc'[q] \in Sending
      PROVE  loc'[p].rid # loc'[q].rid
  <2>1. pc[q] \in Sending /\ loc'[q] = loc[q] BY <1>1, <1>a, OthersStay
  <2>2. refund[loc[q].rid].status \notin Before BY <1>a, <1>b, <2>1 DEF Working
  <2>3. CASE pc[p] \in Sending /\ loc'[p].rid = loc[p].rid
    BY <1>1, <1>a, <2>1, <2>3 DEF OneSender
  <2>4. CASE pc[p] = "approveMark" /\ loc'[p].rid = loc[p].rid
    <3>1. refund[loc[p].rid].status = "REQUESTED" BY <1>a, <2>4 DEF Working, Reviewing
    <3> QED BY <2>1, <2>2, <2>4, <3>1 DEF Before
  <2>5. CASE refund[loc'[p].rid].status = "none" BY <2>1, <2>2, <2>5 DEF Before
  <2>6. pc[p] \in Sending \cup {"approveMark", "create", "lateCreate"}
    BY <1>1, <1>a, Arrivals
    DEF Sending, CreateLate, CreateRefund, ApproveMark, SendToGateway, GatewayRejects
  <2>7. pc'[p] \in RowLabels BY <1>1, <1>b
  <2>8. /\ pc[p] \in RowLabels => loc'[p].rid = loc[p].rid
        /\ pc[p] \in {"create", "lateCreate"} => refund[loc'[p].rid].status = "none"
    BY <2>7, RowHeld DEF RowLabels
  <2> QED BY <1>b, <2>3, <2>4, <2>5, <2>6, <2>8 DEF RowLabels
<1>2. \A q \in Proc : q # p => pc'[q] = pc[q] /\ loc'[q] = loc[q] BY <1>a, OthersStay
<1> QED BY <1>a, <1>1, <1>2 DEF OneSender

LEMMA MovedOnceKept ==
    ASSUME TypeOK, OnceInv, NEW p \in Proc, Step(p)
    PROVE  MovedOnce'
<1>a. Working(p) /\ MovedOnce BY DEF OnceInv
<1> SUFFICES ASSUME NEW r \in Refunds, NEW k \in 1..MaxMoves, NEW l \in 1..MaxMoves,
                    <<r, k>> \in Ledger'
             PROVE  /\ refund'[r].status \notin Before
                    /\ <<r, l>> \in Ledger' => k = l
  BY DEF MovedOnce
<1>1. CASE Ledger' = Ledger
  <2>1. refund[r].status \notin Before BY <1>1, <1>a DEF MovedOnce
  <2>2. ~RowCreated(p, r) BY <2>1 DEF RowCreated, Before
  <2>3. ASSUME RowMove(p, r) PROVE refund'[r].status \notin Before
    <3>1. pc[p] \notin Reviewing BY <1>a, <2>1, <2>3 DEF RowMove, Working, Before
    <3> QED BY <2>3, <3>1 DEF RowMove, StatusWrites, Reviewing, Before
  <2>4. refund'[r].status \notin Before BY <2>1, <2>2, <2>3, RowMoves
  <2> QED BY <1>1, <1>a, <2>4 DEF MovedOnce
<1>2. ASSUME NEW j \in 1..MaxMoves, Ledger' = Ledger \cup {<<loc[p].rid, j>>},
             \A i \in 1..MaxMoves : <<loc[p].rid, i>> \notin Ledger,
             pc[p] \in {"gateway", "void"}, UNCHANGED refund
      PROVE  /\ refund'[r].status \notin Before
             /\ <<r, l>> \in Ledger' => k = l
  <2>1. CASE r = loc[p].rid
    <3>1. <<r, k>> \notin Ledger /\ <<r, l>> \notin Ledger
      BY <1>2, <2>1
    <3>2. refund[r].status \notin Before
      BY <1>a, <1>2, <2>1 DEF Working, RowLabels, Reviewing
    <3> QED BY <1>2, <2>1, <3>1, <3>2
  <2>2. CASE r # loc[p].rid
    <3>1. <<r, k>> \in Ledger /\ (<<r, l>> \in Ledger' => <<r, l>> \in Ledger) BY <1>2, <2>2
    <3> QED BY <1>a, <1>2, <3>1 DEF MovedOnce
  <2> QED BY <2>1, <2>2
<1> QED BY <1>1, <1>2, LedgerGrows

LEMMA OnceInit == Init => OnceInv
<1> SUFFICES ASSUME Init PROVE OnceInv OBVIOUS
<1>1. Ledger = {} BY DEF Init, Ledger
<1>2. IsFiniteSet(Ledger) BY <1>1, FS_EmptySet
<1> QED BY <1>1, <1>2 DEF Init, OnceInv, Working, OneSender, MovedOnce, RowLabels, Reviewing, Sending

LEMMA OnceNext == ASSUME TypeOK, OnceInv, ReviewsApart, [Next]_vars PROVE OnceInv'
<1>1. ASSUME NEW p \in Proc, Step(p) PROVE OnceInv'
  <2>a. IsFiniteSet(Ledger) BY DEF OnceInv
  <2>b. \A c : IsFiniteSet(Ledger \cup {c}) BY <2>a, FS_AddElement
  <2>1. IsFiniteSet(Ledger')
    <3>1. Ledger' = Ledger \/ \E c : Ledger' = Ledger \cup {c} BY <1>1, LedgerGrows
    <3> QED BY <2>a, <2>b, <3>1
  <2> QED BY <1>1, <2>1, WorkingKept, OneSenderKept, MovedOnceKept DEF OnceInv
<1>2. CASE Environment \/ UNCHANGED vars
  BY <1>2, EnvironmentFrame DEF OnceInv, Working, OneSender, MovedOnce, Row, Ledger
<1> QED BY <1>1, <1>2 DEF Next

(* As long as no two admins review one refund at a time, its money moves   *)
(* at most once, whatever times out, is retried by the cron or is refused  *)
(* and retried as a void, and whether or not a refused call had its effect *)
(* (executeRefund, reviewRefund, cron).                                    *)
THEOREM MovesCorrect == Spec /\ []ReviewsApart => []MovesOnce
<1>1. OnceInv => MovesOnce
  <2> SUFFICES ASSUME OnceInv, NEW r \in Refunds
               PROVE  Cardinality({k \in 1..MaxMoves : <<r, k>> \in Ledger}) <= 1
    BY DEF MovesOnce
  <2> DEFINE S == {k \in 1..MaxMoves : <<r, k>> \in Ledger}
  <2>1. \A k, l \in S : k = l BY DEF OnceInv, MovedOnce
  <2> HIDE DEF S
  <2>2. ASSUME S = {} PROVE Cardinality(S) <= 1 BY <2>2, FS_EmptySet
  <2>3. ASSUME S # {} PROVE Cardinality(S) <= 1
    <3>1. PICK k \in S : TRUE BY <2>3
    <3>2. S = {k} BY <2>1, <3>1
    <3> QED BY <3>2, FS_Singleton
  <2>4. Cardinality(S) <= 1 BY <2>2, <2>3
  <2> QED BY <2>4 DEF S
<1>2. TypeOK /\ OnceInv /\ ReviewsApart /\ [Next]_vars => OnceInv' BY OnceNext
<1> QED BY <1>1, <1>2, OnceInit, TypeCorrect, PTL DEF Spec

-------------------------------------------------------------------------------
(* Lines.  From its check to its creation a request for lines keeps them   *)
(* free, and rejected rows stay rejected.                                  *)
Asking(p) == pc[p] \in Requesting =>
                \A l \in Named(loc[p].lines) : ~LineTaken(loc[p].target, l)

LineInv == OnceInv /\ LinesRefundedOnce /\ \A p \in Proc : Asking(p)

LEMMA LiveRows ==
    ASSUME TypeOK, OnceInv, NEW p \in Proc, Step(p),
           NEW r \in Refunds, refund'[r].status \in LiveRefund
    PROVE  RowCreated(p, r) \/ (refund[r].status \in LiveRefund /\ SameTerms(r))
<1>1. CASE refund'[r] = refund[r] BY <1>1 DEF SameTerms
<1>2. CASE RowMove(p, r)
  <2>1. Working(p) BY DEF OnceInv
  <2>2. pc[p] \in RowLabels BY <1>2 DEF RowMove, StatusWrites, RowLabels
  <2>3. refund[r].status \notin {"none", "REJECTED"}
    BY <1>2, <2>1, <2>2 DEF RowMove, Working, Before
  <2>4. refund[r].status \in RefundStatuses \cup {"none"} BY RowsTyped DEF RefundDoc
  <2> QED BY <1>2, <2>3, <2>4 DEF RowMove, LiveRefund
<1> QED BY <1>1, <1>2, RowMoves

LEMMA NoneNotLive == "none" \notin LiveRefund
BY DEF LiveRefund, RefundStatuses

(* A new row that names a line is the one its creator asked for. *)
LEMMA CreatedLine ==
    ASSUME TypeOK, LineInv, NEW p \in Proc, NEW r \in Refunds, RowCreated(p, r),
           NEW l \in Named(refund'[r].lines)
    PROVE  /\ pc[p] \in Requesting
           /\ loc[p].target = refund'[r].target /\ loc[p].lines = refund'[r].lines
           /\ ~LineTaken(refund'[r].target, l)
BY NoLinesTyped DEF RowCreated, LineInv, Asking, Requesting

LEMMA LinesKept ==
    ASSUME TypeOK, LineInv, NEW p \in Proc, Step(p)
    PROVE  LinesRefundedOnce'
<1>a. OnceInv /\ LinesRefundedOnce BY DEF LineInv
<1> SUFFICES ASSUME NEW r \in Refunds, NEW s \in Refunds, r # s,
                    refund'[r].status \in LiveRefund, refund'[s].status \in LiveRefund,
                    refund'[r].target = refund'[s].target,
                    NEW l \in Named(refund'[r].lines), l \in Named(refund'[s].lines)
             PROVE  FALSE
  BY DEF LinesRefundedOnce, Named
<1>1. CASE RowCreated(p, r)
  <2>1. refund'[s] = refund[s] BY <1>1 DEF RowCreated
  <2>2. LineTaken(refund'[r].target, l) BY <2>1 DEF LineTaken
  <2> QED BY <1>1, <2>2, CreatedLine
<1>2. CASE RowCreated(p, s)
  <2>1. refund'[r] = refund[r] BY <1>2 DEF RowCreated
  <2>2. LineTaken(refund'[s].target, l) BY <2>1 DEF LineTaken
  <2> QED BY <1>2, <2>2, CreatedLine
<1>3. CASE ~RowCreated(p, r) /\ ~RowCreated(p, s)
  <2>1. /\ refund[r].status \in LiveRefund /\ SameTerms(r)
        /\ refund[s].status \in LiveRefund /\ SameTerms(s)
    BY <1>a, <1>3, LiveRows
  <2> QED BY <1>a, <2>1 DEF LinesRefundedOnce, SameTerms
<1> QED BY <1>1, <1>2, <1>3

LEMMA AskingKept ==
    ASSUME TypeOK, LineInv, LineRequestsApart, NEW p \in Proc, NEW q \in Proc, Step(p)
    PROVE  Asking(q)'
<1>a. ControlOK /\ OnceInv /\ Asking(q) BY DEF TypeOK, LineInv
<1>1. CASE q = p
  <2> SUFFICES ASSUME pc'[p] \in Requesting PROVE Asking(p)' BY <1>1 DEF Asking
  <2>1. UNCHANGED refund /\ \A l \in Named(loc'[p].lines) : ~LineTaken(loc'[p].target, l)
    BY <1>a, <1>1, RequestHeld DEF Asking, Requesting, docs
  <2> QED BY <2>1 DEF Asking, LineTaken, Named
<1>2. CASE q # p
  <2>1. pc'[q] = pc[q] /\ loc'[q] = loc[q] BY <1>2, <1>a, OthersStay
  <2> SUFFICES ASSUME pc[q] \in Requesting, NEW l \in Named(loc[q].lines),
                      NEW r \in Refunds, refund'[r].status \in LiveRefund,
                      refund'[r].target = loc[q].target, l \in Named(refund'[r].lines)
               PROVE  FALSE
    BY <1>a, <2>1 DEF Asking, LineTaken, Named
  <2>2. ~LineTaken(loc[q].target, l) BY <1>a DEF Asking
  <2>3. ~RowCreated(p, r) BY <1>2, CreatedLine DEF LineRequestsApart
  <2>4. refund[r].status \in LiveRefund /\ SameTerms(r) BY <1>a, <2>3, LiveRows
  <2> QED BY <2>2, <2>4 DEF LineTaken, SameTerms
<1> QED BY <1>1, <1>2

(* As long as no two requests for one line and no two reviews of one       *)
(* refund overlap, two live rows never cover the same line, although the   *)
(* check and the creation are apart and rows are approved, rejected and    *)
(* settled in between (assertLineItemsNotAlreadyRefunded).  What one row   *)
(* names twice is not compared with itself.                                *)
THEOREM LinesCorrect ==
    Spec /\ []ReviewsApart /\ []LineRequestsApart => []LinesRefundedOnce
<1>1. Init => LineInv
  <2> SUFFICES ASSUME Init PROVE LineInv OBVIOUS
  <2>1. LinesRefundedOnce BY NoneNotLive DEF Init, NoRow, LinesRefundedOnce
  <2>2. \A p \in Proc : Asking(p) BY DEF Init, Asking, Requesting
  <2> QED BY <2>1, <2>2, OnceInit DEF LineInv
<1>2. TypeOK /\ LineInv /\ ReviewsApart /\ LineRequestsApart /\ [Next]_vars => LineInv'
  <2> SUFFICES ASSUME TypeOK, LineInv, ReviewsApart, LineRequestsApart, [Next]_vars
               PROVE  LineInv'
    OBVIOUS
  <2>1. OnceInv' BY OnceNext DEF LineInv
  <2>2. ASSUME NEW p \in Proc, Step(p) PROVE LineInv'
    BY <2>1, <2>2, LinesKept, AskingKept DEF LineInv
  <2>3. CASE Environment \/ UNCHANGED vars
    BY <2>1, <2>3, EnvironmentFrame DEF LineInv, LinesRefundedOnce, Asking, LineTaken
  <2> QED BY <2>2, <2>3 DEF Next
<1>3. LineInv => LinesRefundedOnce BY DEF LineInv
<1> QED BY <1>1, <1>2, <1>3, TypeCorrect, PTL DEF Spec

-------------------------------------------------------------------------------
(* Ownership.  When at most one admin reviews, at most one cron tick runs  *)
(* and no tick falls into an open gateway call, a row has one owner, and   *)
(* the owner's label tells the row's status.                               *)
StatusAt ==
    [ l \in RowLabels |->
        CASE l = "exec"                          -> "APPROVED"
          [] l \in {"consequences", "applyTargets"} -> "SUCCEEDED"
          [] l \in {"settleReserve", "settleMark"}  -> "MANUAL_REQUIRED"
          [] l \in Reviewing                        -> "REQUESTED"
          [] OTHER                                  -> "PROCESSING" ]

Calling == {"exec", "gateway", "void", "settle", "release", "flagManual"}

Owning(p) ==
    /\ pc[p] \in RowLabels => refund[loc[p].rid].status = StatusAt[pc[p]]
    /\ pc[p] \in ReviewLabels => p \in Admins
    /\ pc[p] = "refundInquiry" => p \in Reconcilers

OneOwner ==
    \A p, q \in Proc : /\ pc[p] \in RowLabels /\ pc[q] \in RowLabels
                       /\ loc[p].rid = loc[q].rid
                       => p = q

OwnInv == (\A p \in Proc : Owning(p)) /\ OneOwner

LEMMA StatusAtValues ==
    /\ StatusAt["exec"] = "APPROVED"
    /\ \A l \in {"gateway", "void", "settle", "release", "flagManual", "refundInquiry"} :
          StatusAt[l] = "PROCESSING"
    /\ \A l \in {"consequences", "applyTargets"} : StatusAt[l] = "SUCCEEDED"
    /\ \A l \in {"settleReserve", "settleMark"} : StatusAt[l] = "MANUAL_REQUIRED"
    /\ \A l \in Reviewing : StatusAt[l] = "REQUESTED"
    /\ RowLabels = Calling \cup {"refundInquiry", "consequences", "applyTargets",
                                 "settleReserve", "settleMark"} \cup Reviewing
    /\ ReviewLabels = {"settleReserve", "settleMark"} \cup Reviewing
<1>1. /\ RowLabels = Calling \cup {"refundInquiry", "consequences", "applyTargets",
                                 "settleReserve", "settleMark"} \cup Reviewing
      /\ ReviewLabels = {"settleReserve", "settleMark"} \cup Reviewing
  BY DEF RowLabels, Calling, Reviewing, ReviewLabels
<1> QED BY <1>1 DEF StatusAt, RowLabels, Reviewing

LEMMA NeverNone == \A l \in RowLabels : StatusAt[l] # "none"
BY StatusAtValues DEF Calling

LEMMA OwnRowWritten ==
    ASSUME TypeOK, OwnInv, NEW p \in Proc, NEW q \in Proc, q # p, Step(p), pc[q] \in RowLabels
    PROVE  refund'[loc[q].rid] = refund[loc[q].rid]
<1> DEFINE r == loc[q].rid
<1>1. r \in Refunds BY DEF TypeOK, ControlOK
<1>2. ~RowCreated(p, r) BY NeverNone DEF RowCreated, OwnInv, Owning
<1>3. ~RowMove(p, r)
  BY DEF RowMove, StatusWrites, RowLabels, OwnInv, OneOwner
<1> QED BY <1>1, <1>2, <1>3, RowMoves

LEMMA SettledRow ==
    ASSUME TypeOK, NEW p \in Proc, SettleSucceeded(p)
    PROVE  refund'[loc[p].rid].status = "SUCCEEDED"
<1>1. loc[p].rid \in Refunds BY DEF SettleSucceeded, TypeOK, ControlOK, RowLabels
<1>2. refund' = [refund EXCEPT ![loc[p].rid] =
                   [refund[loc[p].rid] EXCEPT !.status = "SUCCEEDED", !.claim = loc[p].claim]]
  BY <1>1, RowsTyped DEF SettleSucceeded
<1> QED BY <1>1, <1>2, RowsTyped DEF RefundDoc

LEMMA OwningArrival ==
    ASSUME TypeOK, OwnInv, NEW p \in Proc, Step(p), pc'[p] \in RowLabels
    PROVE  refund'[loc'[p].rid].status = StatusAt[pc'[p]]
<1>a. ControlOK /\ Owning(p) BY DEF TypeOK, OwnInv
<1>b. pc[p] \in RowLabels => loc[p].rid \in Refunds /\ loc'[p].rid = loc[p].rid
  BY <1>a, RowHeld DEF ControlOK, RowLabels
<1>c. ASSUME NEW s, SetRow(p, s), pc[p] \in RowLabels PROVE refund'[loc'[p].rid].status = s
  BY <1>b, <1>c, RowSet
<1> USE StatusAtValues
<1>1. CASE pc'[p] = "exec"
  <2>1. CASE ApproveMark(p)
    BY <1>1, <1>c, <2>1 DEF ApproveMark, RowLabels
  <2>2. CASE CreateLate(p) \/ CreateRefund(p)
    BY <1>1, <2>2, RowHeld DEF CreateLate, CreateRefund, RowLabels
  <2> QED BY <1>1, <1>a, <2>1, <2>2, Arrivals
<1>2. CASE pc'[p] = "gateway"
  BY <1>2, <1>a, <1>c, Arrivals DEF SendToGateway, RowLabels
<1>3. CASE pc'[p] \in {"void", "settle", "release", "flagManual"}
  <2>1. /\ pc[p] \in {"gateway", "void", "refundInquiry", "release"}
        /\ UNCHANGED refund
    BY <1>3, <1>a, Arrivals
    DEF GatewayRejects, GatewayAccepts, MatchChild, NoChildFound, ReleaseHeadroom, docs
  <2> QED BY <1>3, <1>a, <1>b, <2>1 DEF Owning, RowLabels
<1>4. CASE pc'[p] = "consequences"
  <2>1. CASE ExecuteOffline(p)
    BY <1>4, <1>a, <1>c, <2>1, Lands DEF ExecuteOffline, RowLabels
  <2>2. CASE SettleMark(p) BY <1>4, <1>c, <2>2 DEF SettleMark, RowLabels
  <2>3. CASE SettleSucceeded(p)
    BY <1>4, <1>b, <2>3, SettledRow DEF SettleSucceeded, RowLabels
  <2> QED BY <1>4, <1>a, <2>1, <2>2, <2>3, Arrivals
<1>5. CASE pc'[p] = "applyTargets"
  <2>1. pc[p] \in {"consequences", "applyTargets"} /\ UNCHANGED refund
    BY <1>5, <1>a, Arrivals DEF ReadTargets, ApplyConsequence, docs
  <2> QED BY <1>5, <1>a, <1>b, <2>1 DEF Owning, RowLabels
<1>6. CASE pc'[p] \in ReviewLabels
  <2>1. CASE ReadReview(p)
    <3>1. pc[p] = "idle" /\ UNCHANGED refund BY <2>1 DEF ReadReview, docs
    <3>2. ~PickStuck(p)
      BY <1>6, <1>a, RefundEdges DEF Edge, ReviewLabels
    <3>3. /\ pc'[p] \in Reviewing => refund[loc'[p].rid].status = "REQUESTED"
          /\ pc'[p] \in {"settleMark", "settleReserve"} =>
                refund[loc'[p].rid].status = "MANUAL_REQUIRED"
      BY <1>6, <3>1, <3>2, RowHeld DEF RowLabels
    <3> QED BY <1>6, <3>1, <3>3 DEF Reviewing, ReviewLabels
  <2>2. CASE SettleReserve(p) \/ RejectRelease(p)
    <3>1. pc[p] = IF pc'[p] = "settleMark" THEN "settleReserve" ELSE "rejectRelease"
      BY <1>a, <1>6, <2>2, RefundEdges DEF Edge, ReviewLabels
    <3>2. UNCHANGED refund /\ pc'[p] \in {"settleMark", "rejectMark"}
      BY <1>a, <1>6, <2>2, RefundEdges DEF Edge, ReviewLabels, SettleReserve, RejectRelease
    <3> QED BY <1>a, <1>b, <3>1, <3>2 DEF Owning, RowLabels, Reviewing
  <2> QED BY <1>6, <1>a, <2>1, <2>2, Arrivals DEF ReviewLabels
<1>7. CASE pc'[p] = "refundInquiry"
  <2>1. PickStuck(p) BY <1>7, <1>a, Arrivals
  <2>2. pc[p] = "idle" /\ UNCHANGED refund BY <2>1 DEF PickStuck, docs
  <2>3. ~ReadReview(p)
    BY <1>7, <1>a, RefundEdges DEF Edge, ReviewLabels
  <2>4. refund[loc'[p].rid].status = "PROCESSING"
    BY <1>7, <2>2, <2>3, RowHeld DEF RowLabels
  <2> QED BY <1>7, <2>2, <2>4
<1> QED BY <1>1, <1>2, <1>3, <1>4, <1>5, <1>6, <1>7 DEF Calling

LEMMA OwningKept ==
    ASSUME TypeOK, OwnInv, NEW p \in Proc, NEW q \in Proc, Step(p)
    PROVE  Owning(q)'
<1>a. ControlOK /\ Owning(p) /\ Owning(q) BY DEF TypeOK, OwnInv
<1>1. CASE q # p BY <1>1, <1>a, OthersStay, OwnRowWritten DEF Owning
<1>2. CASE q = p
  <2>1. pc'[p] \in ReviewLabels => p \in Admins
    BY <1>a, Arrivals DEF ReviewLabels, ReadReview, SettleReserve, RejectRelease, Owning
  <2>2. pc'[p] = "refundInquiry" => p \in Reconcilers BY <1>a, Arrivals DEF PickStuck
  <2> QED BY <1>2, <2>1, <2>2, OwningArrival DEF Owning
<1> QED BY <1>1, <1>2

LEMMA OneOwnerKept ==
    ASSUME TypeOK, OwnInv, ReviewsApart', TicksApart', CallsOutrunCron, NEW p \in Proc, Step(p)
    PROVE  OneOwner'
<1>a. ControlOK /\ OneOwner /\ \A q \in Proc : Owning(q) BY DEF TypeOK, OwnInv
<1>1. ASSUME NEW q \in Proc, q # p, pc'[p] \in RowLabels, pc'[q] \in RowLabels,
             loc'[p].rid = loc'[q].rid
      PROVE  FALSE
  <2>1. pc[q] \in RowLabels /\ loc'[q] = loc[q] BY <1>1, <1>a, OthersStay
  <2>2. refund[loc'[p].rid].status = StatusAt[pc[q]] BY <1>1, <1>a, <2>1 DEF Owning
  <2>3. CASE pc[p] \in RowLabels /\ loc'[p].rid = loc[p].rid
    BY <1>1, <1>a, <2>1, <2>3 DEF OneOwner
  <2>4. CASE ReadReview(p) /\ p \in Admins
    <3>1. refund[loc'[p].rid].status \in {"REQUESTED", "MANUAL_REQUIRED"}
      BY <1>1, <2>4, <1>a, RowHeld, RefundEdges DEF Edge, ReviewLabels, Reviewing, ReadReview, RowLabels
    <3>2. pc[q] \in ReviewLabels BY <2>1, <2>2, <3>1, StatusAtValues DEF Calling
    <3>3. pc'[p] \in ReviewLabels BY <1>a, <2>4, Lands DEF ReadReview, ReviewLabels
    <3>4. pc'[q] \in ReviewLabels BY <1>1, <1>a, <3>2, OthersStay
    <3> QED BY <1>1, <3>3, <3>4 DEF ReviewsApart
  <2>5. CASE PickStuck(p) /\ p \in Reconcilers
    <3>a. pc[p] = "idle" /\ pc'[p] = "refundInquiry"
      BY <2>5, <1>a, RefundEdges, <1>1 DEF Edge, PickStuck, RowLabels
    <3>b. ~ReadReview(p)
      BY <3>a, <1>a, RefundEdges DEF Edge, ReviewLabels
    <3>1. refund[loc'[p].rid].status = "PROCESSING" /\ ~InCall(loc'[p].rid)
      BY <1>1, <3>a, <3>b, RowHeld DEF RowLabels
    <3>2. pc[q] \in Calling \cup {"refundInquiry"}
      BY <2>1, <2>2, <3>1, StatusAtValues
    <3>3. pc[q] \notin Calling BY <1>1, <2>1, <3>1 DEF InCall, Calling
    <3>4. pc'[q] = "refundInquiry" BY <1>1, <1>a, <3>2, <3>3, OthersStay
    <3> QED BY <1>1, <3>a, <3>4 DEF TicksApart
  <2>6. CASE refund[loc'[p].rid].status = "none" BY <2>1, <2>2, <2>6, NeverNone
  <2> QED BY <1>1, <2>3, <2>4, <2>5, <2>6, RowHeld
<1>2. \A q \in Proc : q # p => pc'[q] = pc[q] /\ loc'[q] = loc[q] BY <1>a, OthersStay
<1> QED BY <1>a, <1>1, <1>2 DEF OneOwner

-------------------------------------------------------------------------------
(* A group that has been paid, or is paid in cash, never goes back to a    *)
(* status in which nothing is committed: no handler may then cancel an     *)
(* order without a refund, and what a refund's loop still has to write is  *)
(* covered by its row.                                                     *)
Committed == /\ group \notin NOTHING_COMMITTED_STATUSES
             /\ \A o \in Orders : order[o].status \notin NOTHING_COMMITTED_STATUSES

Unrefunded == {"closeWindow", "cancelOrders", "cancelOne", "promoteGroup", "restock"}

Backing(p) ==
    /\ pc[p] \notin Unrefunded
    /\ pc[p] = "recompute" => loc[p].next \notin NOTHING_COMMITTED_STATUSES
    /\ pc[p] = "writeStatus" => loc[p].next \in StaffTargets \ {"CANCELLED"}
    /\ pc[p] = "applyTargets" => loc[p].todo \subseteq Covered(Row(p).target)

BackInv == OwnInv /\ Committed /\ \A p \in Proc : Backing(p)

(* Staff put no order to a refunded or an unpaid status by hand. *)
RefundsOnlyByRefund ==
    StaffTargets \cap ({"REFUNDED"} \cup NOTHING_COMMITTED_STATUSES) = {}

LEMMA OverallOfCommitted ==
    ASSUME TypeOK, Committed
    PROVE  ComputeOverallStatus(Statuses(order)) \notin NOTHING_COMMITTED_STATUSES
<1>1. 1 \in Orders BY MoneyAssumption DEF Orders
<1>2. Statuses(order)[1] \notin NOTHING_COMMITTED_STATUSES
  BY <1>1 DEF Committed, Statuses
<1> QED BY <1>2 DEF ComputeOverallStatus, NOTHING_COMMITTED_STATUSES

LEMMA CommittedKept ==
    ASSUME TypeOK, BackInv, RefundsOnlyByRefund, NEW p \in Proc, Step(p)
    PROVE  Committed'
<1>a. Committed /\ Backing(p) BY DEF BackInv
<1>1. ASSUME NEW o \in Orders PROVE order'[o].status \notin NOTHING_COMMITTED_STATUSES
  <2>1. StatusMove(p, o) BY OrderMoves
  <2>2. order[o].status \notin NOTHING_COMMITTED_STATUSES BY <1>a DEF Committed
  <2>3. \A s \in AfterRefund : s \notin NOTHING_COMMITTED_STATUSES
    BY DEF AfterRefund, NOTHING_COMMITTED_STATUSES
  <2>4. CASE pc[p] = "writeStatus" /\ order'[o].status = loc[p].next
    BY <1>a, <2>4 DEF Backing, RefundsOnlyByRefund
  <2> QED
    BY <2>1, <2>2, <2>3, <2>4 DEF StatusMove, NOTHING_COMMITTED_STATUSES
<1>2. group' \notin NOTHING_COMMITTED_STATUSES
  <2>1. CASE UNCHANGED group BY <1>a, <2>1 DEF Committed
  <2>2. CASE PromoteGroup(p) BY <1>a, <2>2 DEF PromoteGroup, Backing, Unrefunded
  <2>3. CASE ClaimFailure(p)
    BY <1>a, <2>3 DEF ClaimFailure, Committed, NOTHING_COMMITTED_STATUSES
  <2>4. CASE CancelGroup(p) BY <1>a, <2>4 DEF CancelGroup, Backing, Unrefunded
  <2>5. CASE RecomputeGroup(p) BY <1>a, <2>5 DEF RecomputeGroup, Backing
  <2> QED BY <2>1, <2>2, <2>3, <2>4, <2>5, GroupWriters
<1> QED BY <1>1, <1>2 DEF Committed

(* While nothing is uncommitted, no handler enters the paths that skip the *)
(* refund.                                                                 *)
LEMMA NoWayAround ==
    ASSUME TypeOK, BackInv, NEW p \in Proc, Step(p)
    PROVE  pc'[p] \notin Unrefunded
<1>a. ControlOK /\ Committed /\ Backing(p) BY DEF BackInv, TypeOK
<1>1. pc'[p] # "closeWindow"
  <2>1. ~ReadCancel(p) \/ pc'[p] = "request"
    BY <1>a, Lands DEF ReadCancel, Committed
  <2> QED BY <1>a, <2>1, Arrivals
<1>2. pc'[p] # "cancelOrders"
  BY <1>a, Arrivals, LifecycleEdges DEF Edge, Backing, Unrefunded
<1>3. pc'[p] # "cancelOne"
  <2> SUFFICES ASSUME NEW o \in Orders, NEW s \in StaffTargets, NEW direct \in BOOLEAN,
                      ReadUpdate(p, o, s, direct), pc'[p] = "cancelOne"
               PROVE  FALSE
    BY <1>a, Arrivals
  <2>1. order[o].status \in NOTHING_COMMITTED_STATUSES
    BY <1>a, Lands DEF ReadUpdate
  <2> QED BY <1>a, <2>1 DEF Committed
<1>4. pc'[p] # "promoteGroup"
  BY <1>a, Arrivals DEF PromoteOrders, Committed, NOTHING_COMMITTED_STATUSES
<1>5. pc'[p] # "restock"
  <2>1. ClaimFailure(p) => pc'[p] = "idle"
    BY <1>a, Lands DEF ClaimFailure, Committed, NOTHING_COMMITTED_STATUSES
  <2>2. ~RestockNext(p) BY <1>a DEF RestockNext, Backing, Unrefunded
  <2> QED BY <1>a, <2>1, <2>2, Arrivals
<1> QED BY <1>1, <1>2, <1>3, <1>4, <1>5 DEF Unrefunded

LEMMA TodoCovered ==
    ASSUME TypeOK, BackInv, NEW p \in Proc, Step(p), pc'[p] = "applyTargets"
    PROVE  loc'[p].todo \subseteq Covered(refund'[loc'[p].rid].target)
<1>a. ControlOK /\ loc[p] \in Locals /\ Backing(p) BY LocalsTyped DEF BackInv, TypeOK
<1>1. CASE ReadTargets(p)
  <2> DEFINE held == [loc[p] EXCEPT !.view = Statuses(order), !.todo = Covered(Row(p).target)]
  <2>1. held.rid = loc[p].rid /\ held.todo = Covered(Row(p).target) BY <1>a DEF Locals
  <2>2. loc'[p] = held BY <1>1, <1>a, Lands DEF ReadTargets
  <2> HIDE DEF held
  <2>3. UNCHANGED refund BY <1>1 DEF ReadTargets, docs
  <2> QED BY <2>1, <2>2, <2>3 DEF Row
<1>2. CASE ApplyConsequence(p)
  <2>1. PICK o \in Orders : Hold(p, [loc[p] EXCEPT !.todo = @ \ {o}])
    BY <1>2 DEF ApplyConsequence
  <2>2. loc'[p].rid = loc[p].rid /\ loc'[p].todo = loc[p].todo \ {o}
    BY <1>a, <2>1, Lands DEF Locals
  <2>3. UNCHANGED refund /\ pc[p] = "applyTargets" BY <1>2 DEF ApplyConsequence
  <2> QED BY <1>a, <2>2, <2>3 DEF Backing, Row
<1> QED BY <1>1, <1>2, <1>a, Arrivals

LEMMA BackingKept ==
    ASSUME TypeOK, BackInv, NEW p \in Proc, NEW q \in Proc, Step(p)
    PROVE  Backing(q)'
<1>a. ControlOK /\ loc[p] \in Locals /\ Backing(q) BY LocalsTyped DEF BackInv, TypeOK
<1>1. CASE q = p
  <2>1. pc'[p] = "recompute" => loc'[p].next \notin NOTHING_COMMITTED_STATUSES
    <3> SUFFICES ASSUME ReadSiblings(p)
                 PROVE  loc'[p].next \notin NOTHING_COMMITTED_STATUSES
      BY <1>a, Arrivals
    <3> DEFINE s == ComputeOverallStatus(Statuses(order))
               held == [loc[p] EXCEPT !.next = s]
    <3>1. held.next = s BY <1>a DEF Locals
    <3>2. loc'[p] = held BY <1>a, Lands DEF ReadSiblings
    <3>3. s \notin NOTHING_COMMITTED_STATUSES BY OverallOfCommitted DEF BackInv
    <3> QED BY <3>1, <3>2, <3>3
  <2>2. pc'[p] = "writeStatus" => loc'[p].next \in StaffTargets \ {"CANCELLED"}
    BY UpdateHeld
  <2> QED BY <1>1, <2>1, <2>2, NoWayAround, TodoCovered DEF Backing, Row
<1>2. CASE q # p
  <2>1. pc'[q] = pc[q] /\ loc'[q] = loc[q] BY <1>a, <1>2, OthersStay
  <2>2. pc[q] = "applyTargets" => refund'[loc[q].rid].target = refund[loc[q].rid].target
    <3> SUFFICES ASSUME pc[q] = "applyTargets"
                 PROVE  refund'[loc[q].rid].target = refund[loc[q].rid].target
      OBVIOUS
    <3>1. loc[q].rid \in Refunds BY <1>a DEF ControlOK, RowLabels
    <3>2. refund[loc[q].rid].status = "SUCCEEDED"
      BY StatusAtValues DEF BackInv, OwnInv, Owning, RowLabels
    <3> QED BY <3>1, <3>2, RowMoves DEF RowCreated, RowMove, SameTerms
  <2> QED BY <1>a, <2>1, <2>2 DEF Backing, Row
<1> QED BY <1>1, <1>2

LEMMA BackNext ==
    ASSUME TypeOK, BackInv, ReviewsApart', TicksApart', CallsOutrunCron, RefundsOnlyByRefund,
           [Next]_vars
    PROVE  BackInv'
<1>1. ASSUME NEW p \in Proc, Step(p) PROVE BackInv'
  <2>1. OwnInv' BY <1>1, OwningKept, OneOwnerKept DEF BackInv, OwnInv
  <2> QED BY <1>1, <2>1, CommittedKept, BackingKept DEF BackInv
<1>2. CASE Environment \/ UNCHANGED vars
  BY <1>2, EnvironmentFrame
  DEF SameOrder, BackInv, OwnInv, Owning, OneOwner, Committed, Backing, Row
<1> QED BY <1>1, <1>2 DEF Next

(* One pass of applyOrderConsequences writes the order it takes only.      *)
LEMMA OneTargetWritten ==
    ASSUME TypeOK, NEW p \in Proc, ApplyConsequence(p), NEW o \in Orders, order'[o] # order[o]
    PROVE  o \in loc[p].todo
<1>1. PICK t \in Orders :
        /\ NextIn(loc[p].todo, t)
        /\ order' = [order EXCEPT ![t] =
                        ApplyTarget(order[t], loc[p].view[t], Row(p).lines # NoLines)]
  BY DEF ApplyConsequence
<1>2. o = t BY <1>1, OneWritten
<1> QED BY <1>1, <1>2 DEF NextIn

LEMMA CancelledByItsRefund ==
    ASSUME TypeOK, BackInv, RefundsOnlyByRefund, NEW p \in Proc, Step(p), NEW o \in Orders,
           order'[o].status # order[o].status, order'[o].status \in {"CANCELLED", "REFUNDED"}
    PROVE  \E r \in Refunds : refund[r].status = "SUCCEEDED" /\ refund[r].target \in {o, Whole}
<1>a. ControlOK /\ Backing(p) /\ Owning(p) BY DEF TypeOK, BackInv, OwnInv
<1>1. StatusMove(p, o) BY OrderMoves
<1>2. pc[p] = "writeStatus" => loc[p].next \notin {"CANCELLED", "REFUNDED"}
  BY <1>a DEF Backing, RefundsOnlyByRefund
<1>3. pc[p] = "applyTargets"
  BY <1>a, <1>1, <1>2 DEF StatusMove, Backing, Unrefunded
<1>4. ApplyConsequence(p)
  <2>1. ~UNCHANGED order OBVIOUS
  <2> QED
    BY <1>3, <2>1, OrderWriters
    DEF PromoteOrders, ParkOrders, RestockNext, CancelNext, CancelOne, WriteStatus, DeductInventory
<1>5. o \in Covered(Row(p).target) BY <1>a, <1>3, <1>4, OneTargetWritten DEF Backing
<1>6. Row(p).target \in {o, Whole} BY <1>5 DEF Covered
<1>7. loc[p].rid \in Refunds /\ Row(p).status = "SUCCEEDED"
  BY <1>a, <1>3, StatusAtValues DEF ControlOK, RowLabels, Owning, Row
<1> QED BY <1>6, <1>7 DEF Row

(* An order is cancelled or marked refunded only after a refund that       *)
(* covers it says SUCCEEDED, for a group that starts committed (paid, or   *)
(* cash on delivery), as long as no two reviews and no two ticks are at    *)
(* one refund together, no tick falls into an open gateway call, and       *)
(* staff put no order to REFUNDED or to an unpaid status by hand           *)
(* (executeAndApply, cancelOrderGroup, updateOrderStatus).                 *)
THEOREM BackCorrect ==
    ASSUME IsCod \/ InitiallyPaid, CallsOutrunCron, RefundsOnlyByRefund
    PROVE  Spec /\ []ReviewsApart /\ []TicksApart => CancelledAfterMoneyBack
<1>1. Init => BackInv
  <2> SUFFICES ASSUME Init PROVE BackInv OBVIOUS
  <2>1. \A p \in Proc : pc[p] = "idle" BY DEF Init
  <2>2. OwnInv BY <2>1 DEF OwnInv, Owning, OneOwner, RowLabels, ReviewLabels
  <2>3. \A p \in Proc : Backing(p) BY <2>1 DEF Backing, Unrefunded
  <2>4. InitialStatus = "PENDING" BY DEF InitialStatus
  <2>5. Committed BY <2>4 DEF Init, Committed, NOTHING_COMMITTED_STATUSES
  <2> QED BY <2>2, <2>3, <2>5 DEF BackInv
<1>2. TypeOK /\ BackInv /\ ReviewsApart' /\ TicksApart' /\ [Next]_vars => BackInv' BY BackNext
<1>3. TypeOK /\ BackInv /\ [Next]_vars
        => \A o \in Orders :
              /\ order'[o].status # order[o].status
              /\ order'[o].status \in {"CANCELLED", "REFUNDED"}
              /\ payment.status = "PAID" \/ IsCod
              => \E r \in Refunds : /\ refund[r].status = "SUCCEEDED"
                                    /\ refund[r].target \in {o, Whole}
  <2> SUFFICES ASSUME TypeOK, BackInv, [Next]_vars, NEW o \in Orders,
                      order'[o].status # order[o].status,
                      order'[o].status \in {"CANCELLED", "REFUNDED"}
               PROVE  \E r \in Refunds : /\ refund[r].status = "SUCCEEDED"
                                         /\ refund[r].target \in {o, Whole}
    OBVIOUS
  <2>1. CASE Environment \/ UNCHANGED vars BY <2>1, EnvironmentFrame DEF SameOrder
  <2>2. ASSUME NEW p \in Proc, Step(p)
        PROVE  \E r \in Refunds : /\ refund[r].status = "SUCCEEDED"
                                  /\ refund[r].target \in {o, Whole}
    BY <2>2, CancelledByItsRefund
  <2> QED BY <2>1, <2>2 DEF Next
<1> QED BY <1>1, <1>2, <1>3, TypeCorrect, PTL DEF Spec, CancelledAfterMoneyBack

-------------------------------------------------------------------------------
(* The counter, explained by the hands of the handlers and the rows.       *)
Hands == SumFunctionOnSet([p \in Proc |-> InHand(p)], Proc)
Rows  == SumFunctionOnSet([r \in Refunds |-> Reserved(r)], Refunds)

Explained == payment.refunded = Hands + Rows

(* The labels at which the row of a handler reserves nothing. *)
Unreserved == {"rejectMark", "flagManual", "settleReserve"}

Owned(r) == \E p \in Proc : pc[p] \in RowLabels /\ loc[p].rid = r

LEMMA HandsTyped ==
    ASSUME TypeOK, NEW p \in Proc
    PROVE  InHand(p) \in Nat
<1>1. loc[p] \in Locals BY LocalsTyped DEF TypeOK
<1> QED BY <1>1, MoneyAssumption DEF InHand, Locals

LEMMA ReservedTyped ==
    ASSUME TypeOK, NEW r \in Refunds
    PROVE  Reserved(r) \in Nat /\ refund[r].amount \in Nat
BY RowsTyped DEF Reserved, RefundDoc

(* An owned row counts unless its owner is at one of those labels; a row   *)
(* nobody owns counts when its status says so.                             *)
LEMMA CountsOwned ==
    ASSUME TypeOK, OwnInv, NEW p \in Proc, pc[p] \in RowLabels
    PROVE  Counts(loc[p].rid) <=> pc[p] \notin Unreserved
<1> DEFINE r == loc[p].rid
<1>1. refund[r].status = StatusAt[pc[p]] BY DEF OwnInv, Owning
<1>2. \A L \in SUBSET RowLabels : At(L, r) <=> pc[p] \in L
  BY DEF At, OwnInv, OneOwner
<1>3. {"rejectMark", "flagManual"} \in SUBSET RowLabels /\ {"settleMark"} \in SUBSET RowLabels
  BY DEF RowLabels
<1>4. Counts(r) <=> \/ StatusAt[pc[p]] \in Reserving /\ pc[p] \notin {"rejectMark", "flagManual"}
                    \/ StatusAt[pc[p]] = "MANUAL_REQUIRED" /\ pc[p] = "settleMark"
  BY <1>1, <1>2, <1>3 DEF Counts
<1> HIDE DEF r
<1>5. pc[p] \in RowLabels OBVIOUS
<1> QED BY <1>4, <1>5, StatusAtValues DEF Unreserved, Reserving, Calling, Reviewing, r

LEMMA CountsOwnedNext ==
    ASSUME OwnInv', NEW p \in Proc, pc'[p] \in RowLabels, NEW r, loc'[p].rid = r
    PROVE  Counts(r)' <=> pc'[p] \notin Unreserved
<1>1. refund'[r].status = StatusAt[pc'[p]] BY DEF OwnInv, Owning
<1>2. \A L \in SUBSET RowLabels : At(L, r)' <=> pc'[p] \in L
  BY DEF At, OwnInv, OneOwner
<1>3. {"rejectMark", "flagManual"} \in SUBSET RowLabels /\ {"settleMark"} \in SUBSET RowLabels
  BY DEF RowLabels
<1>4. Counts(r)' <=> \/ StatusAt[pc'[p]] \in Reserving /\ pc'[p] \notin {"rejectMark", "flagManual"}
                     \/ StatusAt[pc'[p]] = "MANUAL_REQUIRED" /\ pc'[p] = "settleMark"
  BY <1>1, <1>2, <1>3 DEF Counts
<1> QED BY <1>4, StatusAtValues DEF Unreserved, Reserving, Calling, Reviewing

LEMMA CountsUnowned ==
    ASSUME NEW r, ~Owned(r)
    PROVE  Counts(r) <=> refund[r].status \in Reserving
BY DEF Counts, At, Owned, RowLabels

(* A row the stepping handler neither works on nor takes nor creates.      *)
LEMMA UntouchedRow ==
    ASSUME TypeOK, NEW p \in Proc, Step(p), NEW r \in Refunds,
           ~(pc[p] \in RowLabels /\ loc[p].rid = r),
           ~(pc'[p] \in RowLabels /\ loc'[p].rid = r),
           ~RowCreated(p, r)
    PROVE  refund'[r] = refund[r] /\ Reserved(r)' = Reserved(r)
<1>a. ControlOK BY DEF TypeOK
<1>1. ~RowMove(p, r) BY DEF RowMove, StatusWrites, RowLabels
<1>2. refund'[r] = refund[r] BY <1>1, RowMoves
<1>3. \A L \in SUBSET RowLabels : At(L, r)' <=> At(L, r)
  <2> SUFFICES ASSUME NEW L \in SUBSET RowLabels PROVE At(L, r)' <=> At(L, r) OBVIOUS
  <2>1. \A q \in Proc : (pc'[q] \in L /\ loc'[q].rid = r) <=> (pc[q] \in L /\ loc[q].rid = r)
    BY <1>a, OthersStay
  <2> QED BY <2>1 DEF At
<1>4. At({"rejectMark", "flagManual"}, r)' <=> At({"rejectMark", "flagManual"}, r)
  BY <1>3 DEF RowLabels
<1>5. At({"settleMark"}, r)' <=> At({"settleMark"}, r) BY <1>3 DEF RowLabels
<1>6. Counts(r)' <=> Counts(r) BY <1>2, <1>4, <1>5 DEF Counts
<1> QED BY <1>2, <1>6 DEF Reserved

(* A row its handler leaves, and a row a handler takes, have no other.     *)
LEMMA LeftUnowned ==
    ASSUME TypeOK, OwnInv, NEW p \in Proc, Step(p), pc[p] \in RowLabels, pc'[p] \notin RowLabels,
           NEW r \in Refunds, loc[p].rid = r
    PROVE  ~Owned(r)'
<1>a. ControlOK BY DEF TypeOK
<1>1. \A q \in Proc : q # p => pc'[q] = pc[q] /\ loc'[q] = loc[q] BY <1>a, OthersStay
<1> QED BY <1>1 DEF Owned, OwnInv, OneOwner

LEMMA TakenUnowned ==
    ASSUME TypeOK, OwnInv', NEW p \in Proc, Step(p), pc[p] \notin RowLabels, pc'[p] \in RowLabels
    PROVE  ~Owned(loc'[p].rid)
<1>a. ControlOK BY DEF TypeOK
<1>1. \A q \in Proc : q # p => pc'[q] = pc[q] /\ loc'[q] = loc[q] BY <1>a, OthersStay
<1> QED BY <1>1 DEF Owned, OwnInv, OneOwner

(* How the label changes when a handler stays on its row, and what it      *)
(* leaves behind when it stops working on it.                              *)
StaysOn(p) ==
    \/ (pc[p] \in Unreserved <=> pc'[p] \in Unreserved) /\ payment'.refunded = payment.refunded
    \/ SettleReserve(p) /\ CanReserve(Row(p).amount) /\ pc'[p] = "settleMark"
    \/ ReleaseHeadroom(p)
    \/ RejectRelease(p)

LEMMA CounterWriters ==
    ASSUME TypeOK, NEW p \in Proc, Step(p), payment'.refunded # payment.refunded
    PROVE  \/ ReserveLate(p) /\ CanReserve(AmountPaid)
           \/ ReserveHeadroom(p) /\ CanReserve(loc[p].amount)
           \/ SettleReserve(p) /\ CanReserve(Row(p).amount)
           \/ ReleaseHeadroom(p) \/ RejectRelease(p)
<1>a. payment \in PaymentDoc BY DEF TypeOK, DocsOK
<1>1. CASE ExpirePending(p) \/ ExpireUnpaid(p) \/ SettlePayment(p) \/ RecordLateSuccess(p)
  <2>1. payment'.refunded = payment.refunded
    BY <1>1, <1>a DEF ExpirePending, ExpireUnpaid, SettlePayment, RecordLateSuccess, PaymentDoc
  <2> QED BY <2>1
<1>2. CASE ReserveLate(p) \/ ReserveHeadroom(p) \/ SettleReserve(p)
  BY <1>2 DEF ReserveLate, ReserveHeadroom, SettleReserve
<1> QED BY <1>1, <1>2, PaymentWriters

LEMMA StaysOnRow ==
    ASSUME TypeOK, ~IsCod, NEW p \in Proc, Step(p), pc[p] \in RowLabels, pc'[p] \in RowLabels
    PROVE  StaysOn(p)
<1>a. ControlOK BY DEF TypeOK
<1>1. CASE SettleReserve(p)
  <2>1. CanReserve(Row(p).amount) /\ pc'[p] = "settleMark"
    BY <1>1, <1>a, Lands DEF SettleReserve, RowLabels
  <2> QED BY <1>1, <2>1 DEF StaysOn
<1>2. CASE ReleaseHeadroom(p) \/ RejectRelease(p) BY <1>2 DEF StaysOn
<1>3. CASE ~(SettleReserve(p) \/ ReleaseHeadroom(p) \/ RejectRelease(p))
  <2>1. payment'.refunded = payment.refunded
    BY <1>3, CounterWriters DEF ReserveLate, ReserveHeadroom, RowLabels
  <2>2. pc'[p] \notin Unreserved
    BY <1>a, <1>3, Arrivals DEF Unreserved, ReadReview, RowLabels
  <2>3. pc[p] \notin Unreserved
    BY <1>a, <1>3, SettlementEdges, RefundEdges, LifecycleEdges
    DEF Edge, Step, SettlementStep, RefundStep, LifecycleStep, Unreserved, RowLabels
  <2> QED BY <2>1, <2>2, <2>3 DEF StaysOn
<1> QED BY <1>1, <1>2, <1>3

LEMMA LeavesRow ==
    ASSUME TypeOK, OwnInv, ~IsCod, NEW p \in Proc, Step(p),
           pc[p] \in RowLabels, pc'[p] \notin RowLabels
    PROVE  /\ refund'[loc[p].rid].status \in Reserving <=> pc[p] \notin Unreserved
           /\ payment'.refunded = payment.refunded
<1>a. ControlOK /\ loc[p].rid \in Refunds /\ refund[loc[p].rid].status = StatusAt[pc[p]]
  BY DEF TypeOK, ControlOK, OwnInv, Owning
<1>b. pc[p] # "idle" /\ pc[p] \notin {"lateReserve", "reserve", "lateCreate", "create"}
  BY DEF RowLabels
<1>1. CASE GatewayTimesOut(p) \/ RefundInquiryFails(p) \/ ReadSiblings(p)
  <2>1. UNCHANGED <<payment, refund>>
    BY <1>1 DEF GatewayTimesOut, RefundInquiryFails, ReadSiblings, docs
  <2>2. pc[p] \in {"gateway", "void", "refundInquiry", "applyTargets"}
    BY <1>1 DEF GatewayTimesOut, RefundInquiryFails, ReadSiblings, RowLabels
  <2> QED BY <1>a, <2>1, <2>2, StatusAtValues DEF Unreserved, Reserving
<1>2. CASE SettleSucceeded(p)
  BY <1>2, SettledRow DEF SettleSucceeded, Unreserved, Reserving
<1>3. CASE FlagManual(p)
  BY <1>3, <1>a, RowSet DEF FlagManual, Unreserved, Reserving
<1>4. CASE RejectMark(p)
  BY <1>4, <1>a, RowSet DEF RejectMark, Unreserved, Reserving
<1>5. CASE SettleReserve(p)
  <2>1. UNCHANGED <<payment, refund>> /\ pc[p] = "settleReserve"
    BY <1>5, <1>a, Lands DEF SettleReserve, RowLabels
  <2> QED BY <1>a, <2>1, StatusAtValues DEF Unreserved, Reserving
<1>6. \/ GatewayTimesOut(p) \/ RefundInquiryFails(p) \/ ReadSiblings(p) \/ SettleSucceeded(p)
      \/ FlagManual(p) \/ RejectMark(p) \/ SettleReserve(p)
  BY <1>a, SettlementEdges, RefundEdges, LifecycleEdges
  DEF Edge, Step, SettlementStep, RefundStep, LifecycleStep, RowLabels, ExecuteOffline
<1> QED BY <1>1, <1>2, <1>3, <1>4, <1>5, <1>6

LEMMA TakesRow ==
    ASSUME TypeOK, OwnInv', ~IsCod, NEW p \in Proc, Step(p), pc[p] = "idle", pc'[p] \in RowLabels
    PROVE  /\ refund[loc'[p].rid].status \in Reserving <=> pc'[p] \notin Unreserved
           /\ UNCHANGED <<payment, refund>>
<1>a. ControlOK BY DEF TypeOK
<1>1. UNCHANGED <<payment, refund>> /\ (ReadReview(p) \/ PickStuck(p))
  BY RowHeld DEF docs, RowLabels
<1>2. refund[loc'[p].rid].status = StatusAt[pc'[p]] BY <1>1 DEF OwnInv, Owning
<1>3. pc'[p] \in {"settleReserve", "rejectRelease", "approveMark", "refundInquiry"}
  BY <1>1, <1>a, Lands DEF ReadReview, PickStuck
<1> QED BY <1>1, <1>2, <1>3, StatusAtValues DEF Unreserved, Reserving, Reviewing

-------------------------------------------------------------------------------
(* The two sums, one step later.                                           *)
LEMMA HandsMove ==
    ASSUME TypeOK, TypeOK', IsFiniteSet(Proc), NEW p \in Proc, Step(p)
    PROVE  /\ Hands \in Nat /\ Hands' \in Nat
           /\ Hands' = Hands + InHand(p)' - InHand(p)
<1> DEFINE f == [q \in Proc |-> InHand(q)]
           g == [q \in Proc |-> InHand(q)']
<1>a. ControlOK BY DEF TypeOK
<1>1. \A q \in Proc : f[q] \in Nat /\ g[q] \in Nat
  <2>1. ASSUME NEW q \in Proc PROVE InHand(q)' \in Nat
    <3>1. loc'[q] \in Locals BY DEF TypeOK, ControlOK
    <3> QED BY <3>1, MoneyAssumption DEF InHand, Locals
  <2> QED BY <2>1, HandsTyped
<1>2. \A q \in Proc \ {p} : f[q] = g[q]
  <2>1. \A q \in Proc : q # p => pc'[q] = pc[q] /\ loc'[q] = loc[q] BY <1>a, OthersStay
  <2> QED BY <2>1 DEF InHand
<1>3. f[p] = InHand(p) /\ g[p] = InHand(p)' OBVIOUS
<1>4. Hands = SumFunctionOnSet(f, Proc) /\ Hands' = SumFunctionOnSet(g, Proc) BY DEF Hands
<1> HIDE DEF f, g
<1>5. SumFunctionOnSet(f, Proc) \in Nat /\ SumFunctionOnSet(g, Proc) \in Nat BY <1>1, SumNat
<1>6. SumFunctionOnSet(g, Proc) = SumFunctionOnSet(f, Proc) + g[p] - f[p]
  <2>1. \A q \in Proc : f[q] \in Int /\ g[q] \in Int BY <1>1
  <2> QED BY <1>2, <2>1, SumChange
<1> QED BY <1>3, <1>4, <1>5, <1>6

LEMMA RowsMove ==
    ASSUME TypeOK, TypeOK', IsFiniteSet(Refunds), NEW r \in Refunds,
           \A s \in Refunds \ {r} : Reserved(s)' = Reserved(s)
    PROVE  /\ Rows \in Nat /\ Rows' \in Nat
           /\ Rows' = Rows + Reserved(r)' - Reserved(r)
<1> DEFINE f == [s \in Refunds |-> Reserved(s)]
           g == [s \in Refunds |-> Reserved(s)']
<1>1. \A s \in Refunds : f[s] \in Nat /\ g[s] \in Nat
  <2>1. ASSUME NEW s \in Refunds PROVE Reserved(s)' \in Nat
    <3>1. refund'[s] \in RefundDoc BY DEF TypeOK, DocsOK
    <3> QED BY <3>1 DEF Reserved, RefundDoc
  <2> QED BY <2>1, ReservedTyped
<1>2. \A s \in Refunds \ {r} : f[s] = g[s] OBVIOUS
<1>3. f[r] = Reserved(r) /\ g[r] = Reserved(r)' OBVIOUS
<1>4. Rows = SumFunctionOnSet(f, Refunds) /\ Rows' = SumFunctionOnSet(g, Refunds) BY DEF Rows
<1> HIDE DEF f, g
<1>5. SumFunctionOnSet(f, Refunds) \in Nat /\ SumFunctionOnSet(g, Refunds) \in Nat
  BY <1>1, SumNat
<1>6. SumFunctionOnSet(g, Refunds) = SumFunctionOnSet(f, Refunds) + g[r] - f[r]
  <2>1. \A s \in Refunds : f[s] \in Int /\ g[s] \in Int BY <1>1
  <2> QED BY <1>2, <2>1, SumChange
<1> QED BY <1>3, <1>4, <1>5, <1>6

LEMMA RowsStay ==
    ASSUME TypeOK, TypeOK', IsFiniteSet(Refunds), \A s \in Refunds : Reserved(s)' = Reserved(s)
    PROVE  Rows \in Nat /\ Rows' = Rows
<1> DEFINE f == [s \in Refunds |-> Reserved(s)]
           g == [s \in Refunds |-> Reserved(s)']
<1>1. f = g OBVIOUS
<1>2. \A s \in Refunds : f[s] \in Nat BY ReservedTyped
<1>3. Rows = SumFunctionOnSet(f, Refunds) /\ Rows' = SumFunctionOnSet(g, Refunds) BY DEF Rows
<1> HIDE DEF f, g
<1>4. SumFunctionOnSet(f, Refunds) \in Nat BY <1>2, SumNat
<1> QED BY <1>1, <1>3, <1>4

LEMMA RowInRows ==
    ASSUME TypeOK, IsFiniteSet(Refunds), NEW r \in Refunds
    PROVE  Reserved(r) <= Rows
<1> DEFINE f == [s \in Refunds |-> Reserved(s)]
<1>1. \A s \in Refunds : f[s] \in Nat BY ReservedTyped
<1>2. f[r] = Reserved(r) /\ Rows = SumFunctionOnSet(f, Refunds) BY DEF Rows
<1> HIDE DEF f
<1> QED BY <1>1, <1>2, SumTerm

(* What a handler takes into its hand it has just reserved.                *)
LEMMA HandTaken ==
    ASSUME TypeOK, ~IsCod, NEW p \in Proc, Step(p)
    PROVE  /\ pc'[p] = "create" => /\ ReserveHeadroom(p) /\ CanReserve(loc[p].amount)
                                   /\ loc'[p] = loc[p]
           /\ pc'[p] = "lateCreate" => ReserveLate(p) /\ CanReserve(AmountPaid)
<1>a. ControlOK BY DEF TypeOK
<1>1. ASSUME pc'[p] = "create"
      PROVE  ReserveHeadroom(p) /\ CanReserve(loc[p].amount) /\ loc'[p] = loc[p]
  <2>1. ASSUME RequestRefund(p) \/ RoutedRequest(p) PROVE pc'[p] # "create"
    BY <1>a, <2>1, Lands DEF RequestRefund, RoutedRequest, ReadRequest
  <2>2. ReserveHeadroom(p) BY <1>1, <1>a, <2>1, Arrivals
  <2> QED BY <1>1, <1>a, <2>2, Lands DEF ReserveHeadroom
<1>2. ASSUME pc'[p] = "lateCreate" PROVE ReserveLate(p) /\ CanReserve(AmountPaid)
  <2>1. ReserveLate(p) BY <1>2, <1>a, Arrivals
  <2> QED BY <1>2, <1>a, <2>1, Lands DEF ReserveLate
<1> QED BY <1>1, <1>2

(* A new row takes over what its creator held.                             *)
LEMMA CreatedAmount ==
    ASSUME TypeOK, NEW p \in Proc, NEW r \in Refunds, Step(p), pc[p] \in {"create", "lateCreate"},
           refund'[r] # refund[r]
    PROVE  RowCreated(p, r) /\ refund'[r].amount = InHand(p)
<1>a. ControlOK BY DEF TypeOK
<1>1. RowCreated(p, r) BY RowMoves DEF RowMove, StatusWrites
<1>2. CASE pc[p] = "create"
  <2>1. CreateRefund(p)
    BY <1>a, <1>2, SettlementEdges, RefundEdges, LifecycleEdges
    DEF Edge, Step, SettlementStep, RefundStep, LifecycleStep
  <2> DEFINE row == [status |-> IF loc[p].auto THEN "APPROVED" ELSE "REQUESTED",
                     target |-> loc[p].target, lines |-> loc[p].lines,
                     amount |-> loc[p].amount, delivered |-> loc[p].delivered,
                     claim |-> NoChild]
  <2>2. PICK s \in Refunds : refund' = [refund EXCEPT ![s] = row]
    BY <2>1 DEF CreateRefund, CreateRow
  <2>3. row.amount = loc[p].amount OBVIOUS
  <2> HIDE DEF row
  <2> QED BY <1>1, <1>2, <2>2, <2>3, RowsTyped DEF InHand
<1>3. CASE pc[p] = "lateCreate"
  <2>1. CreateLate(p)
    BY <1>a, <1>3, SettlementEdges, RefundEdges, LifecycleEdges
    DEF Edge, Step, SettlementStep, RefundStep, LifecycleStep
  <2> DEFINE row == [status |-> "APPROVED", target |-> Whole, lines |-> NoLines,
                     amount |-> AmountPaid, delivered |-> TRUE, claim |-> NoChild]
  <2>2. PICK s \in Refunds : refund' = [refund EXCEPT ![s] = row]
    BY <2>1 DEF CreateLate, CreateRow
  <2>3. row.amount = AmountPaid OBVIOUS
  <2> HIDE DEF row
  <2> QED BY <1>1, <1>3, <2>2, <2>3, RowsTyped DEF InHand
<1> QED BY <1>2, <1>3

LEMMA SomethingCreated ==
    ASSUME TypeOK, NEW p \in Proc, Step(p), pc[p] \in {"create", "lateCreate"}
    PROVE  \E r \in Refunds : RowCreated(p, r)
<1>a. ControlOK BY DEF TypeOK
<1>1. CreateRefund(p) \/ CreateLate(p)
  BY <1>a, SettlementEdges, RefundEdges, LifecycleEdges
  DEF Edge, Step, SettlementStep, RefundStep, LifecycleStep
<1>2. \E r \in Refunds : refund[r].status = "none" /\ refund'[r].status # "none"
  <2>1. CASE CreateRefund(p)
    <3> DEFINE row == [status |-> IF loc[p].auto THEN "APPROVED" ELSE "REQUESTED",
                       target |-> loc[p].target, lines |-> loc[p].lines,
                       amount |-> loc[p].amount, delivered |-> loc[p].delivered,
                       claim |-> NoChild]
    <3>1. PICK s \in Refunds : refund[s].status = "none" /\ refund' = [refund EXCEPT ![s] = row]
      BY <2>1 DEF CreateRefund, CreateRow
    <3>2. row.status # "none" OBVIOUS
    <3> HIDE DEF row
    <3> QED BY <3>1, <3>2, RowsTyped
  <2>2. CASE CreateLate(p)
    <3> DEFINE row == [status |-> "APPROVED", target |-> Whole, lines |-> NoLines,
                       amount |-> AmountPaid, delivered |-> TRUE, claim |-> NoChild]
    <3>1. PICK s \in Refunds : refund[s].status = "none" /\ refund' = [refund EXCEPT ![s] = row]
      BY <2>2 DEF CreateLate, CreateRow
    <3>2. row.status # "none" OBVIOUS
    <3> HIDE DEF row
    <3> QED BY <3>1, <3>2, RowsTyped
  <2> QED BY <1>1, <2>1, <2>2
<1> QED BY <1>2, RowMoves DEF RowMove, StatusWrites

-------------------------------------------------------------------------------
(* Every write moves the counter with the hands and the rows.              *)
LEMMA CounterTyped ==
    ASSUME TypeOK, NEW n \in Nat
    PROVE  /\ payment.refunded \in Int
           /\ Reserve(n) => payment'.refunded = payment.refunded + n
           /\ Release(n) /\ payment.refunded >= n => payment'.refunded = payment.refunded - n
BY DEF TypeOK, DocsOK, PaymentDoc, Reserve, Release

(* A handler that has a row: only that row can change what it reserves.    *)
LEMMA ExplainedOnRow ==
    ASSUME TypeOK, TypeOK', OwnInv, OwnInv', Explained, ~IsCod, IsFiniteSet(Refunds),
           IsFiniteSet(Proc), NEW p \in Proc, Step(p), pc[p] \in RowLabels
    PROVE  Explained'
<1>0. PICK r \in Refunds : loc[p].rid = r BY DEF TypeOK, ControlOK
<1>a. ControlOK BY DEF TypeOK
<1>b. Row(p) = refund[r] BY <1>0 DEF Row
<1>c. pc'[p] \in RowLabels => loc'[p].rid = r BY <1>0, RowHeld DEF RowLabels
<1>1. Hands \in Nat /\ Hands' = Hands
  <2>1. pc[p] \notin {"create", "lateCreate", "lateReserve", "reserve"} BY DEF RowLabels
  <2>2. pc'[p] \notin {"create", "lateCreate"}
    BY <2>1, HandTaken DEF ReserveHeadroom, ReserveLate
  <2>3. InHand(p) = 0 /\ InHand(p)' = 0 BY <2>1, <2>2 DEF InHand
  <2> QED BY <2>3, HandsMove
<1>2. \A s \in Refunds \ {r} : Reserved(s)' = Reserved(s)
  <2>1. \A s \in Refunds : ~RowCreated(p, s) BY DEF RowCreated, RowLabels
  <2> QED BY <1>0, <1>c, <2>1, UntouchedRow
<1>3. refund'[r].amount = refund[r].amount
  BY RowMoves DEF RowMove, SameTerms, RowCreated, RowLabels
<1>4. Counts(r) <=> pc[p] \notin Unreserved BY <1>0, CountsOwned
<1>5. refund[r].amount \in Nat BY <1>a, ReservedTyped
<1>6. Rows \in Nat /\ Rows' = Rows + Reserved(r)' - Reserved(r)
  BY <1>a, <1>2, RowsMove
<1> DEFINE n == refund[r].amount
<1>7. /\ Reserved(r) = IF pc[p] \notin Unreserved THEN n ELSE 0
      /\ \A b \in BOOLEAN : (Counts(r)' <=> b) => Reserved(r)' = IF b THEN n ELSE 0
  BY <1>3, <1>4 DEF Reserved
<1>8. n \in Nat BY <1>5
<1> HIDE DEF n
<1>9. CASE pc'[p] \in RowLabels
  <2>1. Counts(r)' <=> pc'[p] \notin Unreserved BY <1>9, <1>c, CountsOwnedNext
  <2>2. Reserved(r)' = IF pc'[p] \notin Unreserved THEN n ELSE 0
    <3>1. (pc'[p] \notin Unreserved) \in BOOLEAN OBVIOUS
    <3> QED BY <1>7, <2>1, <3>1
  <2>3. CASE (pc[p] \in Unreserved <=> pc'[p] \in Unreserved) /\ payment'.refunded = payment.refunded
    BY <1>1, <1>6, <1>7, <1>8, <2>2, <2>3 DEF Explained
  <2>4. CASE SettleReserve(p) /\ CanReserve(Row(p).amount) /\ pc'[p] = "settleMark"
    <3>1. pc[p] \in Unreserved /\ pc'[p] \notin Unreserved BY <2>4 DEF SettleReserve, Unreserved
    <3>2. payment'.refunded = payment.refunded + n /\ payment.refunded \in Int
      BY <1>8, <1>b, <2>4, CounterTyped DEF SettleReserve, n
    <3> QED BY <1>1, <1>6, <1>7, <1>8, <2>2, <3>1, <3>2 DEF Explained
  <2>5. CASE ReleaseHeadroom(p) \/ RejectRelease(p)
    <3>1. pc[p] \notin Unreserved /\ pc'[p] \in Unreserved
      BY <1>a, <2>5, Lands DEF ReleaseHeadroom, RejectRelease, Unreserved
    <3>2. Reserved(r) = n /\ Reserved(r)' = 0 BY <1>7, <2>2, <3>1
    <3>3. Reserved(r) <= Rows BY <1>a, RowInRows
    <3>4. payment.refunded >= n BY <1>1, <1>6, <1>8, <3>2, <3>3 DEF Explained
    <3>5. payment'.refunded = payment.refunded - n /\ payment.refunded \in Int
      BY <1>8, <1>b, <2>5, <3>4, CounterTyped DEF ReleaseHeadroom, RejectRelease, n
    <3> QED BY <1>1, <1>6, <1>8, <3>2, <3>5 DEF Explained
  <2> QED BY <1>9, <2>3, <2>4, <2>5, StaysOnRow DEF StaysOn
<1>10. CASE pc'[p] \notin RowLabels
  <2>1. /\ refund'[r].status \in Reserving <=> pc[p] \notin Unreserved
        /\ payment'.refunded = payment.refunded
    BY <1>0, <1>10, LeavesRow
  <2>2. ~Owned(r)' BY <1>0, <1>10, LeftUnowned
  <2>3. Counts(r)' <=> refund'[r].status \in Reserving
    BY <2>2 DEF Counts, At, Owned, RowLabels
  <2>4. Reserved(r)' = Reserved(r) BY <1>7, <2>1, <2>3
  <2>5. Reserved(r) \in Nat BY <1>7, <1>8
  <2> QED BY <1>1, <1>6, <2>1, <2>4, <2>5 DEF Explained
<1> QED BY <1>9, <1>10

(* A handler that finds a row.                                             *)
LEMMA ExplainedOnTake ==
    ASSUME TypeOK, TypeOK', OwnInv, OwnInv', Explained, ~IsCod, IsFiniteSet(Refunds),
           IsFiniteSet(Proc), NEW p \in Proc, Step(p), pc[p] = "idle", pc'[p] \in RowLabels
    PROVE  Explained'
<1>0. PICK r \in Refunds : loc'[p].rid = r BY DEF TypeOK, ControlOK
<1>1. Hands \in Nat /\ Hands' = Hands
  <2>1. InHand(p) = 0 /\ InHand(p)' = 0 BY DEF InHand, RowLabels
  <2> QED BY <2>1, HandsMove
<1>2. refund[r].status \in Reserving <=> pc'[p] \notin Unreserved BY <1>0, TakesRow
<1>3. UNCHANGED <<payment, refund>> BY TakesRow
<1>4. Counts(r) <=> refund[r].status \in Reserving
  BY <1>0, TakenUnowned, CountsUnowned DEF RowLabels
<1>5. Counts(r)' <=> pc'[p] \notin Unreserved BY <1>0, CountsOwnedNext
<1>6. Reserved(r)' = Reserved(r) BY <1>2, <1>3, <1>4, <1>5 DEF Reserved
<1>7. \A s \in Refunds : s # r => Reserved(s)' = Reserved(s)
  <2>1. \A s \in Refunds : ~RowCreated(p, s) BY DEF RowCreated
  <2>2. pc[p] \notin RowLabels BY DEF RowLabels
  <2> QED BY <1>0, <2>1, <2>2, UntouchedRow
<1>8. Rows' = Rows BY <1>6, <1>7, RowsStay
<1> QED BY <1>1, <1>3, <1>8 DEF Explained

(* A handler that records what it holds.                                   *)
LEMMA ExplainedOnCreate ==
    ASSUME TypeOK, TypeOK', OwnInv, OwnInv', Explained, ~IsCod, IsFiniteSet(Refunds),
           IsFiniteSet(Proc), NEW p \in Proc, Step(p), pc[p] \in {"create", "lateCreate"}
    PROVE  Explained'
<1>a. ControlOK BY DEF TypeOK
<1>b. pc[p] \notin RowLabels BY DEF RowLabels
<1>0. PICK r \in Refunds : RowCreated(p, r) BY SomethingCreated
<1>1. refund[r].status = "none" /\ refund'[r].status \in {"APPROVED", "REQUESTED"}
  BY <1>0 DEF RowCreated
<1>2. refund'[r].amount = InHand(p) BY <1>1, CreatedAmount
<1>3. pc'[p] \in {"exec", "idle"}
  BY <1>a, SettlementEdges, RefundEdges, LifecycleEdges
  DEF Edge, Step, SettlementStep, RefundStep, LifecycleStep
<1>4. InHand(p)' = 0 BY <1>3 DEF InHand
<1>5. ~Owned(r)
  <2>1. \A q \in Proc : pc[q] \in RowLabels /\ loc[q].rid = r => FALSE
    BY <1>1, NeverNone DEF OwnInv, Owning
  <2> QED BY <2>1 DEF Owned
<1>6. Reserved(r) = 0 BY <1>1, <1>5, CountsUnowned DEF Reserved, Reserving
<1>7. Counts(r)'
  <2>1. CASE pc'[p] = "exec"
    <3>1. loc'[p].rid = r BY <1>0, <2>1 DEF RowCreated
    <3> QED BY <2>1, <3>1, CountsOwnedNext DEF RowLabels, Unreserved
  <2>2. CASE pc'[p] = "idle"
    <3>1. ~Owned(r)'
      <4>1. \A q \in Proc : q # p => pc'[q] = pc[q] /\ loc'[q] = loc[q] BY <1>a, OthersStay
      <4> QED BY <1>5, <2>2, <4>1 DEF Owned, RowLabels
    <3>2. Counts(r)' <=> refund'[r].status \in Reserving
      BY <3>1 DEF Counts, At, Owned, RowLabels
    <3> QED BY <1>1, <3>2 DEF Reserving
  <2> QED BY <1>3, <2>1, <2>2
<1>8. Reserved(r)' = InHand(p) BY <1>2, <1>7 DEF Reserved
<1>9. \A s \in Refunds \ {r} : Reserved(s)' = Reserved(s)
  <2> SUFFICES ASSUME NEW s \in Refunds, s # r PROVE Reserved(s)' = Reserved(s) OBVIOUS
  <2>1. refund'[s] = refund[s] BY <1>0 DEF RowCreated
  <2>2. ~RowCreated(p, s)
    <3>1. \A t \in Refunds : RowCreated(p, t) => refund'[t] # refund[t] BY DEF RowCreated
    <3> QED BY <2>1, <3>1
  <2>3. ~(pc'[p] \in RowLabels /\ loc'[p].rid = s)
    BY <1>0, <1>3 DEF RowCreated, RowLabels
  <2> QED BY <1>b, <2>2, <2>3, UntouchedRow
<1>10. Rows \in Nat /\ Rows' = Rows + Reserved(r)' - Reserved(r) BY <1>9, RowsMove
<1>11. Hands \in Nat /\ Hands' = Hands + InHand(p)' - InHand(p) BY HandsMove
<1>12. payment'.refunded = payment.refunded
  BY CounterWriters
  DEF ReserveLate, ReserveHeadroom, SettleReserve, ReleaseHeadroom, RejectRelease
<1>13. InHand(p) \in Nat BY HandsTyped
<1> QED BY <1>4, <1>6, <1>8, <1>10, <1>11, <1>12, <1>13 DEF Explained

(* A handler that has no row and takes none: it may reserve for one.       *)
LEMMA ExplainedElsewhere ==
    ASSUME TypeOK, TypeOK', OwnInv, OwnInv', Explained, ~IsCod, IsFiniteSet(Refunds),
           IsFiniteSet(Proc), NEW p \in Proc, Step(p), pc[p] \notin RowLabels,
           pc[p] \notin {"create", "lateCreate"}, pc[p] # "idle" \/ pc'[p] \notin RowLabels
    PROVE  Explained'
<1>a. ControlOK /\ loc[p] \in Locals BY LocalsTyped DEF TypeOK
<1>b. pc'[p] \notin RowLabels BY RowHeld
<1>1. Rows \in Nat /\ Rows' = Rows
  <2>1. \A s \in Refunds : ~RowCreated(p, s) BY DEF RowCreated
  <2>2. \A s \in Refunds : Reserved(s)' = Reserved(s) BY <1>b, <2>1, UntouchedRow
  <2> QED BY <2>2, RowsStay
<1>2. Hands \in Nat /\ Hands' = Hands + InHand(p)' - InHand(p) BY HandsMove
<1>3. InHand(p) = 0 BY DEF InHand
<1>4. CASE pc'[p] = "create"
  <2>1. ReserveHeadroom(p) /\ CanReserve(loc[p].amount) /\ loc'[p] = loc[p] BY <1>4, HandTaken
  <2>2. InHand(p)' = loc[p].amount BY <1>4, <2>1 DEF InHand
  <2>3. loc[p].amount \in Nat BY <1>a DEF Locals
  <2>4. payment'.refunded = payment.refunded + loc[p].amount
    BY <2>1, <2>3, CounterTyped DEF ReserveHeadroom
  <2> QED BY <1>1, <1>2, <1>3, <2>2, <2>3, <2>4 DEF Explained
<1>5. CASE pc'[p] = "lateCreate"
  <2>1. ReserveLate(p) /\ CanReserve(AmountPaid) BY <1>5, HandTaken
  <2>2. InHand(p)' = AmountPaid /\ AmountPaid \in Nat BY <1>5, MoneyAssumption DEF InHand
  <2>3. payment'.refunded = payment.refunded + AmountPaid
    BY <2>1, <2>2, CounterTyped DEF ReserveLate
  <2> QED BY <1>1, <1>2, <1>3, <2>2, <2>3 DEF Explained
<1>6. CASE pc'[p] \notin {"create", "lateCreate"}
  <2>1. InHand(p)' = 0 BY <1>6 DEF InHand
  <2>2. ~(ReserveLate(p) /\ CanReserve(AmountPaid)) /\ ~(ReserveHeadroom(p) /\ CanReserve(loc[p].amount))
    BY <1>6, <1>a, Lands DEF ReserveLate, ReserveHeadroom
  <2>3. payment'.refunded = payment.refunded
    BY <2>2, CounterWriters DEF SettleReserve, ReleaseHeadroom, RejectRelease, RowLabels
  <2> QED BY <1>1, <1>2, <1>3, <2>1, <2>3 DEF Explained
<1> QED BY <1>4, <1>5, <1>6

LEMMA ExplainedNext ==
    ASSUME TypeOK, OwnInv, Explained, ~IsCod, ReviewsApart', TicksApart', CallsOutrunCron,
           IsFiniteSet(Refunds), IsFiniteSet(Proc), [Next]_vars
    PROVE  Explained'
<1>a. TypeOK' BY NextTyped
<1>1. ASSUME NEW p \in Proc, Step(p) PROVE Explained'
  <2>1. OwnInv' BY <1>1, OwningKept, OneOwnerKept DEF OwnInv
  <2>2. pc[p] = "idle" => pc[p] \notin RowLabels BY DEF RowLabels
  <2> QED
    BY <1>a, <1>1, <2>1, <2>2, ExplainedOnRow, ExplainedOnTake, ExplainedOnCreate,
       ExplainedElsewhere
<1>2. CASE Environment \/ UNCHANGED vars
  <2>1. UNCHANGED <<payment, refund, pc, loc>> BY <1>2, EnvironmentFrame
  <2> QED BY <2>1 DEF Explained, Hands, Rows, InHand, Reserved, Counts, At
<1> QED BY <1>1, <1>2 DEF Next

LEMMA ExplainedInit ==
    ASSUME IsFiniteSet(Refunds), IsFiniteSet(Proc), Init
    PROVE  Explained
<1> DEFINE f == [p \in Proc |-> InHand(p)]
           g == [r \in Refunds |-> Reserved(r)]
<1>1. \A p \in Proc : f[p] = 0 BY DEF Init, InHand
<1>2. \A r \in Refunds : g[r] = 0 BY DEF Init, NoRow, Reserved, Counts, Reserving
<1>3. payment.refunded = 0 BY DEF Init
<1>4. Hands = SumFunctionOnSet(f, Proc) /\ Rows = SumFunctionOnSet(g, Refunds) BY DEF Hands, Rows
<1> HIDE DEF f, g
<1> QED BY <1>1, <1>2, <1>3, <1>4, SumZero DEF Explained

-------------------------------------------------------------------------------
(* The children, matched.  The cron claims a child for any row of the same *)
(* amount, so a child need not be claimed by the row it was booked for.    *)
(* But the children can always be assigned to rows of their amount, one to *)
(* one, whose headroom nobody is about to give back; and a row that does   *)
(* not say so yet still finds its child unclaimed.                         *)
Undoing == {"gateway", "void", "release", "flagManual"}

Matches(m) ==
    /\ \A c \in moved : /\ m[c] \in Refunds
                        /\ refund[m[c]].amount = refund[c[1]].amount
                        /\ refund[m[c]].status \in {"PROCESSING", "SUCCEEDED"}
                        /\ ~At(Undoing, m[c])
                        /\ refund[m[c]].status = "PROCESSING" =>
                              \A r \in Refunds : refund[r].claim # c
    /\ \A c, d \in moved : m[c] = m[d] => c = d

(* A claim names a child, of the amount of its row.                        *)
Claims ==
    /\ \A r \in Refunds : refund[r].claim \in Ledger \cup {NoChild}
    /\ \A p \in Proc : pc[p] = "settle" =>
          loc[p].claim \in Ledger /\ refund[loc[p].claim[1]].amount = Row(p).amount

LEMMA ChildRow ==
    ASSUME TypeOK, NEW c \in Ledger
    PROVE  /\ c[1] \in Refunds /\ c # NoChild
           /\ \E k \in 1..MaxMoves : c = <<c[1], k>>
BY MoneyAssumption DEF TypeOK, WorldOK, Ledger, Children, NoChild

LEMMA AmountStays ==
    ASSUME TypeOK, NEW p \in Proc, Step(p), NEW r \in Refunds, refund[r].status # "none"
    PROVE  refund'[r].amount = refund[r].amount
BY RowMoves DEF RowCreated, RowMove, SameTerms

LEMMA ChildAmountStays ==
    ASSUME TypeOK, OnceInv, NEW p \in Proc, Step(p), NEW c \in Ledger
    PROVE  refund'[c[1]].amount = refund[c[1]].amount
<1>1. c[1] \in Refunds /\ \E k \in 1..MaxMoves : <<c[1], k>> \in Ledger BY ChildRow
<1>2. refund[c[1]].status # "none" BY <1>1 DEF OnceInv, MovedOnce, Before
<1> QED BY <1>1, <1>2, AmountStays

(* A row gets its claim when it is settled, and no other way.              *)
LEMMA ClaimWrites ==
    ASSUME TypeOK, NEW p \in Proc, Step(p), NEW r \in Refunds
    PROVE  \/ refund'[r].claim = refund[r].claim
           \/ refund'[r].claim = NoChild
           \/ SettleSucceeded(p) /\ r = loc[p].rid /\ refund'[r].claim = loc[p].claim
<1>a. refund \in [Refunds -> RefundDoc] /\ refund[r] \in RefundDoc BY RowsTyped
<1>1. CASE SettleSucceeded(p)
  <2>1. loc[p].rid \in Refunds BY <1>1 DEF SettleSucceeded, TypeOK, ControlOK, RowLabels
  <2>2. refund' = [refund EXCEPT ![loc[p].rid] =
                     [refund[loc[p].rid] EXCEPT !.status = "SUCCEEDED", !.claim = loc[p].claim]]
    BY <1>1, <2>1, <1>a DEF SettleSucceeded
  <2>3. r # loc[p].rid => refund'[r] = refund[r] BY <1>a, <2>2
  <2>4. r = loc[p].rid => refund'[r].claim = loc[p].claim BY <1>a, <2>2 DEF RefundDoc
  <2> QED BY <1>1, <2>3, <2>4
<1>2. ASSUME NEW s, SetRow(p, s) PROVE refund'[r].claim = refund[r].claim
  <2>1. refund' = [refund EXCEPT ![loc[p].rid] = [refund[loc[p].rid] EXCEPT !.status = s]]
    BY <1>2 DEF SetRow
  <2>2. [refund[r] EXCEPT !.status = s].claim = refund[r].claim BY <1>a DEF RefundDoc
  <2> QED BY <1>a, <2>1, <2>2
<1>3. CASE CreateRefund(p)
  <2> DEFINE row == [status |-> IF loc[p].auto THEN "APPROVED" ELSE "REQUESTED",
                     target |-> loc[p].target, lines |-> loc[p].lines,
                     amount |-> loc[p].amount, delivered |-> loc[p].delivered,
                     claim |-> NoChild]
  <2>1. PICK s \in Refunds : refund' = [refund EXCEPT ![s] = row]
    BY <1>3 DEF CreateRefund, CreateRow
  <2>2. row.claim = NoChild OBVIOUS
  <2> HIDE DEF row
  <2> QED BY <1>a, <2>1, <2>2
<1>4. CASE CreateLate(p)
  <2> DEFINE row == [status |-> "APPROVED", target |-> Whole, lines |-> NoLines,
                     amount |-> AmountPaid, delivered |-> TRUE, claim |-> NoChild]
  <2>1. PICK s \in Refunds : refund' = [refund EXCEPT ![s] = row]
    BY <1>4 DEF CreateLate, CreateRow
  <2>2. row.claim = NoChild OBVIOUS
  <2> HIDE DEF row
  <2> QED BY <1>a, <2>1, <2>2
<1> QED
  BY <1>1, <1>2, <1>3, <1>4, RefundWriters
  DEF ExecuteOffline, SendToGateway, FlagManual, SettleMark, RejectMark, ApproveMark

LEMMA ClaimsKept ==
    ASSUME TypeOK, OnceInv, OwnInv, Claims, NEW p \in Proc, Step(p)
    PROVE  Claims'
<1>a. ControlOK /\ loc[p] \in Locals BY LocalsTyped DEF TypeOK
<1>b. Ledger \subseteq Ledger' BY LedgerGrows
<1>1. ASSUME NEW r \in Refunds PROVE refund'[r].claim \in Ledger' \cup {NoChild}
  <2>1. refund[r].claim \in Ledger \cup {NoChild} BY DEF Claims
  <2>2. SettleSucceeded(p) => loc[p].claim \in Ledger BY DEF Claims, SettleSucceeded
  <2> QED BY <1>b, <2>1, <2>2, ClaimWrites
<1>2. ASSUME NEW q \in Proc, q # p, pc'[q] = "settle"
      PROVE  /\ loc'[q].claim \in Ledger'
             /\ refund'[loc'[q].claim[1]].amount = refund'[loc'[q].rid].amount
  <2>1. pc[q] = "settle" /\ loc'[q] = loc[q] BY <1>2, <1>a, OthersStay
  <2>2. loc[q].claim \in Ledger /\ refund[loc[q].claim[1]].amount = refund[loc[q].rid].amount
    BY <2>1 DEF Claims, Row
  <2>3. refund'[loc[q].rid] = refund[loc[q].rid] BY <1>2, <2>1, OwnRowWritten DEF RowLabels
  <2>4. refund'[loc[q].claim[1]].amount = refund[loc[q].claim[1]].amount
    BY <2>2, ChildAmountStays
  <2> QED BY <1>b, <2>1, <2>2, <2>3, <2>4
<1>3. ASSUME pc'[p] = "settle"
      PROVE  /\ loc'[p].claim \in Ledger'
             /\ refund'[loc'[p].claim[1]].amount = refund'[loc'[p].rid].amount
  <2>1. CASE GatewayAccepts(p)
    <3>1. PICK k \in 1..MaxMoves :
            /\ <<loc[p].rid, k>> \in Ledger'
            /\ loc'[p] = [loc[p] EXCEPT !.claim = <<loc[p].rid, k>>]
      BY <2>1, <1>a, Lands DEF GatewayAccepts, Book, Ledger
    <3>2. loc'[p].claim = <<loc[p].rid, k>> /\ loc'[p].rid = loc[p].rid
      BY <1>a, <3>1 DEF Locals
    <3> QED BY <3>1, <3>2
  <2>2. CASE MatchChild(p)
    <3>1. PICK c \in Unclaimed(p) : loc'[p] = [loc[p] EXCEPT !.claim = c, !.applies = FALSE]
      BY <2>2, <1>a, Lands DEF MatchChild
    <3>2. loc'[p].claim = c /\ loc'[p].rid = loc[p].rid BY <1>a, <3>1 DEF Locals
    <3>3. c \in Ledger /\ refund[c[1]].amount = Row(p).amount BY DEF Unclaimed
    <3>4. UNCHANGED refund /\ Ledger' = Ledger BY <2>2 DEF MatchChild, docs, world, Ledger
    <3> QED BY <3>2, <3>3, <3>4 DEF Row
  <2> QED BY <1>3, <1>a, <2>1, <2>2, Arrivals
<1> QED BY <1>1, <1>2, <1>3 DEF Claims, Row

(* A new child goes to the row it was booked for.                          *)
LEMMA MatchedOnBook ==
    ASSUME TypeOK, OnceInv, OwnInv, Claims, NEW m, Matches(m), NEW p \in Proc, Step(p),
           moved' # moved
    PROVE  \E n : Matches(n)'
<1>a. ControlOK BY DEF TypeOK
<1>1. /\ pc[p] \in {"gateway", "void"} /\ pc'[p] \notin Sending /\ UNCHANGED refund
      /\ \A l \in 1..MaxMoves : <<loc[p].rid, l>> \notin Ledger
      /\ \E k \in 1..MaxMoves : moved' = moved \cup {<<loc[p].rid, k>>}
      /\ GatewayAccepts(p) \/ GatewayTimesOut(p)
  BY Books
<1>2. PICK r \in Refunds : r = loc[p].rid BY <1>1 DEF TypeOK, ControlOK, RowLabels
<1>3. PICK k \in 1..MaxMoves : moved' = moved \cup {<<r, k>>} BY <1>1, <1>2
<1>4. PICK b : b = <<r, k>> OBVIOUS
<1>5. b \notin Ledger /\ b \notin moved /\ b[1] = r /\ b # NoChild /\ moved' = moved \cup {b}
  BY <1>1, <1>2, <1>3, <1>4, MoneyAssumption DEF NoChild, Ledger
<1>6. pc'[p] \notin Undoing
  BY <1>a, <1>1, Lands DEF GatewayAccepts, GatewayTimesOut, Undoing
<1>7. \A q \in Proc : q # p => pc'[q] = pc[q] /\ loc'[q] = loc[q] BY <1>a, OthersStay
<1>8. \A s \in Refunds : ~At(Undoing, s) => ~At(Undoing, s)' BY <1>6, <1>7 DEF At
<1>9. ~At(Undoing, r)'
  <2>1. \A q \in Proc : q # p => ~(pc[q] \in RowLabels /\ loc[q].rid = r)
    BY <1>1, <1>2 DEF OwnInv, OneOwner, RowLabels
  <2> QED BY <1>6, <1>7, <2>1 DEF At, Undoing, RowLabels
<1>10. At(Undoing, r) BY <1>1, <1>2 DEF At, Undoing
<1>11. refund[r].status = "PROCESSING"
  BY <1>1, <1>2, StatusAtValues DEF OwnInv, Owning, RowLabels
<1>12. \A s \in Refunds : refund[s].claim # b BY <1>5 DEF Claims
<1>13. PICK n : n = [c \in moved' |-> IF c = b THEN r ELSE m[c]] OBVIOUS
<1>14. n[b] = r /\ \A c \in moved : n[c] = m[c] BY <1>5, <1>13
<1>15. \A c \in moved : m[c] # r BY <1>10 DEF Matches
<1>16. UNCHANGED refund BY <1>1
<1>17. \A c \in moved' : /\ n[c] \in Refunds
                         /\ refund'[n[c]].amount = refund'[c[1]].amount
                         /\ refund'[n[c]].status \in {"PROCESSING", "SUCCEEDED"}
                         /\ ~At(Undoing, n[c])'
                         /\ refund'[n[c]].status = "PROCESSING" =>
                               \A s \in Refunds : refund'[s].claim # c
  <2> SUFFICES ASSUME NEW c \in moved'
               PROVE  /\ n[c] \in Refunds
                      /\ refund'[n[c]].amount = refund'[c[1]].amount
                      /\ refund'[n[c]].status \in {"PROCESSING", "SUCCEEDED"}
                      /\ ~At(Undoing, n[c])'
                      /\ refund'[n[c]].status = "PROCESSING" =>
                            \A s \in Refunds : refund'[s].claim # c
    OBVIOUS
  <2>1. CASE c = b BY <1>5, <1>9, <1>11, <1>12, <1>14, <1>16, <2>1
  <2>2. CASE c \in moved BY <1>8, <1>14, <1>16, <2>2 DEF Matches
  <2> QED BY <1>5, <2>1, <2>2
<1>18. \A c, d \in moved' : n[c] = n[d] => c = d BY <1>5, <1>14, <1>15 DEF Matches
<1> QED BY <1>17, <1>18 DEF Matches

(* What the settling of a row leaves alone.                                *)
LEMMA SettleFrame ==
    ASSUME TypeOK, OnceInv, OwnInv, Claims, NEW p \in Proc, Step(p), SettleSucceeded(p),
           NEW u \in Refunds, u = loc[p].rid
    PROVE  /\ refund[u].status = "PROCESSING" /\ refund'[u].status = "SUCCEEDED"
           /\ \A s \in Refunds : s # u => refund'[s] = refund[s]
           /\ refund'[u].amount = refund[u].amount
           /\ \A s \in Refunds, c \in Ledger :
                 c # loc[p].claim /\ refund[s].claim # c => refund'[s].claim # c
           /\ \A s \in Refunds : ~At(Undoing, s) => ~At(Undoing, s)'
           /\ ~At(Undoing, u)
<1>a. ControlOK BY DEF TypeOK
<1>b. pc[p] = "settle" BY DEF SettleSucceeded
<1>1. refund[u].status = "PROCESSING" /\ refund'[u].status = "SUCCEEDED"
  BY <1>b, StatusAtValues, SettledRow DEF OwnInv, Owning, RowLabels
<1>2. \A s \in Refunds : s # u => refund'[s] = refund[s]
  BY <1>b, RowMoves DEF RowMove, RowCreated
<1>3. refund'[u].amount = refund[u].amount BY <1>1, AmountStays
<1>4. \A s \in Refunds, c \in Ledger :
         c # loc[p].claim /\ refund[s].claim # c => refund'[s].claim # c
  <2> SUFFICES ASSUME NEW s \in Refunds, NEW c \in Ledger, c # loc[p].claim, refund[s].claim # c
               PROVE  refund'[s].claim # c
    OBVIOUS
  <2>1. c # NoChild BY ChildRow
  <2> QED BY <2>1, ClaimWrites
<1>5. pc'[p] \notin Undoing BY <1>a, <1>b, RefundEdges DEF Edge, Undoing
<1>6. \A q \in Proc : q # p => pc'[q] = pc[q] /\ loc'[q] = loc[q] BY <1>a, OthersStay
<1>7. \A s \in Refunds : ~At(Undoing, s) => ~At(Undoing, s)' BY <1>5, <1>6 DEF At
<1>8. ~At(Undoing, u)
  <2>1. \A q \in Proc : q # p => ~(pc[q] \in RowLabels /\ loc[q].rid = u)
    BY <1>b DEF OwnInv, OneOwner, RowLabels
  <2> QED BY <1>b, <2>1 DEF At, Undoing, RowLabels
<1> QED BY <1>1, <1>2, <1>3, <1>4, <1>7, <1>8

(* A child that nobody noticed is matched to no row: it settles a row      *)
(* without taking another row's child.                                     *)
LEMMA MatchedOnSurprise ==
    ASSUME TypeOK, OnceInv, OwnInv, Claims, NEW m, Matches(m), NEW p \in Proc, Step(p),
           SettleSucceeded(p), moved' = moved, loc[p].claim \notin moved
    PROVE  Matches(m)'
<1>1. PICK u \in Refunds : u = loc[p].rid
  BY DEF SettleSucceeded, TypeOK, ControlOK, RowLabels
<1>2. /\ refund'[u].status = "SUCCEEDED" /\ refund'[u].amount = refund[u].amount
      /\ \A s \in Refunds : s # u => refund'[s] = refund[s]
      /\ \A s \in Refunds, c \in Ledger :
            c # loc[p].claim /\ refund[s].claim # c => refund'[s].claim # c
      /\ \A s \in Refunds : ~At(Undoing, s) => ~At(Undoing, s)'
  BY <1>1, SettleFrame
<1>3. \A c \in moved : c \in Ledger /\ c # loc[p].claim BY DEF Ledger
<1>4. \A c \in moved : refund'[c[1]].amount = refund[c[1]].amount BY <1>3, ChildAmountStays
<1>5. ASSUME NEW c \in moved
      PROVE  /\ m[c] \in Refunds
             /\ refund'[m[c]].amount = refund'[c[1]].amount
             /\ refund'[m[c]].status \in {"PROCESSING", "SUCCEEDED"}
             /\ ~At(Undoing, m[c])'
             /\ refund'[m[c]].status = "PROCESSING" => \A s \in Refunds : refund'[s].claim # c
  <2>1. PICK v \in Refunds : v = m[c] BY DEF Matches
  <2>2. /\ refund[v].amount = refund[c[1]].amount
        /\ refund[v].status \in {"PROCESSING", "SUCCEEDED"}
        /\ ~At(Undoing, v)
        /\ refund[v].status = "PROCESSING" => \A s \in Refunds : refund[s].claim # c
    BY <2>1 DEF Matches
  <2>3. ~At(Undoing, v)' BY <1>2, <2>2
  <2>4. /\ refund'[v].amount = refund'[c[1]].amount
        /\ refund'[v].status \in {"PROCESSING", "SUCCEEDED"}
    BY <1>2, <1>4, <2>2
  <2>5. refund'[v].status = "PROCESSING" => \A s \in Refunds : refund'[s].claim # c
    BY <1>2, <1>3, <2>2
  <2> QED BY <2>1, <2>3, <2>4, <2>5
<1> QED BY <1>5 DEF Matches

(* A row is settled with a child that was matched to another: the two rows *)
(* exchange their children, which are of one amount.                       *)
LEMMA MatchedOnSettle ==
    ASSUME TypeOK, OnceInv, OwnInv, Claims, NEW m, Matches(m), NEW p \in Proc, Step(p),
           SettleSucceeded(p), moved' = moved, loc[p].claim \in moved
    PROVE  \E n : Matches(n)'
<1>b. pc[p] = "settle" BY DEF SettleSucceeded
<1>c. moved \subseteq Ledger BY DEF Ledger
<1>1. PICK u \in Refunds : u = loc[p].rid BY <1>b DEF TypeOK, ControlOK, RowLabels
<1>2. PICK d \in moved : d = loc[p].claim /\ refund[d[1]].amount = refund[u].amount
  BY <1>b, <1>1 DEF Claims, Row
<1>3. refund[u].status = "PROCESSING" /\ refund'[u].status = "SUCCEEDED" BY <1>1, SettleFrame
<1>4. \A s \in Refunds : s # u => refund'[s] = refund[s] BY <1>1, SettleFrame
<1>5. refund'[u].amount = refund[u].amount BY <1>1, SettleFrame
<1>6. \A s \in Refunds, c \in moved : c # d /\ refund[s].claim # c => refund'[s].claim # c
  BY <1>c, <1>1, <1>2, SettleFrame
<1>9. \A s \in Refunds : ~At(Undoing, s) => ~At(Undoing, s)' BY <1>1, SettleFrame
<1>10. ~At(Undoing, u) BY <1>1, SettleFrame
<1>11. PICK n : n = [c \in moved |-> IF c = d THEN u ELSE IF m[c] = u THEN m[d] ELSE m[c]]
  OBVIOUS
<1>12. \A c \in moved : refund'[c[1]].amount = refund[c[1]].amount BY <1>c, ChildAmountStays
<1>13. \A c \in moved : m[c] \in Refunds /\ (n[c] = u => c = d)
  BY <1>11 DEF Matches
<1>14. \A c \in moved : c # d =>
          /\ n[c] # u /\ n[c] \in Refunds
          /\ refund[n[c]].amount = refund[c[1]].amount
          /\ refund[n[c]].status \in {"PROCESSING", "SUCCEEDED"}
          /\ ~At(Undoing, n[c])
          /\ refund[n[c]].status = "PROCESSING" => \A s \in Refunds : refund[s].claim # c
  <2> SUFFICES ASSUME NEW c \in moved, c # d
               PROVE  /\ n[c] # u /\ n[c] \in Refunds
                      /\ refund[n[c]].amount = refund[c[1]].amount
                      /\ refund[n[c]].status \in {"PROCESSING", "SUCCEEDED"}
                      /\ ~At(Undoing, n[c])
                      /\ refund[n[c]].status = "PROCESSING" =>
                            \A s \in Refunds : refund[s].claim # c
    OBVIOUS
  <2>1. CASE m[c] = u
    <3>1. n[c] = m[d] BY <1>11, <2>1
    <3>2. refund[c[1]].amount = refund[u].amount BY <2>1 DEF Matches
    <3>3. \A s \in Refunds : refund[s].claim # c BY <1>3, <2>1 DEF Matches
    <3> QED BY <1>2, <1>13, <3>1, <3>2, <3>3 DEF Matches
  <2>2. CASE m[c] # u
    <3>1. n[c] = m[c] BY <1>11, <2>2
    <3> QED BY <2>2, <3>1 DEF Matches
  <2> QED BY <2>1, <2>2
<1>15. n[d] = u BY <1>11
<1>16. \A c \in moved : /\ n[c] \in Refunds
                        /\ refund'[n[c]].amount = refund'[c[1]].amount
                        /\ refund'[n[c]].status \in {"PROCESSING", "SUCCEEDED"}
                        /\ ~At(Undoing, n[c])'
                        /\ refund'[n[c]].status = "PROCESSING" =>
                              \A s \in Refunds : refund'[s].claim # c
  <2> SUFFICES ASSUME NEW c \in moved
               PROVE  /\ n[c] \in Refunds
                      /\ refund'[n[c]].amount = refund'[c[1]].amount
                      /\ refund'[n[c]].status \in {"PROCESSING", "SUCCEEDED"}
                      /\ ~At(Undoing, n[c])'
                      /\ refund'[n[c]].status = "PROCESSING" =>
                            \A s \in Refunds : refund'[s].claim # c
    OBVIOUS
  <2>1. CASE c = d
    <3>1. ~At(Undoing, u)' BY <1>9, <1>10
    <3>2. refund'[d[1]].amount = refund'[u].amount BY <1>2, <1>5, <1>12
    <3> QED BY <1>3, <1>15, <2>1, <3>1, <3>2
  <2>2. CASE c # d
    <3>1. n[c] # u /\ n[c] \in Refunds BY <1>14, <2>2
    <3>2. refund'[n[c]] = refund[n[c]] BY <1>4, <3>1
    <3>3. ~At(Undoing, n[c])' BY <1>9, <1>14, <2>2, <3>1
    <3>4. refund'[n[c]].status = "PROCESSING" => \A s \in Refunds : refund'[s].claim # c
      BY <1>6, <1>14, <2>2, <3>2
    <3> QED BY <1>12, <1>14, <2>2, <3>1, <3>2, <3>3, <3>4
  <2> QED BY <2>1, <2>2
<1>17. \A c, e \in moved : n[c] = n[e] => c = e
  <2>1. \A c, e \in moved : m[c] = m[e] => c = e BY DEF Matches
  <2> QED BY <1>11, <2>1
<1> QED BY <1>16, <1>17 DEF Matches

(* No other step takes a row's child away: a row whose money has moved is  *)
(* given up by nobody, for the cron would find its child.                  *)
LEMMA MatchedElsewhere ==
    ASSUME TypeOK, OnceInv, OwnInv, Claims, NEW m, Matches(m), NEW p \in Proc, Step(p),
           ~SettleSucceeded(p), moved' = moved
    PROVE  Matches(m)'
<1>a. ControlOK BY DEF TypeOK
<1>b. \A q \in Proc : q # p => pc'[q] = pc[q] /\ loc'[q] = loc[q] BY <1>a, OthersStay
<1> SUFFICES ASSUME NEW c \in moved
             PROVE  /\ m[c] \in Refunds
                    /\ refund'[m[c]].amount = refund'[c[1]].amount
                    /\ refund'[m[c]].status \in {"PROCESSING", "SUCCEEDED"}
                    /\ ~At(Undoing, m[c])'
                    /\ refund'[m[c]].status = "PROCESSING" =>
                          \A s \in Refunds : refund'[s].claim # c
  BY DEF Matches
<1>c. c \in Ledger BY DEF Ledger
<1>1. PICK u \in Refunds : u = m[c] BY DEF Matches
<1>2. /\ refund[u].amount = refund[c[1]].amount
      /\ refund[u].status \in {"PROCESSING", "SUCCEEDED"}
      /\ ~At(Undoing, u)
      /\ refund[u].status = "PROCESSING" => \A s \in Refunds : refund[s].claim # c
  BY <1>1 DEF Matches
<1>3. refund'[u].status = refund[u].status
  <2>1. ~RowCreated(p, u) BY <1>2 DEF RowCreated
  <2>2. ~RowMove(p, u)
    <3> SUFFICES ASSUME RowMove(p, u) PROVE FALSE OBVIOUS
    <3>1. pc[p] \in RowLabels /\ u = loc[p].rid
          /\ pc[p] \in {"exec", "settle", "flagManual", "settleMark", "rejectMark", "approveMark"}
      BY DEF RowMove, StatusWrites, RowLabels
    <3>2. refund[u].status = StatusAt[pc[p]] BY <3>1 DEF OwnInv, Owning
    <3>3. pc[p] # "flagManual" BY <1>2, <3>1 DEF At, Undoing
    <3>4. pc[p] = "settle" BY <1>2, <3>1, <3>2, <3>3, StatusAtValues DEF Reviewing
    <3>5. SettleSucceeded(p)
      BY <1>a, <3>4, SettlementEdges, RefundEdges, LifecycleEdges
      DEF Edge, Step, SettlementStep, RefundStep, LifecycleStep
    <3> QED BY <3>5
  <2> QED BY <2>1, <2>2, RowMoves
<1>4. refund'[u].amount = refund'[c[1]].amount BY <1>c, <1>2, AmountStays, ChildAmountStays
<1>5. refund[u].status = "PROCESSING" => \A s \in Refunds : refund'[s].claim # c
  <2>1. c # NoChild BY <1>c, ChildRow
  <2> QED BY <1>2, <2>1, ClaimWrites
<1>6. ~At(Undoing, u)'
  <2> SUFFICES ASSUME pc'[p] \in Undoing, loc'[p].rid = u PROVE FALSE BY <1>2, <1>b DEF At
  <2>1. pc[p] \in RowLabels => loc[p].rid = u BY RowHeld DEF Undoing, RowLabels
  <2>2. CASE GatewayRejects(p) \/ ReleaseHeadroom(p)
    <3>1. pc[p] \in Undoing BY <2>2 DEF GatewayRejects, ReleaseHeadroom, Undoing
    <3> QED BY <1>2, <2>1, <3>1 DEF At, Undoing, RowLabels
  <2>3. CASE SendToGateway(p)
    <3>1. pc[p] = "exec" /\ loc[p].rid = u BY <2>1, <2>3 DEF SendToGateway, RowLabels
    <3>2. refund[u].status = "APPROVED" BY <3>1, StatusAtValues DEF OwnInv, Owning, RowLabels
    <3> QED BY <1>2, <3>2
  <2>4. CASE NoChildFound(p)
    <3>1. pc[p] = "refundInquiry" /\ loc[p].rid = u BY <2>1, <2>4 DEF NoChildFound, RowLabels
    <3>2. refund[u].status = "PROCESSING"
      BY <3>1, StatusAtValues DEF OwnInv, Owning, RowLabels
    <3>3. c \in Unclaimed(p) BY <1>c, <1>2, <3>1, <3>2 DEF Unclaimed, Row
    <3> QED BY <2>4, <3>3 DEF NoChildFound
  <2> QED BY <1>a, <2>2, <2>3, <2>4, Arrivals DEF Undoing
<1> QED BY <1>1, <1>2, <1>3, <1>4, <1>5, <1>6

(* An order paid in cash never reaches the gateway.                        *)
CashStays == IsCod => Ledger = {} /\ \A p \in Proc : pc[p] \notin {"gateway", "void"}

LEMMA CashStaysNext == ASSUME TypeOK, OnceInv, CashStays, [Next]_vars PROVE CashStays'
<1>1. ASSUME NEW p \in Proc, Step(p), IsCod
      PROVE  Ledger' = {} /\ \A q \in Proc : pc'[q] \notin {"gateway", "void"}
  <2>a. ControlOK BY DEF TypeOK
  <2>1. Ledger = {} /\ \A q \in Proc : pc[q] \notin {"gateway", "void"} BY <1>1 DEF CashStays
  <2>2. Ledger' = {} BY <1>1, <2>1, LedgerGrows
  <2>3. pc'[p] \notin {"gateway", "void"}
    BY <1>1, <2>a, <2>1, Arrivals DEF SendToGateway, GatewayRejects
  <2>4. \A q \in Proc : q # p => pc'[q] = pc[q] BY <1>1, <2>a, OthersStay
  <2> QED BY <2>1, <2>2, <2>3, <2>4
<1>2. CASE Environment \/ UNCHANGED vars BY <1>2, EnvironmentFrame DEF CashStays, Ledger
<1> QED BY <1>1, <1>2 DEF Next, CashStays

CoverInv ==
    /\ OnceInv /\ OwnInv /\ CashStays /\ Claims
    /\ ~IsCod => Explained
    /\ \E m : Matches(m)

LEMMA CoverInit ==
    ASSUME IsFiniteSet(Refunds), IsFiniteSet(Proc), Init
    PROVE  CoverInv
<1>1. OwnInv
  <2>1. \A p \in Proc : pc[p] = "idle" BY DEF Init
  <2> QED BY <2>1 DEF OwnInv, Owning, OneOwner, RowLabels, ReviewLabels
<1>2. Claims BY DEF Init, Claims, NoRow
<1>3. Matches(moved) BY DEF Init, Matches
<1>4. CashStays BY DEF Init, CashStays, Ledger
<1> QED BY <1>1, <1>2, <1>3, <1>4, OnceInit, ExplainedInit DEF CoverInv

LEMMA CoverNext ==
    ASSUME TypeOK, CoverInv, ReviewsApart, ReviewsApart', TicksApart', CallsOutrunCron,
           IsFiniteSet(Refunds), IsFiniteSet(Proc), [Next]_vars
    PROVE  CoverInv'
<1>1. OnceInv' /\ CashStays' BY OnceNext, CashStaysNext DEF CoverInv
<1>2. ~IsCod => Explained' BY ExplainedNext DEF CoverInv
<1>3. ASSUME NEW p \in Proc, Step(p) PROVE OwnInv' /\ Claims' /\ (\E m : Matches(m))'
  <2>1. OwnInv' BY <1>3, OwningKept, OneOwnerKept DEF CoverInv, OwnInv
  <2>2. Claims' BY <1>3, ClaimsKept DEF CoverInv
  <2>3. PICK m : Matches(m) BY DEF CoverInv
  <2>4. \E n : Matches(n)'
    BY <1>3, <2>3, MatchedOnBook, MatchedOnSettle, MatchedOnSurprise, MatchedElsewhere DEF CoverInv
  <2> QED BY <2>1, <2>2, <2>4
<1>4. CASE Environment \/ UNCHANGED vars
  <2>1. UNCHANGED <<refund, moved, denied, pc, loc>> BY <1>4, EnvironmentFrame
  <2>2. OwnInv' BY <2>1 DEF CoverInv, OwnInv, Owning, OneOwner
  <2>3. Claims' BY <2>1 DEF CoverInv, Claims, Row, Ledger
  <2>4. PICK m : Matches(m) BY DEF CoverInv
  <2>5. Matches(m)' BY <2>1, <2>4 DEF Matches, At
  <2> QED BY <2>2, <2>3, <2>5, <1>1, <1>2 DEF CoverInv
<1> QED BY <1>1, <1>2, <1>3, <1>4 DEF Next, CoverInv

(* The rows the children are matched to are all in the counter.            *)
LEMMA CoverBounds ==
    ASSUME TypeOK, CoverInv, HeadroomBounded, IsFiniteSet(Refunds), IsFiniteSet(Proc)
    PROVE  MovedIsReserved
<1> DEFINE f == [c \in moved |-> refund[c[1]].amount]
           g == [r \in Refunds |-> Reserved(r)]
           h == [p \in Proc |-> InHand(p)]
<1>a. MoneyOf(moved) = SumFunctionOnSet(f, moved) BY SumOfFunction DEF MoneyOf
<1>b. IsFiniteSet(moved)
  <2>1. IsFiniteSet(1..MaxMoves)
    <3>1. 1 \in Int /\ MaxMoves \in Int BY DEF MaxMoves
    <3> QED BY <3>1, FS_Interval
  <2>2. IsFiniteSet(Refunds \X (1..MaxMoves)) BY <2>1, FS_Product
  <2> QED BY <2>2, FS_Subset DEF TypeOK, WorldOK, Children
<1>c. 0 <= payment.refunded /\ payment.refunded <= AmountPaid
  BY MoneyAssumption DEF HeadroomBounded
<1>1. CASE IsCod
  <2>1. moved = {} BY <1>1 DEF CoverInv, CashStays, Ledger
  <2> HIDE DEF f
  <2>2. MoneyOf(moved) = 0 BY <1>a, <2>1, SumEmpty
  <2> QED BY <1>c, <2>2 DEF MovedIsReserved
<1>2. CASE ~IsCod
  <2>1. PICK m : Matches(m) BY DEF CoverInv
  <2>2. \A c \in moved : f[c] \in Nat /\ m[c] \in Refunds /\ f[c] = g[m[c]]
    <3> SUFFICES ASSUME NEW c \in moved
                 PROVE  f[c] \in Nat /\ m[c] \in Refunds /\ f[c] = g[m[c]]
      OBVIOUS
    <3>1. PICK u \in Refunds : u = m[c] BY <2>1 DEF Matches
    <3>2. /\ refund[u].amount = refund[c[1]].amount
          /\ refund[u].status \in {"PROCESSING", "SUCCEEDED"}
          /\ ~At(Undoing, u)
      BY <2>1, <3>1 DEF Matches
    <3>3. ~At({"rejectMark", "flagManual"}, u)
      <4>1. \A p \in Proc : pc[p] = "rejectMark" => refund[loc[p].rid].status = "REQUESTED"
        BY StatusAtValues DEF CoverInv, OwnInv, Owning, RowLabels, Reviewing
      <4> QED BY <3>2, <4>1 DEF At, Undoing
    <3>4. Reserved(u) = refund[u].amount BY <3>2, <3>3 DEF Reserved, Counts, Reserving
    <3>5. refund[u].amount \in Nat BY ReservedTyped
    <3> QED BY <3>1, <3>2, <3>4, <3>5
  <2>3. \A r \in Refunds : g[r] \in Nat BY ReservedTyped
  <2>4. \A p \in Proc : h[p] \in Nat BY HandsTyped
  <2>5. Rows = SumFunctionOnSet(g, Refunds) /\ Hands = SumFunctionOnSet(h, Proc)
    BY DEF Rows, Hands
  <2>6. \A c, d \in moved : m[c] = m[d] => c = d BY <2>1 DEF Matches
  <2>7. payment.refunded = Hands + Rows BY <1>2 DEF CoverInv, Explained
  <2> HIDE DEF f, g, h
  <2>8. SumFunctionOnSet(f, moved) <= SumFunctionOnSet(g, Refunds)
    <3>1. \A c \in moved : f[c] \in Nat /\ m[c] \in Refunds /\ f[c] <= g[m[c]]
      BY <2>2
    <3> QED BY <1>b, <2>3, <2>6, <3>1, SumInjection
  <2>9. /\ SumFunctionOnSet(g, Refunds) \in Nat /\ SumFunctionOnSet(h, Proc) \in Nat
        /\ SumFunctionOnSet(f, moved) \in Nat
    BY <1>b, <2>2, <2>3, <2>4, SumNat
  <2> QED BY <1>a, <1>c, <2>5, <2>7, <2>8, <2>9 DEF MovedIsReserved
<1> QED BY <1>1, <1>2

(* The counter is the money handlers have reserved and not recorded yet    *)
(* plus the money of the rows that still speak for theirs: no reservation  *)
(* is lost and none is made twice, as long as no two reviews and no two    *)
(* ticks are at one refund together and no tick falls into an open gateway *)
(* call (reserveRefund, releaseRefundReservation and the status writes     *)
(* around them).                                                           *)
THEOREM CounterCorrect ==
    ASSUME CallsOutrunCron, IsFiniteSet(Refunds), IsFiniteSet(Proc)
    PROVE  Spec /\ []ReviewsApart /\ []TicksApart => []HeadroomAccounted
<1>1. Init => CoverInv BY CoverInit
<1>2. TypeOK /\ CoverInv /\ ReviewsApart /\ ReviewsApart' /\ TicksApart' /\ [Next]_vars => CoverInv'
  BY CoverNext
<1>3. CoverInv => HeadroomAccounted
  BY SumOfFunction DEF CoverInv, Explained, Hands, Rows, HeadroomAccounted
<1> QED BY <1>1, <1>2, <1>3, TypeCorrect, PTL DEF Spec

(* Under the same conditions the money sent back by the calls that were    *)
(* answered or timed out is always covered by the counter and never more   *)
(* than was paid, although the cron claims a child for any row of its      *)
(* amount, a child included that a call booked and answered with an error  *)
(* (executeRefund, reconcileProcessingRefunds).                            *)
THEOREM MovedCorrect ==
    ASSUME CallsOutrunCron, IsFiniteSet(Refunds), IsFiniteSet(Proc)
    PROVE  Spec /\ []ReviewsApart /\ []TicksApart => []MovedIsReserved
<1>1. Init => CoverInv BY CoverInit
<1>2. TypeOK /\ CoverInv /\ ReviewsApart /\ ReviewsApart' /\ TicksApart' /\ [Next]_vars => CoverInv'
  BY CoverNext
<1>3. TypeOK /\ CoverInv /\ HeadroomBounded => MovedIsReserved BY CoverBounds
<1> QED BY <1>1, <1>2, <1>3, TypeCorrect, HeadroomCorrect, PTL DEF Spec
===============================================================================
