------------------------------- MODULE Payouts -------------------------------
(***************************************************************************)
(* What the platform owes a restaurant: statements, payouts, and the       *)
(* orders, refunds and adjustments they settle.                            *)
(*                                                                         *)
(* A sale is settled by a mark on its order; refunds and adjustments are   *)
(* settled by date, from the end of the newest completed payout on.  An    *)
(* admin reads a statement, records a payout, stamps its orders, and later *)
(* reports that the transfer landed or bounced; orders are delivered,      *)
(* refunded and adjusted meanwhile, and the process may die between any    *)
(* two writes.  Dates are days; today's cutoff is the latest one asked for.*)
(***************************************************************************)
EXTENDS OrderPolicy, FiniteSetsExt

CONSTANTS
    Sales,          \* the orders of one group, 1..n
    MerchantOf,     \* MerchantOf[o]: the restaurant that sold o
    Price,          \* Price[o], in piasters
    Commission,     \* Commission[o]: snapshot taken when o was ordered
    Merchants,      \* the restaurants whose payouts are followed
    HasDestination, \* HasDestination[m]: bank details are on file
    Refunds,        \* bound: refunds of the group
    RefundAmounts,  \* what a refund of one line item moves
    Adjustments,    \* bound: manual corrections
    Corrections,    \* their amounts
    MaxPayouts,     \* bound
    HoldDays,       \* PAYOUT_HOLD_DAYS
    MinPayout,      \* MIN_PAYOUT_CENTS
    LastDate,       \* bound of the calendar
    Admins

ASSUME PayoutAssumption ==
    /\ MaxPayouts \in Nat /\ HoldDays \in Nat /\ LastDate \in Nat
    /\ Sales \subseteq Nat /\ IsFiniteSet(Sales) /\ IsFiniteSet(Refunds)
    /\ Price \in [Sales -> Nat] /\ RefundAmounts \subseteq Nat

VARIABLES
    sale,       \* sale[o]: [status, delivered, payout]
    funds,      \* of the group: "cash", a "paid" payment, or one that "lapsed"
    refunded,   \* refunded[r]: [of, amount, at], of: the orders it is divided over
    adjusted,   \* adjusted[a]: [merchant, amount, at]
    payout,     \* payout[n]: [merchant, start, end, lines, status]
    restarted,  \* the process has died in the middle of a request
    today,
    payoutPc, payoutLoc

payoutVars == <<sale, funds, refunded, adjusted, payout, restarted, today, payoutPc, payoutLoc>>

-------------------------------------------------------------------------------
Never == LastDate + 1

NotRefunded == [of |-> {}, amount |-> 0, at |-> Never]

NotAdjusted == [merchant |-> "none", amount |-> 0, at |-> Never]

NoPayout == [merchant |-> "none", start |-> 0, end |-> 0, lines |-> {}, status |-> "none"]

PayoutNothing == [id |-> 0, doc |-> NoPayout]

InitPayouts ==
    /\ sale = [o \in Sales |-> [status |-> "CONFIRMED", delivered |-> Never, payout |-> 0]]
    /\ funds \in {"cash", "paid"}
    /\ refunded = [r \in Refunds |-> NotRefunded]
    /\ adjusted = [a \in Adjustments |-> NotAdjusted]
    /\ payout = [n \in 1..MaxPayouts |-> NoPayout]
    /\ restarted = FALSE
    /\ today = 0
    /\ payoutPc = [a \in Admins |-> "idle"]
    /\ payoutLoc = [a \in Admins |-> PayoutNothing]

PayoutGo(a, label, held) == /\ payoutPc' = [payoutPc EXCEPT ![a] = label]
                            /\ payoutLoc' = [payoutLoc EXCEPT ![a] = held]

PayoutDone(a) == PayoutGo(a, "idle", PayoutNothing)

-------------------------------------------------------------------------------
(* Math.round of n/d, for n and d not negative. *)
Rounded(n, d) == (2 * n + d) \div (2 * d)

(* Mutant: the remainders stay with the platform. *)
SplitFloored(total, weight) ==
    [i \in DOMAIN weight |-> (total * weight[i]) \div SumFunction(weight)]

(* splitProRata: floor every share, then one piaster more to those with    *)
(* the largest remainders, the first ones first; equal shares when         *)
(* everything weighs nothing.                                              *)
SplitProRata(total, weight) ==
    LET all   == DOMAIN weight
        flat  == \A i \in all : weight[i] = 0
        w     == [i \in all |-> IF flat THEN 1 ELSE weight[i]]
        sum   == SumFunction(w)
        part  == [i \in all |-> (total * w[i]) \div sum]
        frac  == [i \in all |-> (total * w[i]) % sum]
        left  == total - SumFunction(part)
        ahead == [i \in all |-> {j \in all : frac[j] > frac[i] \/ (frac[j] = frac[i] /\ j < i)}]
    IN  [i \in all |-> part[i] + IF Cardinality(ahead[i]) < left THEN 1 ELSE 0]

IsDelivered(o) == sale[o].delivered # Never

(* saleLine *)
SaleNet(o) == (IF funds = "cash" THEN 0 ELSE Price[o]) - Commission[o]

SharesOf(r) == SplitProRata(refunded[r].amount, [o \in refunded[r].of |-> Price[o]])

(* The commission a refund hands back with the share of order o. *)
Reversed(r, o) ==
    IF Price[o] = 0 THEN 0
    ELSE Min({Commission[o], Rounded(Commission[o] * SharesOf(r)[o], Price[o])})

(* refundLines *)
RefundNet(r, o) == Reversed(r, o) - IF funds = "cash" THEN 0 ELSE SharesOf(r)[o]

(* What a ledger line adds to the merchant's balance. *)
LineNet(line) == CASE line.kind = "sale"       -> SaleNet(line.order)
                   [] line.kind = "refund"     -> RefundNet(line.ref, line.order)
                   [] line.kind = "adjustment" -> adjusted[line.ref].amount

NetOf(lines) == MapThenSumSet(LineNet, lines)

(* payoutDecision: carried below the minimum, blocked without bank details,*)
(* collected when the merchant owes.                                       *)
Payable(m, net) == net < 0 \/ (net >= MinPayout /\ HasDestination[m])

-------------------------------------------------------------------------------
(* Mutant: a payout that is only pending counts. *)
PaidThroughPending(m) ==
    Max({0} \cup {payout[n].end : n \in {k \in 1..MaxPayouts : payout[k].merchant = m}})

(* paidThrough: the end of the newest completed payout. *)
PaidThrough(m) ==
    Max({0} \cup {payout[n].end : n \in {k \in 1..MaxPayouts : payout[k].merchant = m
                                                           /\ payout[k].status = "completed"}})

PAYABLE_ORDER_STATUSES == {"DELIVERED", "PARTIALLY_REFUNDED", "REFUNDED"}

(* collectSales: no lower bound, only the mark of a payout. *)
SaleLines(m, end) ==
    {[kind |-> "sale", ref |-> o, order |-> o] : o \in
        {o \in Sales : /\ MerchantOf[o] = m
                       /\ sale[o].status \in PAYABLE_ORDER_STATUSES
                       /\ sale[o].payout = 0
                       /\ IsDelivered(o) /\ sale[o].delivered < end - HoldDays
                       /\ funds # "lapsed"}}

(* Mutant: the lower bound of the window is not shifted. *)
RefundLinesUnshifted(m, start, end) ==
    {[kind |-> "refund", ref |-> ro[1], order |-> ro[2]] : ro \in
        {ro \in Refunds \X Sales :
            /\ refunded[ro[1]] # NotRefunded
            /\ refunded[ro[1]].at >= start /\ refunded[ro[1]].at < end - HoldDays
            /\ ro[2] \in refunded[ro[1]].of /\ IsDelivered(ro[2])
            /\ MerchantOf[ro[2]] = m}}

(* collectRefunds: a window shifted back by the hold, one line for each    *)
(* delivered order of this restaurant.                                     *)
RefundLines(m, start, end) ==
    {[kind |-> "refund", ref |-> ro[1], order |-> ro[2]] : ro \in
        {ro \in Refunds \X Sales :
            /\ refunded[ro[1]] # NotRefunded
            /\ refunded[ro[1]].at >= start - HoldDays /\ refunded[ro[1]].at < end - HoldDays
            /\ ro[2] \in refunded[ro[1]].of /\ IsDelivered(ro[2])
            /\ MerchantOf[ro[2]] = m}}

(* collectAdjustments *)
AdjustmentLines(m, start, end) ==
    {[kind |-> "adjustment", ref |-> a, order |-> a] : a \in
        {a \in Adjustments : /\ adjusted[a].merchant = m
                             /\ adjusted[a].at >= start /\ adjusted[a].at < end}}

(* getStatement *)
Statement(m, end) ==
    LET start == PaidThrough(m)
    IN  [NoPayout EXCEPT !.merchant = m, !.start = start, !.end = end,
                         !.lines = SaleLines(m, end) \cup RefundLines(m, start, end)
                                     \cup AdjustmentLines(m, start, end)]

Live == {"pending", "completed"}

(* The period is settled already; also the partial unique index. *)
Settled(m, end) == \E n \in 1..MaxPayouts :
    payout[n].merchant = m /\ payout[n].end = end /\ payout[n].status \in Live

-------------------------------------------------------------------------------
(* recordPayout: the statement, its checks, ... *)
ReadStatement(a) ==
    /\ payoutPc[a] = "idle"
    /\ \E m \in Merchants, end \in 0..today :
          /\ ~Settled(m, end)
          /\ Payable(m, NetOf(Statement(m, end).lines))
          /\ PayoutGo(a, "create", [id |-> 0, doc |-> [Statement(m, end) EXCEPT !.status = "pending"]])
    /\ UNCHANGED <<sale, funds, refunded, adjusted, payout, restarted, today>>

(* ... the row, refused by the index when the period is settled, ... *)
CreatePayout(a) ==
    LET doc == payoutLoc[a].doc
    IN  /\ payoutPc[a] = "create"
        /\ IF Settled(doc.merchant, doc.end)
           THEN PayoutDone(a) /\ UNCHANGED payout
           ELSE \E n \in 1..MaxPayouts :
                   /\ payout[n] = NoPayout
                   /\ payout' = [payout EXCEPT ![n] = doc]
                   /\ PayoutGo(a, "stamp", [id |-> n, doc |-> doc])
        /\ UNCHANGED <<sale, funds, refunded, adjusted, restarted, today>>

(* Mutant: the orders get no mark. *)
StampNothing(a) ==
    /\ payoutPc[a] = "stamp"
    /\ PayoutDone(a)
    /\ UNCHANGED <<sale, funds, refunded, adjusted, payout, restarted, today>>

(* ... and the mark on every order it pays (stampSettledOrders). *)
StampSettledOrders(a) ==
    LET paid == {line.ref : line \in {l \in payoutLoc[a].doc.lines : l.kind = "sale"}}
    IN  /\ payoutPc[a] = "stamp"
        /\ sale' = [o \in Sales |-> IF o \in paid THEN [sale[o] EXCEPT !.payout = payoutLoc[a].id]
                                    ELSE sale[o]]
        /\ PayoutDone(a)
        /\ UNCHANGED <<funds, refunded, adjusted, payout, restarted, today>>

(* completePayout: only a pending payout; ... *)
ReadPayout(a) ==
    /\ payoutPc[a] = "idle"
    /\ \E n \in 1..MaxPayouts, outcome \in {"completed", "failed"} :
          /\ payout[n].status = "pending"
          /\ PayoutGo(a, IF outcome = "failed" THEN "unset" ELSE "finish",
                      [id |-> n, doc |-> [payout[n] EXCEPT !.status = outcome]])
    /\ UNCHANGED <<sale, funds, refunded, adjusted, payout, restarted, today>>

(* ... when the transfer bounced, its orders lose their mark; ... *)
UnsetOrders(a) ==
    /\ payoutPc[a] = "unset"
    /\ sale' = [o \in Sales |-> IF sale[o].payout = payoutLoc[a].id
                                THEN [sale[o] EXCEPT !.payout = 0] ELSE sale[o]]
    /\ PayoutGo(a, "finish", payoutLoc[a])
    /\ UNCHANGED <<funds, refunded, adjusted, payout, restarted, today>>

(* ... then the row gets its outcome, by _id. *)
FinishPayout(a) ==
    /\ payoutPc[a] = "finish"
    /\ payout' = [payout EXCEPT ![payoutLoc[a].id].status = payoutLoc[a].doc.status]
    /\ PayoutDone(a)
    /\ UNCHANGED <<sale, funds, refunded, adjusted, restarted, today>>

(* recordAdjustment: not before the paid-through mark. *)
RecordAdjustment ==
    /\ \E a \in Adjustments, m \in Merchants, amount \in Corrections :
       \E at \in {PaidThrough(m), today} :
          /\ adjusted[a] = NotAdjusted
          /\ at >= PaidThrough(m)
          /\ adjusted' = [adjusted EXCEPT ![a] = [merchant |-> m, amount |-> amount, at |-> at]]
    /\ UNCHANGED <<sale, funds, refunded, payout, restarted, today, payoutPc, payoutLoc>>

(* The process dies: the request of a is never finished. *)
ProcessDies(a) ==
    /\ payoutPc[a] # "idle" /\ ~restarted
    /\ restarted' = TRUE
    /\ PayoutDone(a)
    /\ UNCHANGED <<sale, funds, refunded, adjusted, payout, today>>

-------------------------------------------------------------------------------
(* updateOrderStatus to delivered, which stamps deliveredAt each time. *)
DeliverSale ==
    /\ \E o \in Sales :
          /\ MayUpdate(sale[o].status, "DELIVERED")
          /\ sale' = [sale EXCEPT ![o].status = "DELIVERED", ![o].delivered = today]
    /\ UNCHANGED <<funds, refunded, adjusted, payout, restarted, today, payoutPc, payoutLoc>>

GroupPrice == SumFunctionOnSet(Price, Sales)

MovedBack == SumFunction([r \in Refunds |-> refunded[r].amount])

(* resolveAmountCents: the line, the order, or whatever the group's        *)
(* payment still holds (all of it, when the group paid in cash).           *)
RefundableAmounts(of, isLine) ==
    IF isLine THEN RefundAmounts
    ELSE IF of # Sales THEN {Price[o] : o \in of}
    ELSE {IF funds = "cash" THEN GroupPrice ELSE GroupPrice - MovedBack}

(* A refund of the group, of one order or of line items of an order goes   *)
(* from its request to SUCCEEDED: completedAt is stamped, and the orders   *)
(* that are not finished yet take their new status.                        *)
RefundSettles ==
    /\ \E r \in Refunds, of \in {Sales} \cup {{o} : o \in Sales}, isLine \in BOOLEAN :
       \E amount \in RefundableAmounts(of, isLine) :
          /\ refunded[r] = NotRefunded
          /\ isLine => Cardinality(of) = 1
          /\ amount > 0 /\ funds # "lapsed"
          /\ funds = "paid" => MovedBack + amount <= GroupPrice
          /\ DecideRefund(TRUE, MostAdvancedStatus([o \in Sales |-> sale[o].status], of),
                          TRUE, isLine) # "forbidden"
          /\ refunded' = [refunded EXCEPT ![r] = [of |-> of, amount |-> amount, at |-> today]]
          /\ sale' = [o \in Sales |->
                        IF o \in of /\ sale[o].status \notin {"CANCELLED", "REFUNDED"}
                        THEN [sale[o] EXCEPT !.status = StatusAfterRefund(@, isLine)] ELSE sale[o]]
    /\ UNCHANGED <<funds, adjusted, payout, restarted, today, payoutPc, payoutLoc>>

(* The sweeper overwrites the payment's status with EXPIRED. *)
PaymentLapses ==
    /\ funds = "paid"
    /\ funds' = "lapsed"
    /\ UNCHANGED <<sale, refunded, adjusted, payout, restarted, today, payoutPc, payoutLoc>>

NextDate == /\ today < LastDate
            /\ today' = today + 1
            /\ UNCHANGED <<sale, funds, refunded, adjusted, payout, restarted, payoutPc, payoutLoc>>

AdminStep(a) == \/ ReadStatement(a) \/ CreatePayout(a) \/ StampSettledOrders(a)
                \/ ReadPayout(a) \/ UnsetOrders(a) \/ FinishPayout(a) \/ ProcessDies(a)

NextPayouts == \/ \E a \in Admins : AdminStep(a)
               \/ RecordAdjustment \/ DeliverSale \/ RefundSettles \/ PaymentLapses \/ NextDate

SpecPayouts == InitPayouts /\ [][NextPayouts]_payoutVars

-------------------------------------------------------------------------------
(* Until the process dies between the row and the marks, no sale is part   *)
(* of two payouts that are pending or have landed (the mark is what keeps  *)
(* a statement from offering an order again).                              *)
SalesCountedOnce ==
    ~restarted =>
        \A n, k \in 1..MaxPayouts :
            /\ payout[n].status \in Live /\ payout[k].status \in Live
            /\ \E line \in payout[n].lines \cap payout[k].lines : line.kind = "sale"
            => n = k

(* A refund of a delivered order is never passed over: once the            *)
(* paid-through mark is beyond it (and the hold), a completed payout lists *)
(* it, however payouts bounced, overlapped or were cut short in between    *)
(* ('The windows stay contiguous, so nothing is lost').                    *)
RefundsReachAPayout ==
    \A r \in Refunds, o \in Sales :
        /\ refunded[r] # NotRefunded /\ o \in refunded[r].of
        /\ IsDelivered(o) /\ sale[o].delivered <= refunded[r].at
        /\ MerchantOf[o] \in Merchants
        /\ refunded[r].at < PaidThrough(MerchantOf[o]) - HoldDays
        => \E n \in 1..MaxPayouts :
              /\ payout[n].status = "completed"
              /\ [kind |-> "refund", ref |-> r, order |-> o] \in payout[n].lines

(* The ledger hands back what the customer got, to the piaster: the shares *)
(* of a refund add up to it, and each is the exact proportion rounded up   *)
(* or down ('integers that sum to totalCents exactly').                    *)
SharesAddUp ==
    \A r \in Refunds : refunded[r] # NotRefunded =>
        LET of     == refunded[r].of
            worth  == SumFunctionOnSet(Price, of)
            off(o) == SharesOf(r)[o] * worth - refunded[r].amount * Price[o]
        IN  /\ SumFunction(SharesOf(r)) = refunded[r].amount
            /\ worth > 0 => \A o \in of : -worth < off(o) /\ off(o) < worth
===============================================================================
