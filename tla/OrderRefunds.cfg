SPECIFICATION Spec
CONSTANTS
    NumOrders = 1
    Lines = {l1, l2}
    OrderTotal <- UnitTotals
    LineTotal <- UnitLines
    AmountPaid <- UnitPaid
    IsCod = FALSE
    InitiallyPaid = TRUE
    Txns = {t1}
    Refunds = {r1, r2}
    NoTxn = NoTxn
    NoRefund = NoRefund
    Webhooks = {}
    Sweepers = {}
    Payers = {}
    Customers = {c1, c2}
    Staff = {}
    Admins = {a1}
    Reconcilers = {k1}
    CallsOutrunCron = TRUE
    MaxNamed = 2
    StaffTargets = {}
SYMMETRY Symmetric
CHECK_DEADLOCK FALSE
INVARIANTS MovedIsReserved HeadroomAccounted MovesOnce LinesRefundedOnce
PROPERTIES CancelledAfterMoneyBack
