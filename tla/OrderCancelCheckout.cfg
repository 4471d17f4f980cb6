SPECIFICATION Spec
CONSTANTS
    NumOrders = 2
    Lines = {}
    OrderTotal <- UnitTotals
    LineTotal <- UnitLines
    AmountPaid <- UnitPaid
    IsCod = FALSE
    InitiallyPaid = FALSE
    Txns = {t1}
    Refunds = {r1, r2}
    NoTxn = NoTxn
    NoRefund = NoRefund
    Webhooks = {w1, w2}
    Sweepers = {s1}
    Payers = {}
    Customers = {c1}
    Staff = {}
    Admins = {}
    Reconcilers = {}
    CallsOutrunCron = TRUE
    MaxNamed = 1
    StaffTargets = {}
SYMMETRY Symmetric
CHECK_DEADLOCK FALSE
INVARIANTS NothingFulfilledUnpaid LiveOrderKeepsStock
