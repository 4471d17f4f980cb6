SPECIFICATION FairSpec
CONSTANTS
    NumOrders = 2
    Lines = {}
    OrderTotal <- UnitTotals
    LineTotal <- UnitLines
    AmountPaid <- UnitPaid
    IsCod = FALSE
    InitiallyPaid = FALSE
    Txns = {t1, t2}
    Refunds = {r1}
    NoTxn = NoTxn
    NoRefund = NoRefund
    Webhooks = {}
    Sweepers = {s1}
    Payers = {}
    Customers = {}
    Staff = {h1}
    Admins = {}
    Reconcilers = {}
    CallsOutrunCron = TRUE
    MaxNamed = 1
    StaffTargets = {"CANCELLED"}
CHECK_DEADLOCK FALSE
INVARIANTS StockReturnedOnce
PROPERTIES LostCallbackIsRepaired
