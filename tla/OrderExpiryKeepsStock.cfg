SPECIFICATION FairSpec
CONSTANTS
    NumOrders = 1
    Lines = {}
    OrderTotal <- UnitTotals
    LineTotal <- UnitLines
    AmountPaid <- UnitPaid
    IsCod = FALSE
    InitiallyPaid = FALSE
    Txns = {t1}
    Refunds = {r1}
    NoTxn = NoTxn
    NoRefund = NoRefund
    Webhooks = {}
    Sweepers = {s1}
    Payers = {}
    Customers = {}
    Staff = {}
    Admins = {}
    Reconcilers = {}
    CallsOutrunCron = TRUE
    MaxNamed = 1
    StaffTargets = {}
CHECK_DEADLOCK FALSE
PROPERTIES ExpiryReturnsStock
