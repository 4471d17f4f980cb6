SPECIFICATION Spec
CONSTANTS
    NumOrders = 1
    Lines = {l1, l2}
    OrderTotal <- UnitTotals
    LineTotal <- UnitLines
    AmountPaid <- UnitPaid
    IsCod = FALSE
    InitiallyPaid = TRUE
    Txns = {t1}
    Refunds = {r1, r2}
    NoTxn = NoTxn
    NoRefund = NoRefund
    Webhooks = {}
    Sweepers = {}
    Payers = {}
    Customers = {}
    Staff = {h1}
    Admins = {a1}
    Reconcilers = {}
    CallsOutrunCron = TRUE
    MaxNamed = 2
    StaffTargets = {"DELIVERED"}
SYMMETRY Symmetric
CHECK_DEADLOCK FALSE
PROPERTIES DeliveredNeverCancelled
