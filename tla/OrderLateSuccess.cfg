SPECIFICATION FairSpec
CONSTANTS
    NumOrders = 2
    Lines = {}
    OrderTotal <- UnitTotals
    LineTotal <- UnitLines
    AmountPaid <- UnitPaid
    IsCod = FALSE
    InitiallyPaid = FALSE
    Txns = {t1}
    Refunds = {r1}
    NoTxn = NoTxn
    NoRefund = NoRefund
    Webhooks = {w1}
    Sweepers = {s1}
    Payers = {p1}
    Customers = {}
    Staff = {}
    Admins = {}
    Reconcilers = {k1}
    CallsOutrunCron = TRUE
    MaxNamed = 1
    StaffTargets = {}
CHECK_DEADLOCK FALSE
INVARIANTS PaidIsAnswered
PROPERTIES SuccessIsAnswered FailureReturnsStock TimedOutRefundResolved
