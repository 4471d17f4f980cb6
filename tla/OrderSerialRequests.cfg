SPECIFICATION Spec
CONSTANTS
    NumOrders = 2
    Lines = {l1}
    OrderTotal <- UnitTotals
    LineTotal <- UnitLines
    AmountPaid <- UnitPaid
    IsCod = TRUE
    InitiallyPaid = FALSE
    Txns = {}
    Refunds = {r1, r2}
    NoTxn = NoTxn
    NoRefund = NoRefund
    Webhooks = {}
    Sweepers = {}
    Payers = {}
    Customers = {u1}
    Staff = {u1}
    Admins = {u1}
    Reconcilers = {}
    CallsOutrunCron = TRUE
    MaxNamed = 2
    StaffTargets = {"CONFIRMED", "PREPARING", "DELIVERED", "CANCELLED"}
SYMMETRY Symmetric
CHECK_DEADLOCK FALSE
INVARIANTS TypeOK GroupFollowsOrders DeductedOnce
PROPERTIES KitchenNeverReverts
