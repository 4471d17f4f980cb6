SPECIFICATION SpecMerchant
CONSTANTS
    a2 = a2
    m1 = m1
    m2 = m2
    v1 = v1
    v2 = v2
    j1 = j1
    b1 = b1
    b2 = b2
    g1 = g1
    g2 = g2
    e1 = e1
    h1 = h1
    n1 = n1
    Sales = {1, 2}
    MerchantOf <- SoldByOne
    Price <- Prices2
    Commission <- OnePiaster
    Merchants = {"m1"}
    HasDestination <- AllOnFile
    Refunds = {r1, r2}
    RefundAmounts = {5}
    Adjustments = {j1}
    Corrections = {7}
    MaxPayouts = 2
    HoldDays = 1
    MinPayout = 5
    LastDate = 3
    Admins = {a1, a2}
    Restaurants = {m1, m2}
    Slugs = {"starter", "growth"}
    CapOf <- SmallCaps
    Intervals = {1, 2}
    Prices = {3, 5}
    Bills = {b1, b2}
    Tabs = {t1}
    Settlers = {w2}
    PlanAdmins = {p1, p2}
    MaxProducts = 2
    MonthDays = 1
    GraceDays = 1
    TrialDays = 1
    LastClock = 2
    Forms = {g1, g2}
    Emails = {e1, e2}
    Phones = {h1, h2}
    Names = {n1, n2}
    Applicants = {x1}
    Reviewers = {v1, v2}
    Owners = {o1}
    EarlyBirdCap = 1
    LinkDays = 1
INVARIANTS
    SalesCountedOnce
    RefundsReachAPayout
    SharesAddUp
    AtMostOneTrialPlan
    ApprovedHasMerchant
PROPERTIES
    PaidTimeImplemented
CHECK_DEADLOCK FALSE
