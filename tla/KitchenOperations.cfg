SPECIFICATION SpecKitchen
CONSTANTS
    Ingredients = {"i1"}
    NoSupplier = "nobody"
    Supplier <- OneSupplier
    Dishes = {"d1"}
    Recipe <- ThreeOfEach
    Shelf = 2
    Purchases = 1
    Quantities = {2}
    LastDay = 1
    MaxLedger = 5
    Week = 0
    Cooks = {"k1", "k2"}
    Desks = {"w1"}
    Forecasters = {"f1"}
    Menu = {"q1", "q2"}
    WeekDays = 2
    Totals = {3}
    DayTotals = {1}
    LastWeekSold <- SoldLastWeek
    WeekEstimate <- EstimatedTwo
    MaxWeekSold = 1
    MaxSaves = 2
    Workers = {"a1", "a2"}
    Singles = {"o1"}
    Reconcilers = {"z1"}
    Goods = {"g1", "g2"}
    PlanDays = 1
    Horizon = 1
    Amounts = {1}
    Planners = {"m1", "m2"}
    Kitchens = {"y1"}
    Learners = {"l1"}
    Plates = {"b1", "b2"}
    Suggestions = 2
    Percents = {20, 30}
    MaxReports = 2
    Scanners = {"n1", "n2"}
    Deciders = {"e1"}
INVARIANTS
    LedgerCoversStock
    ReceivedAtMostOnce
    HealthyBatchIsModelMade
    MadeWasReported
    OneOfferEach
CHECK_DEADLOCK FALSE
