SPECIFICATION FairSpec
CONSTANTS
    Offers = {o1}
    NoOffer = NoOffer
    Windows <- Meeting
    Horizon = 2
    MaxUnits = 2
    Statuses = {}
    MayResize = FALSE
    MayMove = FALSE
    Checkouts = {c1}
    Restockers = {r1}
    Managers = {m1}
    Crons = {k1}
INVARIANTS UnitsConserved
PROPERTIES RestockedReopens LapsedLeavesMarket EndedLeavesMarket
